--------------------------- MODULE VmEventsProofs ---------------------------
(***************************************************************************)
(* Proofs about VmEvents, for a bus of any capacity, any receivers and any *)
(* framework: RxInv is inductive, and what follows from it.                *)
(***************************************************************************)
EXTENDS VmEventsInv, VmHandleProofs

-----------------------------------------------------------------------------
(* An inbox grows at its end and is read at its head.                      *)

LEMMA AppendEvent ==
  ASSUME NEW q \in Seq(Event), NEW e \in Event
  PROVE  /\ Append(q, e) \in Seq(Event)
         /\ Len(Append(q, e)) = Len(q) + 1
         /\ Len(q) \in Nat
         /\ \A i \in 1..Len(q) : Append(q, e)[i] = q[i]
         /\ Append(q, e)[Len(q) + 1] = e
  BY AppendProperties, LenProperties

LEMMA TailEvent ==
  ASSUME NEW q \in Seq(Event), q # << >>
  PROVE  /\ Tail(q) \in Seq(Event)
         /\ Len(q) \in Nat \ { 0 }
         /\ Len(Tail(q)) = Len(q) - 1
         /\ Head(q) = q[1] /\ Head(q) \in Event
         /\ \A i \in 1..Len(Tail(q)) : Tail(q)[i] = q[i + 1]
  BY HeadTailProperties, EmptySeq, LenProperties

(* An event that is no change continues any history; a change continues    *)
(* one whose reader will have been told of the state it starts from.       *)
LEMMA AppendChained ==
  ASSUME NEW q \in Seq(Event), NEW e \in Event, NEW s, Chained(q),
         IsChange(e) => Told(q, s, e.from)
  PROVE  Chained(Append(q, e))
<1> DEFINE n == Len(q)
           a == Append(q, e)
<1>1. SUFFICES ASSUME NEW i \in 1..Len(a), NEW j \in 1..Len(a), i < j,
                      IsChange(a[i]), IsChange(a[j]), NoChange(a, i + 1, j - 1)
               PROVE  Follows(a[j], a[i].to)
  BY DEF Chained
<1>2. /\ n \in Nat /\ Len(a) = n + 1 /\ a[n + 1] = e
      /\ \A k \in 1..n : a[k] = q[k]
  BY AppendEvent
<1>3. i \in 1..n /\ a[i] = q[i]
  BY <1>1, <1>2
<1>4. \A k \in (i + 1)..(j - 1) : k \in 1..n /\ ~ IsChange(q[k])
  BY <1>1, <1>2 DEF NoChange
<1>5. CASE j \in 1..n
  BY <1>1, <1>2, <1>3, <1>4, <1>5 DEF Chained, NoChange
<1>6. CASE j = n + 1
  <2>1. Told(q, s, e.from) /\ a[j] = e
    BY <1>1, <1>2, <1>6
  <2>2. NoChange(q, i + 1, n) /\ ~ NoChange(q, 1, n)
    BY <1>1, <1>2, <1>3, <1>4, <1>6 DEF NoChange
  <2>3. ASSUME NEW k \in 1..n, IsChange(q[k]), NoChange(q, k + 1, n)
        PROVE  k = i
    BY <2>2, <2>3, <1>1, <1>2, <1>3 DEF NoChange
  <2> QED
    BY <2>1, <2>2, <2>3, <1>3 DEF Told, Follows
<1> QED
  BY <1>2, <1>5, <1>6

LEMMA AppendAnchored ==
  ASSUME NEW q \in Seq(Event), NEW e \in Event, NEW s, Anchored(q, s),
         s # "none", IsChange(e) => Told(q, s, e.from)
  PROVE  Anchored(Append(q, e), s)
<1> DEFINE n == Len(q)
           a == Append(q, e)
<1>1. SUFFICES ASSUME NEW j \in 1..Len(a), IsChange(a[j]), NoChange(a, 1, j - 1)
               PROVE  Follows(a[j], s)
  BY DEF Anchored
<1>2. /\ n \in Nat /\ Len(a) = n + 1 /\ a[n + 1] = e
      /\ \A k \in 1..n : a[k] = q[k]
  BY AppendEvent
<1>3. \A k \in 1..(j - 1) : k \in 1..n /\ ~ IsChange(q[k])
  BY <1>1, <1>2 DEF NoChange
<1>4. CASE j \in 1..n
  BY <1>1, <1>2, <1>3, <1>4 DEF Anchored, NoChange
<1>5. CASE j = n + 1
  <2>1. Told(q, s, e.from) /\ a[j] = e
    BY <1>1, <1>2, <1>5
  <2>2. \A k \in 1..n : ~ IsChange(q[k])
    BY <1>2, <1>3, <1>5
  <2> QED
    BY <2>1, <2>2 DEF Told, Follows
<1> QED
  BY <1>2, <1>4, <1>5

LEMMA AppendTold ==
  ASSUME NEW q \in Seq(Event), NEW e \in Event, NEW s, NEW w,
         IF IsChange(e) THEN w \in { e.to, "Stopped", "Error" } ELSE Told(q, s, w)
  PROVE  Told(Append(q, e), s, w)
<1> DEFINE n == Len(q)
           a == Append(q, e)
<1>1. /\ n \in Nat /\ Len(a) = n + 1 /\ a[n + 1] = e
      /\ \A k \in 1..n : a[k] = q[k]
  BY AppendEvent
<1>2. CASE w \in { "Stopped", "Error" }
  BY <1>2 DEF Told
<1>3. CASE IsChange(e) /\ w = e.to
  <2>1. n + 1 \in 1..Len(a) /\ NoChange(a, (n + 1) + 1, Len(a))
    BY <1>1 DEF NoChange
  <2> QED
    BY <1>1, <1>3, <2>1 DEF Told
<1>4. ASSUME ~ IsChange(e), NEW i \in 1..n, IsChange(q[i]), NoChange(q, i + 1, n), q[i].to = w
      PROVE  Told(a, s, w)
  <2>1. i \in 1..Len(a) /\ NoChange(a, i + 1, Len(a))
    BY <1>1, <1>4 DEF NoChange
  <2> QED
    BY <1>1, <1>4, <2>1 DEF Told
<1>5. CASE ~ IsChange(e) /\ NoChange(q, 1, n) /\ s \in { w, "none" }
  <2>1. NoChange(a, 1, Len(a))
    BY <1>1, <1>5 DEF NoChange
  <2> QED
    BY <1>5, <2>1 DEF Told
<1> QED
  BY <1>2, <1>3, <1>4, <1>5 DEF Told

(* What is left of a history when its first event is taken off: read, if   *)
(* the reader believes what it says, or lost.                              *)
LEMMA TailChained ==
  ASSUME NEW q \in Seq(Event), q # << >>, Chained(q)
  PROVE  Chained(Tail(q))
<1> DEFINE t == Tail(q)
<1>1. SUFFICES ASSUME NEW i \in 1..Len(t), NEW j \in 1..Len(t), i < j,
                      IsChange(t[i]), IsChange(t[j]), NoChange(t, i + 1, j - 1)
               PROVE  Follows(t[j], t[i].to)
  BY DEF Chained
<1>2. /\ Len(q) \in Nat /\ Len(t) = Len(q) - 1
      /\ \A k \in 1..Len(t) : t[k] = q[k + 1]
  BY TailEvent
<1>3. /\ i + 1 \in 1..Len(q) /\ j + 1 \in 1..Len(q) /\ i + 1 < j + 1
      /\ IsChange(q[i + 1]) /\ IsChange(q[j + 1])
  BY <1>1, <1>2
<1>4. NoChange(q, (i + 1) + 1, (j + 1) - 1)
  <2>1. ASSUME NEW k \in ((i + 1) + 1)..((j + 1) - 1)
        PROVE  ~ IsChange(q[k])
    <3>1. k - 1 \in (i + 1)..(j - 1) /\ k - 1 \in 1..Len(t) /\ (k - 1) + 1 = k
      BY <1>1, <1>2
    <3> QED
      BY <1>1, <1>2, <3>1 DEF NoChange
  <2> QED
    BY <2>1 DEF NoChange
<1> QED
  BY <1>1, <1>2, <1>3, <1>4 DEF Chained

LEMMA TailAnchored ==
  ASSUME NEW q \in Seq(Event), q # << >>, NEW s,
         IF IsChange(Head(q)) THEN Chained(q) /\ s = Head(q).to ELSE Anchored(q, s)
  PROVE  Anchored(Tail(q), s)
<1> DEFINE t == Tail(q)
<1>1. SUFFICES ASSUME NEW j \in 1..Len(t), IsChange(t[j]), NoChange(t, 1, j - 1)
               PROVE  Follows(t[j], s)
  BY DEF Anchored
<1>2. /\ Len(q) \in Nat /\ Len(t) = Len(q) - 1 /\ Head(q) = q[1]
      /\ \A k \in 1..Len(t) : t[k] = q[k + 1]
  BY TailEvent
<1>3. j + 1 \in 1..Len(q) /\ IsChange(q[j + 1]) /\ q[j + 1] = t[j]
  BY <1>1, <1>2
<1>4. NoChange(q, 1 + 1, (j + 1) - 1)
  <2>1. ASSUME NEW k \in (1 + 1)..((j + 1) - 1)
        PROVE  ~ IsChange(q[k])
    <3>1. k - 1 \in 1..(j - 1) /\ k - 1 \in 1..Len(t) /\ (k - 1) + 1 = k
      BY <1>1, <1>2
    <3> QED
      BY <1>1, <1>2, <3>1 DEF NoChange
  <2> QED
    BY <2>1 DEF NoChange
<1>5. CASE IsChange(Head(q))
  <2>1. 1 \in 1..Len(q) /\ 1 < j + 1
    BY <1>1, <1>2
  <2> QED
    BY <1>2, <1>3, <1>4, <1>5, <2>1 DEF Chained
<1>6. CASE ~ IsChange(Head(q))
  <2>1. NoChange(q, 1, (j + 1) - 1)
    BY <1>1, <1>2, <1>4, <1>6 DEF NoChange
  <2> QED
    BY <1>3, <1>6, <2>1 DEF Anchored
<1> QED
  BY <1>5, <1>6

LEMMA TailTold ==
  ASSUME NEW q \in Seq(Event), q # << >>, NEW s, NEW w, Told(q, s, w),
         NEW b, b = "none" \/ b = IF IsChange(Head(q)) THEN Head(q).to ELSE s
  PROVE  Told(Tail(q), b, w)
<1> DEFINE t == Tail(q)
           n == Len(q)
<1>1. /\ n \in Nat \ { 0 } /\ Len(t) = n - 1 /\ Head(q) = q[1]
      /\ \A k \in 1..Len(t) : t[k] = q[k + 1]
  BY TailEvent
<1>2. CASE w \in { "Stopped", "Error" }
  BY <1>2 DEF Told
<1>3. ASSUME NEW i \in 1..n, NoChange(q, i + 1, n)
      PROVE  NoChange(t, i, n - 1)
  <2>1. ASSUME NEW k \in i..(n - 1)
        PROVE  ~ IsChange(t[k])
    <3>1. k + 1 \in (i + 1)..n /\ k \in 1..Len(t)
      BY <1>1
    <3> QED
      BY <1>1, <1>3, <3>1 DEF NoChange
  <2> QED
    BY <2>1 DEF NoChange
<1>4. ASSUME NEW i \in 1..n, IsChange(q[i]), NoChange(q, i + 1, n), q[i].to = w
      PROVE  Told(t, b, w)
  <2>1. CASE i = 1
    <3>1. NoChange(t, 1, Len(t))
      BY <1>1, <1>3, <1>4, <2>1
    <3>2. b \in { w, "none" }
      BY <1>1, <1>4, <2>1
    <3> QED
      BY <3>1, <3>2 DEF Told
  <2>2. CASE i # 1
    <3>1. i - 1 \in 1..Len(t) /\ (i - 1) + 1 = i /\ t[i - 1] = q[i]
      BY <1>1, <2>2
    <3>2. NoChange(t, (i - 1) + 1, Len(t))
      BY <1>1, <1>3, <1>4, <3>1
    <3> QED
      BY <1>4, <3>1, <3>2 DEF Told
  <2> QED
    BY <2>1, <2>2
<1>5. CASE NoChange(q, 1, n) /\ s \in { w, "none" }
  <2>1. NoChange(q, 1 + 1, n) /\ 1 \in 1..n /\ ~ IsChange(Head(q))
    BY <1>1, <1>5 DEF NoChange
  <2>2. NoChange(t, 1, Len(t))
    BY <1>1, <1>3, <2>1
  <2> QED
    BY <1>5, <2>1, <2>2 DEF Told
<1> QED
  BY <1>2, <1>4, <1>5 DEF Told

-----------------------------------------------------------------------------
(* The handle's own steps, with the bus left out of sight.                 *)

(* Every step of the composition is one of the handle, or none of it.      *)
LEMMA HandleMoves == [RxNext]_<< vars, rxVars >> => [Next]_vars
<1>2. ASSUME NEW r \in Receiver, Subscribe(r) \/ Receive(r) \/ ReceiveLagged(r) \/ Unsubscribe(r)
      PROVE  UNCHANGED vars
  BY <1>2 DEF Subscribe, Receive, ReceiveLagged, Unsubscribe
<1>3. CASE Emit /\ Send(bus')
  BY <1>3 DEF Emit, Next, Return
<1>4. CASE Renew
  BY <1>4 DEF Renew, Next
<1> QED
  BY <1>2, <1>3, <1>4 DEF RxNext, Next, Return

(* A step of the handle that emits nothing leaves the state it reports as  *)
(* it is, or makes it that of a stop or error, unless it is about to emit  *)
(* the change; and a `before` is read from what is reported.               *)
LEMMA QuietStep ==
  ASSUME IInv,
         \/ \E o \in AsyncOp \cup { "requestStop" } : Call(o) \/ RejectPath(o)
         \/ ReturnErr \/ Publish \/ DropRelease \/ DropQuietly \/ DropForcing
         \/ RunQueue \/ CancelBlock \/ Machine
  PROVE  /\ pc' # "emit" => pc # "emit" /\ watch' \in { watch, "Stopped", "Error" }
         /\ pc' \in { "wait", "emit" } /\ op' \in Publishing =>
              \/ before' = before /\ pc \in { "wait", "emit" } /\ op \in Publishing
              \/ before' = watch /\ pc = "idle"
         /\ pc' = "gone" /\ vz' \in Live => watch' = vz'
<1> DEFINE Reported ==
             pc' # "emit" => pc # "emit" /\ watch' \in { watch, "Stopped", "Error" }
           From ==
             pc' \in { "wait", "emit" } /\ op' \in Publishing =>
               \/ before' = before /\ pc \in { "wait", "emit" } /\ op \in Publishing
               \/ before' = watch /\ pc = "idle"
           Left ==
             pc' = "gone" /\ vz' \in Live => watch' = vz'
<1>1. ASSUME NEW o \in AsyncOp \cup { "requestStop" }, Call(o) \/ RejectPath(o)
      PROVE  Reported /\ From /\ Left
  BY <1>1 DEF Call, RejectPath
<1>2. CASE ReturnErr \/ Publish
  BY <1>2 DEF ReturnErr, Publish
<1>3. CASE DropRelease \/ DropQuietly
  BY <1>3 DEF DropRelease, DropQuietly, Release, IInv, WatchInv
<1>4. CASE DropForcing
  BY <1>4 DEF DropForcing
<1>5. CASE RunQueue \/ CancelBlock \/ Machine
  <2>1. UNCHANGED hostVars /\ pc # "gone"
    BY <1>5 DEF RunQueue, RunOp, RunRequestStop, RunHardStop, RunCompletion,
                RunDelegate, CancelBlock, Machine, AtHead, IInv, PhaseInv
  <2>2. watch' \in { watch, "Stopped", "Error" }
    BY <1>5 DEF RunQueue, RunOp, RunRequestStop, RunHardStop, RunCompletion,
                RunDelegate, CancelBlock, Machine
  <2> QED
    BY <2>1, <2>2 DEF hostVars
<1> QED
  BY <1>1, <1>2, <1>3, <1>4, <1>5

-----------------------------------------------------------------------------
(* The receivers' steps.                                                   *)

(* An event that is emitted reaches a receiver's inbox, at the cost of the *)
(* oldest event there when it is full.                                     *)
LEMMA SendHistory ==
  ASSUME RxTypeOK, CapacityAssumption, NEW e \in Event, Send(e),
         NEW r \in Receiver, Subscribed(r), Chained(inbox[r]),
         Belief(r) # "none" => Anchored(inbox[r], Belief(r)),
         IsChange(e) => Told(inbox[r], Belief(r), e.from)
  PROVE  /\ Chained(inbox'[r])
         /\ Belief(r)' # "none" => Anchored(inbox'[r], Belief(r)')
         /\ \A w :
              (IF IsChange(e) THEN w \in { e.to, "Stopped", "Error" }
                              ELSE Told(inbox[r], Belief(r), w))
                => Told(inbox'[r], Belief(r)', w)
<1> DEFINE q == inbox[r]
           b == Belief(r)
<1>1. /\ q \in Seq(Event) /\ Len(q) \in Nat /\ Len(q) <= Capacity
      /\ lagged[r] \in BOOLEAN /\ Capacity \in Nat \ { 0 }
  BY DEF RxTypeOK, CapacityAssumption
<1>2. CASE Len(q) < Capacity
  <2>1. inbox'[r] = Append(q, e) /\ Belief(r)' = b
    BY <1>1, <1>2 DEF Send, Belief
  <2>2. Chained(Append(q, e))
    BY <1>1, AppendChained
  <2>3. b # "none" => Anchored(Append(q, e), b)
    BY <1>1, AppendAnchored
  <2>4. ASSUME NEW w,
               IF IsChange(e) THEN w \in { e.to, "Stopped", "Error" } ELSE Told(q, b, w)
        PROVE  Told(Append(q, e), b, w)
    BY <1>1, <2>4, AppendTold
  <2> QED
    BY <2>1, <2>2, <2>3, <2>4
<1>3. CASE Len(q) = Capacity
  <2> DEFINE t == Tail(q)
  <2>1. q # << >> /\ t \in Seq(Event)
    BY <1>1, <1>3, TailEvent
  <2>2. inbox'[r] = Append(t, e) /\ Belief(r)' = "none"
    <3>1. inbox'[r] = Append(t, e)
      BY <1>1, <1>3 DEF Send
    <3>2. lagged'[r]
      BY <1>3, Zenon DEF Send
    <3> QED
      BY <3>1, <3>2, Zenon DEF Belief
  <2>3. Chained(t)
    BY <1>1, <2>1, TailChained
  <2>4. ASSUME NEW w, Told(q, b, w)
        PROVE  Told(t, "none", w)
    BY <1>1, <2>1, <2>4, TailTold
  <2>5. Chained(Append(t, e))
    BY <2>1, <2>3, <2>4, AppendChained
  <2>6. ASSUME NEW w,
               IF IsChange(e) THEN w \in { e.to, "Stopped", "Error" } ELSE Told(q, b, w)
        PROVE  Told(Append(t, e), "none", w)
    BY <2>1, <2>4, <2>6, AppendTold
  <2> QED
    BY <2>2, <2>5, <2>6
<1> QED
  BY <1>1, <1>2, <1>3

(* The inboxes keep their type, and never hold more than the bus.          *)
LEMMA RxTypeStep ==
  ASSUME RxTypeOK, CapacityAssumption, TypeOK, TypeOK', [RxNext]_<< vars, rxVars >>
  PROVE  RxTypeOK'
<1>1. CASE Emit /\ Send(bus')
  <2>1. bus' \in Event
    BY DEF TypeOK
  <2>2. ASSUME NEW r \in Receiver
        PROVE  /\ inbox'[r] \in Seq(Event) /\ Len(inbox'[r]) <= Capacity
               /\ lagged'[r] \in BOOLEAN
    <3>1. /\ inbox[r] \in Seq(Event) /\ Len(inbox[r]) \in Nat
          /\ Len(inbox[r]) <= Capacity /\ lagged[r] \in BOOLEAN
          /\ Capacity \in Nat \ { 0 }
      BY DEF RxTypeOK, CapacityAssumption
    <3>2. CASE ~ Subscribed(r)
      BY <1>1, <3>1, <3>2 DEF Send
    <3>3. CASE Subscribed(r) /\ Len(inbox[r]) < Capacity
      BY <1>1, <2>1, <3>1, <3>3, AppendEvent DEF Send
    <3>4. CASE Subscribed(r) /\ Len(inbox[r]) = Capacity
      <4>1. /\ inbox[r] # << >> /\ Tail(inbox[r]) \in Seq(Event)
            /\ Len(Tail(inbox[r])) = Capacity - 1
        BY <3>1, <3>4, TailEvent
      <4>2. inbox'[r] = Append(Tail(inbox[r]), bus')
        BY <1>1, <3>1, <3>4 DEF Send
      <4> QED
        BY <1>1, <2>1, <3>1, <3>4, <4>1, <4>2, AppendEvent DEF Send
    <3> QED
      BY <3>1, <3>2, <3>3, <3>4
  <2>3. /\ inbox' \in [Receiver -> Seq(Event)] /\ lagged' \in [Receiver -> BOOLEAN]
        /\ last' = last
    BY <1>1, <2>2 DEF Send
  <2> QED
    BY <2>2, <2>3 DEF RxTypeOK
<1>2. ASSUME NEW r \in Receiver, Subscribe(r) \/ Receive(r) \/ ReceiveLagged(r) \/ Unsubscribe(r)
      PROVE  RxTypeOK'
  <2>1. /\ inbox[r] \in Seq(Event) /\ Len(inbox[r]) \in Nat
        /\ Len(inbox[r]) <= Capacity /\ Capacity \in Nat \ { 0 }
        /\ watch \in State
    BY DEF RxTypeOK, CapacityAssumption, TypeOK
  <2>2. Nothing \in Seq(Event) /\ Len(Nothing) = 1
    BY EventTypes DEF Nothing
  <2>3. CASE Subscribe(r)
    BY <2>1, <2>3 DEF Subscribe, RxTypeOK
  <2>4. CASE Receive(r)
    <3>1. /\ Tail(inbox[r]) \in Seq(Event) /\ Len(Tail(inbox[r])) <= Capacity
          /\ Head(inbox[r]) \in Event
      BY <2>1, <2>4, TailEvent DEF Receive
    <3>2. IsChange(Head(inbox[r])) => Head(inbox[r]).to \in State
      BY <3>1 DEF IsChange, Event, Change, Notice, NoticeOf
    <3> QED
      BY <2>4, <3>1, <3>2 DEF Receive, RxTypeOK
  <2>5. CASE ReceiveLagged(r)
    BY <2>5 DEF ReceiveLagged, RxTypeOK
  <2>6. CASE Unsubscribe(r)
    <3>1. inbox' \in [Receiver -> Seq(Event)]
      BY <2>1, <2>2, <2>6 DEF Unsubscribe, RxTypeOK
    <3>3. \A x \in Receiver : inbox'[x] \in { inbox[x], Nothing }
      BY <2>6 DEF Unsubscribe, RxTypeOK
    <3>4. Len(Nothing) <= Capacity
      BY <2>1, <2>2
    <3>5. \A x \in Receiver : Len(inbox'[x]) <= Capacity
      BY <3>3, <3>4 DEF RxTypeOK
    <3>2. lagged' \in [Receiver -> BOOLEAN] /\ last' \in [Receiver -> State \cup { "none" }]
      BY <2>6 DEF Unsubscribe, RxTypeOK
    <3> QED
      BY <3>1, <3>2, <3>5 DEF RxTypeOK
  <2> QED
    BY <1>2, <2>3, <2>4, <2>5, <2>6
<1>3. CASE Renew
  <2>1. Nothing \in Seq(Event) /\ Len(Nothing) = 1 /\ Capacity \in Nat \ { 0 }
    BY EventTypes DEF Nothing, CapacityAssumption
  <2>2. Len(Nothing) <= Capacity
    BY <2>1
  <2> QED
    BY <1>3, <2>1, <2>2, Zenon DEF Renew, RxTypeOK
<1>4. CASE UNCHANGED rxVars
  BY <1>4 DEF rxVars, RxTypeOK
<1> QED
  BY <1>1, <1>2, <1>3, <1>4 DEF RxNext, rxVars

(* What the handle emits fits what every receiver will have been told of.  *)
LEMMA EmitHistory ==
  ASSUME IInv, IInv', RxInv, CapacityAssumption, Emit, Send(bus'),
         NEW r \in Receiver
  PROVE  HistoryInv(r)'
<1> SUFFICES ASSUME Subscribed(r)' PROVE HistoryInv(r)'
  BY DEF HistoryInv
<1>1. Subscribed(r)
  BY DEF Send, Subscribed
<1>2. /\ RxTypeOK /\ bus' \in Event
      /\ Chained(inbox[r])
      /\ Belief(r) # "none" => Anchored(inbox[r], Belief(r))
      /\ pc # "emit" => Told(inbox[r], Belief(r), watch)
      /\ pc \in { "wait", "emit" } /\ op \in Publishing => Told(inbox[r], Belief(r), before)
  BY <1>1 DEF RxInv, HistoryInv, IInv, TypeOK
<1>3. CASE EmitChange
  <2>1. /\ IsChange(bus') /\ bus'.from = before /\ bus'.to = Target(op)
        /\ pc = "emit" /\ op \in Publishing
        /\ watch' \in { Target(op), "Stopped", "Error" }
        /\ pc' \in { "notify", "idle" }
    BY <1>3 DEF EmitChange, Change, IsChange, IInv, PhaseInv, WatchInv
  <2>2. Told(inbox[r], Belief(r), bus'.from)
    BY <1>2, <2>1
  <2>3. /\ Chained(inbox'[r])
        /\ Belief(r)' # "none" => Anchored(inbox'[r], Belief(r)')
        /\ Told(inbox'[r], Belief(r)', watch')
    BY <1>1, <1>2, <2>1, <2>2, SendHistory
  <2> QED
    BY <2>1, <2>3 DEF HistoryInv
<1>4. CASE EmitNotice \/ AnnounceIp
  <2>1. /\ ~ IsChange(bus') /\ pc # "emit" /\ watch' = watch /\ pc' = "idle"
    BY <1>4 DEF EmitNotice, AnnounceIp, NoticeOf, Notice, IsChange
  <2>2. /\ Chained(inbox'[r])
        /\ Belief(r)' # "none" => Anchored(inbox'[r], Belief(r)')
        /\ Told(inbox'[r], Belief(r)', watch')
    BY <1>1, <1>2, <2>1, SendHistory
  <2> QED
    BY <2>1, <2>2 DEF HistoryInv
<1> QED
  BY <1>3, <1>4 DEF Emit

(* A receiver's own step.                                                  *)
LEMMA ReceiverStep ==
  ASSUME IInv, RxInv, NEW r \in Receiver,
         Subscribe(r) \/ Receive(r) \/ ReceiveLagged(r) \/ Unsubscribe(r)
  PROVE  HistoryInv(r)'
<1>1. /\ inbox[r] \in Seq(Event) /\ lagged[r] \in BOOLEAN
      /\ inbox \in [Receiver -> Seq(Event)] /\ lagged \in [Receiver -> BOOLEAN]
      /\ last \in [Receiver -> State \cup { "none" }]
      /\ HistoryInv(r)
  BY DEF RxInv, RxTypeOK
<1>2. CASE Subscribe(r)
  <2>1. /\ inbox'[r] = << >> /\ Belief(r)' = watch
        /\ pc' = "idle" /\ watch' = watch
    BY <1>1, <1>2 DEF Subscribe, Belief, vars
  <2>2. Chained(<< >>) /\ Anchored(<< >>, watch) /\ Told(<< >>, watch, watch)
    BY DEF Chained, Anchored, Told, NoChange
  <2> QED
    BY <2>1, <2>2 DEF HistoryInv
<1>3. CASE Receive(r)
  <2> DEFINE q == inbox[r]
             b == IF IsChange(Head(q)) THEN Head(q).to ELSE Belief(r)
  <2>1. /\ Subscribed(r) /\ q # << >> /\ inbox'[r] = Tail(q)
        /\ ~ lagged[r] /\ lagged' = lagged
        /\ last'[r] = IF IsChange(Head(q)) THEN Head(q).to ELSE last[r]
        /\ UNCHANGED << pc, op, before, watch >>
    BY <1>1, <1>3 DEF Receive, vars
  <2>2. Belief(r)' = b
    BY <2>1, Zenon DEF Belief
  <2>3. /\ Chained(q) /\ (Belief(r) # "none" => Anchored(q, Belief(r)))
        /\ pc # "emit" => Told(q, Belief(r), watch)
        /\ pc \in { "wait", "emit" } /\ op \in Publishing => Told(q, Belief(r), before)
    BY <1>1, <2>1 DEF HistoryInv
  <2>4. Chained(Tail(q))
    BY <1>1, <2>1, <2>3, TailChained
  <2>5. b # "none" => Anchored(Tail(q), b)
    BY <1>1, <2>1, <2>3, TailAnchored
  <2>6. ASSUME NEW w, Told(q, Belief(r), w)
        PROVE  Told(Tail(q), b, w)
    BY <1>1, <2>1, <2>6, TailTold
  <2> HIDE DEF b
  <2> QED
    BY <2>1, <2>2, <2>3, <2>4, <2>5, <2>6 DEF HistoryInv
<1>4. CASE ReceiveLagged(r)
  <2>1. /\ Subscribed(r) /\ inbox' = inbox /\ lagged[r]
        /\ Belief(r) = "none" /\ Belief(r)' = "none"
        /\ UNCHANGED << pc, op, before, watch >>
    BY <1>1, <1>4 DEF ReceiveLagged, Belief, vars
  <2> QED
    BY <1>1, <2>1 DEF HistoryInv
<1>5. CASE Unsubscribe(r)
  <2>1. ~ Subscribed(r)'
    BY <1>1, <1>5 DEF Unsubscribe, Subscribed
  <2> QED
    BY <2>1 DEF HistoryInv
<1> QED
  BY <1>2, <1>3, <1>4, <1>5

LEMMA HistoryStep ==
  ASSUME IInv, IInv', RxInv, CapacityAssumption, [RxNext]_<< vars, rxVars >>,
         NEW r \in Receiver
  PROVE  HistoryInv(r)'
<1>1. CASE Emit /\ Send(bus')
  BY <1>1, EmitHistory
<1>2. CASE Renew
  <2>1. ~ Subscribed(r)'
    BY <1>2 DEF Renew, Subscribed
  <2> QED
    BY <2>1 DEF HistoryInv
<1>3. ASSUME NEW x \in Receiver,
             Subscribe(x) \/ Receive(x) \/ ReceiveLagged(x) \/ Unsubscribe(x)
      PROVE  HistoryInv(r)'
  <2>1. CASE x = r
    BY <1>3, <2>1, ReceiverStep
  <2>2. CASE x # r
    <3>1. /\ inbox'[r] = inbox[r] /\ lagged'[r] = lagged[r] /\ last'[r] = last[r]
          /\ UNCHANGED << pc, op, before, watch >>
      BY <1>3, <2>2 DEF Subscribe, Receive, ReceiveLagged, Unsubscribe, vars, RxInv, RxTypeOK
    <3>2. HistoryInv(r)
      BY DEF RxInv
    <3> QED
      BY <3>1, <3>2 DEF HistoryInv, Subscribed, Belief
  <2> QED
    BY <2>1, <2>2
<1>4. CASE /\ \/ \E o \in AsyncOp \cup { "requestStop" } : Call(o) \/ RejectPath(o)
              \/ ReturnErr \/ Publish \/ DropRelease \/ DropQuietly \/ DropForcing
              \/ RunQueue \/ CancelBlock \/ Machine
           /\ UNCHANGED rxVars
  <2>1. HistoryInv(r)
    BY DEF RxInv
  <2>2. UNCHANGED << inbox, lagged, last >>
    BY <1>4 DEF rxVars
  <2>3. /\ pc' # "emit" => pc # "emit" /\ watch' \in { watch, "Stopped", "Error" }
        /\ pc' \in { "wait", "emit" } /\ op' \in Publishing =>
             \/ before' = before /\ pc \in { "wait", "emit" } /\ op \in Publishing
             \/ before' = watch /\ pc = "idle"
    BY <1>4, QuietStep
  <2>4. \A q, b : Told(q, b, "Stopped") /\ Told(q, b, "Error")
    BY DEF Told
  <2> QED
    BY <2>1, <2>2, <2>3, <2>4 DEF HistoryInv, Subscribed, Belief
<1>5. CASE UNCHANGED << vars, rxVars >>
  <2>1. HistoryInv(r)
    BY DEF RxInv
  <2> QED
    BY <1>5, <2>1 DEF HistoryInv, Subscribed, Belief, vars, rxVars
<1> QED
  BY <1>1, <1>2, <1>3, <1>4, <1>5 DEF RxNext

LEMMA LastReportStep ==
  ASSUME IInv, RxInv, [RxNext]_<< vars, rxVars >>
  PROVE  LastReport'
<1>1. CASE Emit
  BY <1>1 DEF Emit, EmitChange, EmitNotice, AnnounceIp, LastReport
<1>2. CASE Renew
  BY <1>2 DEF Renew, Create, LastReport
<1>3. CASE UNCHANGED vars
  BY <1>3 DEF vars, RxInv, LastReport
<1>4. CASE \/ \E o \in AsyncOp \cup { "requestStop" } : Call(o) \/ RejectPath(o)
           \/ ReturnErr \/ Publish \/ DropRelease \/ DropQuietly \/ DropForcing
           \/ RunQueue \/ CancelBlock \/ Machine
  BY <1>4, QuietStep DEF LastReport
<1> QED
  BY <1>1, <1>2, <1>3, <1>4
     DEF RxNext, Subscribe, Receive, ReceiveLagged, Unsubscribe

-----------------------------------------------------------------------------
(* The theorems.                                                           *)

LEMMA RxInitial == RxInit => Init /\ RxInv
<1> SUFFICES ASSUME RxInit PROVE Init /\ RxInv
  OBVIOUS
<1>1. Init
  BY DEF RxInit
<1>2. Nothing \in Seq(Event) /\ Len(Nothing) = 1 /\ Capacity \in Nat \ { 0 }
  BY EventTypes, CapacityAssumption DEF Nothing, CapacityAssumption
<1>3. Len(Nothing) <= Capacity
  BY <1>2
<1>4. RxTypeOK
  BY <1>2, <1>3, Zenon DEF RxInit, RxTypeOK
<1>5. LastReport
  BY <1>1 DEF Init, LastReport, Live
<1>6. \A r \in Receiver : ~ Subscribed(r)
  BY DEF RxInit, Subscribed
<1> QED
  BY <1>1, <1>4, <1>5, <1>6 DEF RxInv, HistoryInv

(* The invariants of the handle and of the bus hold in every reachable     *)
(* state of the two together.                                              *)
THEOREM RxInvariance == RxSpec => [](IInv /\ RxInv)
<1>1. RxInit => IInv /\ RxInv
  BY RxInitial, InitIInv
<1>2. IInv /\ RxInv /\ [RxNext]_<< vars, rxVars >> => (IInv /\ RxInv)'
  <2> SUFFICES ASSUME IInv, RxInv, [RxNext]_<< vars, rxVars >>
               PROVE  IInv' /\ RxInv'
    OBVIOUS
  <2>1. IInv'
    BY HandleMoves, InductiveStep
  <2>2. RxTypeOK'
    BY <2>1, RxTypeStep, CapacityAssumption DEF IInv, RxInv
  <2>3. LastReport'
    BY LastReportStep
  <2>4. \A r \in Receiver : HistoryInv(r)'
    BY <2>1, HistoryStep, CapacityAssumption
  <2> QED
    BY <2>1, <2>2, <2>3, <2>4 DEF RxInv
<1> QED
  BY <1>1, <1>2, PTL DEF RxSpec

(* No inbox ever holds more than the bus has room for.                     *)
THEOREM InboxBounded == RxSpec => []RxTypeOK
<1>1. RxInv => RxTypeOK
  BY DEF RxInv
<1> QED
  BY <1>1, RxInvariance, PTL

(* Whatever a subscriber reads continues what it read before.              *)
THEOREM NoGap == RxSpec => HistoryHasNoGap
<1>1. ASSUME RxInv, NEW r \in Receiver, Receive(r), IsChange(Head(inbox[r])), last[r] # "none"
      PROVE  Follows(Head(inbox[r]), last[r])
  <2>1. /\ inbox[r] \in Seq(Event) /\ inbox[r] # << >>
        /\ Subscribed(r) /\ Belief(r) = last[r]
    BY <1>1 DEF Receive, RxInv, RxTypeOK, Belief
  <2>2. Anchored(inbox[r], last[r])
    BY <1>1, <2>1 DEF RxInv, HistoryInv
  <2>3. 1 \in 1..Len(inbox[r]) /\ Head(inbox[r]) = inbox[r][1]
    BY <2>1, TailEvent
  <2>4. NoChange(inbox[r], 1, 1 - 1)
    BY DEF NoChange
  <2> QED
    BY <1>1, <2>2, <2>3, <2>4 DEF Anchored
<1>2. RxInv => [\A r \in Receiver :
                  Receive(r) /\ IsChange(Head(inbox[r])) /\ last[r] # "none"
                    => Follows(Head(inbox[r]), last[r])]_<< vars, rxVars >>
  BY <1>1
<1> QED
  BY <1>2, RxInvariance, PTL DEF HistoryHasNoGap

(* A subscriber that has read everything misses only stops and errors.     *)
THEOREM CaughtUpKnows == RxSpec => []OnlyStopsAreMissed
<1>1. ASSUME IInv, RxInv, NEW r \in Receiver, CaughtUp(r), pc \notin { "wait", "emit" }
      PROVE  \/ watch = last[r]
             \/ watch \in { "Stopped", "Error" } /\ vz \notin { "Running", "Paused" }
  <2>1. inbox[r] = << >> /\ Belief(r) = last[r] /\ last[r] # "none" /\ Subscribed(r)
    BY <1>1 DEF CaughtUp, Belief, Subscribed, Nothing
  <2>2. Told(<< >>, last[r], watch)
    BY <1>1, <2>1 DEF RxInv, HistoryInv
  <2>3. watch \in { last[r], "Stopped", "Error" }
    BY <2>1, <2>2 DEF Told
  <2>4. vz \in Live => watch = vz
    BY <1>1 DEF IInv, WatchInv, RxInv, LastReport
  <2> QED
    BY <2>3, <2>4 DEF Live
<1>2. IInv /\ RxInv => OnlyStopsAreMissed
  BY <1>1 DEF OnlyStopsAreMissed
<1> QED
  BY <1>2, RxInvariance, PTL
=============================================================================

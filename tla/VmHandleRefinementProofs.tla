---------------------- MODULE VmHandleRefinementProofs ----------------------
(***************************************************************************)
(* The proof that VmHandle implements VmContract, for every framework it   *)
(* may run on: under IInv each action is a step of the contract or none.   *)
(***************************************************************************)
EXTENDS VmHandleRefinement, VmHandleProofs

-----------------------------------------------------------------------------
(* The contract speaks of the same methods and the same table of states.   *)
LEMMA SameMethods ==
  /\ Contract!AsyncOp = AsyncOp /\ Contract!Publishing = Publishing
  /\ Contract!Calls = AsyncOp \cup { "requestStop" } /\ Contract!LiveState = Live
  /\ \A o : Contract!Target(o) = Target(o)
  /\ \A o : Contract!Transient(o) = Transient(o)
  /\ \A s, t : Contract!CanTransitionTo(s, t) <=> CanTransitionTo(s, t)
<1>1. Contract!Transitions = Transitions
  BY DEF Contract!Transitions, Contract!State, Transitions, State
<1> QED
  BY <1>1 DEF Contract!AsyncOp, AsyncOp, Contract!Publishing, Publishing, Contract!Calls,
              Contract!LiveState, Live, Contract!Target, Target, Contract!Transient,
              Transient, Contract!CanTransitionTo, CanTransitionTo

-----------------------------------------------------------------------------
(* What the queue's growth and service do to a pending failure.            *)

LEMMA AppendErrPending ==
  ASSUME NEW q \in Seq(Item), NEW e \in Item, NEW r
  PROVE  ErrPending(Append(q, e), r) <=> ErrPending(q, r) \/ e.kind = "err"
  BY AppendItem DEF ErrPending

LEMMA TailErrPending ==
  ASSUME NEW q \in Seq(Item), q # << >>, NEW r
  PROVE  ErrPending(q, r) <=> ErrPending(Tail(q), r) \/ Head(q).kind = "err"
<1>1. ASSUME NEW i \in 1..Len(q), q[i].kind = "err"
      PROVE  Head(q).kind = "err" \/ \E j \in 1..Len(Tail(q)) : Tail(q)[j].kind = "err"
  <2>1. i # 1 => i - 1 \in 1..Len(Tail(q)) /\ Tail(q)[i - 1] = q[i]
    BY TailItem
  <2> QED
    BY <1>1, <2>1, TailItem
<1>2. ASSUME NEW j \in 1..Len(Tail(q)), Tail(q)[j].kind = "err"
      PROVE  \E i \in 1..Len(q) : q[i].kind = "err"
  <2>1. j + 1 \in 1..Len(q) /\ q[j + 1] = Tail(q)[j]
    BY TailItem
  <2> QED
    BY <1>2, <2>1
<1>3. 1 \in 1..Len(q) /\ Head(q) = q[1]
  BY TailItem
<1> QED
  BY <1>1, <1>2, <1>3 DEF ErrPending

LEMMA SilentErrPending ==
  ASSUME NEW q \in Seq(Item), NEW r, Silent(q)
  PROVE  ErrPending(q, r) <=> r \in { "err", "closed" }
  BY DEF ErrPending, Silent

(* A waiting call whose block heads the queue has just been asked for.     *)
LEMMA BlockIsAsked ==
  ASSUME IInv, AtHead("block"), Head(queue).arg # "hardStop"
  PROVE  /\ queue # << >> /\ queue \in Seq(Item) /\ Tail(queue) \in Seq(Item)
         /\ pc = "wait" /\ op = Head(queue).arg /\ op \in AsyncOp \cup { "requestStop" }
         /\ handler = "none" /\ reply = "empty" /\ vz \in Settled
         /\ Silent(Tail(queue))
         /\ StageBar = "asked" /\ OwnerBar = op /\ MachineBar = vz
<1>1. /\ queue # << >> /\ queue \in Seq(Item) /\ Tail(queue) \in Seq(Item)
      /\ Head(queue).kind = "block" /\ Head(queue) \in Item
  BY TailItem DEF AtHead, IInv, TypeOK
<1>2. ~ Silent(queue)
  BY <1>1, TailKeeps
<1>3. pc = "wait" /\ op = Head(queue).arg /\ op \in AsyncOp \cup { "requestStop" }
  BY <1>1, <1>2, TailKeeps DEF IInv, PhaseInv, TypeOK, Phase
<1>4. handler = "none" /\ reply = "empty" /\ Silent(Tail(queue)) /\ vz \in Settled
  BY <1>1, <1>2, <1>3, TailKeeps DEF IInv, PhaseInv, MachineInv
<1>5. ~ OkPending(queue, reply) /\ ~ ErrPending(queue, reply)
  <2>1. ~ OkPending(Tail(queue), reply)
    BY <1>1, <1>4, SilentOkPending
  <2>2. ~ ErrPending(Tail(queue), reply)
    BY <1>4 DEF Silent, ErrPending
  <2>3. ~ OkPending(queue, reply)
    BY <1>1, <2>1, TailOkPending
  <2> QED
    BY <1>1, <2>2, <2>3, TailErrPending
<1> QED
  BY <1>1, <1>3, <1>4, <1>5 DEF StageBar, OwnerBar, MachineBar

(* While the machine works on a method, so does the call, or Drop.         *)
LEMMA HandlerIsWorking ==
  ASSUME IInv, handler # "none"
  PROVE  /\ pc \in { "wait", "dropping" } /\ StageBar = "working"
         /\ vz = Transient(handler) /\ handler = op
         /\ pc = "wait" => OwnerBar = op /\ op \in AsyncOp \cup { "requestStop" }
                           /\ Silent(queue) /\ reply = "empty"
         /\ pc = "dropping" => OwnerBar = "closing" /\ op = "hardStop" /\ reply = "ran"
<1>1. pc \in { "wait", "dropping" }
  BY DEF IInv, PhaseInv, TypeOK, Phase
<1>2. vz = Transient(handler)
  BY <1>1 DEF IInv, MachineInv
<1>3. CASE pc = "wait"
  BY <1>2, <1>3 DEF IInv, PhaseInv, StageBar, OwnerBar
<1>4. CASE pc = "dropping"
  <2>1. op = "hardStop" /\ handler = "hardStop" /\ vz = "Stopping"
    BY <1>2, <1>4 DEF IInv, PhaseInv, Transient
  <2>2. reply = "ran"
    BY <1>4, <2>1 DEF IInv, PhaseInv
  <2> QED
    BY <1>2, <1>4, <2>1, <2>2 DEF StageBar, OwnerBar
<1> QED
  BY <1>1, <1>3, <1>4

-----------------------------------------------------------------------------
(* The owner's steps.                                                      *)

LEMMA CreateContract ==
  ASSUME IInv, Create
  PROVE  Contract!Open
  BY DEF Create, Contract!Open, MachineBar, OwnerBar, StageBar, Settled

LEMMA CallContract ==
  ASSUME IInv, NEW o \in AsyncOp \cup { "requestStop" }, Call(o)
  PROVE  Contract!Next
<1>1. Silent(queue) /\ handler = "none" /\ queue \in Seq(Item)
  BY DEF Call, IInv, PhaseInv, TypeOK
<1>2. Block(o) \in Item /\ Block(o).kind = "block"
  BY OpTypes DEF Op, Block
<1>3. ~ OkPending(queue', reply') /\ ~ ErrPending(queue', reply')
  BY <1>1, <1>2, AppendOkPending, AppendErrPending, SilentOkPending, SilentErrPending
     DEF Call
<1>4. Contract!Invoke(o)
  BY <1>1, <1>3 DEF Call, Contract!Invoke, MachineBar, OwnerBar, StageBar
<1> QED
  BY <1>4, SameMethods DEF Contract!Next

LEMMA RejectPathContract ==
  ASSUME IInv, NEW o \in AsyncOp \cup { "requestStop" }, RejectPath(o)
  PROVE  Contract!Reject
  BY DEF RejectPath, Contract!Reject, MachineBar, OwnerBar, StageBar

(* A call returns: with an error that was decided before, or with Ok.      *)
LEMMA ReturnContract ==
  ASSUME IInv, ReturnErr \/ EmitChange \/ EmitNotice
  PROVE  Contract!Return \/ UNCHANGED Contract!vars
<1>1. Silent(queue) /\ handler = "none" /\ queue \in Seq(Item)
  BY DEF ReturnErr, EmitChange, EmitNotice, IInv, PhaseInv, TypeOK
<1>2. pc = "wait" => op \in AsyncOp \cup { "requestStop" }
  BY DEF IInv, PhaseInv
<1>3. CASE ReturnErr
  <2>1. ~ OkPending(queue, reply) /\ ErrPending(queue, reply)
    BY <1>1, <1>3, SilentOkPending, SilentErrPending DEF ReturnErr
  <2> QED
    BY <1>1, <1>2, <1>3, <2>1, SameMethods
       DEF ReturnErr, Contract!Return, MachineBar, OwnerBar, StageBar
<1>4. CASE EmitChange
  <2>1. op \in Publishing /\ op \in AsyncOp
    BY <1>4 DEF EmitChange, IInv, PhaseInv, Publishing, AsyncOp
  <2> QED
    BY <1>1, <1>4, <2>1, SameMethods
       DEF EmitChange, Contract!Return, Contract!vars, MachineBar,
           OwnerBar, StageBar
<1>5. CASE EmitNotice
  <2>1. pc = "notify" => op \in AsyncOp
    BY DEF IInv, PhaseInv, AsyncOp
  <2>2. pc = "wait" => OkPending(queue, reply)
    BY <1>5 DEF EmitNotice, OkPending
  <2> QED
    BY <1>1, <1>2, <1>5, <2>1, <2>2, SameMethods
       DEF EmitNotice, Contract!Return, MachineBar, OwnerBar, StageBar
<1> QED
  BY <1>3, <1>4, <1>5

LEMMA PublishContract ==
  ASSUME IInv, Publish
  PROVE  Contract!Publish
<1>1. handler = "none" /\ OkPending(queue, reply)
  BY DEF Publish, IInv, PhaseInv, OkPending
<1> QED
  BY <1>1, SameMethods DEF Publish, Contract!Publish, MachineBar, OwnerBar, StageBar, Publishing

LEMMA DropContract ==
  ASSUME IInv, DropQuietly \/ DropForcing \/ DropRelease
  PROVE  Contract!CloseQuietly \/ Contract!CloseForcing \/ Contract!Close
<1>1. /\ pc = "idle" => /\ handler = "none" /\ vz \in Settled /\ reply # "refused"
                        /\ vz \in Live => watch = vz
      /\ pc = "dropping" /\ handler # "none" => reply = "ran"
  BY DEF IInv, PhaseInv, MachineInv, WatchInv
<1>2. CASE DropQuietly
  BY <1>1, <1>2 DEF DropQuietly, Release, NeedsForce, IsActive, Live, Settled,
                    Contract!CloseQuietly, MachineBar, OwnerBar, StageBar
<1>3. CASE DropForcing
  BY <1>1, <1>3 DEF DropForcing, NeedsForce, Live, Settled, Contract!CloseForcing,
                    MachineBar, OwnerBar, StageBar
<1>4. CASE DropRelease
  BY <1>1, <1>4 DEF DropRelease, Release, Contract!Close, MachineBar, OwnerBar, StageBar
<1> QED
  BY <1>2, <1>3, <1>4

-----------------------------------------------------------------------------
(* The queue's steps.                                                      *)

LEMMA RunOpContract ==
  ASSUME IInv, RunOp
  PROVE  Contract!Begin \/ Contract!Decline
<1> DEFINE rest == Tail(queue)
           e    == Completion(op, "err")
<1>1. /\ AtHead("block") /\ Head(queue).arg \in AsyncOp
      /\ VzInvoke(Head(queue).arg, rest)
      /\ UNCHANGED << watch, reply, pc, op, before, result, bus >>
  BY DEF RunOp, hostVars
<1>2. /\ rest \in Seq(Item) /\ pc = "wait" /\ op = Head(queue).arg /\ op \in AsyncOp
      /\ handler = "none" /\ reply = "empty" /\ vz \in Settled /\ Silent(rest)
      /\ StageBar = "asked" /\ OwnerBar = op /\ MachineBar = vz
  BY <1>1, BlockIsAsked DEF AsyncOp
<1>3. OwnerBar' = op
  BY <1>1, <1>2 DEF OwnerBar
<1>4. CASE CanTransitionTo(vz, Transient(op)) /\ vz' = Transient(op) /\ handler' = op
  <2>1. MachineBar' = "Busy"
    BY <1>2, <1>4 DEF MachineBar, Transient, AsyncOp, Settled
  <2>2. StageBar' = "working"
    BY <1>1, <1>2, <1>4 DEF StageBar, AsyncOp
  <2> QED
    BY <1>1, <1>2, <1>3, <1>4, <2>1, <2>2, SameMethods DEF Contract!Begin
<1>5. CASE queue' = Append(rest, e) /\ UNCHANGED << vz, handler >>
  <2>1. e \in Item /\ e.kind = "err"
    BY <1>2, OpTypes DEF Op, Completion
  <2>2. ~ OkPending(queue', reply') /\ ErrPending(queue', reply')
    <3> HIDE DEF rest, e
    <3> QED
      BY <1>1, <1>2, <1>5, <2>1, AppendOkPending, AppendErrPending, SilentOkPending,
         SilentErrPending
  <2>3. StageBar' = "err" /\ MachineBar' = MachineBar
    BY <1>1, <1>2, <1>5, <2>2 DEF StageBar, MachineBar
  <2> QED
    BY <1>1, <1>2, <1>3, <2>3 DEF Contract!Decline, AsyncOp
<1> QED
  BY <1>1, <1>2, <1>4, <1>5 DEF VzInvoke

LEMMA AnswerContract ==
  ASSUME IInv, RunRequestStop \/ CancelBlock
  PROVE  Contract!Acknowledge \/ Contract!Decline
<1>1. /\ AtHead("block") /\ Head(queue).arg # "hardStop" /\ queue' = Tail(queue)
      /\ UNCHANGED << vz, handler, watch, pc, op, before, result, bus >>
      /\ reply' \in { "ok", "err", "closed" }
      /\ reply' = "ok" => Head(queue).arg = "requestStop" /\ vz = "Running"
  BY DEF RunRequestStop, CancelBlock, hostVars
<1>2. /\ Tail(queue) \in Seq(Item) /\ pc = "wait" /\ op = Head(queue).arg
      /\ op \in AsyncOp \cup { "requestStop" }
      /\ handler = "none" /\ vz \in Settled /\ Silent(Tail(queue))
      /\ StageBar = "asked" /\ OwnerBar = op /\ MachineBar = vz
  BY <1>1, BlockIsAsked
<1>3. /\ OkPending(queue', reply') <=> reply' = "ok"
      /\ ErrPending(queue', reply') <=> reply' \in { "err", "closed" }
  BY <1>1, <1>2, SilentOkPending, SilentErrPending
<1>4. StageBar' = IF reply' = "ok" THEN "ok" ELSE "err"
  BY <1>1, <1>2, <1>3 DEF StageBar
<1>5. OwnerBar' = OwnerBar /\ MachineBar' = MachineBar /\ op # "closing"
  BY <1>1, <1>2 DEF OwnerBar, MachineBar, AsyncOp
<1> QED
  BY <1>1, <1>2, <1>4, <1>5 DEF Contract!Acknowledge, Contract!Decline

(* The block of Drop.                                                      *)
LEMMA RunHardStopContract ==
  ASSUME IInv, RunHardStop
  PROVE  Contract!Begin \/ Contract!Decline
<1>1. /\ queue # << >> /\ queue \in Seq(Item)
      /\ Head(queue).kind = "block" /\ Head(queue).arg = "hardStop"
      /\ VzInvoke("hardStop", Tail(queue))
      /\ reply' = IF handler' = "hardStop" THEN "ran" ELSE "refused"
      /\ UNCHANGED << watch, pc, op, before, result, bus >>
  BY DEF RunHardStop, AtHead, IInv, TypeOK, hostVars
<1>2. pc = "dropping"
  BY <1>1, TailKeeps DEF IInv, PhaseInv, TypeOK, Phase, AsyncOp
<1>3. /\ OwnerBar = "closing" /\ OwnerBar' = "closing" /\ Transient("closing") = "Stopping"
  BY <1>1, <1>2 DEF OwnerBar, Transient
<1>4. reply = "empty" /\ handler = "none" /\ StageBar = "asked"
  <2>1. 1 \in 1..Len(queue) /\ Head(queue) = queue[1]
    BY <1>1, TailItem
  <2>2. reply = "empty"
    BY <1>1, <1>2, <2>1 DEF IInv, AskedOnce, Served
  <2>3. handler = "none"
    BY <1>2, <2>2 DEF IInv, PhaseInv
  <2> QED
    BY <1>2, <2>2, <2>3 DEF StageBar
<1>5. CASE CanTransitionTo(vz, "Stopping") /\ vz' = "Stopping" /\ handler' = "hardStop"
  <2>1. vz \in { "Running", "Paused" }
    BY <1>5 DEF CanTransitionTo, Transitions
  <2>2. MachineBar = vz /\ MachineBar' = "Busy"
    BY <1>5, <2>1 DEF MachineBar, Settled
  <2>3. StageBar' = "working"
    BY <1>1, <1>2, <1>5 DEF StageBar
  <2> QED
    BY <1>1, <1>3, <1>4, <1>5, <2>2, <2>3, SameMethods DEF Contract!Begin
<1>6. CASE UNCHANGED << vz, handler >>
  <2>1. MachineBar' = MachineBar
    BY <1>6 DEF MachineBar
  <2>2. StageBar' = "refused"
    BY <1>1, <1>2, <1>4, <1>6 DEF StageBar
  <2> QED
    BY <1>1, <1>3, <1>4, <2>1, <2>2 DEF Contract!Decline
<1>7. Transient("hardStop") = "Stopping"
  BY DEF Transient
<1> QED
  BY <1>1, <1>5, <1>6, <1>7 DEF VzInvoke

(* A completion handler tells the owner what has been decided before.      *)
LEMMA RunCompletionContract ==
  ASSUME IInv, RunCompletion
  PROVE  UNCHANGED Contract!vars
<1>1. /\ queue # << >> /\ queue \in Seq(Item) /\ Tail(queue) \in Seq(Item)
      /\ Head(queue).kind \in { "ok", "err" } /\ queue' = Tail(queue)
      /\ reply' = IF Head(queue).arg = "hardStop" THEN reply ELSE Head(queue).kind
      /\ UNCHANGED << vz, handler, watch, pc, op, before, result, bus >>
  BY TailItem DEF RunCompletion, AtHead, IInv, TypeOK, hostVars
<1>2. ~ Silent(queue)
  BY <1>1, TailKeeps
<1>3. pc \in { "wait", "dropping" }
  BY <1>1, <1>2 DEF IInv, PhaseInv, TypeOK, Phase
<1>4. MachineBar' = MachineBar /\ OwnerBar' = OwnerBar
  BY <1>1 DEF MachineBar, OwnerBar
<1>5. CASE pc = "dropping"
  <2>1. Head(queue).arg = "hardStop"
    BY <1>1, <1>5, TailKeeps DEF IInv, PhaseInv
  <2>2. StageBar' = StageBar
    BY <1>1, <1>5, <2>1 DEF StageBar
  <2> QED
    BY <1>1, <1>4, <2>2 DEF Contract!vars
<1>6. CASE pc = "wait"
  <2>0. /\ op \in AsyncOp \cup { "requestStop" } /\ Only(queue, op) /\ Single(queue)
        /\ handler = "none" /\ reply = "empty"
    BY <1>2, <1>6 DEF IInv, PhaseInv
  <2>1. /\ handler = "none" /\ reply = "empty" /\ Silent(Tail(queue))
        /\ reply' = Head(queue).kind
    <3>1. Silent(Tail(queue))
      BY <1>1, <2>0, TailKeeps
    <3>2. Head(queue).arg = op
      BY <1>1, <2>0, TailKeeps
    <3> QED
      BY <1>1, <2>0, <3>1, <3>2 DEF AsyncOp
  <2>2. ~ OkPending(Tail(queue), reply) /\ ~ ErrPending(Tail(queue), reply)
    BY <2>1 DEF Silent, OkPending, ErrPending
  <2>3. /\ OkPending(queue, reply) <=> Head(queue).kind = "ok"
        /\ ErrPending(queue, reply) <=> Head(queue).kind = "err"
    BY <1>1, <2>2, TailOkPending, TailErrPending
  <2>4. /\ OkPending(queue', reply') <=> Head(queue).kind = "ok"
        /\ ErrPending(queue', reply') <=> Head(queue).kind = "err"
    BY <1>1, <2>1, SilentOkPending, SilentErrPending
  <2>5. StageBar' = StageBar
    BY <1>1, <1>6, <2>1, <2>3, <2>4 DEF StageBar
  <2> QED
    BY <1>1, <1>4, <2>5 DEF Contract!vars
<1> QED
  BY <1>3, <1>5, <1>6

LEMMA RunDelegateContract ==
  ASSUME IInv, RunDelegate
  PROVE  Contract!Report
<1>1. /\ queue # << >> /\ queue \in Seq(Item) /\ Tail(queue) \in Seq(Item)
      /\ Head(queue).kind = "delegate" /\ queue' = Tail(queue)
      /\ watch' = IF Head(queue).arg = "guestDidStop" THEN "Stopped" ELSE "Error"
      /\ UNCHANGED << vz, handler, reply, pc, op, before, result, bus >>
  BY TailItem DEF RunDelegate, AtHead, IInv, TypeOK, hostVars
<1>2. pc # "gone"
  BY <1>1 DEF IInv, PhaseInv
<1>3. /\ OkPending(queue', reply') <=> OkPending(queue, reply)
      /\ ErrPending(queue', reply') <=> ErrPending(queue, reply)
  BY <1>1, TailOkPending, TailErrPending
<1>4. StageBar' = StageBar /\ OwnerBar' = OwnerBar /\ MachineBar' = MachineBar
  BY <1>1, <1>3 DEF StageBar, OwnerBar, MachineBar
<1>5. OwnerBar # "none"
  BY <1>2 DEF OwnerBar, IInv, PhaseInv, TypeOK, Phase, AsyncOp
<1>6. /\ Head(queue).arg # "guestDidStop" => vz = "Error"
      /\ vz \in Live => op \in Publishing /\ \E j \in 1..Len(queue) : queue[j].kind = "ok"
  <2>1. 1 \in 1..Len(queue) /\ Head(queue) = queue[1]
    BY <1>1, TailItem
  <2> QED
    BY <1>1, <2>1 DEF IInv, DelegateInv, StopReports, Live
<1>7. ASSUME vz \in Live
      PROVE  StageBar = "ok" /\ OwnerBar \in Publishing
  <2>1. ~ Silent(queue) /\ OkPending(queue, reply) /\ op \in Publishing
    BY <1>6, <1>7 DEF Silent, OkPending
  <2>2. pc \in { "wait", "dropping" } /\ op # "hardStop"
    BY <1>2, <2>1 DEF IInv, PhaseInv, TypeOK, Phase, Publishing
  <2>3. pc = "wait" /\ handler = "none"
    BY <2>1, <2>2 DEF IInv, PhaseInv
  <2> QED
    BY <2>1, <2>3 DEF StageBar, OwnerBar
<1>8. MachineBar \in Live => vz \in Live
  BY DEF MachineBar, Live
<1>9. vz = "Error" => MachineBar = "Error"
  BY DEF MachineBar, Settled
<1>10. ~ (StageBar = "working" /\ OwnerBar = "save")
  <2> SUFFICES ASSUME StageBar = "working", OwnerBar = "save"
               PROVE  FALSE
    OBVIOUS
  <2>1. handler # "none"
    BY DEF StageBar
  <2>2. vz = "Saving" /\ op = "save"
    BY <2>1, HandlerIsWorking DEF OwnerBar, Transient
  <2>3. 1 \in 1..Len(queue) /\ Head(queue) = queue[1]
    BY <1>1, TailItem
  <2> QED
    BY <1>1, <2>2, <2>3 DEF IInv, DelegateInv, StopReports, Publishing
<1> QED
  BY <1>1, <1>4, <1>5, <1>6, <1>7, <1>8, <1>9, <1>10, SameMethods DEF Contract!Report

-----------------------------------------------------------------------------
(* The machine's steps.                                                    *)

(* A method ends: with a success, or with a failure and perhaps a report.  *)
LEMMA EndContract ==
  ASSUME IInv, handler # "none", handler' = "none",
         UNCHANGED << watch, reply, pc, op, before, result, bus >>,
         vz' \in Settled,
         NEW k \in { "ok", "err" },
         pc = "wait" => /\ OkPending(queue', reply) <=> k = "ok"
                        /\ ErrPending(queue', reply) <=> k = "err"
  PROVE  /\ MachineBar' = vz' /\ OwnerBar' = OwnerBar /\ StageBar = "working"
         /\ StageBar' = IF OwnerBar = "closing" THEN "done" ELSE k
         /\ Target(OwnerBar) = Target(handler)
         /\ OwnerBar = "save" <=> handler = "save"
<1>1. /\ pc \in { "wait", "dropping" } /\ StageBar = "working" /\ handler = op
      /\ pc = "wait" => OwnerBar = op /\ op \in AsyncOp \cup { "requestStop" }
                        /\ reply = "empty"
      /\ pc = "dropping" => OwnerBar = "closing" /\ op = "hardStop" /\ reply = "ran"
  BY HandlerIsWorking
<1>2. MachineBar' = vz' /\ OwnerBar' = OwnerBar
  BY <1>1 DEF MachineBar, OwnerBar
<1>3. CASE pc = "wait"
  <2>1. StageBar' = k /\ OwnerBar # "closing"
    BY <1>1, <1>3 DEF StageBar, AsyncOp
  <2> QED
    BY <1>1, <1>2, <1>3, <2>1
<1>4. CASE pc = "dropping"
  <2>1. StageBar' = "done"
    BY <1>1, <1>4 DEF StageBar
  <2>2. Target("closing") = Target("hardStop")
    BY DEF Target
  <2> QED
    BY <1>1, <1>2, <1>4, <2>1, <2>2
<1> QED
  BY <1>1, <1>3, <1>4

LEMMA FinishContract ==
  ASSUME IInv, VzFinish \/ VzFail, UNCHANGED << watch, reply, hostVars >>
  PROVE  Contract!Succeed \/ Contract!Fail
<1>1. /\ handler # "none" /\ handler' = "none" /\ queue \in Seq(Item)
      /\ UNCHANGED << watch, reply, pc, op, before, result, bus >>
  BY DEF VzFinish, VzFail, hostVars, IInv, TypeOK
<1>2. pc = "wait" => Silent(queue) /\ reply = "empty"
  BY <1>1, HandlerIsWorking
<1>3. pc = "wait" => ~ OkPending(queue, reply) /\ ~ ErrPending(queue, reply)
  BY <1>1, <1>2, SilentOkPending, SilentErrPending
<1>4. ASSUME NEW k \in { "ok", "err" }, queue' = Append(queue, Completion(handler, k))
      PROVE  pc = "wait" => /\ OkPending(queue', reply) <=> k = "ok"
                            /\ ErrPending(queue', reply) <=> k = "err"
  <2> DEFINE e == Completion(handler, k)
  <2>1. e \in Item /\ e.kind = k
    BY <1>1, OpTypes DEF IInv, TypeOK, Completion
  <2>2. queue' = Append(queue, e)
    BY <1>4
  <2> HIDE DEF e
  <2> QED
    BY <1>1, <1>3, <1>4, <2>1, <2>2, AppendOkPending, AppendErrPending
<1>5. CASE VzFinish
  <2>1. vz' = Target(handler) /\ vz' \in Settled
    BY <1>5 DEF VzFinish, Target, Settled
  <2>2. /\ MachineBar' = vz' /\ OwnerBar' = OwnerBar /\ StageBar = "working"
        /\ StageBar' = IF OwnerBar = "closing" THEN "done" ELSE "ok"
        /\ Target(OwnerBar) = Target(handler)
    BY <1>1, <1>4, <1>5, <2>1, EndContract DEF VzFinish
  <2> QED
    BY <1>1, <2>1, <2>2, SameMethods DEF Contract!Succeed
<1>6. CASE VzFail
  <2>1. /\ vz' \in Settled /\ vz' \in { "Error", "Paused" }
        /\ vz' = "Paused" => handler = "save"
    BY <1>6 DEF VzFail, Settled
  <2>2. /\ MachineBar' = vz' /\ OwnerBar' = OwnerBar /\ StageBar = "working"
        /\ StageBar' = IF OwnerBar = "closing" THEN "done" ELSE "err"
        /\ OwnerBar = "save" <=> handler = "save"
    BY <1>1, <1>4, <1>6, <2>1, EndContract DEF VzFail
  <2> QED
    BY <1>1, <2>1, <2>2 DEF Contract!Fail
<1> QED
  BY <1>5, <1>6

(* A callback that is queued changes nothing of what has been decided.     *)
LEMMA GoDownContract ==
  ASSUME IInv, pc # "gone", handler = "none", handler' = "none",
         UNCHANGED << watch, reply, pc, op, before, result, bus >>,
         NEW c \in { "guestDidStop", "didStopWithError" },
         queue' = Append(queue, Callback(c)),
         \/ vz = "Running" /\ vz' = "Stopped"
         \/ vz \in Live /\ vz' = "Error"
  PROVE  Contract!GoDown
<1> DEFINE e == Callback(c)
<1>1. e \in Item /\ e.kind = "delegate" /\ queue \in Seq(Item) /\ queue' = Append(queue, e)
  BY CallbackTypes DEF Callback, IInv, TypeOK
<1> HIDE DEF e
<1>2. /\ OkPending(queue', reply) <=> OkPending(queue, reply)
      /\ ErrPending(queue', reply) <=> ErrPending(queue, reply)
  BY <1>1, AppendOkPending, AppendErrPending
<1>3. StageBar' = StageBar /\ StageBar # "working" /\ OwnerBar' = OwnerBar
  BY <1>2 DEF StageBar, OwnerBar
<1>4. OwnerBar # "none"
  BY DEF OwnerBar, IInv, PhaseInv, TypeOK, Phase, AsyncOp
<1>5. MachineBar = vz /\ MachineBar' = vz'
  BY DEF MachineBar, Settled, Live
<1> QED
  BY <1>3, <1>4, <1>5, SameMethods DEF Contract!GoDown

LEMMA CrashContract ==
  ASSUME IInv, pc # "gone", VzCrash, UNCHANGED << watch, reply, hostVars >>
  PROVE  Contract!Fail \/ Contract!GoDown
<1> DEFINE failed == Completion(handler, "err")
           told   == Callback("didStopWithError")
<1>1. /\ CanTransitionTo(vz, "Error") /\ vz' = "Error" /\ handler' = "none"
      /\ queue \in Seq(Item)
      /\ UNCHANGED << watch, reply, pc, op, before, result, bus >>
  BY DEF VzCrash, hostVars, IInv, TypeOK
<1>2. told \in Item /\ told.kind = "delegate"
  BY CallbackTypes DEF Callback
<1>3. CASE handler = "none"
  <2>1. vz \in Live
    BY <1>1, <1>3 DEF IInv, MachineInv, Settled, Live, CanTransitionTo, Transitions
  <2>2. queue' = Append(queue, told)
    BY <1>3 DEF VzCrash
  <2> QED
    BY <1>1, <1>3, <2>1, <2>2, GoDownContract
<1>4. CASE handler # "none"
  <2>1. failed \in Item /\ failed.kind = "err"
    BY <1>4, OpTypes DEF IInv, TypeOK, Completion
  <2>2. pc = "wait" => ~ OkPending(queue, reply) /\ ~ ErrPending(queue, reply)
    BY <1>1, <1>4, HandlerIsWorking, SilentOkPending, SilentErrPending
  <2>3. \/ queue' = Append(Append(queue, failed), told)
        \/ queue' = Append(Append(queue, told), failed)
    BY <1>4 DEF VzCrash
  <2> HIDE DEF failed, told
  <2>4. Append(queue, failed) \in Seq(Item) /\ Append(queue, told) \in Seq(Item)
    BY <1>1, <1>2, <2>1, AppendItem
  <2>5. pc = "wait" => ~ OkPending(queue', reply) /\ ErrPending(queue', reply)
    <3>1. CASE queue' = Append(Append(queue, failed), told)
      <4>1. pc = "wait" => /\ ~ OkPending(Append(queue, failed), reply)
                           /\ ErrPending(Append(queue, failed), reply)
        BY <1>1, <2>1, <2>2, AppendOkPending, AppendErrPending
      <4> QED
        BY <3>1, <4>1, <1>2, <2>4, AppendOkPending, AppendErrPending
    <3>2. CASE queue' = Append(Append(queue, told), failed)
      <4>1. pc = "wait" => ~ OkPending(Append(queue, told), reply)
        BY <1>1, <1>2, <2>2, AppendOkPending
      <4> QED
        BY <3>2, <4>1, <2>1, <2>4, AppendOkPending, AppendErrPending
    <3> QED
      BY <2>3, <3>1, <3>2
  <2>6. vz' \in Settled
    BY <1>1 DEF Settled
  <2>7. /\ MachineBar' = vz' /\ OwnerBar' = OwnerBar /\ StageBar = "working"
        /\ StageBar' = IF OwnerBar = "closing" THEN "done" ELSE "err"
    BY <1>1, <1>4, <2>5, <2>6, EndContract
  <2> QED
    BY <1>1, <2>7 DEF Contract!Fail
<1> QED
  BY <1>3, <1>4

LEMMA MachineContract ==
  ASSUME IInv, Machine
  PROVE  Contract!Succeed \/ Contract!Fail \/ Contract!GoDown
<1>1. pc # "gone" /\ VzStep /\ UNCHANGED << watch, reply, hostVars >>
  BY DEF Machine
<1>2. CASE GuestStop
  <2>1. handler = "none"
    BY <1>1, <1>2, HandlerIsWorking DEF GuestStop, Transient
  <2> QED
    BY <1>1, <1>2, <2>1, GoDownContract DEF GuestStop, hostVars
<1> QED
  BY <1>1, <1>2, FinishContract, CrashContract DEF VzStep

-----------------------------------------------------------------------------
(* Every step of the handle, the queue and the machine is one the contract *)
(* has, or changes nothing of what it speaks of.                           *)
LEMMA StepImplements ==
  ASSUME IInv, [Next]_vars
  PROVE  [Contract!Next]_Contract!vars
<1> USE DEF Contract!Next
<1>1. CASE Create
  BY <1>1, CreateContract
<1>2. CASE \E o \in AsyncOp \cup { "requestStop" } : Call(o) \/ RejectPath(o)
  BY <1>2, CallContract, RejectPathContract
<1>3. CASE Return
  BY <1>3, ReturnContract, PublishContract, DropContract DEF Return
<1>4. CASE DropQuietly \/ DropForcing
  BY <1>4, DropContract
<1>5. CASE RunQueue
  BY <1>5, RunOpContract, AnswerContract, RunHardStopContract, RunCompletionContract,
     RunDelegateContract DEF RunQueue
<1>6. CASE CancelBlock
  BY <1>6, AnswerContract
<1>7. CASE Machine
  BY <1>7, MachineContract
<1>8. CASE AnnounceIp \/ UNCHANGED vars
  BY <1>8
     DEF AnnounceIp, vars, Contract!vars, MachineBar, OwnerBar, StageBar, OkPending, ErrPending
<1> QED
  BY <1>1, <1>2, <1>3, <1>4, <1>5, <1>6, <1>7, <1>8 DEF Next

LEMMA InitImplements == Init => Contract!Init
  BY DEF Init, Contract!Init, MachineBar, OwnerBar, StageBar, Settled

(* The handle implements its contract.                                     *)
THEOREM Refinement == Spec => ImplementsContract
<1>1. IInv /\ [Next]_vars => [Contract!Next]_Contract!vars
  BY StepImplements
<1> QED
  BY <1>1, InitImplements, Invariance, PTL DEF Spec, ImplementsContract, Contract!Spec

-----------------------------------------------------------------------------
(* The contract keeps its promises, one step at a time.                    *)

LEMMA CallsAreMethods ==
  Contract!Calls = { "start", "stop", "pause", "resume", "save", "restore", "requestStop" }
  BY DEF Contract!Calls, Contract!AsyncOp

LEMMA InitPromises == Contract!Init => Contract!PromiseInv
  BY CallsAreMethods
     DEF Contract!Init, Contract!PromiseInv, Contract!Promises, Contract!ReadyIsTrue,
         Contract!NoneRunsOn, Contract!PausedIsSpared, Contract!SuccessIsTrue,
         Contract!LiveState

(* The owner's steps: a call or Drop begins or ends.                       *)
LEMMA OwnerKeepsPromises ==
  ASSUME Contract!PromiseInv,
         \/ Contract!Open \/ Contract!Reject \/ Contract!Return
         \/ Contract!CloseQuietly \/ Contract!CloseForcing \/ Contract!Close
         \/ \E o \in Contract!Calls : Contract!Invoke(o)
  PROVE  Contract!PromiseInv'
<1> USE CallsAreMethods
    DEF Contract!PromiseInv, Contract!Promises, Contract!ReadyIsTrue, Contract!NoneRunsOn,
        Contract!PausedIsSpared, Contract!SuccessIsTrue, Contract!LiveState,
        Contract!Publishing, Contract!Target
<1>1. CASE Contract!Open
  BY <1>1 DEF Contract!Open
<1>2. CASE Contract!Reject
  BY <1>2 DEF Contract!Reject
<1>3. CASE Contract!Return
  BY <1>3 DEF Contract!Return
<1>4. CASE Contract!CloseQuietly
  BY <1>4 DEF Contract!CloseQuietly
<1>5. CASE Contract!CloseForcing
  BY <1>5 DEF Contract!CloseForcing
<1>6. CASE Contract!Close
  BY <1>6 DEF Contract!Close
<1>7. ASSUME NEW o \in Contract!Calls, Contract!Invoke(o)
      PROVE  Contract!PromiseInv'
  BY <1>7 DEF Contract!Invoke
<1> QED
  BY <1>1, <1>2, <1>3, <1>4, <1>5, <1>6, <1>7

(* The machine's steps, and what is decided and reported of them.          *)
LEMMA MachineKeepsPromises ==
  ASSUME Contract!PromiseInv,
         \/ Contract!Begin \/ Contract!Succeed \/ Contract!Acknowledge
         \/ Contract!Decline \/ Contract!Fail \/ Contract!GoDown
         \/ Contract!Report \/ Contract!Publish
  PROVE  Contract!PromiseInv'
<1> USE CallsAreMethods
    DEF Contract!PromiseInv, Contract!Promises, Contract!ReadyIsTrue, Contract!NoneRunsOn,
        Contract!PausedIsSpared, Contract!SuccessIsTrue, Contract!LiveState,
        Contract!Publishing, Contract!Target
<1>1. CASE Contract!Begin
  <2>1. Contract!CanTransitionTo(MachineBar, Contract!Transient(OwnerBar))
        /\ OwnerBar = "save" => MachineBar = "Paused"
    BY <1>1, SameMethods DEF Contract!Begin, CanTransitionTo, Transitions, Transient, State
  <2> QED
    BY <1>1, <2>1 DEF Contract!Begin, Contract!AsyncOp
<1>2. CASE Contract!Succeed
  BY <1>2 DEF Contract!Succeed
<1>3. CASE Contract!Acknowledge
  BY <1>3 DEF Contract!Acknowledge
<1>4. CASE Contract!Decline
  BY <1>4 DEF Contract!Decline
<1>5. CASE Contract!Fail
  BY <1>5 DEF Contract!Fail
<1>6. CASE Contract!GoDown
  BY <1>6 DEF Contract!GoDown
<1>7. CASE Contract!Report
  BY <1>7 DEF Contract!Report
<1>8. CASE Contract!Publish
  BY <1>8 DEF Contract!Publish
<1> QED
  BY <1>1, <1>2, <1>3, <1>4, <1>5, <1>6, <1>7, <1>8

(* Whatever implements the contract keeps its promises, knowing nothing of *)
(* how it does so.                                                         *)
THEOREM ContractKeepsPromises == ImplementsContract => []Contract!Promises
<1>1. Contract!PromiseInv /\ [Contract!Next]_Contract!vars => Contract!PromiseInv'
  <2> SUFFICES ASSUME Contract!PromiseInv, [Contract!Next]_Contract!vars
               PROVE  Contract!PromiseInv'
    OBVIOUS
  <2>1. CASE Contract!Next
    BY <2>1, OwnerKeepsPromises, MachineKeepsPromises DEF Contract!Next
  <2>2. CASE UNCHANGED Contract!vars
    BY <2>2
       DEF Contract!vars, Contract!PromiseInv, Contract!Promises, Contract!ReadyIsTrue,
           Contract!NoneRunsOn, Contract!PausedIsSpared, Contract!SuccessIsTrue
  <2> QED
    BY <2>1, <2>2
<1>2. Contract!PromiseInv => Contract!Promises
  BY DEF Contract!PromiseInv
<1> QED
  BY <1>1, <1>2, InitPromises, PTL DEF ImplementsContract, Contract!Spec

(* So the handle does, over any framework (vm.rs as a whole, delegate.rs). *)
THEOREM PromisesKept == Spec => []Contract!Promises
  BY Refinement, ContractKeepsPromises
=============================================================================

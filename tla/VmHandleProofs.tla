--------------------------- MODULE VmHandleProofs ---------------------------
(***************************************************************************)
(* Proofs about VmHandle, for every framework it may run on: the invariant *)
(* IInv of VmHandleInv is inductive, and what follows from it.             *)
(***************************************************************************)
EXTENDS VmHandleInv, SequenceTheorems, TLAPS

-----------------------------------------------------------------------------
(* The queue grows at its end and is served at its head.                   *)

LEMMA AppendItem ==
  ASSUME NEW q \in Seq(Item), NEW e \in Item
  PROVE  /\ Append(q, e) \in Seq(Item)
         /\ Len(Append(q, e)) = Len(q) + 1
         /\ Len(q) \in Nat
         /\ \A i \in 1..Len(q) : Append(q, e)[i] = q[i]
         /\ Append(q, e)[Len(q) + 1] = e
  BY AppendProperties, LenProperties

LEMMA TailItem ==
  ASSUME NEW q \in Seq(Item), q # << >>
  PROVE  /\ Tail(q) \in Seq(Item)
         /\ Len(q) \in Nat \ { 0 }
         /\ Len(Tail(q)) = Len(q) - 1
         /\ Head(q) = q[1] /\ Head(q) \in Item
         /\ \A i \in 1..Len(Tail(q)) : Tail(q)[i] = q[i + 1]
  BY HeadTailProperties, EmptySeq, LenProperties

(* What an appended item leaves true of the queue.                         *)
LEMMA AppendKeeps ==
  ASSUME NEW q \in Seq(Item), NEW e \in Item, NEW o, NEW s
  PROVE  /\ Silent(q) /\ e.kind = "delegate" => Silent(Append(q, e))
         /\ Only(q, o) /\ (e.kind = "delegate" \/ e.arg = o)
              => Only(Append(q, e), o)
         /\ Silent(q) => Single(Append(q, e))
         /\ Single(q) /\ e.kind = "delegate" => Single(Append(q, e))
  BY AppendItem DEF Silent, Only, Single

LEMMA AppendSilent ==
  ASSUME NEW q \in Seq(Item), NEW e \in Item, Silent(Append(q, e))
  PROVE  Silent(q) /\ e.kind = "delegate"
  BY AppendItem DEF Silent

LEMMA AppendStopReports ==
  ASSUME NEW q \in Seq(Item), NEW e \in Item, NEW o, NEW s,
         StopReports(q, s, o), e.kind # "delegate"
  PROVE  StopReports(Append(q, e), s, o)
  BY AppendItem DEF StopReports

LEMMA AppendOkPending ==
  ASSUME NEW q \in Seq(Item), NEW e \in Item, NEW r
  PROVE  OkPending(Append(q, e), r) <=> OkPending(q, r) \/ e.kind = "ok"
  BY AppendItem DEF OkPending

(* What the queue keeps when its head is taken.                            *)
LEMMA TailKeeps ==
  ASSUME NEW q \in Seq(Item), q # << >>, NEW o
  PROVE  /\ Silent(q) => Silent(Tail(q)) /\ Head(q).kind = "delegate"
         /\ Only(q, o) => Only(Tail(q), o)
         /\ Single(q) => Single(Tail(q))
         /\ Single(q) /\ Head(q).kind # "delegate" => Silent(Tail(q))
         /\ Only(q, o) => Head(q).kind = "delegate" \/ Head(q).arg = o
  BY TailItem DEF Silent, Only, Single

(* The blocks of the queue as it grows and is served.                      *)
LEMMA AppendBlocks ==
  ASSUME NEW q \in Seq(Item), NEW e \in Item
  PROVE  /\ Served(q) => OneBlock(Append(q, e))
         /\ Silent(q) => Served(q)
         /\ Served(q) /\ e.kind # "block" => Served(Append(q, e))
         /\ OneBlock(q) /\ e.kind # "block" => OneBlock(Append(q, e))
  BY AppendItem DEF Served, OneBlock, Silent

LEMMA TailBlocks ==
  ASSUME NEW q \in Seq(Item), q # << >>, OneBlock(q)
  PROVE  /\ OneBlock(Tail(q))
         /\ Served(q) \/ Head(q).kind = "block" => Served(Tail(q))
  BY TailItem DEF Served, OneBlock

LEMMA TailSilent ==
  ASSUME NEW q \in Seq(Item), q # << >>, Silent(Tail(q)), Head(q).kind = "delegate"
  PROVE  Silent(q)
<1> SUFFICES ASSUME NEW i \in 1..Len(q) PROVE q[i].kind = "delegate"
  BY DEF Silent
<1>1. CASE i = 1
  BY <1>1, TailItem
<1>2. CASE i # 1
  <2>1. i - 1 \in 1..Len(Tail(q)) /\ Tail(q)[i - 1] = q[i]
    BY <1>2, TailItem
  <2> QED
    BY <2>1 DEF Silent
<1> QED
  BY <1>1, <1>2

LEMMA TailStopReports ==
  ASSUME NEW q \in Seq(Item), q # << >>, NEW o, NEW s, StopReports(q, s, o)
  PROVE  StopReports(Tail(q), s, o)
<1>1. SUFFICES ASSUME NEW i \in 1..Len(Tail(q)), Tail(q)[i].kind = "delegate",
                      Tail(q)[i].arg = "guestDidStop",
                      s \in Live \cup { "Pausing", "Resuming", "Saving" }
               PROVE  /\ o \in Publishing
                      /\ \E j \in 1..Len(Tail(q)) : i < j /\ Tail(q)[j].kind = "ok"
  BY TailItem DEF StopReports
<1>2. /\ i + 1 \in 1..Len(q)
      /\ q[i + 1].kind = "delegate" /\ q[i + 1].arg = "guestDidStop"
  BY <1>1, TailItem
<1>3. o \in Publishing
  BY <1>1, <1>2 DEF StopReports
<1>4. PICK j \in 1..Len(q) : i + 1 < j /\ q[j].kind = "ok"
  BY <1>1, <1>2 DEF StopReports
<1>5. j - 1 \in 1..Len(Tail(q)) /\ i < j - 1 /\ Tail(q)[j - 1] = q[j]
  BY <1>4, TailItem
<1> QED
  BY <1>3, <1>4, <1>5

LEMMA TailOkPending ==
  ASSUME NEW q \in Seq(Item), q # << >>, NEW r
  PROVE  OkPending(q, r) <=> OkPending(Tail(q), r) \/ Head(q).kind = "ok"
  BY TailItem DEF OkPending

LEMMA SilentOkPending ==
  ASSUME NEW q \in Seq(Item), NEW r, Silent(q)
  PROVE  OkPending(q, r) <=> r = "ok"
  BY DEF OkPending, Silent

(* Appending a callback needs the state it reports.                        *)
LEMMA AppendStopReport ==
  ASSUME NEW q \in Seq(Item), NEW e \in Item, NEW o, NEW s,
         s \notin Live \cup { "Pausing", "Resuming", "Saving" },
         \A i \in 1..Len(q) : q[i].kind = "delegate" =>
           q[i].arg = "guestDidStop" \/ (q[i].arg = "didStopWithError" /\ s = "Error"),
         e.kind = "delegate" => e.arg = "guestDidStop" \/ (e.arg = "didStopWithError" /\ s = "Error")
  PROVE  StopReports(Append(q, e), s, o)
  BY AppendItem DEF StopReports

-----------------------------------------------------------------------------
(* Names and items the actions build have their types.                     *)
LEMMA OpTypes ==
  ASSUME NEW o \in Op
  PROVE  /\ Transient(o) \in State /\ Target(o) \in State
         /\ Block(o) \in Item
         /\ Completion(o, "ok") \in Item /\ Completion(o, "err") \in Item
  BY DEF Op, AsyncOp, Transient, Target, State, Block, Completion, Item

LEMMA CallbackTypes ==
  /\ Callback("guestDidStop") \in Item
  /\ Callback("didStopWithError") \in Item
  BY DEF Callback, Item

LEMMA EventTypes ==
  /\ \A s, t \in State : Change(s, t) \in Event
  /\ \A o : NoticeOf(o) \in Event
  /\ Notice("IpAssigned") \in Event /\ Notice("none") \in Event
<1>1. \A s, t \in State : Change(s, t) \in Event
  BY DEF Event
<1>2. \A o : NoticeOf(o) \in Event
  BY DEF Event, NoticeOf
<1>3. Notice("IpAssigned") \in Event /\ Notice("none") \in Event
  BY DEF Event
<1> QED
  BY <1>1, <1>2, <1>3

LEMMA InvokeTypes ==
  ASSUME TypeOK, queue # << >>, NEW o \in Op, VzInvoke(o, Tail(queue))
  PROVE  vz' \in State /\ handler' \in Op \cup { "none" } /\ queue' \in Seq(Item)
  BY OpTypes, TailItem, AppendItem DEF TypeOK, VzInvoke

LEMMA VzStepTypes ==
  ASSUME TypeOK, VzStep
  PROVE  vz' \in State /\ handler' \in Op \cup { "none" } /\ queue' \in Seq(Item)
<1>1. CASE VzFinish
  BY <1>1, OpTypes, AppendItem DEF TypeOK, VzFinish
<1>2. CASE VzFail
  BY <1>2, OpTypes, AppendItem DEF TypeOK, VzFail, State
<1>3. CASE GuestStop
  BY <1>3, CallbackTypes, AppendItem DEF TypeOK, GuestStop, State
<1>4. CASE VzCrash
  <2> DEFINE told == Callback("didStopWithError")
             failed == Completion(handler, "err")
  <2>1. vz' \in State /\ handler' \in Op \cup { "none" }
    BY <1>4 DEF VzCrash, State
  <2>2. Append(queue, told) \in Seq(Item)
    BY CallbackTypes, AppendItem DEF TypeOK
  <2>3. ASSUME handler # "none"
        PROVE  /\ Append(Append(queue, failed), told) \in Seq(Item)
               /\ Append(Append(queue, told), failed) \in Seq(Item)
    BY <2>2, <2>3, OpTypes, CallbackTypes, AppendItem DEF TypeOK
  <2> QED
    BY <1>4, <2>1, <2>2, <2>3 DEF VzCrash
<1> QED
  BY <1>1, <1>2, <1>3, <1>4 DEF VzStep

(* Every step keeps the types, given what IInv says of emit and notify.    *)
LEMMA TypeStep ==
  ASSUME TypeOK, PhaseInv, [Next]_vars
  PROVE  TypeOK'
<1> USE DEF TypeOK
<1>1. CASE Create
  BY <1>1, EmptySeq, EventTypes DEF Create, State, Phase
<1>2. ASSUME NEW o \in AsyncOp \cup { "requestStop" }, Call(o)
      PROVE  TypeOK'
  BY <1>2, OpTypes, AppendItem DEF Call, Phase, Op
<1>3. ASSUME NEW o \in AsyncOp \cup { "requestStop" }, RejectPath(o)
      PROVE  TypeOK'
  BY <1>3 DEF RejectPath, Op
<1>4. CASE ReturnErr
  BY <1>4 DEF ReturnErr, Phase
<1>5. CASE Publish
  BY <1>5, OpTypes DEF Publish, Phase, Publishing, Op, AsyncOp
<1>6. CASE EmitChange
  BY <1>6, OpTypes, EventTypes DEF EmitChange, Phase, PhaseInv, Publishing, Op, AsyncOp
<1>7. CASE EmitNotice
  BY <1>7, EventTypes DEF EmitNotice, Phase
<1>8. CASE DropRelease \/ DropQuietly
  BY <1>8, EmptySeq DEF DropRelease, DropQuietly, Release, Phase
<1>9. CASE DropForcing
  BY <1>9, OpTypes, AppendItem DEF DropForcing, Phase, Op
<1>10. CASE RunOp
  BY <1>10, InvokeTypes DEF RunOp, AtHead, hostVars, Op
<1>11. CASE RunHardStop
  BY <1>11, InvokeTypes DEF RunHardStop, AtHead, hostVars, Op
<1>12. CASE RunRequestStop \/ CancelBlock
  BY <1>12, TailItem DEF RunRequestStop, CancelBlock, AtHead, hostVars
<1>13. CASE RunCompletion
  BY <1>13, TailItem DEF RunCompletion, AtHead, hostVars
<1>14. CASE RunDelegate
  BY <1>14, TailItem DEF RunDelegate, AtHead, hostVars, State
<1>15. CASE Machine
  BY <1>15, VzStepTypes DEF Machine, hostVars
<1>16. CASE AnnounceIp
  BY <1>16, EventTypes DEF AnnounceIp
<1>17. CASE UNCHANGED vars
  BY <1>17 DEF vars
<1> QED
  BY <1>1, <1>2, <1>3, <1>4, <1>5, <1>6, <1>7, <1>8, <1>9, <1>10, <1>11,
     <1>12, <1>13, <1>14, <1>15, <1>16, <1>17 DEF Next, Return, RunQueue

-----------------------------------------------------------------------------
(* The owner's steps preserve the invariant.                               *)

LEMMA CreateStep ==
  ASSUME IInv, Create
  PROVE  MachineInv' /\ PhaseInv' /\ DelegateInv' /\ WatchInv' /\ OkInv'
         /\ NoRunningOrphan'
  BY DEF Create, MachineInv, Settled, PhaseInv, Silent, DelegateInv, StopReports,
         WatchInv, Live, OkInv, NoRunningOrphan

LEMMA CallStep ==
  ASSUME IInv, NEW o \in AsyncOp \cup { "requestStop" }, Call(o)
  PROVE  MachineInv' /\ PhaseInv' /\ DelegateInv' /\ WatchInv' /\ OkInv'
         /\ NoRunningOrphan'
<1> USE DEF IInv
<1>0. o \in Op /\ Block(o) \in Item /\ Block(o).kind = "block" /\ Block(o).arg = o
  BY OpTypes DEF Op, Block
<1>1. MachineInv' /\ NoRunningOrphan'
  BY DEF Call, MachineInv, NoRunningOrphan
<1>2. PhaseInv'
  <2>1. Silent(queue) => Only(queue, o)
    BY DEF Silent, Only
  <2>2. Silent(queue) /\ handler = "none"
    BY DEF Call, PhaseInv
  <2>3. Only(queue', o) /\ Single(queue')
    BY <1>0, <2>1, <2>2, AppendKeeps DEF Call, TypeOK
  <2>4. ~ Silent(Append(queue, Block(o)))
    BY <1>0, AppendSilent DEF TypeOK
  <2> QED
    BY <2>2, <2>3, <2>4 DEF Call, PhaseInv, TypeOK
<1>3. ~ OkPending(queue', reply')
  BY <1>0, AppendOkPending, SilentOkPending DEF Call, PhaseInv, TypeOK
<1>4. StopReports(queue, vz, o)
  BY DEF Call, PhaseInv, Silent, DelegateInv, StopReports
<1>5. DelegateInv'
  BY <1>0, <1>4, AppendStopReports DEF Call, DelegateInv, TypeOK
<1>6. WatchInv'
  BY <1>3 DEF Call, WatchInv
<1>7. OkInv'
  BY <1>3 DEF OkInv
<1> QED
  BY <1>1, <1>2, <1>5, <1>6, <1>7

LEMMA RejectPathStep ==
  ASSUME IInv, NEW o \in AsyncOp \cup { "requestStop" }, RejectPath(o)
  PROVE  MachineInv' /\ PhaseInv' /\ DelegateInv' /\ WatchInv' /\ OkInv'
         /\ NoRunningOrphan'
<1>1. DelegateInv'
  BY DEF RejectPath, IInv, PhaseInv, Silent, DelegateInv, StopReports
<1> QED
  BY <1>1 DEF RejectPath, IInv, MachineInv, PhaseInv, WatchInv, OkInv, NoRunningOrphan

LEMMA ReturnErrStep ==
  ASSUME IInv, ReturnErr
  PROVE  MachineInv' /\ PhaseInv' /\ DelegateInv' /\ WatchInv' /\ OkInv'
         /\ NoRunningOrphan'
<1>1. Silent(queue) /\ handler = "none"
  BY DEF ReturnErr, IInv, PhaseInv
<1>2. ~ OkPending(queue, reply)
  BY <1>1, SilentOkPending DEF ReturnErr, IInv, TypeOK
<1> QED
  BY <1>1, <1>2 DEF ReturnErr, IInv, MachineInv, PhaseInv, DelegateInv, WatchInv,
                    OkInv, NoRunningOrphan

LEMMA PublishStep ==
  ASSUME IInv, Publish
  PROVE  MachineInv' /\ PhaseInv' /\ DelegateInv' /\ WatchInv' /\ OkInv'
         /\ NoRunningOrphan'
<1>1. Silent(queue) /\ handler = "none"
  BY DEF Publish, IInv, PhaseInv
<1>2. vz \in { Target(op), "Stopped", "Error" }
  BY DEF Publish, IInv, OkInv, OkPending
<1>3. Target(op) \in Settled
  BY DEF Publish, Publishing, Target, Settled
<1>4. WatchInv'
  BY <1>2, <1>3 DEF Publish, WatchInv, Live, Target
<1> QED
  BY <1>1, <1>4 DEF Publish, IInv, MachineInv, PhaseInv, Publishing, DelegateInv,
                    OkInv, NoRunningOrphan

LEMMA EmitStep ==
  ASSUME IInv, EmitChange \/ EmitNotice \/ AnnounceIp
  PROVE  MachineInv' /\ PhaseInv' /\ DelegateInv' /\ WatchInv' /\ OkInv'
         /\ NoRunningOrphan'
<1>1. Silent(queue) /\ handler = "none"
  BY DEF EmitChange, EmitNotice, AnnounceIp, IInv, PhaseInv
<1> QED
  BY <1>1 DEF EmitChange, EmitNotice, AnnounceIp, IInv, MachineInv, PhaseInv, DelegateInv,
              WatchInv, OkInv, NoRunningOrphan

LEMMA DropStep ==
  ASSUME IInv, DropQuietly \/ DropForcing \/ DropRelease
  PROVE  MachineInv' /\ PhaseInv' /\ DelegateInv' /\ WatchInv' /\ OkInv'
         /\ NoRunningOrphan'
<1> USE DEF IInv
<1>1. CASE DropQuietly
  BY <1>1 DEF DropQuietly, Release, NeedsForce, IsActive, Settled, Live, MachineInv,
              PhaseInv, DelegateInv, StopReports, WatchInv, OkInv, NoRunningOrphan
<1>2. CASE DropRelease
  BY <1>2 DEF DropRelease, Release, IsActive, MachineInv, PhaseInv, DelegateInv,
              StopReports, WatchInv, OkInv, NoRunningOrphan
<1>3. CASE DropForcing
  <2>0. /\ Block("hardStop") \in Item
        /\ Block("hardStop").kind = "block" /\ Block("hardStop").arg = "hardStop"
    BY OpTypes DEF Op, Block
  <2>1. Silent(queue) /\ handler = "none"
    BY <1>3 DEF DropForcing, PhaseInv
  <2>2. vz \in { "Running", "Stopped", "Error" }
    BY <1>3, <2>1 DEF DropForcing, NeedsForce, MachineInv, Settled, WatchInv, Live
  <2>3. Only(queue', "hardStop")
    BY <1>3, <2>0, <2>1, AppendKeeps DEF DropForcing, Only, Silent, TypeOK
  <2>4. StopReports(queue, vz, "hardStop")
    BY <2>1 DEF Silent, DelegateInv, StopReports
  <2>5. DelegateInv'
    BY <1>3, <2>0, <2>4, AppendStopReports DEF DropForcing, DelegateInv, TypeOK
  <2> QED
    BY <1>3, <2>1, <2>2, <2>3, <2>5
       DEF DropForcing, MachineInv, PhaseInv, WatchInv, OkInv, NoRunningOrphan
<1> QED
  BY <1>1, <1>2, <1>3

-----------------------------------------------------------------------------
(* The queue's steps preserve the invariant.                               *)

(* A block that calls a method of the machine: the method is taken up, or  *)
(* refused with an error queued behind what is there.                      *)
LEMMA RunOpStep ==
  ASSUME IInv, RunOp
  PROVE  MachineInv' /\ PhaseInv' /\ DelegateInv' /\ WatchInv' /\ OkInv'
         /\ NoRunningOrphan'
<1> DEFINE rest == Tail(queue)
<1>1. /\ queue # << >> /\ queue \in Seq(Item) /\ rest \in Seq(Item)
      /\ Head(queue).kind = "block" /\ Head(queue).arg \in AsyncOp
      /\ VzInvoke(Head(queue).arg, rest)
      /\ UNCHANGED << watch, reply, pc, op, before, result, bus >>
  BY TailItem DEF RunOp, AtHead, IInv, TypeOK, hostVars
<1>2. /\ pc = "wait" /\ op = Head(queue).arg /\ op \in AsyncOp
      /\ Silent(rest) /\ handler = "none" /\ reply = "empty"
  BY <1>1, TailKeeps DEF IInv, PhaseInv, TypeOK, Phase, AsyncOp
<1>3. ~ OkPending(queue, reply) /\ ~ OkPending(rest, reply)
  BY <1>1, <1>2, TailOkPending, SilentOkPending
<1>4. StopReports(rest, vz, op) /\ vz \in Settled
  BY <1>1, <1>2, TailStopReports DEF IInv, DelegateInv, MachineInv
<1>5. vz \in Live => watch = vz /\ \A i \in 1..Len(rest) : rest[i].kind # "delegate"
  BY <1>2, <1>3, <1>4 DEF IInv, WatchInv, StopReports, OkPending, Live
<1>6. CASE /\ CanTransitionTo(vz, Transient(op))
           /\ vz' = Transient(op) /\ handler' = op /\ queue' = rest
  <2>1. /\ vz' \in { "Starting", "Stopping", "Pausing", "Resuming", "Saving", "Restoring" }
        /\ vz' \in { "Pausing", "Resuming", "Saving" } => vz \in Live
        /\ vz' = "Saving" => vz = "Paused"
        /\ vz # "Error"
    BY <1>2, <1>6 DEF AsyncOp, Transient, CanTransitionTo, Transitions, State, Live
  <2>2. DelegateInv'
    BY <1>1, <1>2, <1>4, <1>5, <1>6, <2>1 DEF DelegateInv, StopReports, Live, Settled
  <2>3. PhaseInv'
    <3>1. Only(rest, op) /\ Single(rest) /\ op # "none"
      BY <1>2 DEF Only, Single, Silent, AsyncOp
    <3> QED
      BY <1>1, <1>2, <1>6, <3>1 DEF PhaseInv, IInv
  <2> QED
    BY <1>1, <1>2, <1>3, <1>5, <1>6, <2>1, <2>2, <2>3
       DEF MachineInv, WatchInv, IInv, Live, OkInv, NoRunningOrphan, AsyncOp
<1>7. CASE queue' = Append(rest, Completion(op, "err")) /\ UNCHANGED << vz, handler >>
  <2> DEFINE e == Completion(op, "err")
  <2>1. e \in Item /\ e.kind = "err" /\ e.arg = op
    BY <1>2, OpTypes DEF Op, Completion
  <2>2. Only(queue', op) /\ Single(queue')
    BY <1>1, <1>2, <1>7, <2>1, AppendKeeps DEF Only, Silent
  <2>3. DelegateInv'
    BY <1>1, <1>4, <1>7, <2>1, AppendStopReports DEF DelegateInv
  <2>4. ~ OkPending(Append(rest, e), reply)
    <3> HIDE DEF rest, e
    <3> QED
      BY <1>1, <1>3, <2>1, AppendOkPending
  <2>5. WatchInv' /\ OkInv'
    BY <1>1, <1>2, <1>3, <1>7, <2>4 DEF IInv, WatchInv, OkInv
  <2>6. ~ Silent(Append(rest, e))
    BY <1>1, <2>1, AppendSilent
  <2> QED
    BY <1>1, <1>2, <1>7, <2>2, <2>3, <2>5, <2>6
       DEF IInv, MachineInv, PhaseInv, NoRunningOrphan
<1> QED
  BY <1>1, <1>2, <1>6, <1>7 DEF VzInvoke

(* The block of Drop finds a machine that is not paused.                   *)
LEMMA RunHardStopStep ==
  ASSUME IInv, RunHardStop
  PROVE  MachineInv' /\ PhaseInv' /\ DelegateInv' /\ WatchInv' /\ OkInv'
         /\ NoRunningOrphan'
<1> DEFINE rest == Tail(queue)
           e    == Completion("hardStop", "err")
<1>1. /\ queue # << >> /\ queue \in Seq(Item) /\ rest \in Seq(Item)
      /\ Head(queue).kind = "block" /\ Head(queue).arg = "hardStop"
      /\ VzInvoke("hardStop", rest)
      /\ reply' = IF handler' = "hardStop" THEN "ran" ELSE "refused"
      /\ UNCHANGED << watch, pc, op, before, result, bus >>
  BY TailItem DEF RunHardStop, AtHead, IInv, TypeOK, hostVars
<1>2. /\ pc = "dropping" /\ op = "hardStop"
      /\ vz \in { "Running", "Stopping", "Stopped", "Error" }
      /\ handler \in { "none", "hardStop" }
  BY <1>1, TailKeeps DEF IInv, PhaseInv, TypeOK, Phase, AsyncOp
<1>3. Only(rest, "hardStop") /\ StopReports(rest, vz, op)
  BY <1>1, <1>2, TailKeeps, TailStopReports DEF IInv, PhaseInv, DelegateInv
<1>4. e \in Item /\ e.kind = "err" /\ e.arg = "hardStop"
  BY OpTypes DEF Op, Completion
<1>5. CASE vz' = "Stopping" /\ handler' = "hardStop" /\ queue' = rest /\ vz = "Running"
  <2>1. DelegateInv'
    BY <1>1, <1>2, <1>3, <1>5 DEF DelegateInv, StopReports, Live
  <2> QED
    BY <1>1, <1>2, <1>3, <1>5, <2>1
       DEF IInv, MachineInv, Transient, PhaseInv, WatchInv, Live, OkInv, NoRunningOrphan
<1>6. CASE queue' = Append(rest, e) /\ UNCHANGED << vz, handler >>
  <2>1. Only(queue', "hardStop")
    BY <1>1, <1>3, <1>4, <1>6, AppendKeeps
  <2>2. DelegateInv'
    BY <1>1, <1>3, <1>4, <1>6, AppendStopReports DEF DelegateInv
  <2>3. /\ reply' = "ran" => handler = "hardStop" /\ vz = "Stopping"
        /\ reply' # "ran" => handler = "none" /\ vz # "Stopping"
    BY <1>1, <1>2, <1>6 DEF IInv, MachineInv, Transient, Settled
  <2>4. PhaseInv'
    BY <1>1, <1>2, <1>6, <2>1, <2>3 DEF PhaseInv
  <2> QED
    BY <1>1, <1>2, <1>6, <2>2, <2>4
       DEF IInv, MachineInv, WatchInv, OkInv, NoRunningOrphan
<1>7. /\ CanTransitionTo(vz, Transient("hardStop")) => vz = "Running"
      /\ Transient("hardStop") = "Stopping"
  BY <1>2 DEF CanTransitionTo, Transitions, Transient, State
<1> QED
  BY <1>1, <1>5, <1>6, <1>7 DEF VzInvoke

(* A block that answers at once, and one that is discarded.                *)
LEMMA RunAnswerStep ==
  ASSUME IInv, RunRequestStop \/ CancelBlock
  PROVE  MachineInv' /\ PhaseInv' /\ DelegateInv' /\ WatchInv' /\ OkInv'
         /\ NoRunningOrphan'
<1> DEFINE rest == Tail(queue)
<1>1. /\ queue # << >> /\ queue \in Seq(Item) /\ rest \in Seq(Item)
      /\ Head(queue).kind = "block" /\ Head(queue).arg # "hardStop"
      /\ queue' = rest /\ reply' \in { "ok", "err", "closed" }
      /\ reply' = "ok" => Head(queue).arg = "requestStop"
      /\ UNCHANGED << vz, handler, watch, pc, op, before, result, bus >>
  BY TailItem DEF RunRequestStop, CancelBlock, AtHead, IInv, TypeOK, hostVars
<1>2. /\ pc = "wait" /\ op = Head(queue).arg
      /\ Silent(rest) /\ Only(rest, op) /\ Single(rest)
      /\ handler = "none" /\ reply = "empty"
  BY <1>1, TailKeeps DEF IInv, PhaseInv, TypeOK, Phase
<1>3. ~ OkPending(queue, reply)
  BY <1>1, <1>2, TailOkPending, SilentOkPending
<1>4. OkPending(rest, reply') => op \notin Publishing
  BY <1>1, <1>2, SilentOkPending DEF Publishing, OkPending, Silent
<1>5. DelegateInv'
  BY <1>1, TailStopReports DEF IInv, DelegateInv
<1>6. WatchInv' /\ OkInv'
  BY <1>1, <1>2, <1>3, <1>4 DEF IInv, WatchInv, OkInv
<1> QED
  BY <1>1, <1>2, <1>5, <1>6 DEF IInv, MachineInv, PhaseInv, NoRunningOrphan

(* A completion handler answers the call it belongs to.                    *)
LEMMA RunCompletionStep ==
  ASSUME IInv, RunCompletion
  PROVE  MachineInv' /\ PhaseInv' /\ DelegateInv' /\ WatchInv' /\ OkInv'
         /\ NoRunningOrphan'
<1> DEFINE rest == Tail(queue)
<1>1. /\ queue # << >> /\ queue \in Seq(Item) /\ rest \in Seq(Item)
      /\ Head(queue).kind \in { "ok", "err" } /\ queue' = rest
      /\ reply' = IF Head(queue).arg = "hardStop" THEN reply ELSE Head(queue).kind
      /\ UNCHANGED << vz, handler, watch, pc, op, before, result, bus >>
  BY TailItem DEF RunCompletion, AtHead, IInv, TypeOK, hostVars
<1>2. DelegateInv'
  BY <1>1, TailStopReports DEF IInv, DelegateInv
<1>3. pc \in { "wait", "dropping" } /\ Head(queue).arg = op
  BY <1>1, TailKeeps DEF IInv, PhaseInv, TypeOK, Phase
<1>4. CASE pc = "wait"
  <2>1. /\ op # "hardStop" /\ reply' = Head(queue).kind
        /\ Silent(rest) /\ Only(rest, op) /\ Single(rest)
        /\ handler = "none" /\ reply = "empty"
    BY <1>1, <1>3, <1>4, TailKeeps DEF IInv, PhaseInv, AsyncOp
  <2>2. OkPending(queue, reply) <=> Head(queue).kind = "ok"
    BY <1>1, <2>1, TailOkPending, SilentOkPending
  <2>3. OkPending(rest, reply') <=> Head(queue).kind = "ok"
    BY <1>1, <2>1 DEF OkPending, Silent
  <2>4. WatchInv' /\ OkInv'
    BY <1>1, <1>4, <2>2, <2>3 DEF IInv, WatchInv, OkInv
  <2> QED
    BY <1>1, <1>2, <1>4, <2>1, <2>4 DEF IInv, MachineInv, PhaseInv, NoRunningOrphan
<1>5. CASE pc = "dropping"
  <2>1. op = "hardStop" /\ Only(rest, op) /\ reply' = reply
    BY <1>1, <1>3, <1>5, TailKeeps DEF IInv, PhaseInv
  <2> QED
    BY <1>1, <1>2, <1>5, <2>1
       DEF IInv, MachineInv, PhaseInv, WatchInv, OkInv, NoRunningOrphan
<1> QED
  BY <1>3, <1>4, <1>5

(* A delegate callback overwrites the watch channel: never that of a live  *)
(* machine, unless a success that will overwrite it again is queued.       *)
LEMMA RunDelegateStep ==
  ASSUME IInv, RunDelegate
  PROVE  MachineInv' /\ PhaseInv' /\ DelegateInv' /\ WatchInv' /\ OkInv'
         /\ NoRunningOrphan'
<1> DEFINE rest == Tail(queue)
<1>1. /\ queue # << >> /\ queue \in Seq(Item) /\ rest \in Seq(Item)
      /\ Head(queue).kind = "delegate" /\ queue' = rest
      /\ watch' \in { "Stopped", "Error" }
      /\ UNCHANGED << vz, handler, reply, pc, op, before, result, bus >>
  BY TailItem DEF RunDelegate, AtHead, IInv, TypeOK, hostVars
<1>2. DelegateInv'
  BY <1>1, TailStopReports DEF IInv, DelegateInv
<1>3. vz \in Live \cup { "Saving" } => op \in Publishing /\ ~ Silent(queue)
  BY <1>1, TailItem DEF IInv, DelegateInv, StopReports, Silent, Live
<1>4. OkPending(rest, reply) <=> OkPending(queue, reply)
  BY <1>1, TailOkPending
<1>5. vz \in Live => OkPending(queue, reply)
  <2> SUFFICES ASSUME vz \in Live PROVE OkPending(queue, reply)
    OBVIOUS
  <2>1. 1 \in 1..Len(queue) /\ queue[1].kind = "delegate"
    BY <1>1
  <2>2. DelegateInv /\ vz # "Error"
    BY DEF IInv, Live
  <2>3. \E j \in 1..Len(queue) : queue[j].kind = "ok"
    BY <2>1, <2>2 DEF DelegateInv, StopReports
  <2> QED
    BY <2>3 DEF OkPending
<1>6. vz = "Saving" => pc = "gone"
  BY <1>3 DEF IInv, MachineInv, Settled, PhaseInv, TypeOK, Phase, Publishing
<1>7. WatchInv'
  BY <1>1, <1>3, <1>4, <1>5, <1>6
     DEF IInv, WatchInv, Settled, PhaseInv, TypeOK, Phase, Publishing
<1>8. OkInv'
  BY <1>1, <1>4 DEF IInv, OkInv
<1>9. PhaseInv'
  BY <1>1, TailKeeps, TailSilent DEF IInv, PhaseInv
<1> QED
  BY <1>1, <1>2, <1>7, <1>8, <1>9 DEF IInv, MachineInv, NoRunningOrphan

-----------------------------------------------------------------------------
(* The machine's own steps preserve the invariant.                         *)

(* What is true while the machine holds a completion handler.              *)
LEMMA Working ==
  ASSUME IInv, handler # "none"
  PROVE  /\ vz = Transient(handler) /\ vz # "Error" /\ handler = op
         /\ \/ /\ pc = "wait" /\ op # "hardStop"
               /\ reply = "empty" /\ Silent(queue)
            \/ /\ pc = "dropping" /\ op = "hardStop"
               /\ reply = "ran" /\ Only(queue, "hardStop")
<1>1. pc \in { "wait", "dropping" }
  BY DEF IInv, PhaseInv, TypeOK, Phase
<1>2. vz = Transient(handler) /\ vz # "Error"
  BY <1>1 DEF IInv, MachineInv, Transient
<1>3. CASE pc = "wait"
  BY <1>2, <1>3 DEF IInv, PhaseInv, AsyncOp
<1>4. CASE pc = "dropping"
  <2>1. handler = "hardStop" /\ vz = "Stopping"
    BY <1>2, <1>4 DEF IInv, PhaseInv, Transient
  <2>2. reply = "ran"
    BY <1>4 DEF IInv, PhaseInv
  <2> QED
    BY <1>2, <1>4, <2>1, <2>2 DEF IInv, PhaseInv
<1> QED
  BY <1>1, <1>3, <1>4

(* The end of a step, in success or failure, before its answer is queued.  *)
LEMMA StepEnd ==
  ASSUME IInv, handler # "none", NEW r \in { "ok", "err" }, handler' = "none",
         queue' = Append(queue, Completion(handler, r)),
         vz' \in Settled, UNCHANGED << watch, reply, hostVars >>,
         pc = "dropping" => vz' \in { "Stopped", "Error" }
  PROVE  /\ MachineInv' /\ PhaseInv' /\ NoRunningOrphan'
         /\ queue' \in Seq(Item)
         /\ OkPending(queue', reply') <=> r = "ok" \/ OkPending(queue, reply)
<1> DEFINE e == Completion(handler, r)
<1>1. e \in Item /\ e.kind = r /\ e.arg = handler /\ queue \in Seq(Item)
  BY OpTypes DEF IInv, TypeOK, Completion
<1>2. Only(queue, op) /\ handler = op
  BY Working DEF Silent, Only
<1> HIDE DEF e
<1>3. Only(Append(queue, e), op) /\ (Silent(queue) => Single(Append(queue, e)))
  BY <1>1, <1>2, AppendKeeps
<1>4. OkPending(Append(queue, e), reply) <=> r = "ok" \/ OkPending(queue, reply)
  BY <1>1, AppendOkPending
<1>5. Append(queue, e) \in Seq(Item)
  BY <1>1, AppendItem
<1>6. queue' = Append(queue, e) /\ reply' = reply
  BY DEF e
<1>7. ~ Silent(Append(queue, e))
  BY <1>1, AppendSilent
<1>8. PhaseInv'
  BY <1>2, <1>3, <1>6, <1>7, Working DEF IInv, PhaseInv, hostVars
<1> QED
  BY <1>4, <1>5, <1>6, <1>8, Working DEF IInv, MachineInv, NoRunningOrphan, hostVars

LEMMA VzFinishStep ==
  ASSUME IInv, VzFinish, UNCHANGED << watch, reply, hostVars >>
  PROVE  MachineInv' /\ PhaseInv' /\ DelegateInv' /\ WatchInv' /\ OkInv'
         /\ NoRunningOrphan'
<1> DEFINE e == Completion(handler, "ok")
<1>1. /\ handler # "none" /\ handler' = "none" /\ vz' = Target(handler)
      /\ queue' = Append(queue, e) /\ e \in Item /\ e.kind = "ok"
      /\ queue \in Seq(Item)
  BY OpTypes DEF VzFinish, Completion, IInv, TypeOK
<1>2. vz' \in Settled /\ (pc = "dropping" => vz' = "Stopped")
  BY <1>1, Working DEF Settled, Target
<1>3. /\ MachineInv' /\ PhaseInv' /\ NoRunningOrphan' /\ OkPending(queue', reply')
  BY <1>1, <1>2, StepEnd
<1>4. vz' \in Live => op \in Publishing \cup { "save" } /\ pc = "wait"
  BY <1>1, Working DEF Target, Live, Publishing
<1>5. vz = "Saving"
        => \A i \in 1..Len(queue) : queue[i].arg # "guestDidStop" \/ queue[i].kind # "delegate"
  BY <1>1, Working DEF IInv, DelegateInv, StopReports, Silent, Transient
<1>6. op = "save" => vz = "Saving" /\ watch = "Paused" /\ vz' = "Paused"
  BY <1>1, Working DEF Transient, Target, IInv, WatchInv
<1>7. DelegateInv'
  <2>1. SUFFICES ASSUME NEW i \in 1..Len(queue'), queue'[i].kind = "delegate"
                 PROVE  /\ queue'[i].arg = "guestDidStop"
                        /\ vz' \in Live \cup { "Pausing", "Resuming", "Saving" }
                             => /\ op \in Publishing
                                /\ \E j \in 1..Len(queue') : i < j /\ queue'[j].kind = "ok"
    BY DEF DelegateInv, StopReports, hostVars
  <2>2. /\ i \in 1..Len(queue) /\ queue[i] = queue'[i]
        /\ Len(queue) + 1 \in 1..Len(queue') /\ i < Len(queue) + 1
        /\ queue'[Len(queue) + 1].kind = "ok"
    BY <1>1, <2>1, AppendItem
  <2>3. queue[i].arg = "guestDidStop"
    BY <1>1, <2>1, <2>2, Working DEF IInv, DelegateInv, StopReports
  <2>4. vz' \in Live => op \in Publishing
    BY <1>4, <1>5, <1>6, <2>1, <2>2, <2>3
  <2>5. vz' \notin { "Pausing", "Resuming", "Saving" }
    BY <1>2 DEF Settled
  <2> QED
    BY <2>2, <2>3, <2>4, <2>5
<1>8. WatchInv'
  BY <1>1, <1>2, <1>3, <1>4, <1>6, Working DEF IInv, WatchInv, Settled, hostVars
<1>9. OkInv'
  BY <1>1, Working DEF OkInv, hostVars
<1> QED
  BY <1>3, <1>7, <1>8, <1>9

LEMMA VzFailStep ==
  ASSUME IInv, VzFail, UNCHANGED << watch, reply, hostVars >>
  PROVE  MachineInv' /\ PhaseInv' /\ DelegateInv' /\ WatchInv' /\ OkInv'
         /\ NoRunningOrphan'
<1> DEFINE e == Completion(handler, "err")
<1>1. /\ handler # "none" /\ handler' = "none"
      /\ vz' = "Error" \/ (vz' = "Paused" /\ handler = "save")
      /\ queue' = Append(queue, e) /\ e \in Item /\ e.kind = "err"
      /\ queue \in Seq(Item)
  BY OpTypes DEF VzFail, Completion, IInv, TypeOK
<1>2. vz' \in Settled /\ (pc = "dropping" => vz' = "Error")
  BY <1>1, Working DEF Settled
<1>3. /\ MachineInv' /\ PhaseInv' /\ NoRunningOrphan'
      /\ OkPending(queue', reply') <=> OkPending(queue, reply)
  BY <1>1, <1>2, StepEnd
<1>4. vz' = "Paused" => vz = "Saving" /\ watch = "Paused" /\ op = "save" /\ pc = "wait"
  BY <1>1, Working DEF Transient, IInv, WatchInv
<1>5. StopReports(queue, vz', op)
  BY <1>1, <1>4, Working DEF IInv, DelegateInv, StopReports, Live, Silent
<1>6. DelegateInv'
  BY <1>1, <1>5, AppendStopReports DEF DelegateInv, hostVars
<1>7. WatchInv'
  BY <1>1, <1>4 DEF IInv, WatchInv, Live, hostVars
<1>8. OkInv'
  BY <1>1, <1>4 DEF IInv, OkInv, Publishing, hostVars
<1> QED
  BY <1>3, <1>6, <1>7, <1>8

LEMMA GuestStopStep ==
  ASSUME IInv, pc # "gone", GuestStop, UNCHANGED << watch, reply, hostVars >>
  PROVE  MachineInv' /\ PhaseInv' /\ DelegateInv' /\ WatchInv' /\ OkInv'
         /\ NoRunningOrphan'
<1> DEFINE e == Callback("guestDidStop")
<1>1. /\ vz = "Running" /\ vz' = "Stopped" /\ handler' = handler
      /\ queue' = Append(queue, e) /\ queue \in Seq(Item)
      /\ e \in Item /\ e.kind = "delegate" /\ e.arg = "guestDidStop"
  BY CallbackTypes DEF GuestStop, Callback, IInv, TypeOK
<1>2. handler = "none"
  BY <1>1, Working DEF Transient
<1>3. OkPending(queue', reply) <=> OkPending(queue, reply)
  <2> HIDE DEF e
  <2> QED
    BY <1>1, AppendOkPending
<1>4. PhaseInv'
  <2>1. /\ \A o : Only(queue, o) => Only(queue', o)
        /\ Single(queue) => Single(queue')
        /\ Silent(queue') <=> Silent(queue)
    BY <1>1, AppendKeeps, AppendSilent
  <2> QED
    BY <1>1, <1>2, <2>1 DEF IInv, PhaseInv, hostVars
<1>5. DelegateInv'
  BY <1>1, AppendStopReport DEF IInv, DelegateInv, StopReports, Live, hostVars
<1>6. WatchInv' /\ OkInv'
  BY <1>1, <1>3 DEF IInv, WatchInv, OkInv, Live, hostVars
<1> QED
  BY <1>1, <1>2, <1>4, <1>5, <1>6
     DEF IInv, MachineInv, Settled, NoRunningOrphan, IsActive, hostVars

LEMMA VzCrashStep ==
  ASSUME IInv, pc # "gone", VzCrash, UNCHANGED << watch, reply, hostVars >>
  PROVE  MachineInv' /\ PhaseInv' /\ DelegateInv' /\ WatchInv' /\ OkInv'
         /\ NoRunningOrphan'
<1> DEFINE told   == Callback("didStopWithError")
           failed == Completion(handler, "err")
<1>1. /\ vz # "Error" /\ vz' = "Error" /\ handler' = "none" /\ queue \in Seq(Item)
      /\ told \in Item /\ told.kind = "delegate" /\ told.arg = "didStopWithError"
  BY CallbackTypes
     DEF VzCrash, CanTransitionTo, Transitions, Callback, IInv, TypeOK
<1>2. handler # "none" =>
        failed \in Item /\ failed.kind = "err" /\ failed.arg = handler
  BY OpTypes DEF IInv, TypeOK, Completion
<1>3. IF handler = "none"
        THEN queue' = Append(queue, told)
        ELSE \/ queue' = Append(Append(queue, failed), told)
             \/ queue' = Append(Append(queue, told), failed)
  BY DEF VzCrash
<1> HIDE DEF told, failed
<1>4. \A i \in 1..Len(queue) :
        queue[i].kind = "delegate" => queue[i].arg = "guestDidStop"
  BY <1>1 DEF IInv, DelegateInv, StopReports
<1>5. StopReports(queue, "Error", op)
  BY <1>4 DEF StopReports, Live
<1>6. StopReports(Append(queue, told), "Error", op)
  BY <1>1, <1>4, AppendStopReport DEF Live
<1>7. Append(queue, told) \in Seq(Item)
  BY <1>1, AppendItem
<1>8. CASE handler = "none"
  <2>1. PhaseInv'
    BY <1>1, <1>3, <1>8, AppendKeeps, AppendSilent
       DEF IInv, PhaseInv, VzCrash, hostVars
  <2>2. DelegateInv'
    BY <1>1, <1>3, <1>6, <1>8 DEF DelegateInv, hostVars
  <2> QED
    BY <1>1, <2>1, <2>2 DEF MachineInv, Settled, IInv, WatchInv, Live, OkInv,
                            NoRunningOrphan, IsActive, hostVars
<1>9. CASE handler # "none"
  <2>1. /\ Append(queue, failed) \in Seq(Item)
        /\ StopReports(Append(queue, failed), "Error", op)
    BY <1>1, <1>2, <1>5, <1>9, AppendItem, AppendStopReports
  <2>2. Only(queue, op)
    BY <1>9, Working DEF Silent, Only
  <2>3. Only(Append(queue, failed), op) /\ Only(Append(queue, told), op)
    BY <1>1, <1>2, <1>9, <2>2, Working, AppendKeeps
  <2>4. Only(queue', op)
    BY <1>1, <1>2, <1>3, <1>7, <1>9, <2>1, <2>3, Working, AppendKeeps
  <2>5. Silent(queue) => Silent(Append(queue, told)) /\ Single(Append(queue, failed))
    BY <1>1, <1>2, <1>9, AppendKeeps
  <2>6. Silent(queue) => Single(queue')
    BY <1>1, <1>2, <1>3, <1>7, <1>9, <2>1, <2>5, AppendKeeps
  <2>7. ~ Silent(queue')
    <3>1. ~ Silent(Append(queue, failed))
      BY <1>1, <1>2, <1>9, AppendSilent
    <3>2. ~ Silent(Append(Append(queue, failed), told))
      BY <1>1, <2>1, <3>1, AppendSilent
    <3>3. ~ Silent(Append(Append(queue, told), failed))
      BY <1>2, <1>7, <1>9, AppendSilent
    <3> QED
      BY <1>3, <1>9, <3>2, <3>3
  <2>8. PhaseInv'
    BY <1>1, <1>9, <2>4, <2>6, <2>7, Working DEF IInv, PhaseInv, hostVars
  <2>9. StopReports(queue', "Error", op)
    <3>1. CASE queue' = Append(Append(queue, told), failed)
      BY <1>2, <1>6, <1>7, <1>9, <3>1, AppendStopReports
    <3>2. CASE queue' = Append(Append(queue, failed), told)
      <4>1. \A i \in 1..Len(Append(queue, failed)) :
              Append(queue, failed)[i].kind = "delegate"
                => Append(queue, failed)[i].arg \in { "guestDidStop", "didStopWithError" }
        BY <2>1 DEF StopReports
      <4> QED
        BY <1>1, <2>1, <3>2, <4>1, AppendStopReport DEF Live
    <3> QED
      BY <1>3, <1>9, <3>1, <3>2
  <2>10. DelegateInv'
    BY <1>1, <2>9 DEF DelegateInv, hostVars
  <2> QED
    BY <1>1, <2>8, <2>10 DEF MachineInv, Settled, IInv, WatchInv, Live, OkInv,
                            NoRunningOrphan, IsActive, hostVars
<1> QED
  BY <1>8, <1>9

-----------------------------------------------------------------------------
(* Drop's one block is appended once, and taken once.                      *)
LEMMA AskedOnceStep ==
  ASSUME IInv, [Next]_vars
  PROVE  AskedOnce'
<1> SUFFICES ASSUME pc' = "dropping"
             PROVE  OneBlock(queue') /\ (reply' # "empty" => Served(queue'))
  BY DEF AskedOnce
<1>0. queue \in Seq(Item) /\ AskedOnce /\ PhaseInv
  BY DEF IInv, TypeOK
<1>1. CASE DropForcing
  <2>1. Silent(queue) /\ Block("hardStop") \in Item
    BY <1>0, <1>1, OpTypes DEF DropForcing, PhaseInv, Op
  <2> QED
    BY <1>0, <1>1, <2>1, AppendBlocks DEF DropForcing
<1>2. ASSUME pc = "dropping", queue # << >>, queue' = Tail(queue),
             reply' = reply \/ Head(queue).kind = "block"
      PROVE  OneBlock(queue') /\ (reply' # "empty" => Served(queue'))
  BY <1>0, <1>2, TailBlocks DEF AskedOnce
<1>3. ASSUME pc = "dropping", NEW e \in Item, e.kind # "block", reply' = reply
      PROVE  /\ OneBlock(Append(queue, e))
             /\ reply' # "empty" => Served(Append(queue, e))
  <2>1. OneBlock(queue) /\ (reply' # "empty" => Served(queue))
    BY <1>0, <1>3 DEF AskedOnce
  <2> QED
    BY <1>0, <1>3, <2>1, AppendBlocks
<1>4. CASE RunOp \/ RunRequestStop \/ CancelBlock
  <2>1. pc = "dropping" /\ AtHead("block") /\ Head(queue).arg # "hardStop"
    BY <1>4 DEF RunOp, RunRequestStop, CancelBlock, hostVars, AsyncOp
  <2> QED
    BY <1>0, <2>1, TailKeeps DEF PhaseInv, AtHead
<1>5. CASE RunHardStop
  <2>1. pc = "dropping" /\ queue # << >> /\ Head(queue).kind = "block"
    BY <1>5 DEF RunHardStop, AtHead, hostVars
  <2>2. Tail(queue) \in Seq(Item) /\ OneBlock(Tail(queue)) /\ Served(Tail(queue))
    BY <1>0, <2>1, TailItem, TailBlocks DEF AskedOnce
  <2>3. /\ Completion("hardStop", "err") \in Item
        /\ Completion("hardStop", "err").kind # "block"
    BY OpTypes DEF Op, Completion
  <2>4. queue' = Tail(queue) \/ queue' = Append(Tail(queue), Completion("hardStop", "err"))
    BY <1>5 DEF RunHardStop, VzInvoke
  <2>5. ASSUME NEW e \in Item, e.kind # "block"
        PROVE  OneBlock(Append(Tail(queue), e)) /\ Served(Append(Tail(queue), e))
    BY <2>2, <2>5, AppendBlocks
  <2> QED
    BY <2>2, <2>3, <2>4, <2>5
<1>6. CASE RunCompletion \/ RunDelegate
  <2>1. /\ pc = "dropping" /\ queue # << >> /\ queue' = Tail(queue)
        /\ reply' # reply => Head(queue).kind \in { "ok", "err" } /\ Head(queue).arg # "hardStop"
    BY <1>6 DEF RunCompletion, RunDelegate, AtHead, hostVars
  <2>2. reply' = reply
    BY <1>0, <2>1, TailKeeps DEF PhaseInv
  <2> QED
    BY <1>2, <2>1, <2>2
<1>7. CASE Machine
  <2>1. pc = "dropping" /\ reply' = reply /\ VzStep
    BY <1>7 DEF Machine, hostVars
  <2> DEFINE told   == Callback("didStopWithError")
             off    == Callback("guestDidStop")
             done   == Completion(handler, "ok")
             failed == Completion(handler, "err")
  <2>2. /\ told \in Item /\ told.kind # "block" /\ off \in Item /\ off.kind # "block"
        /\ handler # "none" => /\ done \in Item /\ done.kind # "block"
                               /\ failed \in Item /\ failed.kind # "block"
    BY CallbackTypes, OpTypes DEF Callback, Completion, IInv, TypeOK
  <2>3. \/ handler # "none" /\ queue' \in { Append(queue, done), Append(queue, failed) }
        \/ queue' \in { Append(queue, told), Append(queue, off) }
        \/ handler # "none" /\ queue' \in { Append(Append(queue, failed), told),
                                            Append(Append(queue, told), failed) }
    BY <2>1 DEF VzStep, VzFinish, VzFail, GuestStop, VzCrash
  <2> HIDE DEF told, off, done, failed
  <2>4. CASE queue' \in { Append(queue, told), Append(queue, off) }
    BY <1>3, <2>1, <2>2, <2>4
  <2>5. CASE handler # "none" /\ queue' \in { Append(queue, done), Append(queue, failed) }
    BY <1>3, <2>1, <2>2, <2>5
  <2>6. CASE handler # "none" /\ queue' \in { Append(Append(queue, failed), told),
                                            Append(Append(queue, told), failed) }
    <3>1. /\ Append(queue, failed) \in Seq(Item) /\ Append(queue, told) \in Seq(Item)
      BY <1>0, <2>2, <2>6, AppendItem
    <3>2. /\ OneBlock(Append(queue, failed)) /\ OneBlock(Append(queue, told))
          /\ reply' # "empty" => Served(Append(queue, failed)) /\ Served(Append(queue, told))
      BY <1>3, <2>1, <2>2, <2>6
    <3>3. CASE queue' = Append(Append(queue, failed), told)
      BY <2>2, <3>1, <3>2, <3>3, AppendBlocks
    <3>4. CASE queue' = Append(Append(queue, told), failed)
      BY <2>2, <2>6, <3>1, <3>2, <3>4, AppendBlocks
    <3> QED
      BY <2>6, <3>3, <3>4
  <2> QED
    BY <2>3, <2>4, <2>5, <2>6
<1>8. CASE UNCHANGED << pc, queue, reply >>
  BY <1>0, <1>8 DEF AskedOnce
<1> QED
  BY <1>1, <1>4, <1>5, <1>6, <1>7, <1>8
     DEF Next, vars, Create, Call, RejectPath, Return, ReturnErr, Publish, EmitChange,
         EmitNotice, AnnounceIp, DropRelease, DropQuietly, Release, RunQueue

-----------------------------------------------------------------------------
(* Every action of VmHandle preserves IInv.                                *)
LEMMA InductiveStep ==
  ASSUME IInv, [Next]_vars
  PROVE  IInv'
<1> DEFINE Others == MachineInv /\ PhaseInv /\ DelegateInv /\ WatchInv /\ OkInv
                     /\ NoRunningOrphan
<1>1. TypeOK'
  BY TypeStep DEF IInv
<1>2. Others'
  <2>1. CASE Create
    BY <2>1, CreateStep
  <2>2. ASSUME NEW o \in AsyncOp \cup { "requestStop" }, Call(o) \/ RejectPath(o)
        PROVE  Others'
    BY <2>2, CallStep, RejectPathStep
  <2>3. CASE Return
    BY <2>3, ReturnErrStep, PublishStep, EmitStep, DropStep DEF Return
  <2>4. CASE DropQuietly \/ DropForcing \/ AnnounceIp
    BY <2>4, DropStep, EmitStep
  <2>5. CASE RunQueue \/ CancelBlock
    BY <2>5, RunOpStep, RunHardStopStep, RunAnswerStep, RunCompletionStep,
       RunDelegateStep DEF RunQueue
  <2>6. CASE Machine
    BY <2>6, VzFinishStep, VzFailStep, GuestStopStep, VzCrashStep DEF Machine, VzStep
  <2>7. CASE UNCHANGED vars
    BY <2>7 DEF vars, IInv, MachineInv, PhaseInv, DelegateInv, WatchInv, OkInv,
                NoRunningOrphan
  <2> QED
    BY <2>1, <2>2, <2>3, <2>4, <2>5, <2>6, <2>7 DEF Next
<1>3. AskedOnce'
  BY AskedOnceStep
<1> QED
  BY <1>1, <1>2, <1>3 DEF IInv

LEMMA InitIInv == Init => IInv
<1> SUFFICES ASSUME Init PROVE IInv
  OBVIOUS
<1>1. TypeOK
  BY EmptySeq, EventTypes DEF Init, TypeOK, State, Phase
<1> QED
  BY <1>1 DEF Init, IInv, MachineInv, PhaseInv, AskedOnce, Silent, DelegateInv, StopReports,
              WatchInv, Settled, Live, OkInv, NoRunningOrphan, IsActive

(* IInv holds in every reachable state of VmHandle, whatever the framework *)
(* may refuse.                                                             *)
THEOREM Invariance == Spec => []IInv
  BY InitIInv, InductiveStep, PTL DEF Spec

-----------------------------------------------------------------------------
(* What the invariant gives.                                               *)

(* The variables of VmHandle have their types in every reachable state.    *)
THEOREM TypeCorrect == Spec => []TypeOK
<1>1. IInv => TypeOK
  BY DEF IInv
<1> QED
  BY <1>1, Invariance, PTL

(* A machine that runs or is paused is reported as such whenever no call   *)
(* is waiting for the framework: the promise transition_state was added    *)
(* for, and the one the Drop guard relies on.                              *)
THEOREM LiveReported == Spec => []LiveIsReported
<1>1. IInv => LiveIsReported
  BY DEF IInv, WatchInv, Live, LiveIsReported
<1> QED
  BY <1>1, Invariance, PTL

(* Drop leaves no machine working but a paused one, and one that refused   *)
(* the hard stop: it never lets go of a machine for a report out of date.  *)
THEOREM NoOrphan == Spec => []NoRunningOrphan
<1>1. IInv => NoRunningOrphan
  BY DEF IInv
<1> QED
  BY <1>1, Invariance, PTL

(* A call that is told Ok has brought the machine where its method says.   *)
THEOREM OkIsTrue == Spec => []OkMeansReached
<1>1. IInv => OkMeansReached
  BY DEF IInv, OkInv, OkPending, OkMeansReached
<1> QED
  BY <1>1, Invariance, PTL

(* Every waiting call has exactly one answer on its way.                   *)
THEOREM ExactlyOneAnswer == Spec => []OneAnswer
<1>1. ASSUME IInv, pc = "wait"
      PROVE  \E a \in Answers : Answers = { a }
  <2> DEFINE items == { i \in 1..Len(queue) : queue[i].kind # "delegate" /\ queue[i].arg = op }
             held  == { h \in { "handler" } : handler = op }
             given == { r \in { "reply" } : reply # "empty" }
  <2>1. Answers = items \cup held \cup given
    BY DEF Answers
  <2>2. /\ op # "none" /\ Only(queue, op) /\ Single(queue)
        /\ handler # "none" => handler = op /\ reply = "empty" /\ Silent(queue)
        /\ reply # "empty" => Silent(queue)
        /\ reply = "empty" /\ handler = "none" => ~ Silent(queue)
    BY <1>1 DEF IInv, PhaseInv, AsyncOp
  <2>3. Silent(queue) => items = { }
    BY DEF Silent
  <2>4. ~ Silent(queue) => \E i \in items : items = { i }
    BY <2>2 DEF Silent, Only, Single
  <2>5. CASE handler # "none"
    <3>1. items = { } /\ held = { "handler" } /\ given = { }
      BY <2>2, <2>3, <2>5
    <3> QED
      BY <2>1, <3>1
  <2>6. CASE reply # "empty"
    <3>1. items = { } /\ held = { } /\ given = { "reply" }
      BY <2>2, <2>3, <2>6
    <3> QED
      BY <2>1, <3>1
  <2>7. CASE handler = "none" /\ reply = "empty"
    <3>1. held = { } /\ given = { }
      BY <2>2, <2>7
    <3>2. PICK i \in items : items = { i }
      BY <2>2, <2>4, <2>7
    <3> QED
      BY <2>1, <3>1, <3>2
  <2> QED
    BY <2>5, <2>6, <2>7
<1>2. IInv => OneAnswer
  BY <1>1 DEF OneAnswer
<1> QED
  BY <1>2, Invariance, PTL

(* Nothing but a call of stop ever begins to stop a paused machine.        *)
THEOREM DropSparesPaused == Spec => PausedSurvivesDrop
<1>1. ASSUME IInv, [Next]_vars, vz = "Paused", vz' = "Stopping"
      PROVE  op = "stop"
  <2>1. CASE RunOp
    <3>1. /\ queue # << >> /\ queue \in Seq(Item)
          /\ Head(queue).kind = "block" /\ Head(queue).arg \in AsyncOp
          /\ VzInvoke(Head(queue).arg, Tail(queue))
      BY <1>1, <2>1 DEF RunOp, AtHead, IInv, TypeOK
    <3>2. op = Head(queue).arg
      BY <1>1, <3>1, TailKeeps DEF IInv, PhaseInv, TypeOK, Phase, AsyncOp
    <3> QED
      BY <1>1, <3>1, <3>2 DEF VzInvoke, Transient, AsyncOp
  <2>2. CASE RunHardStop
    <3>1. /\ queue # << >> /\ queue \in Seq(Item)
          /\ Head(queue).kind = "block" /\ Head(queue).arg = "hardStop"
      BY <1>1, <2>2 DEF RunHardStop, AtHead, IInv, TypeOK
    <3>2. pc = "dropping"
      BY <1>1, <3>1, TailKeeps DEF IInv, PhaseInv, TypeOK, Phase, AsyncOp
    <3> QED
      BY <1>1, <3>2 DEF IInv, PhaseInv
  <2>3. CASE Machine
    <3>1. handler # "none" \/ vz # "Paused" \/ vz' = "Error"
      BY <2>3 DEF Machine, VzStep, VzFinish, VzFail, GuestStop, VzCrash
    <3>2. handler = "none"
      BY <1>1, Working DEF Transient
    <3> QED
      BY <1>1, <3>1, <3>2
  <2>4. CASE Create
    BY <1>1, <2>4 DEF Create
  <2>5. CASE vz' = vz
    BY <1>1, <2>5
  <2> QED
    BY <1>1, <2>1, <2>2, <2>3, <2>4, <2>5
       DEF Next, vars, hostVars, Call, RejectPath, Return, ReturnErr, Publish,
           EmitChange, EmitNotice, AnnounceIp, DropRelease, DropQuietly, DropForcing,
           Release, RunQueue, RunRequestStop, RunCompletion, RunDelegate, CancelBlock
<1>2. IInv /\ [Next]_vars => [vz = "Paused" /\ vz' = "Stopping" => op = "stop"]_vars
  BY <1>1
<1> QED
  BY <1>2, Invariance, PTL DEF Spec, PausedSurvivesDrop

(* A StateChanged event never runs ahead of the watch channel.             *)
THEOREM WatchFirst == Spec => BusNeverLeads
<1>1. ASSUME IInv, [Next]_vars, pc = "emit", pc' # pc
      PROVE  NeverBehind'
  <2>1. CASE EmitChange
    BY <2>1, <1>1 DEF EmitChange, Change, NeverBehind, IInv, WatchInv, Live
  <2>2. EmitChange
    BY <1>1 DEF Next, vars, hostVars, Create, Call, RejectPath, Return, ReturnErr, Publish,
           EmitNotice, AnnounceIp, DropRelease, DropQuietly, DropForcing, Release, RunQueue,
           RunOp, RunHardStop, RunRequestStop, RunCompletion, RunDelegate, CancelBlock, Machine
  <2> QED
    BY <2>1, <2>2
<1>2. IInv /\ [Next]_vars => [pc = "emit" /\ pc' # pc => NeverBehind']_vars
  BY <1>1
<1> QED
  BY <1>2, Invariance, PTL DEF Spec, BusNeverLeads
=============================================================================

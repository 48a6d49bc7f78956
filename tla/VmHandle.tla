------------------------------ MODULE VmHandle ------------------------------
(***************************************************************************)
(* VmHandle of src/src/vm.rs with the delegate of src/src/delegate.rs.     *)
(*                                                                         *)
(* Three threads meet here.  The owner calls the methods of the handle:    *)
(* VmHandle is Send and not Sync, so its calls, each blocking, and its     *)
(* Drop come one after the other.  The dispatch queue runs the blocks the  *)
(* owner submitted, the completion handlers and the delegate.  The machine *)
(* works, stops and breaks on its own.  A call reads its `from` state and  *)
(* submits its block in one step here: whatever the queue already holds    *)
(* runs before that block either way.                                      *)
(***************************************************************************)
EXTENDS VzMachine, Naturals

VARIABLES
  watch,   \* the value in the watch channel: what state() returns
  pc,      \* where the owner is, see Phase
  op,      \* the method the owner is in, or was last in
  before,  \* the local `before` of that method
  reply,   \* what the call's mpsc channel holds, or how exec_sync ended
  result,  \* what the last call returned
  bus      \* the last event published on the event bus

hostVars == << pc, op, before, result, bus >>
vars == << vz, handler, queue, watch, pc, op, before, reply, result, bus >>

(* gone: no handle; idle: no call; wait: blocked in recv(); emit, notify:  *)
(* past a successful recv(), an event left to publish; dropping: in Drop,  *)
(* past the decision to force a stop.                                      *)
Phase == { "gone", "idle", "wait", "emit", "notify", "dropping" }

Change(s, t) == [ kind |-> "StateChanged", from |-> s, to |-> t ]
Notice(k)    == [ kind |-> k, from |-> "none", to |-> "none" ]

NoticeOf(o) ==
  CASE o = "save"    -> Notice("SnapshotCreated")
    [] o = "restore" -> Notice("SnapshotRestored")
    [] OTHER         -> Notice("ShutdownRequested")

Event ==
  { Change(s, t) : s, t \in State }
    \cup { NoticeOf(o) : o \in { "save", "restore", "requestStop" } }
    \cup { Notice("IpAssigned"), Notice("none") }

TypeOK ==
  /\ vz \in State /\ watch \in State
  /\ handler \in Op \cup { "none" }
  /\ queue \in Seq(Item)
  /\ pc \in Phase
  /\ op \in Op \cup { "none" }
  /\ before \in State \cup { "none" }
  /\ reply \in { "empty", "ok", "err", "closed", "ran", "refused" }
  /\ result \in { "none", "ok", "err" }
  /\ bus \in Event

(* No handle yet.                                                           *)
Init ==
  /\ vz = "Stopped" /\ watch = "Stopped"
  /\ handler = "none" /\ queue = << >>
  /\ pc = "gone" /\ op = "none" /\ before = "none"
  /\ reply = "empty" /\ result = "none" /\ bus = Notice("none")

-----------------------------------------------------------------------------
(* The owner's thread.                                                     *)

(* VmHandle::create succeeds: a new machine, queue, delegate, channel and  *)
(* bus.  What a failing one leaves behind is not seen here.                *)
Create ==
  /\ pc = "gone"
  /\ vz' = "Stopped" /\ watch' = "Stopped"
  /\ handler' = "none" /\ queue' = << >>
  /\ pc' = "idle" /\ op' = "none" /\ before' = "none"
  /\ reply' = "empty" /\ result' = "none" /\ bus' = Notice("none")

(* Mutant of Call: `before` is never read.                                 *)
CallWithoutFrom(o) ==
  /\ pc = "idle"
  /\ pc' = "wait" /\ op' = o /\ reply' = "empty" /\ result' = "none"
  /\ queue' = Append(queue, Block(o))
  /\ UNCHANGED << vz, handler, watch, before, bus >>

(* A method is entered: read the state, make a channel, submit the block.  *)
Call(o) ==
  /\ pc = "idle"
  /\ pc' = "wait"
  /\ op' = o
  /\ before' = IF o \in Publishing THEN watch ELSE "none"
  /\ reply' = "empty"
  /\ result' = "none"
  /\ queue' = Append(queue, Block(o))
  /\ UNCHANGED << vz, handler, watch, bus >>

(* save_state and restore_state return at once for a path that is not      *)
(* UTF-8: nothing is submitted.                                            *)
RejectPath(o) ==
  /\ pc = "idle"
  /\ o \in { "save", "restore" }
  /\ op' = o
  /\ before' = IF o \in Publishing THEN watch ELSE "none"
  /\ result' = "err"
  /\ UNCHANGED << vz, handler, queue, watch, pc, reply, bus >>

(* recv() yields an error, or the channel was closed (QueueCancelled).     *)
ReturnErr ==
  /\ pc = "wait"
  /\ reply \in { "err", "closed" }
  /\ pc' = "idle"
  /\ result' = "err"
  /\ UNCHANGED << vz, handler, queue, watch, op, before, reply, bus >>

(* Mutant of Publish: a transition reaches the event bus only, the fault   *)
(* that the comment on VmHandle.state_tx records.                          *)
PublishBusOnly ==
  /\ pc = "wait" /\ reply = "ok" /\ op \in Publishing
  /\ pc' = "emit"
  /\ UNCHANGED << vz, handler, queue, watch, op, before, reply, result, bus >>

(* recv() yields Ok in a method that publishes: state_tx.send(to).         *)
Publish ==
  /\ pc = "wait"
  /\ reply = "ok"
  /\ op \in Publishing
  /\ watch' = Target(op)
  /\ pc' = "emit"
  /\ UNCHANGED << vz, handler, queue, op, before, reply, result, bus >>

(* ... and then the StateChanged event, the second half of                 *)
(* transition_state.                                                       *)
EmitChange ==
  /\ pc = "emit"
  /\ bus' = Change(before, Target(op))
  /\ IF op = "restore"
       THEN pc' = "notify" /\ UNCHANGED result
       ELSE pc' = "idle" /\ result' = "ok"
  /\ UNCHANGED << vz, handler, queue, watch, op, before, reply >>

(* The closing event of restore_state, save_state and request_stop.  The   *)
(* best-effort fsync of save_state comes just before it.                   *)
EmitNotice ==
  /\ \/ pc = "notify"
     \/ pc = "wait" /\ reply = "ok" /\ op \notin Publishing
  /\ bus' = NoticeOf(op)
  /\ pc' = "idle"
  /\ result' = "ok"
  /\ UNCHANGED << vz, handler, queue, watch, op, before, reply >>

(* wait_for_ip finds the address and announces it.  Waiting for it touches *)
(* nothing else of the handle: see LeaseLookup.                            *)
AnnounceIp ==
  /\ pc = "idle"
  /\ bus' = Notice("IpAssigned")
  /\ UNCHANGED << vz, handler, queue, watch, pc, op, before, reply, result >>

(* Mutant of NeedsForce: Paused is not spared.                             *)
NeedsForceAny(s) == IsActive(s)

(* Drop's reading of the watch channel.                                    *)
NeedsForce(s) == IsActive(s) /\ s # "Paused"

(* The fields are released: no block, handler or callback runs any more.   *)
Release ==
  /\ pc' = "gone"
  /\ queue' = << >>
  /\ handler' = "none"
  /\ UNCHANGED << vz, watch, op, before, reply, result, bus >>

DropQuietly ==
  /\ pc = "idle"
  /\ ~ NeedsForce(watch)
  /\ Release

(* Mutant of DropForcing: exec_async in the place of exec_sync.            *)
DropForcingAsync ==
  /\ pc = "idle" /\ NeedsForce(watch)
  /\ pc' = "dropping" /\ op' = "hardStop" /\ reply' = "ran"
  /\ queue' = Append(queue, Block("hardStop"))
  /\ UNCHANGED << vz, handler, watch, before, result, bus >>

(* exec_sync submits the block and waits until it has run.                 *)
DropForcing ==
  /\ pc = "idle"
  /\ NeedsForce(watch)
  /\ pc' = "dropping"
  /\ op' = "hardStop"
  /\ reply' = "empty"
  /\ queue' = Append(queue, Block("hardStop"))
  /\ UNCHANGED << vz, handler, watch, before, result, bus >>

(* exec_sync is back and the 100 ms sleep is over.  Neither waits for the  *)
(* completion handler, which Drop passes empty: it learns of no refusal.   *)
DropRelease ==
  /\ pc = "dropping"
  /\ reply \in { "ran", "refused" }
  /\ Release

-----------------------------------------------------------------------------
(* The dispatch queue: one item at a time, in order.                       *)

AtHead(k) == queue # << >> /\ Head(queue).kind = k

(* The block of dispatch_vz_op and dispatch_vz_url_op.                     *)
RunOp ==
  /\ AtHead("block")
  /\ Head(queue).arg \in AsyncOp
  /\ VzInvoke(Head(queue).arg, Tail(queue))
  /\ UNCHANGED << watch, reply, hostVars >>

(* Mutant of RunRequestStop: Ok is sent whatever requestStop answered.     *)
RunRequestStopBlindly ==
  /\ AtHead("block") /\ Head(queue).arg = "requestStop"
  /\ reply' = "ok"
  /\ queue' = Tail(queue)
  /\ UNCHANGED << vz, handler, watch, hostVars >>

(* The block of request_stop sends the answer itself.                      *)
RunRequestStop ==
  /\ AtHead("block")
  /\ Head(queue).arg = "requestStop"
  /\ reply' \in { "err" } \cup (IF vz = "Running" THEN { "ok" } ELSE {})
  /\ queue' = Tail(queue)
  /\ UNCHANGED << vz, handler, watch, hostVars >>

(* Mutant of RunHardStop: Drop is only told of a stop that was accepted.   *)
RunHardStopIfAccepted ==
  /\ AtHead("block") /\ Head(queue).arg = "hardStop"
  /\ VzInvoke("hardStop", Tail(queue))
  /\ reply' = IF handler' = "hardStop" THEN "ran" ELSE reply
  /\ UNCHANGED << watch, hostVars >>

(* The block of Drop: exec_sync returns once it has run.  Whether the      *)
(* machine took the stop up is kept for the properties, no guard reads it. *)
RunHardStop ==
  /\ AtHead("block")
  /\ Head(queue).arg = "hardStop"
  /\ VzInvoke("hardStop", Tail(queue))
  /\ reply' = IF handler' = "hardStop" THEN "ran" ELSE "refused"
  /\ UNCHANGED << watch, hostVars >>

(* Mutant of CancelBlock: a second sender keeps the channel open.          *)
CancelBlockSilently ==
  /\ AtHead("block") /\ Head(queue).arg # "hardStop"
  /\ queue' = Tail(queue)
  /\ UNCHANGED << vz, handler, watch, reply, hostVars >>

(* The block of a call is discarded unrun and its sender dropped with it,  *)
(* the case that QueueCancelled reports.                                   *)
CancelBlock ==
  /\ AtHead("block")
  /\ Head(queue).arg # "hardStop"
  /\ reply' = "closed"
  /\ queue' = Tail(queue)
  /\ UNCHANGED << vz, handler, watch, hostVars >>

(* Mutant of RunCompletion: the error pointer is not looked at.            *)
RunCompletionAlwaysOk ==
  /\ AtHead("ok") \/ AtHead("err")
  /\ reply' = IF Head(queue).arg = "hardStop" THEN reply ELSE "ok"
  /\ queue' = Tail(queue)
  /\ UNCHANGED << vz, handler, watch, hostVars >>

(* Mutant of RunCompletion: an error is logged and not sent.               *)
RunCompletionOkOnly ==
  /\ AtHead("ok") \/ AtHead("err")
  /\ reply' = IF AtHead("ok") /\ Head(queue).arg # "hardStop" THEN "ok" ELSE reply
  /\ queue' = Tail(queue)
  /\ UNCHANGED << vz, handler, watch, hostVars >>

(* A completion handler sends the result; the one Drop passes does not.    *)
RunCompletion ==
  /\ AtHead("ok") \/ AtHead("err")
  /\ reply' = IF Head(queue).arg = "hardStop" THEN reply ELSE Head(queue).kind
  /\ queue' = Tail(queue)
  /\ UNCHANGED << vz, handler, watch, hostVars >>

(* The two methods of the delegate write the watch channel, and no other.  *)
RunDelegate ==
  /\ AtHead("delegate")
  /\ watch' = IF Head(queue).arg = "guestDidStop" THEN "Stopped" ELSE "Error"
  /\ queue' = Tail(queue)
  /\ UNCHANGED << vz, handler, reply, hostVars >>

RunQueue ==
  RunOp \/ RunRequestStop \/ RunHardStop \/ RunCompletion \/ RunDelegate

-----------------------------------------------------------------------------
(* The machine moves by itself while a handle exists.                      *)
Machine ==
  /\ pc # "gone"
  /\ VzStep
  /\ UNCHANGED << watch, reply, hostVars >>

Return == ReturnErr \/ Publish \/ EmitChange \/ EmitNotice \/ DropRelease

Next ==
  \/ Create
  \/ \E o \in AsyncOp \cup { "requestStop" } : Call(o) \/ RejectPath(o)
  \/ Return
  \/ AnnounceIp
  \/ DropQuietly
  \/ DropForcing
  \/ RunQueue
  \/ CancelBlock
  \/ Machine

(* A thread that can return does; the queue runs what it holds; the        *)
(* framework ends what it began.  Nothing makes a caller call.             *)
Fairness ==
  /\ WF_vars(Return)
  /\ WF_vars(RunQueue)
  /\ WF_vars(Machine /\ VzFinish)

Spec == Init /\ [][Next]_vars /\ Fairness

-----------------------------------------------------------------------------
(* What the handle promises.                                               *)

(* While no call is waiting for the framework, a machine that runs or is   *)
(* paused is reported as just that: state() and Drop can rely on it        *)
(* whatever the guest, the framework and earlier calls have done           *)
(* (transition_state, and Drop's reading of state_rx).                     *)
LiveIsReported ==
  pc \in { "idle", "emit", "notify", "dropping" } /\ vz \in { "Running", "Paused" }
    => watch = vz

(* No machine is left working when its handle is gone, except a paused one *)
(* and one that refused the hard stop: what watch said when Drop decided   *)
(* was true (the Drop guard; a hard stop may still be in progress).        *)
NoRunningOrphan ==
  pc = "gone" => (IsActive(vz) => vz = "Paused" \/ reply = "refused")

(* A paused machine, whose saved snapshot a stop would invalidate, is only *)
(* ever stopped by a call of stop (Drop skips Paused).                     *)
PausedSurvivesDrop ==
  [][vz = "Paused" /\ vz' = "Stopping" => op = "stop"]_vars

(* The answer Ok means that the machine reached the state the method       *)
(* publishes: it is still there, or has stopped or broken since (the       *)
(* completion handler's null error, taken as success by dispatch_vz_op).   *)
OkMeansReached ==
  pc = "wait" /\ reply = "ok" /\ op \in Publishing
    => vz \in { Target(op), "Stopped", "Error" }

(* The watch channel holds the state the last event names, or the stop or  *)
(* error of a machine that is live no more.                                *)
NeverBehind ==
  \/ watch = bus.to
  \/ watch \in { "Stopped", "Error" } /\ vz \notin { "Running", "Paused" }

(* Whoever receives a StateChanged event and then reads state() sees that  *)
(* state or a real stop or error after it, never an older state            *)
(* (transition_state sends to the watch channel before it emits).          *)
BusNeverLeads ==
  [][pc = "emit" /\ pc' # pc => NeverBehind']_vars

(* A waiting call has exactly one answer coming: its block is queued, the  *)
(* machine holds its completion handler, that handler is queued, or the    *)
(* channel holds the answer.  So no answer of one call reaches another,    *)
(* and none is lost (a fresh channel per call, a sender taken once).       *)
Answers ==
  { i \in 1..Len(queue) : queue[i].kind # "delegate" /\ queue[i].arg = op }
    \cup { h \in { "handler" } : handler = op }
    \cup { r \in { "reply" } : reply # "empty" }

OneAnswer == pc = "wait" => \E a \in Answers : Answers = { a }

(* Every call returns: none waits in recv() forever, whether the framework *)
(* accepts, refuses, fails or the machine breaks under it.                 *)
EveryCallReturns == (pc = "wait") ~> (pc = "idle")

(* Drop never hangs: it comes to releasing the handle.                     *)
DropCompletes == (pc = "dropping") ~> (pc = "gone")

-----------------------------------------------------------------------------
(* What comments and tests say and the code does not do.                   *)

Ended == vz = "Stopped" \/ IsTerminal(vz)

(* A stop or error that state() reports, truly and with nothing left to    *)
(* deliver, stays reported while the machine stays stopped or broken (the  *)
(* comment on transition_state: "so state() sees current reality"; on      *)
(* VmState: "The Error state is terminal").                                *)
ReportedEndStands ==
  [][Ended /\ queue = << >> /\ watch = vz /\ vz' = vz => watch' = watch]_vars

(* A machine that took up the stop of Drop has stopped when Drop releases  *)
(* it (its comment: "ensuring the VM is stopped before VmHandle fields are *)
(* deallocated").                                                          *)
StoppedBeforeRelease == pc = "gone" /\ reply = "ran" => vz \in { "Stopped", "Error" }

(* Drop leaves no machine working that it meant to stop (the doc of        *)
(* VmHandle: "Implements Drop to force-stop active VMs").                  *)
DropForceStops == pc = "gone" => ~ NeedsForce(vz)
=============================================================================

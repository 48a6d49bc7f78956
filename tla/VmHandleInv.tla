---------------------------- MODULE VmHandleInv ----------------------------
(***************************************************************************)
(* The inductive invariant of VmHandle: what is true of the queue, the     *)
(* machine and the watch channel in every reachable state, strong enough   *)
(* to be preserved by each action on its own.                              *)
(***************************************************************************)
EXTENDS VmHandle

(* No answer is on its way in q, only delegate callbacks.                  *)
Silent(q) == \A i \in 1..Len(q) : q[i].kind = "delegate"

(* Whatever is on its way in q belongs to method o ...                     *)
Only(q, o) ==
  \A i \in 1..Len(q) : q[i].kind = "delegate" \/ q[i].arg = o

(* ... and it is one item at most.                                         *)
Single(q) ==
  \A i, j \in 1..Len(q) :
    q[i].kind # "delegate" /\ q[j].kind # "delegate" => i = j

(* q holds no block, or one at most.                                       *)
Served(q) == \A i \in 1..Len(q) : q[i].kind # "block"

OneBlock(q) ==
  \A i, j \in 1..Len(q) : q[i].kind = "block" /\ q[j].kind = "block" => i = j

(* A success is on its way, in q or in the channel.                        *)
OkPending(q, r) == r = "ok" \/ \E i \in 1..Len(q) : q[i].kind = "ok"

Settled == { "Stopped", "Running", "Paused", "Error" }
Live    == { "Running", "Paused" }

(* The machine is between two settled states exactly while it holds a      *)
(* completion handler.                                                     *)
MachineInv ==
  pc # "gone" =>
    IF handler = "none" THEN vz \in Settled ELSE vz = Transient(handler)

(* Who may be owed what in which phase of the owner.                       *)
PhaseInv ==
  /\ pc = "gone" => handler = "none" /\ queue = << >>
  /\ reply = "refused" => pc \in { "dropping", "gone" }
  /\ pc \in { "idle", "emit", "notify" } => handler = "none" /\ Silent(queue)
  /\ pc \in { "emit", "notify" } => op # "none"
  /\ pc = "emit" => op \in Publishing /\ before \in State
  /\ pc = "notify" => op = "restore"
  /\ pc = "wait" =>
       /\ op \in AsyncOp \cup { "requestStop" }
       /\ op \in Publishing => before \in State
       /\ Only(queue, op) /\ Single(queue)
       /\ handler # "none" => handler = op /\ reply = "empty" /\ Silent(queue)
       /\ reply # "empty" => Silent(queue)
       /\ reply = "empty" /\ handler = "none" => ~ Silent(queue)
       /\ reply \in { "empty", "ok", "err", "closed" }
  /\ pc = "dropping" =>
       /\ op = "hardStop" /\ Only(queue, "hardStop")
       /\ handler \in { "none", "hardStop" }
       /\ reply \in { "empty", "ran", "refused" }
       /\ reply # "ran" => handler = "none" /\ vz \in { "Running", "Stopped", "Error" }
       /\ reply = "ran" => vz \in { "Stopping", "Stopped", "Error" }

(* Drop asks for one hard stop, and asks no more once exec_sync is back.    *)
AskedOnce ==
  pc = "dropping" => OneBlock(queue) /\ (reply # "empty" => Served(queue))

(* A stop the delegate has yet to report in q is never behind the times:   *)
(* the machine, in state s, is not live, or the success of method o that   *)
(* made it live again is queued behind the report.                         *)
StopReports(q, s, o) ==
  \A i \in 1..Len(q) :
    q[i].kind = "delegate" =>
      IF q[i].arg = "guestDidStop"
        THEN s \in Live \cup { "Pausing", "Resuming", "Saving" }
               => /\ o \in Publishing
                  /\ \E j \in 1..Len(q) : i < j /\ q[j].kind = "ok"
        ELSE q[i].arg = "didStopWithError" /\ s = "Error"

DelegateInv == StopReports(queue, vz, op)

(* What the watch channel says of a live machine.                          *)
WatchInv ==
  /\ watch \in Settled
  /\ vz = "Saving" /\ pc # "gone" => watch = "Paused"
  /\ pc \notin { "wait", "gone" } /\ vz \in Live => watch = vz
  /\ pc = "emit" => watch \in { Target(op), "Stopped", "Error" }
  /\ pc = "wait" /\ vz \in Live /\ watch # vz
       => /\ OkPending(queue, reply)
          /\ op \in Publishing

(* A success on its way is true: the machine went where the method says.   *)
OkInv ==
  pc = "wait" /\ OkPending(queue, reply) /\ op \in Publishing
    => vz \in { Target(op), "Stopped", "Error" }

(* The inductive invariant: it implies LiveIsReported, NoRunningOrphan,    *)
(* OkMeansReached, and PausedSurvivesDrop of every step.                   *)
IInv ==
  /\ TypeOK /\ MachineInv /\ PhaseInv /\ AskedOnce /\ DelegateInv /\ WatchInv /\ OkInv
  /\ NoRunningOrphan
=============================================================================

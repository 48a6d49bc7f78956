------------------------- MODULE VmHandleRefinement -------------------------
(***************************************************************************)
(* VmHandle implements VmContract: the queue, the completion handlers, the *)
(* channel of a call and the order in which its three threads run amount   *)
(* to the atomic steps of the contract.                                    *)
(***************************************************************************)
EXTENDS VmHandleInv

MachineBar == IF vz \in Settled THEN vz ELSE "Busy"

OwnerBar ==
  IF pc = "gone" THEN "none"
  ELSE IF pc = "idle" THEN "ready"
  ELSE IF pc = "dropping" THEN "closing" ELSE op

(* A failure is on its way, in q or in the channel.                        *)
ErrPending(q, r) == r \in { "err", "closed" } \/ \E i \in 1..Len(q) : q[i].kind = "err"

(* A call succeeds, fails or is refused when that is decided, before the   *)
(* owner has been told.                                                    *)
StageBar ==
  IF pc = "idle" THEN "none"
  ELSE IF pc = "gone" THEN IF reply = "refused" THEN reply ELSE "none"
  ELSE IF pc \in { "emit", "notify" } THEN "published"
  ELSE IF handler # "none" THEN "working"
  ELSE IF pc = "dropping"
         THEN IF reply = "ran" THEN "done" ELSE IF reply = "refused" THEN reply ELSE "asked"
  ELSE IF OkPending(queue, reply) THEN "ok"
  ELSE IF ErrPending(queue, reply) THEN "err" ELSE "asked"

Contract ==
  INSTANCE VmContract WITH machine <- MachineBar, reported <- watch,
                           owner <- OwnerBar, stage <- StageBar, result <- result

(* Every behaviour of the handle, its queue and its machine is one the     *)
(* contract allows: an Ok that was not earned, a call answered twice, a    *)
(* report that is wrong about a live machine, a Drop that leaves one       *)
(* running or touches a paused one would each be a step it does not have   *)
(* (vm.rs as a whole, delegate.rs).                                        *)
ImplementsContract == Contract!Spec
=============================================================================

----------------------------- MODULE VmContract -----------------------------
(***************************************************************************)
(* What VmHandle promises its owner, with no queue, no completion handler  *)
(* and no channel: one call at a time, answered after the machine has done *)
(* what the answer says, and a report of the machine that is never wrong   *)
(* about one that is live.  VmHandle implements it (VmHandleRefinement).   *)
(***************************************************************************)
EXTENDS VzMethods

VARIABLES
  machine,   \* the machine: a settled state, or Busy between two of them
  reported,  \* what state() returns
  owner,     \* none: no handle; ready; the method called; closing: in Drop
  stage,     \* asked, working, then ok and published, or err; of Drop: done,
             \* or refused, for good
  result     \* what the last call returned

vars == << machine, reported, owner, stage, result >>

Calls == AsyncOp \cup { "requestStop" }

(* The settled states in which a machine is at work for its guest.         *)
LiveState == { "Running", "Paused" }

Init ==
  /\ machine = "Stopped" /\ reported = "Stopped"
  /\ owner = "none" /\ stage = "none" /\ result = "none"

Open ==
  /\ owner = "none"
  /\ machine' = "Stopped" /\ reported' = "Stopped"
  /\ owner' = "ready" /\ stage' = "none" /\ result' = "none"

Invoke(o) ==
  /\ owner = "ready"
  /\ owner' = o /\ stage' = "asked" /\ result' = "none"
  /\ UNCHANGED << machine, reported >>

(* A call may be refused for its arguments, without effect.                *)
Reject ==
  /\ owner = "ready"
  /\ result' = "err"
  /\ UNCHANGED << machine, reported, owner, stage >>

(* The machine begins what it was asked for, in a state that allows it.    *)
Begin ==
  /\ owner \in AsyncOp \cup { "closing" } /\ stage = "asked"
  /\ CanTransitionTo(machine, Transient(owner))
  /\ machine' = "Busy" /\ stage' = "working"
  /\ UNCHANGED << reported, owner, result >>

Succeed ==
  /\ stage = "working"
  /\ machine' = Target(owner)
  /\ stage' = IF owner = "closing" THEN "done" ELSE "ok"
  /\ UNCHANGED << reported, owner, result >>

(* A request to stop is passed on to a running guest, which may ignore it. *)
Acknowledge ==
  /\ owner = "requestStop" /\ stage = "asked"
  /\ machine = "Running"
  /\ stage' = "ok"
  /\ UNCHANGED << machine, reported, owner, result >>

(* Refused, without effect ...                                             *)
Decline ==
  /\ stage = "asked"
  /\ stage' = IF owner = "closing" THEN "refused" ELSE "err"
  /\ UNCHANGED << machine, reported, owner, result >>

(* ... or begun and failed; only a failed save leaves the machine as it was. *)
Fail ==
  /\ stage = "working"
  /\ machine' \in { "Error" } \cup (IF owner = "save" THEN { "Paused" } ELSE { })
  /\ stage' = IF owner = "closing" THEN "done" ELSE "err"
  /\ UNCHANGED << reported, owner, result >>

(* The guest powers off, or the machine breaks, of its own accord.         *)
GoDown ==
  /\ owner # "none"
  /\ \/ machine = "Running" /\ stage # "working" /\ machine' = "Stopped"
     \/ machine \in LiveState /\ machine' = "Error"
  /\ UNCHANGED << reported, owner, stage, result >>

(* That is reported later, but never of a machine that is live again,      *)
(* unless the success that made it so is about to be reported too, and     *)
(* never while a machine is saved: nothing is published after that.        *)
Report ==
  /\ owner # "none"
  /\ machine \in LiveState => stage = "ok" /\ owner \in Publishing
  /\ ~ (stage = "working" /\ owner = "save")
  /\ \/ reported' = "Stopped"
     \/ reported' = "Error" /\ machine = "Error"
  /\ UNCHANGED << machine, owner, stage, result >>

Publish ==
  /\ stage = "ok" /\ owner \in Publishing
  /\ reported' = Target(owner)
  /\ stage' = "published"
  /\ UNCHANGED << machine, owner, result >>

(* Ok only after the machine succeeded and the success was published.      *)
Return ==
  /\ owner \in Calls
  /\ \/ stage = "err" /\ result' = "err"
     \/ stage = "ok" /\ owner \notin Publishing /\ result' = "ok"
     \/ stage = "published" /\ result' = "ok"
  /\ owner' = "ready" /\ stage' = "none"
  /\ UNCHANGED << machine, reported >>

(* Drop lets go of a machine that does not work, and stops one that does;  *)
(* a paused one it leaves alone.                                           *)
CloseQuietly ==
  /\ owner = "ready"
  /\ machine \notin { "Running", "Busy" }
  /\ owner' = "none"
  /\ UNCHANGED << machine, reported, stage, result >>

CloseForcing ==
  /\ owner = "ready"
  /\ machine # "Paused"
  /\ owner' = "closing" /\ stage' = "asked"
  /\ UNCHANGED << machine, reported, result >>

Close ==
  /\ owner = "closing" /\ stage \in { "working", "done", "refused" }
  /\ owner' = "none" /\ stage' = IF stage = "refused" THEN stage ELSE "none"
  /\ UNCHANGED << machine, reported, result >>

Next ==
  \/ Open \/ Reject \/ Begin \/ Succeed \/ Acknowledge \/ Decline \/ Fail
  \/ GoDown \/ Report \/ Publish \/ Return
  \/ CloseQuietly \/ CloseForcing \/ Close
  \/ \E o \in Calls : Invoke(o)

Spec == Init /\ [][Next]_vars

-----------------------------------------------------------------------------
(* What the owner may rely on, whatever order the steps come in.           *)

(* Between calls state() is right about a live machine (transition_state). *)
ReadyIsTrue == owner = "ready" /\ machine \in LiveState => reported = machine

(* No machine runs on without its handle, but one that refused to stop     *)
(* (the Drop guard).                                                       *)
NoneRunsOn == owner = "none" /\ stage # "refused" => machine # "Running"

(* Drop never comes to stop a paused machine (Drop skips Paused).          *)
PausedIsSpared == owner = "closing" => machine # "Paused"

(* A success is never claimed of a machine that did not get there, or has  *)
(* not stopped or broken since (the null error of a completion handler).   *)
SuccessIsTrue ==
  stage \in { "ok", "published" } /\ owner \in Publishing
    => machine \in { Target(owner), "Stopped", "Error" }

Promises == ReadyIsTrue /\ NoneRunsOn /\ PausedIsSpared /\ SuccessIsTrue

(* The steps keep them together with what they say of a call under way.    *)
PromiseInv ==
  /\ machine \in { "Stopped", "Running", "Paused", "Error", "Busy" }
  /\ owner \in { "none", "ready", "closing" } \cup Calls
  /\ owner = "ready" => stage = "none"
  /\ owner \in Calls => stage \in { "asked", "working", "ok", "published", "err" }
  /\ owner = "closing" => stage \in { "asked", "working", "done", "refused" }
  /\ owner = "none" => stage \in { "none", "refused" }
  /\ owner # "none" => (stage = "working" <=> machine = "Busy")
  /\ owner # "none" /\ machine \in LiveState
       => reported = machine \/ (stage = "ok" /\ owner \in Publishing)
  /\ owner = "save" /\ stage = "working" => reported = "Paused"
  /\ stage = "working" => owner # "requestStop"
  /\ owner = "closing" /\ stage = "done" => machine # "Running"
  /\ Promises
=============================================================================

----------------------------- MODULE VzMethods -----------------------------
(***************************************************************************)
(* The methods of a VZVirtualMachine that kasou calls (src/src/vm.rs), and *)
(* what each of them does to the state of the machine.                     *)
(***************************************************************************)
EXTENDS VmState

(* The methods with a completion handler that the API of VmHandle calls.   *)
AsyncOp == { "start", "stop", "pause", "resume", "save", "restore" }

Op == AsyncOp \cup { "requestStop", "hardStop" }

(* The state a machine is in while it works on a method ...                *)
Transient(o) ==
  CASE o = "start"   -> "Starting"
    [] o = "pause"   -> "Pausing"
    [] o = "resume"  -> "Resuming"
    [] o = "save"    -> "Saving"
    [] o = "restore" -> "Restoring"
    [] OTHER         -> "Stopping"

(* ... and the one it reaches when that succeeds.                          *)
Target(o) ==
  CASE o \in { "start", "resume" }           -> "Running"
    [] o \in { "pause", "save", "restore" }  -> "Paused"
    [] OTHER                                 -> "Stopped"

(* The methods that publish a state when they succeed: the target state.   *)
Publishing == { "start", "stop", "pause", "resume", "restore" }
=============================================================================

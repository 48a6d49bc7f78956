------------------------------ MODULE VmState ------------------------------
(***************************************************************************)
(* The lifecycle states of a virtual machine and the predicates on them    *)
(* (the enum VmState and its methods in src/src/vm.rs).                    *)
(***************************************************************************)

(* Every state a VZVirtualMachine or the watch channel can hold.           *)
State == { "Stopped", "Starting", "Running", "Pausing", "Paused",
           "Resuming", "Stopping", "Saving", "Restoring", "Error" }

(* A machine in one of these needs cleanup.  Stopping is not one of them.  *)
IsActive(s) ==
  s \in { "Starting", "Running", "Pausing", "Paused",
          "Resuming", "Saving", "Restoring" }

(* The pairs <<from, to>> that can_transition_to accepts.                  *)
Transitions ==
  { <<"Stopped", "Starting">>, <<"Starting", "Running">>,
    <<"Running", "Pausing">>, <<"Pausing", "Paused">>,
    <<"Paused", "Resuming">>, <<"Resuming", "Running">>,
    <<"Running", "Stopping">>, <<"Paused", "Stopping">>,
    <<"Stopping", "Stopped">>, <<"Running", "Stopped">>,
    <<"Paused", "Saving">>, <<"Saving", "Paused">>,
    <<"Stopped", "Restoring">>, <<"Restoring", "Paused">> }
  \cup { <<s, "Error">> : s \in State \ { "Stopped", "Error" } }

CanTransitionTo(s, t) == <<s, t>> \in Transitions

IsTerminal(s) == s = "Error"
=============================================================================

----------------------------- MODULE VzMachine -----------------------------
(***************************************************************************)
(* What lies below kasou: one VZVirtualMachine of Apple's framework and    *)
(* the serial dispatch queue it was created on.  Neither is in src/; both  *)
(* are modelled from the way src/src/vm.rs and src/src/delegate.rs use     *)
(* them:                                                                   *)
(*                                                                         *)
(*  - the queue runs its items one at a time in FIFO order: the blocks     *)
(*    kasou submits, and the completion handlers and delegate callbacks    *)
(*    of the framework;                                                    *)
(*  - the machine moves only along can_transition_to, which vm.rs states   *)
(*    as the framework's own lifecycle;                                    *)
(*  - a method call is answered by its completion handler: at once with    *)
(*    an error when the machine refuses, later when a step it began ends;  *)
(*  - a guest may power off or the machine fail at any time.               *)
(***************************************************************************)
EXTENDS VzMethods, Sequences

CONSTANT
  MayRefuse  \* methods the framework may refuse in a state that allows them

ASSUME MayRefuseAssumption == MayRefuse \subseteq Op

Item == [ kind : { "block", "ok", "err", "delegate" },
          arg  : Op \cup { "guestDidStop", "didStopWithError" } ]

Block(o)         == [ kind |-> "block", arg |-> o ]
Completion(o, r) == [ kind |-> r, arg |-> o ]
Callback(c)      == [ kind |-> "delegate", arg |-> c ]

VARIABLES
  vz,       \* the state of the machine itself
  handler,  \* the method whose completion handler the machine holds, or "none"
  queue     \* the serial dispatch queue

vzVars == << vz, handler, queue >>

(* A block of the queue calls method o; rest is the queue without it.      *)
VzInvoke(o, rest) ==
  \/ /\ CanTransitionTo(vz, Transient(o))
     /\ vz' = Transient(o)
     /\ handler' = o
     /\ queue' = rest
  \/ /\ CanTransitionTo(vz, Transient(o)) => o \in MayRefuse
     /\ queue' = Append(rest, Completion(o, "err"))
     /\ UNCHANGED << vz, handler >>

(* The step in progress succeeds.                                          *)
VzFinish ==
  /\ handler # "none"
  /\ vz' = Target(handler)
  /\ handler' = "none"
  /\ queue' = Append(queue, Completion(handler, "ok"))

(* The step in progress fails and only its completion handler is told.  A  *)
(* failed save leaves the machine Paused or breaks it.                     *)
VzFail ==
  /\ handler # "none"
  /\ vz' \in { "Error" } \cup (IF handler = "save" THEN { "Paused" } ELSE {})
  /\ handler' = "none"
  /\ queue' = Append(queue, Completion(handler, "err"))

(* The guest powers itself off.                                            *)
GuestStop ==
  /\ vz = "Running"
  /\ vz' = "Stopped"
  /\ queue' = Append(queue, Callback("guestDidStop"))
  /\ UNCHANGED handler

(* The machine breaks.  The delegate is told, and so is the completion     *)
(* handler of a step in progress, in either order.                         *)
VzCrash ==
  /\ CanTransitionTo(vz, "Error")
  /\ vz' = "Error"
  /\ handler' = "none"
  /\ LET told == Callback("didStopWithError")
     IN  IF handler = "none"
           THEN queue' = Append(queue, told)
           ELSE LET failed == Completion(handler, "err")
                IN  \/ queue' = Append(Append(queue, failed), told)
                    \/ queue' = Append(Append(queue, told), failed)

VzStep == VzFinish \/ VzFail \/ GuestStop \/ VzCrash
=============================================================================

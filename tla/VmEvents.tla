------------------------------ MODULE VmEvents ------------------------------
(***************************************************************************)
(* The event bus of src/src/event.rs with its subscribers, over the handle *)
(* that emits to it.                                                       *)
(*                                                                         *)
(* A tokio broadcast channel keeps the last Capacity events (256 in the    *)
(* code).  A receiver sees those emitted since it subscribed, in order; if *)
(* it falls behind, the oldest are lost and its next recv() says so        *)
(* (Lagged).  What a receiver has still to read is its inbox here, which   *)
(* comes to the same and lets every receiver be looked at on its own.      *)
(***************************************************************************)
EXTENDS VmHandle

CONSTANTS
  Receiver,  \* subscribers of the event bus
  Capacity   \* what VmEventBus::new is given

ASSUME CapacityAssumption == Capacity \in Nat \ { 0 }

VARIABLES
  inbox,   \* the events each receiver has yet to read; Nothing: no receiver
  lagged,  \* whether it has lost some that it has not been told of
  last     \* the state it believes in: of the last StateChanged it has read,
           \* or state() when it subscribed; none: it has been told of a loss

rxVars == << inbox, lagged, last >>

IsChange(e) == e.kind = "StateChanged"

(* No subscription: the receiver was dropped, or never made.               *)
Nothing == << Notice("none") >>

Subscribed(r) == inbox[r] # Nothing

RxTypeOK ==
  /\ inbox \in [Receiver -> Seq(Event)]
  /\ \A r \in Receiver : Len(inbox[r]) <= Capacity
  /\ lagged \in [Receiver -> BOOLEAN]
  /\ last \in [Receiver -> State \cup { "none" }]

RxInit ==
  /\ Init
  /\ inbox = [r \in Receiver |-> Nothing]
  /\ lagged = [r \in Receiver |-> FALSE]
  /\ last = [r \in Receiver |-> "none"]

(* Mutant of Send: a full channel drops the event without a word.          *)
SendDropping(e) ==
  /\ inbox' = [r \in Receiver |->
       IF Subscribed(r) /\ Len(inbox[r]) < Capacity
         THEN Append(inbox[r], e) ELSE inbox[r]]
  /\ UNCHANGED << lagged, last >>

(* Mutant of Send: an unbounded queue for each subscriber.                 *)
SendUnbounded(e) ==
  /\ inbox' = [r \in Receiver |->
       IF Subscribed(r) THEN Append(inbox[r], e) ELSE inbox[r]]
  /\ UNCHANGED << lagged, last >>

(* tx.send(event): a full inbox loses its oldest event; the emitter never  *)
(* waits, and does not care whether anybody listens.                       *)
Send(e) ==
  /\ inbox' = [r \in Receiver |->
       IF ~ Subscribed(r) THEN inbox[r]
       ELSE IF Len(inbox[r]) < Capacity THEN Append(inbox[r], e)
       ELSE Append(Tail(inbox[r]), e)]
  /\ lagged' = [r \in Receiver |->
       lagged[r] \/ (Subscribed(r) /\ Len(inbox[r]) = Capacity)]
  /\ UNCHANGED last

(* events(), and one look at state(), by the owner of the handle: it is in *)
(* no call.                                                                *)
Subscribe(r) ==
  /\ pc = "idle" /\ ~ Subscribed(r)
  /\ inbox' = [inbox EXCEPT ![r] = << >>]
  /\ lagged' = [lagged EXCEPT ![r] = FALSE]
  /\ last' = [last EXCEPT ![r] = watch]
  /\ UNCHANGED vars

(* recv() yields the next event ...                                        *)
Receive(r) ==
  /\ Subscribed(r) /\ ~ lagged[r] /\ inbox[r] # << >>
  /\ inbox' = [inbox EXCEPT ![r] = Tail(@)]
  /\ last' = [last EXCEPT ![r] = IF IsChange(Head(inbox[r])) THEN Head(inbox[r]).to ELSE @]
  /\ UNCHANGED << vars, lagged >>

(* ... or Lagged(n), once for all that was lost.                           *)
ReceiveLagged(r) ==
  /\ Subscribed(r) /\ lagged[r]
  /\ lagged' = [lagged EXCEPT ![r] = FALSE]
  /\ last' = [last EXCEPT ![r] = "none"]
  /\ UNCHANGED << vars, inbox >>

(* The receiver is dropped, on its own or because it reads Closed: the     *)
(* handle is gone and everything has been read.                            *)
Unsubscribe(r) ==
  /\ Subscribed(r)
  /\ inbox' = [inbox EXCEPT ![r] = Nothing]
  /\ lagged' = [lagged EXCEPT ![r] = FALSE]
  /\ last' = [last EXCEPT ![r] = "none"]
  /\ UNCHANGED vars

Emit == EmitChange \/ EmitNotice \/ AnnounceIp

(* A new handle has a new bus; what is left of the old one is not followed *)
(* any further.                                                            *)
Renew ==
  /\ Create
  /\ inbox' = [r \in Receiver |-> Nothing]
  /\ lagged' = [r \in Receiver |-> FALSE]
  /\ last' = [r \in Receiver |-> "none"]

RxNext ==
  \/ Emit /\ Send(bus')
  \/ Renew
  \/ /\ \/ \E o \in AsyncOp \cup { "requestStop" } : Call(o) \/ RejectPath(o)
        \/ ReturnErr \/ Publish \/ DropRelease \/ DropQuietly \/ DropForcing
        \/ RunQueue \/ CancelBlock \/ Machine
     /\ UNCHANGED rxVars
  \/ \E r \in Receiver : Subscribe(r) \/ Receive(r) \/ ReceiveLagged(r) \/ Unsubscribe(r)

RxSpec == RxInit /\ [][RxNext]_<< vars, rxVars >>

-----------------------------------------------------------------------------
(* What a subscriber can rely on.                                          *)

(* A StateChanged that follows one to state s: it starts from s, or from a *)
(* stop or error, which only the watch channel has told of.                *)
Follows(e, s) == e.from \in { s, "Stopped", "Error" }

(* A subscriber that has not been told of a loss reads a history without a *)
(* gap: every change starts where the one before it ended, unless the      *)
(* delegate has reported a stop in between (the doc of event.rs: slow      *)
(* subscribers lag and can recover; state_changed with the `before` of the *)
(* caller).                                                                *)
HistoryHasNoGap ==
  [][\A r \in Receiver :
       Receive(r) /\ IsChange(Head(inbox[r])) /\ last[r] # "none"
         => Follows(Head(inbox[r]), last[r])]_<< vars, rxVars >>

(* It has read everything, and was told of no loss since the last change.  *)
CaughtUp(r) == inbox[r] = << >> /\ ~ lagged[r] /\ last[r] # "none"

(* A subscriber that has caught up knows what state() says, except for the *)
(* stops and errors of a machine that is live no more: those are all that  *)
(* the bus does not carry (VmDelegate sends on the watch channel only).    *)
OnlyStopsAreMissed ==
  \A r \in Receiver :
    CaughtUp(r) /\ pc \notin { "wait", "emit" } =>
      \/ watch = last[r]
      \/ watch \in { "Stopped", "Error" } /\ vz \notin { "Running", "Paused" }
=============================================================================

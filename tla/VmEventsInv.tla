----------------------------- MODULE VmEventsInv -----------------------------
(***************************************************************************)
(* The inductive invariant of VmEvents: how what a receiver has read, what *)
(* it has yet to read and what the handle is about to emit hang together.  *)
(***************************************************************************)
EXTENDS VmEvents, VmHandleInv

(* The state r believes in when it comes to read its inbox: "none" when it *)
(* has lost events.                                                        *)
Belief(r) == IF lagged[r] THEN "none" ELSE last[r]

(* No change among the events of q from the i-th to the j-th.              *)
NoChange(q, i, j) == \A k \in i..j : ~ IsChange(q[k])

(* Every change in q starts where the one before it in q ended.            *)
Chained(q) ==
  \A i, j \in 1..Len(q) :
    i < j /\ IsChange(q[i]) /\ IsChange(q[j]) /\ NoChange(q, i + 1, j - 1)
      => Follows(q[j], q[i].to)

(* The first change in q starts from s.                                    *)
Anchored(q, s) ==
  \A j \in 1..Len(q) :
    IsChange(q[j]) /\ NoChange(q, 1, j - 1) => Follows(q[j], s)

(* Whoever believes in s and then reads q will have been told of w, unless *)
(* w is a stop or error or it was told of a loss and of nothing since.     *)
Told(q, s, w) ==
  \/ w \in { "Stopped", "Error" }
  \/ \E i \in 1..Len(q) :
       IsChange(q[i]) /\ NoChange(q, i + 1, Len(q)) /\ q[i].to = w
  \/ NoChange(q, 1, Len(q)) /\ s \in { w, "none" }

(* What holds of one receiver.  The state a call started from, which its   *)
(* event will name, is one the receiver will have been told of.            *)
HistoryInv(r) ==
  Subscribed(r) =>
    /\ Chained(inbox[r])
    /\ Belief(r) # "none" => Anchored(inbox[r], Belief(r))
    /\ pc # "emit" => Told(inbox[r], Belief(r), watch)
    /\ pc \in { "wait", "emit" } /\ op \in Publishing
         => Told(inbox[r], Belief(r), before)

(* A machine that outlives its handle is still what it was reported to be. *)
LastReport == pc = "gone" /\ vz \in Live => watch = vz

(* The inductive invariant: with IInv it implies OnlyStopsAreMissed, and   *)
(* HistoryHasNoGap of every step (event.rs; transition_state).             *)
RxInv ==
  /\ RxTypeOK
  /\ LastReport
  /\ \A r \in Receiver : HistoryInv(r)
=============================================================================

--------------------------- MODULE LeaseLookupInv ---------------------------
(***************************************************************************)
(* The inductive invariant of LeaseLookup.                                 *)
(***************************************************************************)
EXTENDS LeaseLookup

(* A caller that has just looked, and seen what there is, has missed no    *)
(* lease that is in the file as a whole.                                   *)
LookedInv ==
  pc = "check" /\ ~ newer => ~ (Written = Len(blocks) /\ Mine # { })

(* The inductive invariant: it implies of every step AnswerIsCurrent and   *)
(* NoLeaseMissed (wait_for_ip).                                            *)
LeaseInv ==
  /\ TypeOK
  /\ pc # "idle" => mac # None
  /\ LookedInv
=============================================================================

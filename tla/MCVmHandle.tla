---- MODULE MCVmHandle ----
EXTENDS VmHandleRefinement
MCMayRefuse == AsyncOp \cup { "hardStop" }

(* The hard stop of Drop is taken up wherever can_transition_to allows it. *)
MCStopObeyed == AsyncOp
====

------------------------- MODULE VmConfigBuilderInv -------------------------
(***************************************************************************)
(* The inductive invariant of VmConfigBuilder.                             *)
(***************************************************************************)
EXTENDS VmConfigBuilder

(* The builder holds the text of the address that was derived last.        *)
MacInv ==
  LET s == LastOf({ "deterministic_mac" })
  IN  s > LastOf({ "mac" }) =>
        calls[s].arg \in Seed /\ mac = to_string(deterministic(HashOf[calls[s].arg]))

(* A verdict stands until another builder is begun.                        *)
VerdictInv == result \in { "none", Verdict }

(* The inductive invariant: it implies MacIsReadBack and                   *)
(* AcceptedFilesArePresent, for any number of calls (the methods of the    *)
(* builder and build()).                                                   *)
BuilderInv ==
  /\ TypeOK /\ BootIsAsCalled /\ DevicesAreAsCalled /\ MacInv /\ VerdictInv
=============================================================================

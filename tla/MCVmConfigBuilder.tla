------------------------- MODULE MCVmConfigBuilder -------------------------
EXTENDS VmConfigBuilderInv

CONSTANTS there, missing, host, quiet, home, work

Paths == { there, missing }
ThePresent == { there }
TheParentless == { missing }
CommandLines == { quiet }
Tags == { home, work }

(* The one that validate() refuses.                                        *)
Counts == { 0 }

(* An address written with one digit less and a plus sign, and no address. *)
Texts ==
  { << <<5, 10>>, <<9, 4>>, <<Plus, 14>>, <<0, 0, 11>>, <<12>>, <<1, 2>> >>,
    << <<Odd, 0>> >> }

Seeds == { host }
Hash  == [ s \in Seeds |-> << 7, 160, 255, 0, 1, 2, 3, 4 >> ]
=============================================================================

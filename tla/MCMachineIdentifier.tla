------------------------ MODULE MCMachineIdentifier ------------------------
EXTENDS MachineIdentifier, TLC

CONSTANTS p1, p2, a, b, c, i1, i2, i3

OneProc == { p1 }
TwoProcs == { p1, p2 }
Ids == { a, b, c }
Inodes == { i1, i2, i3 }
NoFaults == { }
Power == { "power" }
PowerAndStat == { "power", "stat" }

(* Processes, identifiers and files are interchangeable.                   *)
Symmetry ==
  Permutations(Proc) \cup Permutations(Ids) \cup Permutations(Inodes)
=============================================================================

------------------------- MODULE MCVzConfiguration -------------------------
EXTENDS VzConfigurationInv, TLC

CONSTANTS p1, p2, kernel, initrd, disk, image, dir, store, id, log, odd

Procs == { p1, p2 }
Paths == { kernel, initrd, disk, image, dir, store, id, log, odd }
TheLoose == { kernel, disk, dir, store }
TheNotUtf8 == { odd }

(* Its variable store is named without a directory.                        *)
EfiVm ==
  [ kind |-> "Efi", parent |-> None, variable_store |-> store, disks |-> << image >>,
    mac |-> "valid", serial |-> None, shared_dirs |-> << >>,
    machine_identifier_path |-> id ]

LinuxVm ==
  [ kind |-> "Linux", kernel |-> kernel, initrd |-> initrd, disks |-> << disk >>,
    mac |-> "valid", serial |-> None, shared_dirs |-> << >>,
    machine_identifier_path |-> id ]

(* Two disks, two shared directories and a serial log.                     *)
Sharing ==
  [ LinuxVm EXCEPT !.disks = << disk, image >>, !.shared_dirs = << dir, image >>,
                   !.serial = log, !.machine_identifier_path = None ]

(* Two that validate() accepts and build_vz_config refuses.                *)
WrongMac ==
  [ EfiVm EXCEPT !.mac = "invalid", !.parent = dir, !.machine_identifier_path = None ]

WrongName == [ LinuxVm EXCEPT !.serial = odd, !.machine_identifier_path = None ]

Configs == { EfiVm, LinuxVm, Sharing, WrongMac, WrongName }

Symmetry == Permutations(Procs)
=============================================================================

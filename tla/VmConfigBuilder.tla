-------------------------- MODULE VmConfigBuilder --------------------------
(***************************************************************************)
(* VmConfigBuilder of src/src/builder.rs and VmConfig::validate of         *)
(* src/src/config.rs: the methods of the builder may be called in any      *)
(* order and number, and build() decides.  The methods that select a boot  *)
(* mode overwrite each other; the rest set one field each, or append to    *)
(* it.                                                                     *)
(***************************************************************************)
EXTENDS MacAddress, FiniteSetsExt

CONSTANTS
  Path,        \* file names
  Present,     \* the files there are
  Parentless,  \* those whose directory does not exist
  CommandLine, \* kernel command lines
  Count,       \* numbers of CPUs, and of MiB
  Tag,         \* names of shared directories
  Spelled,     \* texts that a client gives as a MAC address
  Seed,        \* seeds of deterministic MAC addresses
  HashOf,      \* the hash of each seed and the id of the VM, in bytes
  None,
  MaxCalls     \* bound on the calls made on one builder

ASSUME BuilderAssumption ==
  /\ Present \subseteq Path /\ Parentless \subseteq Path \ Present
  /\ None \notin Path \cup CommandLine \cup Tag
  /\ Count \subseteq Nat
  /\ Spelled \subseteq Text
  /\ HashOf \in [Seed -> [1..8 -> Byte]]
  /\ MaxCalls \in Nat

VARIABLES
  boot_mode,  \* the accumulator BootMode
  cpus,
  memory_mib,
  disks,      \* the disks, read-only or not
  mac,        \* the text of the MAC address, << >> if none was given
  serial, machine_identifier_path,  \* paths, or None
  shared_dirs, \* the directories, each with its tag, read-only or not
  calls,      \* the calls made so far
  result      \* none: not built; ok; or the error of build()

counts == << cpus, memory_mib >>
devices == << disks, mac, serial, shared_dirs, machine_identifier_path >>
vars == << boot_mode, counts, devices, calls, result >>

Linux(k, i, c) == [ kind |-> "Linux", kernel |-> k, initrd |-> i, cmdline |-> c ]
Efi(s)         == [ kind |-> "Efi", variable_store |-> s ]

BootMode ==
  { Linux(k, i, c) : k, i \in Path \cup { None }, c \in CommandLine \cup { None } }
    \cup { Efi(s) : s \in Path \cup { None } }

LinuxCall == { "boot", "initrd", "cmdline" }
EfiCall   == { "efi_boot", "efi_variable_store" }
DiskCall  == { "disk", "disk_readonly" }

Shared == [ tag : Tag, host_path : Path, read_only : BOOLEAN ]

(* The calls there are, with the arguments that are told apart; a tag and  *)
(* a mode are given with a shared directory alone.                         *)
Call ==
  [ method : LinuxCall \cup EfiCall \cup DiskCall
               \cup { "mac", "deterministic_mac", "serial_file", "shared_dir",
                      "machine_identifier_path", "nat_network", "cpus", "memory_mib" },
    arg : Path \cup CommandLine \cup Spelled \cup Seed \cup { None },
    tag : Tag \cup { None }, read_only : BOOLEAN ]

CallOf(m, a) == [ method |-> m, arg |-> a, tag |-> None, read_only |-> FALSE ]
DirCall(t, f, ro) == [ CallOf("shared_dir", f) EXCEPT !.tag = t, !.read_only = ro ]

TypeOK ==
  /\ boot_mode \in BootMode
  /\ cpus \in Nat /\ memory_mib \in Nat
  /\ disks \in Seq([ path : Path, read_only : BOOLEAN ])
  /\ mac = << >> \/ mac \in Text
  /\ serial \in Path \cup { None } /\ machine_identifier_path \in Path \cup { None }
  /\ shared_dirs \in Seq(Shared)
  /\ calls \in Seq(Call) /\ Len(calls) <= MaxCalls
  /\ result \in { "none", "ok", "Validation", "BootFilesNotFound", "DiskNotFound" }

(* VmConfigBuilder::new.                                                   *)
Init ==
  /\ boot_mode = Linux(None, None, None)
  /\ cpus = 2 /\ memory_mib = 2048
  /\ disks = << >> /\ mac = << >> /\ shared_dirs = << >>
  /\ serial = None /\ machine_identifier_path = None
  /\ calls = << >>
  /\ result = "none"

Made(c) ==
  /\ result = "none"
  /\ Len(calls) < MaxCalls
  /\ calls' = Append(calls, c)
  /\ UNCHANGED result

Called(m, a) == Made(CallOf(m, a))

(* The Linux accumulator a Linux method starts from: what there is of it,  *)
(* and nothing of an EFI one.                                              *)
LinuxSoFar == IF boot_mode.kind = "Linux" THEN boot_mode ELSE Linux(None, None, None)

boot(k) ==
  /\ Called("boot", k)
  /\ boot_mode' = [LinuxSoFar EXCEPT !.kernel = k]
  /\ UNCHANGED << counts, devices >>

(* Mutant of initrd: it starts a new accumulator.                          *)
initrd_anew(i) ==
  /\ Called("initrd", i)
  /\ boot_mode' = Linux(None, i, None)
  /\ UNCHANGED << counts, devices >>

initrd(i) ==
  /\ Called("initrd", i)
  /\ boot_mode' = [LinuxSoFar EXCEPT !.initrd = i]
  /\ UNCHANGED << counts, devices >>

cmdline(c) ==
  /\ Called("cmdline", c)
  /\ boot_mode' = [LinuxSoFar EXCEPT !.cmdline = c]
  /\ UNCHANGED << counts, devices >>

(* Mutant of efi_boot: only the tag of the accumulator changes.            *)
efi_boot_tag ==
  /\ Called("efi_boot", None)
  /\ boot_mode' = [boot_mode EXCEPT !.kind = "Efi"]
  /\ UNCHANGED << counts, devices >>

efi_boot ==
  /\ Called("efi_boot", None)
  /\ boot_mode' = IF boot_mode.kind = "Efi" THEN boot_mode ELSE Efi(None)
  /\ UNCHANGED << counts, devices >>

efi_variable_store(s) ==
  /\ Called("efi_variable_store", s)
  /\ boot_mode' = Efi(s)
  /\ UNCHANGED << counts, devices >>

(* Mutant of disk: the first disk is the one that was added last.          *)
disk_first(d, ro) ==
  /\ Called(IF ro THEN "disk_readonly" ELSE "disk", d)
  /\ disks' = << [ path |-> d, read_only |-> ro ] >> \o disks
  /\ UNCHANGED << boot_mode, counts, mac, serial, shared_dirs, machine_identifier_path >>

(* disk and disk_readonly.                                                 *)
disk(d, ro) ==
  /\ Called(IF ro THEN "disk_readonly" ELSE "disk", d)
  /\ disks' = Append(disks, [ path |-> d, read_only |-> ro ])
  /\ UNCHANGED << boot_mode, counts, mac, serial, shared_dirs, machine_identifier_path >>

(* mac and deterministic_mac: any text, or the text of an address.         *)
set_mac(t) ==
  /\ Called("mac", t)
  /\ mac' = t
  /\ UNCHANGED << boot_mode, counts, disks, serial, shared_dirs, machine_identifier_path >>

deterministic_mac(s) ==
  /\ Called("deterministic_mac", s)
  /\ mac' = to_string(deterministic(HashOf[s]))
  /\ UNCHANGED << boot_mode, counts, disks, serial, shared_dirs, machine_identifier_path >>

serial_file(f) ==
  /\ Called("serial_file", f)
  /\ serial' = f
  /\ UNCHANGED << boot_mode, counts, disks, mac, shared_dirs, machine_identifier_path >>

shared_dir(t, f, ro) ==
  /\ Made(DirCall(t, f, ro))
  /\ shared_dirs' = Append(shared_dirs, [ tag |-> t, host_path |-> f, read_only |-> ro ])
  /\ UNCHANGED << boot_mode, counts, disks, mac, serial, machine_identifier_path >>

set_machine_identifier_path(f) ==
  /\ Called("machine_identifier_path", f)
  /\ machine_identifier_path' = f
  /\ UNCHANGED << boot_mode, counts, disks, mac, serial, shared_dirs >>

(* nat_network changes nothing.                                            *)
nat_network ==
  /\ Called("nat_network", None)
  /\ UNCHANGED << boot_mode, counts, devices >>

(* cpus and memory_mib.                                                    *)
set_cpus(n) ==
  /\ Called("cpus", None)
  /\ cpus' = n
  /\ UNCHANGED << boot_mode, memory_mib, devices >>

set_memory_mib(n) ==
  /\ Called("memory_mib", None)
  /\ memory_mib' = n
  /\ UNCHANGED << boot_mode, cpus, devices >>

(* The boot files that validate() looks for.                               *)
BootFiles(mode) ==
  IF mode.kind = "Linux" THEN { mode.kernel, mode.initrd } ELSE { }

(* An EFI variable store is created at the first boot: its directory alone *)
(* must be there.                                                          *)
StoreHasNoParent ==
  boot_mode.kind = "Efi" /\ boot_mode.variable_store \in Parentless

(* Mutant of Verdict: only the first disk is looked for.                   *)
VerdictFirstDisk ==
  IF boot_mode.kind = "Linux" /\ None \in BootFiles(boot_mode) THEN "Validation"
  ELSE IF cpus = 0 \/ memory_mib = 0 \/ disks = << >> THEN "Validation"
  ELSE IF ~ BootFiles(boot_mode) \subseteq Present THEN "BootFilesNotFound"
  ELSE IF StoreHasNoParent THEN "Validation"
  ELSE IF disks[1].path \notin Present THEN "DiskNotFound"
  ELSE "ok"

(* What build() returns: the missing boot files of the builder first, then *)
(* the checks of validate() in their order.                                *)
Verdict ==
  IF boot_mode.kind = "Linux" /\ None \in BootFiles(boot_mode) THEN "Validation"
  ELSE IF cpus = 0 \/ memory_mib = 0 \/ disks = << >> THEN "Validation"
  ELSE IF ~ BootFiles(boot_mode) \subseteq Present THEN "BootFilesNotFound"
  ELSE IF StoreHasNoParent THEN "Validation"
  ELSE IF \E i \in DOMAIN disks : disks[i].path \notin Present THEN "DiskNotFound"
  ELSE "ok"

build ==
  /\ result = "none"
  /\ result' = Verdict
  /\ UNCHANGED << boot_mode, counts, devices, calls >>

(* build() consumes the builder; the client may begin another.             *)
begin ==
  /\ result # "none"
  /\ boot_mode' = Linux(None, None, None)
  /\ cpus' = 2 /\ memory_mib' = 2048
  /\ disks' = << >> /\ mac' = << >> /\ shared_dirs' = << >>
  /\ serial' = None /\ machine_identifier_path' = None
  /\ calls' = << >>
  /\ result' = "none"

Next ==
  \/ \E f \in Path : boot(f) \/ initrd(f) \/ efi_variable_store(f)
  \/ \E f \in Path, ro \in BOOLEAN : disk(f, ro)
  \/ \E f \in Path : serial_file(f) \/ set_machine_identifier_path(f)
  \/ \E t \in Tag, f \in Path, ro \in BOOLEAN : shared_dir(t, f, ro)
  \/ \E t \in Spelled : set_mac(t)
  \/ \E s \in Seed : deterministic_mac(s)
  \/ \E c \in CommandLine : cmdline(c)
  \/ \E n \in Count : set_cpus(n) \/ set_memory_mib(n)
  \/ efi_boot \/ nat_network
  \/ build
  \/ begin

Spec == Init /\ [][Next]_vars

-----------------------------------------------------------------------------
(* What the calls ask for, whatever their order.                           *)

(* The calls of methods M, the last of them, 0 if there is none, and which *)
(* of them call i is.                                                      *)
CallsOf(M) == { i \in DOMAIN calls : calls[i].method \in M }
LastOf(M)  == Max(CallsOf(M) \cup { 0 })
Rank(M, i) == Cardinality({ j \in CallsOf(M) : j <= i })

(* The argument of the last call of m after call number n.                 *)
LastArg(m, n) ==
  LET l == LastOf({ m }) IN IF l > n THEN calls[l].arg ELSE None

(* The last call that names a boot mode selects it; a field has the value  *)
(* it was last given since the other mode was last named (the comments on  *)
(* initrd and cmdline, "order-independent", and on the EFI methods).       *)
BootIsAsCalled ==
  LET l == LastOf(LinuxCall)
      e == LastOf(EfiCall)
  IN  boot_mode = IF e > l
                    THEN Efi(LastArg("efi_variable_store", l))
                    ELSE Linux(LastArg("boot", e), LastArg("initrd", e),
                               LastArg("cmdline", e))

(* Nothing that was added is lost or moved, whatever was called in         *)
(* between: an EFI guest boots the first disk it can, what was shared      *)
(* under a name still is, and what was read-only stays so (disk,           *)
(* disk_readonly, shared_dir; the doc of efi_boot: "scans the disk set and *)
(* boots the first EFI-bootable image").                                   *)
DevicesAreAsCalled ==
  /\ Len(disks) = Cardinality(CallsOf(DiskCall))
  /\ \A i \in CallsOf(DiskCall) :
       disks[Rank(DiskCall, i)] =
         [ path |-> calls[i].arg, read_only |-> calls[i].method = "disk_readonly" ]
  /\ Len(shared_dirs) = Cardinality(CallsOf({ "shared_dir" }))
  /\ \A i \in CallsOf({ "shared_dir" }) :
       shared_dirs[Rank({ "shared_dir" }, i)] =
         [ tag |-> calls[i].tag, host_path |-> calls[i].arg, read_only |-> calls[i].read_only ]
  /\ serial = LastArg("serial_file", 0)
  /\ machine_identifier_path = LastArg("machine_identifier_path", 0)

(* A MAC address that was derived from a seed, and not replaced by a text, *)
(* is read back from the configuration as it was derived: unicast, locally *)
(* administered, in the range 52:55:55 (deterministic_mac and info(), which *)
(* parses the text that the builder kept).                                 *)
MacIsReadBack ==
  LET s == LastOf({ "deterministic_mac" })
  IN  s > LastOf({ "mac" }) =>
        /\ Parses(mac)
        /\ parse(mac) = << 82, 85, 85 >> \o SubSeq(HashOf[calls[s].arg], 1, 3)

(* The files that an accepted configuration boots from, in the mode the    *)
(* calls ended in, are there, and so is every disk and the directory of    *)
(* the variable store (validate, as called by build, which leaves shared   *)
(* directories to be looked for when the machine is created).              *)
AcceptedFilesArePresent ==
  result = "ok" =>
    /\ CallsOf(DiskCall) # { }
    /\ \A i \in CallsOf(DiskCall) : calls[i].arg \in Present
    /\ LastOf(EfiCall) <= LastOf(LinuxCall)
         => { LastArg("boot", 0), LastArg("initrd", 0) } \subseteq Present
    /\ LastOf(EfiCall) > LastOf(LinuxCall)
         => LastArg("efi_variable_store", LastOf(LinuxCall)) \notin Parentless
=============================================================================

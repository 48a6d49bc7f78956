-------------------------- MODULE VzConfiguration --------------------------
(***************************************************************************)
(* VmHandle::create: VmConfig::validate, then build_vz_config with the     *)
(* device constructors of src/src/boot.rs, disk.rs, network.rs, serial.rs  *)
(* and shared_dir.rs.                                                      *)
(*                                                                         *)
(* validate looks at the files, the constructors look again and use them,  *)
(* and some of them create files.  Between any two looks another program   *)
(* may add or remove a file, and another process may be in the same        *)
(* function; a create that fails halfway cleans nothing up.  A create is a *)
(* script of steps, run one at a time.                                     *)
(*                                                                         *)
(* Of load_or_create_machine_identifier this has what one boot may leave   *)
(* to the next: the temporary file and the path, and whether a whole       *)
(* identifier is there.  Which one it is, and what a power loss makes of   *)
(* it, are in MachineIdentifier.                                           *)
(***************************************************************************)
EXTENDS Naturals, Sequences, Functions

CONSTANTS
  Proc,     \* processes that create a VM from one configuration
  Config,   \* configurations, with positive counts and at least one disk
  Path,     \* the files they name
  Loose,    \* those that other programs may add and remove
  NotUtf8,  \* those whose name is not UTF-8
  None

ASSUME ConfigurationAssumption ==
  /\ Loose \subseteq Path /\ NotUtf8 \subseteq Path
  /\ None \notin Path
  /\ \A c \in Config :
       /\ c.kind \in { "Linux", "Efi" }
       /\ c.kind = "Linux" => { c.kernel, c.initrd } \subseteq Path
       /\ c.kind = "Efi" => { c.parent, c.variable_store } \subseteq Path \cup { None }
       /\ c.disks \in Seq(Path) /\ c.shared_dirs \in Seq(Path)
       /\ { c.serial, c.machine_identifier_path } \subseteq Path \cup { None }

(* The variable store is not named as the serial log or as the identifier  *)
(* as well.  The code does not check it, and keeps nothing if it is.       *)
ASSUME StoreAssumption ==
  \A c \in Config :
    c.kind = "Efi" /\ c.variable_store # None
      => c.variable_store \notin { c.serial, c.machine_identifier_path }

VARIABLES
  config,   \* the configuration they all use
  fs,       \* what is at each path
  tmp,      \* what is at path.with_extension("bin.tmp"), which they share
  file,     \* where the file each process has open there is now
  met,      \* history: two first boots have been at that file at once
  todo,     \* the steps each process has left in its create
  found,    \* the last path.exists() of each process that decides
  result,   \* what the last create of each process returned
  excused   \* what has come in the way of that create

draftVars == << tmp, file, met >>
vars == << config, fs, draftVars, todo, found, result, excused >>

(* An identifier that is not whole: just truncated, or of two writers.     *)
Broken == { "empty", "torn" }

(* blank: a variable store no guest has used yet; written: one a guest has.  *)
Content == { "none", "some", "blank", "written" } \cup Broken

Step(do, at, err) == [ do |-> do, at |-> at, err |-> err ]

Error == { "Validation", "BootFilesNotFound", "DiskNotFound", "InvalidConfig",
           "InvalidMac", "Framework" }

AnyStep == [ do : { "look", "url", "attach", "find", "open", "write", "rename",
                    "provide", "mac", "log", "validate" },
             at : Path \cup { None }, err : Error ]

(* The steps "do" for each path of a sequence.                             *)
Each(do, paths, err) == [ i \in DOMAIN paths |-> Step(do, paths[i], err) ]

(* Some path or none, as a sequence.                                       *)
Maybe(path) == IF path = None THEN << >> ELSE << path >>

BootFiles(c) == << c.kernel, c.initrd >>

(* Mutant of ValidateScript: the initrd is not looked for.                 *)
ValidateKernelOnly(c) ==
  (IF c.kind = "Linux" THEN Each("look", << c.kernel >>, "BootFilesNotFound")
                       ELSE Each("look", Maybe(c.parent), "Validation"))
    \o Each("look", c.disks, "DiskNotFound")

(* validate(): an EFI variable store needs its directory only.             *)
ValidateScript(c) ==
  (IF c.kind = "Linux" THEN Each("look", BootFiles(c), "BootFilesNotFound")
                       ELSE Each("look", Maybe(c.parent), "Validation"))
    \o Each("look", c.disks, "DiskNotFound")

(* load_or_create_machine_identifier.                                      *)
IdentifierScript(c) ==
  LET path == c.machine_identifier_path
  IN  IF path = None
        THEN << >>
        ELSE << Step("find", path, "Validation"), Step("open", path, "Validation"),
                Step("write", path, "Validation"), Step("rename", path, "Validation") >>

(* setup_boot_loader.                                                      *)
BootScript(c) ==
  IF c.kind = "Linux"
    THEN Each("look", BootFiles(c), "BootFilesNotFound")
           \o Each("url", BootFiles(c), "InvalidConfig")
    ELSE Each("url", Maybe(c.variable_store), "InvalidConfig")
           \o Each("find", Maybe(c.variable_store), "Framework")
           \o Each("provide", Maybe(c.variable_store), "Framework")

(* create_storage_device: a disk is looked for again, then opened.         *)
DiskScript(c) ==
  LET Device(d) == << Step("look", d, "DiskNotFound"), Step("url", d, "InvalidConfig"),
                      Step("attach", d, "Framework") >>
  IN  [ i \in 1..3 * Len(c.disks) |-> Device(c.disks[(i + 2) \div 3])[((i + 2) % 3) + 1] ]

(* create_serial_port.                                                     *)
SerialScript(c) ==
  Each("url", Maybe(c.serial), "InvalidConfig") \o Each("log", Maybe(c.serial), "Framework")

(* create_shared_dir for each directory, which nothing has looked for yet. *)
SharedDirScript(c) ==
  LET Device(d) == << Step("look", d, "InvalidConfig"), Step("url", d, "InvalidConfig") >>
  IN  [ i \in 1..2 * Len(c.shared_dirs) |->
          Device(c.shared_dirs[(i + 1) \div 2])[((i + 1) % 2) + 1] ]

(* build_vz_config_inner, in its order.                                    *)
BuildScript(c) ==
  IdentifierScript(c) \o BootScript(c) \o DiskScript(c)
    \o << Step("mac", None, "InvalidMac") >>
    \o SerialScript(c) \o SharedDirScript(c)
    \o << Step("validate", None, "Framework") >>

(* The files a configuration needs from elsewhere.                         *)
Inputs(c) ==
  Range(c.disks) \cup Range(c.shared_dirs)
    \cup (IF c.kind = "Linux" THEN Range(BootFiles(c)) ELSE Range(Maybe(c.parent)))

(* ... and those it makes when they are missing.                           *)
Outputs(c) ==
  Range(Maybe(c.machine_identifier_path)) \cup Range(Maybe(c.serial))
    \cup (IF c.kind = "Efi" THEN Range(Maybe(c.variable_store)) ELSE { })

(* The identifier is at a path of its own.                                 *)
ASSUME IdentifierAssumption ==
  \A c \in Config :
    c.machine_identifier_path # None
      => c.machine_identifier_path \notin Inputs(c) \cup { c.serial }

Result == [ err : { "none", "ok" } \cup Error, late : BOOLEAN ]

TypeOK ==
  /\ config \in Config
  /\ fs \in [Path -> Content]
  /\ tmp \in { "none", "some" } \cup Broken
  /\ file \in [Proc -> { "none", "tmp", "path" }]
  /\ met \in BOOLEAN
  /\ todo \in [Proc -> Seq(AnyStep)]
  /\ \A p \in Proc :
       Len(todo[p]) <= Len(ValidateScript(config)) + Len(BuildScript(config))
  /\ found \in [Proc -> BOOLEAN]
  /\ result \in [Proc -> Result]
  /\ excused \in [Proc -> SUBSET { "moved", "raced", "refused" }]

Init ==
  /\ config \in Config
  /\ fs \in [Path -> { "none", "some" }]
  /\ \A f \in Path \ Inputs(config) : fs[f] = "none"
  /\ tmp = "none" /\ file = [p \in Proc |-> "none"] /\ met = FALSE
  /\ todo = [p \in Proc |-> << >>]
  /\ found = [p \in Proc |-> FALSE]
  /\ result = [p \in Proc |-> [ err |-> "none", late |-> FALSE ]]
  /\ excused = [p \in Proc |-> { }]

Busy(p) == todo[p] # << >>

Runs(p, do) == Busy(p) /\ Head(todo[p]).do = do
This(p) == Head(todo[p])

(* validate() has passed.                                                  *)
Late(p) == Len(todo[p]) <= Len(BuildScript(config))

Excuse(ps, why) ==
  excused' = [p \in Proc |-> excused[p] \cup { w \in { why } : p \in ps }]

Advance(p) == todo' = [todo EXCEPT ![p] = Tail(@)] /\ UNCHANGED result

(* `?`: the error ends the create, and nothing is undone.                  *)
Fail(p) ==
  /\ todo' = [todo EXCEPT ![p] = << >>]
  /\ result' = [result EXCEPT ![p] = [ err |-> This(p).err, late |-> Late(p) ]]

(* Mutant of Create: it can be entered again before it has returned.       *)
CreateAgain(p) ==
  /\ todo' = [todo EXCEPT ![p] = @ \o ValidateScript(config) \o BuildScript(config)]
  /\ result' = [result EXCEPT ![p] = [ err |-> "none", late |-> FALSE ]]
  /\ excused' = [excused EXCEPT ![p] = { }]
  /\ UNCHANGED << config, fs, draftVars, found >>

Create(p) ==
  /\ ~ Busy(p)
  /\ todo' = [todo EXCEPT ![p] = ValidateScript(config) \o BuildScript(config)]
  /\ result' = [result EXCEPT ![p] = [ err |-> "none", late |-> FALSE ]]
  /\ excused' = [excused EXCEPT ![p] = { }]
  /\ UNCHANGED << config, fs, draftVars, found >>

(* exists(), and the attachment of a disk, which opens its file.           *)
Look(p) ==
  /\ Runs(p, "look") \/ Runs(p, "attach")
  /\ IF fs[This(p).at] = "none" THEN Fail(p) ELSE Advance(p)
  /\ UNCHANGED << config, fs, draftVars, found, excused >>

(* path_to_nsurl.                                                          *)
ToUrl(p) ==
  /\ Runs(p, "url")
  /\ IF This(p).at \in NotUtf8 THEN Fail(p) ELSE Advance(p)
  /\ UNCHANGED << config, fs, draftVars, found, excused >>

(* Mutant of Find: the file is taken to be missing.                        *)
FindNot(p) ==
  /\ Runs(p, "find")
  /\ found' = [found EXCEPT ![p] = FALSE]
  /\ Advance(p)
  /\ UNCHANGED << config, fs, draftVars, excused >>

(* path.exists() of the identifier, store_path.exists() of the store.      *)
Find(p) ==
  /\ Runs(p, "find")
  /\ found' = [found EXCEPT ![p] = fs[This(p).at] # "none"]
  /\ Advance(p)
  /\ UNCHANGED << config, fs, draftVars, excused >>

(* A first boot: p has opened the temporary file and not renamed it yet.   *)
Drafting(p) == (Runs(p, "write") \/ Runs(p, "rename")) /\ ~ found[p]

(* An identifier that was found is read, and is whole or an error.         *)
Load(p) ==
  /\ Runs(p, "open") /\ found[p]
  /\ IF fs[This(p).at] = "some" THEN Advance(p) ELSE Fail(p)
  /\ UNCHANGED << config, fs, draftVars, found, excused >>

(* Mutant of OpenDraft: create_new, which does not truncate.               *)
OpenDraftNew(p) ==
  /\ Runs(p, "open") /\ ~ found[p]
  /\ \/ /\ tmp = "none"
        /\ tmp' = "empty"
        /\ file' = [file EXCEPT ![p] = "tmp"]
        /\ Advance(p)
     \/ /\ tmp # "none"
        /\ Fail(p) /\ UNCHANGED << tmp, file >>
  /\ UNCHANGED << config, fs, met, found, excused >>

(* The directory is made, and the temporary file created, or the one that  *)
(* is already there emptied (File::create).                                *)
OpenDraft(p) ==
  /\ Runs(p, "open") /\ ~ found[p]
  /\ tmp' = "empty"
  /\ file' = [file EXCEPT ![p] = "tmp"]
  /\ met' = (met \/ \E q \in Proc \ { p } : Drafting(q))
  /\ Advance(p)
  /\ UNCHANGED << config, fs, found, excused >>

(* What a file holds that p has written to: an identifier, if nobody else  *)
(* has written to it or is about to; it may be of both otherwise.          *)
Written(p, before) ==
  IF before = "empty"
       /\ ~ \E q \in Proc \ { p } : Runs(q, "write") /\ ~ found[q] /\ file[q] = file[p]
    THEN { "some" }
    ELSE { "some", "torn" }

(* write_all and sync_all, to wherever another's rename has left the file, *)
(* which is then closed.                                                   *)
WriteDraft(p) ==
  /\ Runs(p, "write") /\ ~ found[p]
  /\ \/ /\ file[p] = "tmp"
        /\ tmp' \in Written(p, tmp) /\ UNCHANGED fs
     \/ /\ file[p] = "path"
        /\ \E new \in Written(p, fs[This(p).at]) : fs' = [fs EXCEPT ![This(p).at] = new]
        /\ UNCHANGED tmp
     \/ /\ file[p] = "none"
        /\ UNCHANGED << fs, tmp >>
  /\ file' = [file EXCEPT ![p] = "none"]
  /\ Advance(p)
  /\ UNCHANGED << config, met, found, excused >>

(* rename(&tmp, path), which fails if another has moved it; the files that *)
(* others have open move with it, or are replaced by it.                   *)
RenameDraft(p) ==
  /\ Runs(p, "rename") /\ ~ found[p]
  /\ \/ /\ tmp # "none"
        /\ fs' = [fs EXCEPT ![This(p).at] = tmp]
        /\ tmp' = "none"
        /\ file' = [q \in Proc |-> IF file[q] = "tmp" THEN "path" ELSE "none"]
        /\ Advance(p)
        /\ Excuse({ q \in Proc \ { p } : Drafting(q) }, "raced")
     \/ /\ tmp = "none"
        /\ Fail(p) /\ UNCHANGED << fs, tmp, file, excused >>
  /\ UNCHANGED << config, met, found >>

(* What a first boot does besides is left out when one was found.          *)
SkipDraft(p) ==
  /\ Runs(p, "write") \/ Runs(p, "rename")
  /\ found[p]
  /\ Advance(p)
  /\ UNCHANGED << config, fs, draftVars, found, excused >>

(* The directory of the variable store is there.                           *)
HasParent == \A d \in Range(Maybe(config.parent)) : fs[d] # "none"

(* Mutant of Provide: the option AllowOverwrite is given.                  *)
ProvideOverwriting(p) ==
  /\ Runs(p, "provide")
  /\ IF found[p]
       THEN Advance(p) /\ UNCHANGED << fs, excused >>
       ELSE /\ fs' = [fs EXCEPT ![This(p).at] = "blank"]
            /\ Advance(p)
            /\ Excuse(Proc \ { p }, "raced")
  /\ UNCHANGED << config, draftVars, found >>

(* A store that was found is opened, which cannot fail; else it is created *)
(* without the option to overwrite, which fails when there is one by now,  *)
(* or no directory to create it in.                                        *)
Provide(p) ==
  /\ Runs(p, "provide")
  /\ \/ /\ found[p]
        /\ Advance(p) /\ UNCHANGED << fs, excused >>
     \/ /\ ~ found[p]
        /\ fs[This(p).at] = "none" /\ HasParent
        /\ fs' = [fs EXCEPT ![This(p).at] = "blank"]
        /\ Advance(p)
        /\ Excuse(Proc \ { p }, "raced")
     \/ /\ ~ found[p]
        /\ fs[This(p).at] # "none" \/ ~ HasParent
        /\ Fail(p) /\ UNCHANGED << fs, excused >>
  /\ UNCHANGED << config, draftVars, found >>

(* parse_mac_address: VZMACAddress is nil for a text that is no address.   *)
SetMac(p) ==
  /\ Runs(p, "mac")
  /\ IF config.mac = "invalid" THEN Fail(p) ELSE Advance(p)
  /\ UNCHANGED << config, fs, draftVars, found, excused >>

(* The serial log is opened for appending, and created if need be.         *)
OpenLog(p) ==
  /\ Runs(p, "log")
  /\ fs' = [fs EXCEPT ![This(p).at] = "some"]
  /\ Advance(p)
  /\ UNCHANGED << config, draftVars, found, excused >>

(* validateWithError, the last step: the VM is created.                    *)
Complete(p) ==
  /\ Runs(p, "validate")
  /\ todo' = [todo EXCEPT ![p] = << >>]
  /\ result' = [result EXCEPT ![p] = [ err |-> "ok", late |-> TRUE ]]
  /\ UNCHANGED << config, fs, draftVars, found, excused >>

(* The framework or the file system refuses a step for a reason of its     *)
(* own, or throws an exception, which build_vz_config makes an error.      *)
Refuse(p) ==
  /\ Busy(p) /\ Late(p)
  /\ This(p).do \in { "open", "write", "rename", "provide", "attach", "log", "validate" }
  /\ Fail(p)
  /\ Excuse({ p }, "refused")
  /\ UNCHANGED << config, fs, draftVars, found >>

Throw(p) ==
  /\ Busy(p) /\ Late(p)
  /\ todo' = [todo EXCEPT ![p] = << >>]
  /\ result' = [result EXCEPT ![p] = [ err |-> "Framework", late |-> TRUE ]]
  /\ Excuse({ p }, "refused")
  /\ UNCHANGED << config, fs, draftVars, found >>

(* The process ends.                                                       *)
Die(p) ==
  /\ Busy(p)
  /\ todo' = [todo EXCEPT ![p] = << >>]
  /\ UNCHANGED << config, fs, draftVars, found, result, excused >>

(* The guest of a VM that was created uses its variable store.             *)
GuestWrites(p) ==
  /\ result[p].err = "ok"
  /\ \E f \in Path :
       /\ fs[f] = "blank"
       /\ fs' = [fs EXCEPT ![f] = "written"]
  /\ UNCHANGED << config, draftVars, todo, found, result, excused >>

(* Another program adds or removes a file.                                 *)
Meddle(f) ==
  /\ f \in Loose \cap (Inputs(config) \cup Outputs(config))
  /\ fs' = [fs EXCEPT ![f] = IF @ = "none" THEN "some" ELSE "none"]
  /\ Excuse(Proc, "moved")
  /\ UNCHANGED << config, draftVars, todo, found, result >>

Act(p) ==
  \/ Create(p) \/ Look(p) \/ ToUrl(p) \/ Find(p)
  \/ Load(p) \/ OpenDraft(p) \/ WriteDraft(p) \/ RenameDraft(p) \/ SkipDraft(p)
  \/ Provide(p) \/ SetMac(p) \/ OpenLog(p) \/ Complete(p)
  \/ Refuse(p) \/ Throw(p) \/ Die(p) \/ GuestWrites(p)

Next ==
  \/ \E p \in Proc : Act(p)
  \/ \E f \in Path : Meddle(f)

Spec == Init /\ [][Next]_vars

-----------------------------------------------------------------------------
(* What a create may say, and what it may leave behind.                    *)

(* A boot file or disk that validate has found is missed by the            *)
(* constructors only if it was moved meanwhile: the two look for the same  *)
(* files (validate, "without building VZ objects", and the checks of       *)
(* setup_boot_loader and create_storage_device).                           *)
ValidateForesees ==
  \A p \in Proc :
    result[p].late /\ result[p].err \in { "BootFilesNotFound", "DiskNotFound" }
      => "moved" \in excused[p]

(* Nothing that an earlier create left behind when it failed or died,      *)
(* wherever that was, makes a later one fail: one that nothing comes in    *)
(* the way of fails only if an input is missing, or the configuration is   *)
(* wrong in itself, or two first boots at once have broken the identifier  *)
(* (the exists() before a store or identifier is created, File::create of  *)
(* the temporary file, the append of the serial log).                      *)
LeftoversAreReusable ==
  [][\A p \in Proc :
       result'[p] # result[p] /\ result'[p].err \in Error /\ excused'[p] = { }
         => \/ \E f \in Inputs(config) : fs[f] = "none"
            \/ config.mac = "invalid"
            \/ NotUtf8 \cap (Inputs(config) \cup Outputs(config)) # { }
            \/ met /\ fs[config.machine_identifier_path] \in Broken]_vars

(* No create ever empties a variable store that a guest has used, also     *)
(* when two processes find none and both create it (the options of         *)
(* initCreatingVariableStoreAtURL; "the file is created if missing; reused *)
(* if present").                                                           *)
StoreIsNeverReset ==
  [][\A f \in Path : todo' # todo /\ fs[f] = "written" => fs'[f] = "written"]_vars
=============================================================================

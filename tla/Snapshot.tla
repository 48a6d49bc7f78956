------------------------------ MODULE Snapshot ------------------------------
(***************************************************************************)
(* Suspending a machine to a file and resuming it in a later process:      *)
(* save_state and restore_state of src/src/vm.rs, over the identifier that *)
(* load_or_create_machine_identifier keeps (module MachineIdentifier) and  *)
(* to which the framework binds a snapshot.                                *)
(*                                                                         *)
(* The calls are cut where a process can die, or the power fail: before    *)
(* the framework begins to write, before its completion handler, before    *)
(* and after sync_all.  The saved file has a volatile and a durable        *)
(* version, like the files of MachineIdentifier.                           *)
(***************************************************************************)
EXTENDS MachineIdentifier

VARIABLES
  vm,       \* the identifier each process's machine runs under
  stage,    \* what that machine and its handle are doing, see Stage
  snap,     \* what the snapshot file holds: see Contents
  dsnap,    \* ... on the disk
  dnamed,   \* whether the name of the snapshot file is on the disk
  bound,    \* the identifier of the last save that returned Ok
  promise,  \* how far that save can be counted on, see Promise
  calm      \* no power was lost, and no exists() has failed

snapVars == << vm, stage, snap, dsnap, dnamed, bound, promise, calm >>

(* stopped, paused: no call; saving: saveMachineStateToURL is under way;   *)
(* written: its completion handler has reported success to save_state.     *)
Stage == { "none", "stopped", "paused", "saving", "written" }

(* No file, one that is not whole, or a machine saved under an identifier. *)
Contents == { None, "torn" } \cup Id

(* none: no save, or it has been undone; saved: save_state returned Ok;    *)
(* synced: and sync_all succeeded before; safe: and the directories were   *)
(* written back since.                                                     *)
Promise == { "none", "saved", "synced", "safe" }

SnapTypeOK ==
  /\ TypeOK
  /\ vm \in [Proc -> Id \cup { None }] /\ stage \in [Proc -> Stage]
  /\ snap \in Contents /\ dsnap \in Contents /\ dnamed \in BOOLEAN
  /\ bound \in Id \cup { None } /\ promise \in Promise /\ calm \in BOOLEAN

SnapInit ==
  /\ Init
  /\ vm = [p \in Proc |-> None] /\ stage = [p \in Proc |-> "none"]
  /\ snap = None /\ dsnap = None /\ dnamed = FALSE
  /\ bound = None /\ promise = "none" /\ calm = TRUE

Become(p, s) == stage' = [stage EXCEPT ![p] = s]

-----------------------------------------------------------------------------
(* VmHandle::create: its machine runs under the identifier that the        *)
(* function of MachineIdentifier returns.                                  *)

Runs(p, i) ==
  /\ vm' = [vm EXCEPT ![p] = i]
  /\ Become(p, "stopped")

BootLoaded(p) ==
  /\ Load(p)
  /\ IF \E i \in Id : Holds("path", i)
       THEN \E i \in Id : Holds("path", i) /\ Runs(p, i)
       ELSE UNCHANGED << vm, stage >>
  /\ UNCHANGED << snap, dsnap, dnamed, bound, promise, calm >>

BootFresh(p) ==
  /\ ReturnFresh(p)
  /\ Runs(p, fresh[p])
  /\ UNCHANGED << snap, dsnap, dnamed, bound, promise, calm >>

(* An exists() that fails makes the function take a new identifier in the  *)
(* place of the one that is there: the saves made under it are undone.     *)
TakeFresh(p) ==
  /\ Generate(p)
  /\ promise' = IF dir["path"] = None THEN promise ELSE "none"
  /\ calm' = (calm /\ dir["path"] = None)
  /\ UNCHANGED << vm, stage, snap, dsnap, dnamed, bound >>

(* Its other steps, for a process that holds no machine.                   *)
Build(p) ==
  /\ \/ Enter(p) /\ vm[p] = None
     \/ Find(p) \/ CreateTmp(p) \/ WriteChunk(p) \/ SyncTmp(p)
     \/ RenameTmp(p) \/ Abandon(p)
  /\ UNCHANGED snapVars

-----------------------------------------------------------------------------
(* The machine's life.                                                     *)

(* start() and pause().                                                    *)
Suspend(p) ==
  /\ stage[p] = "stopped"
  /\ Become(p, "paused")
  /\ UNCHANGED << vars, vm, snap, dsnap, dnamed, bound, promise, calm >>

(* The block of save_state runs: from here on an earlier snapshot at the   *)
(* same path is gone, and this one is not there yet.                       *)
BeginSave(p) ==
  /\ stage[p] = "paused"
  /\ snap' = "torn"
  /\ promise' = "none"
  /\ Become(p, "saving")
  /\ UNCHANGED << vars, vm, dsnap, dnamed, bound, calm >>

(* The completion handler: the file is written, or the call has failed.    *)
EndSave(p) ==
  /\ stage[p] = "saving"
  /\ \/ snap' = vm[p] /\ Become(p, "written")
     \/ UNCHANGED snap /\ Become(p, "paused")
  /\ UNCHANGED << vars, vm, dsnap, dnamed, bound, promise, calm >>

Saved(p, s) ==
  /\ bound' = vm[p]
  /\ promise' = s
  /\ Become(p, "paused")
  /\ UNCHANGED << vars, vm, snap, dnamed, calm >>

(* Mutant of SyncSave: the sync is forgotten.                              *)
SyncSaveNot(p) ==
  /\ stage[p] = "written"
  /\ Saved(p, "synced")
  /\ UNCHANGED dsnap

(* save_state opens the file and syncs it, and returns Ok ...              *)
SyncSave(p) ==
  /\ stage[p] = "written"
  /\ dsnap' = snap
  /\ Saved(p, "synced")

(* ... as it does when the open or the sync fails: both are ignored.       *)
SkipSync(p) ==
  /\ stage[p] = "written"
  /\ UNCHANGED dsnap
  /\ Saved(p, "saved")

(* What restore_state needs: a whole file, saved under this identifier.    *)
Restorable(i) == snap = i

(* restore_state, and pause() if the machine was resumed in between.  It   *)
(* refuses any other file, and the machine stays as it is.                 *)
Restore(p) ==
  /\ stage[p] = "stopped"
  /\ Restorable(vm[p])
  /\ Become(p, "paused")
  /\ UNCHANGED << vars, vm, snap, dsnap, dnamed, bound, promise, calm >>

(* Drop, which does not stop a paused machine, or the end of the process   *)
(* wherever it is; a save that is under way stays as it is.                *)
Exit(p) ==
  /\ vm[p] # None
  /\ vm' = [vm EXCEPT ![p] = None]
  /\ Become(p, "none")
  /\ UNCHANGED << vars, snap, dsnap, dnamed, bound, promise, calm >>

-----------------------------------------------------------------------------
(* The file system and the machine it runs on.                             *)

(* One directory holds both names.                                         *)
WriteBackNames ==
  /\ WriteBackDir
  /\ dnamed' = (snap # None)
  /\ promise' = IF promise = "synced" THEN "safe" ELSE promise
  /\ UNCHANGED << vm, stage, snap, dsnap, bound, calm >>

(* A part of the snapshot, or all of it, reaches the disk.                 *)
WriteBackSnap ==
  /\ snap # dsnap
  /\ dsnap' \in { snap, "torn" }
  /\ UNCHANGED << vars, vm, stage, snap, dnamed, bound, promise, calm >>

LosePower ==
  /\ PowerLoss
  /\ vm' = [p \in Proc |-> None] /\ stage' = [p \in Proc |-> "none"]
  /\ snap' = IF dnamed THEN dsnap ELSE None
  /\ dsnap' = snap'
  /\ promise' = IF promise = "safe" THEN promise ELSE "none"
  /\ calm' = FALSE
  /\ UNCHANGED << dnamed, bound >>

SnapNext ==
  \/ \E p \in Proc :
       \/ BootLoaded(p) \/ BootFresh(p) \/ TakeFresh(p) \/ Build(p)
       \/ Suspend(p) \/ BeginSave(p) \/ EndSave(p) \/ SyncSave(p) \/ SkipSync(p)
       \/ Restore(p) \/ Exit(p)
  \/ WriteBackNames
  \/ WriteBackSnap
  \/ \E i \in Inode : WriteBackData(i) /\ UNCHANGED snapVars
  \/ LosePower

SnapSpec == SnapInit /\ [][SnapNext]_<< vars, snapVars >>

-----------------------------------------------------------------------------
(* After save_state has returned Ok, whoever boots next can resume: the    *)
(* file is whole and bound to the identifier that every boot will load,    *)
(* whatever dies and is retried in between, and across a loss of power     *)
(* too once the sync has succeeded and the directory was written (the      *)
(* comments on save_state and on machine_identifier_path).                 *)
Resumable ==
  promise # "none" => Restorable(bound) /\ Holds("path", bound)

(* Unless power is lost or exists() fails, an identifier that was returned *)
(* stays the one at the path, whole, whatever dies or fails at whichever   *)
(* step: the next boot loads it (load_or_create_machine_identifier).       *)
IssuedIsKept == calm => IssuedIsAtPath
=============================================================================

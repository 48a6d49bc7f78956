------------------------- MODULE MachineIdentifier -------------------------
(***************************************************************************)
(* load_or_create_machine_identifier of src/src/config.rs: the identifier  *)
(* a snapshot is bound to is generated at the first boot, written to a     *)
(* temporary file and renamed into place; every later boot loads it.       *)
(*                                                                         *)
(* Several processes may boot the same configuration.  Each step of the    *)
(* function is an action, so that a process can die, an I/O error can end  *)
(* it, and another process can run between any two.  Below them is a file  *)
(* system (external): a directory and file contents, each with a volatile  *)
(* and a durable version.  sync_all makes one file durable; the rest       *)
(* reaches the disk when the system chooses.                               *)
(***************************************************************************)
EXTENDS Naturals, Sequences, FiniteSets

CONSTANTS
  Proc,    \* processes that create a VM from the same configuration
  Id,      \* machine identifiers; a bound on how many are ever generated
  Inode,   \* files of the file system; a bound on how many exist at once
  Chunks,  \* in how many writes write_all puts an identifier into a file
  Faults,  \* of "power" (the machine loses power), "stat" (exists() fails)
  None

ASSUME IdentifierAssumption ==
  /\ Chunks \in Nat \ { 0 }
  /\ Faults \subseteq { "power", "stat" }
  /\ None \notin Id \cup Inode
  /\ "hole" \notin Id

VARIABLES
  dir,     \* the directory: the file each name leads to
  data,    \* the contents of each file, chunk by chunk
  ddir,    \* the directory as it is on the disk
  disk,    \* the contents as they are on the disk
  pc,      \* where each process is in the function
  fresh,   \* the identifier each process took from its platform
  file,    \* the file each process has open as its temporary file
  pos,     \* how many chunks each process has written to it
  used,    \* identifiers generated so far
  issued   \* identifiers returned so far, to which snapshots may be bound

fsVars   == << dir, data, ddir, disk >>
procVars == << pc, fresh, file, pos >>
vars     == << fsVars, procVars, used, issued >>

(* path, and path.with_extension("bin.tmp").                               *)
Name == { "path", "tmp" }

Chunk == Id \cup { "hole" }

(* What a file holds when identifier i is written to it as a whole; any    *)
(* other contents initWithDataRepresentation: refuses.                     *)
Representation(i) == [ c \in 1..Chunks |-> i ]

Holds(n, i) == dir[n] # None /\ data[dir[n]] = Representation(i)

TypeOK ==
  /\ dir \in [Name -> Inode \cup { None }] /\ ddir \in [Name -> Inode \cup { None }]
  /\ data \in [Inode -> Seq(Chunk)] /\ disk \in [Inode -> Seq(Chunk)]
  /\ pc \in [Proc -> { "idle", "check", "load", "create", "write", "sync",
                       "rename", "done" }]
  /\ fresh \in [Proc -> Id \cup { None }]
  /\ file \in [Proc -> Inode \cup { None }]
  /\ pos \in [Proc -> 0..Chunks]
  /\ used \subseteq Id /\ issued \subseteq Id

Init ==
  /\ dir = [n \in Name |-> None] /\ ddir = dir
  /\ data = [i \in Inode |-> << >>] /\ disk = data
  /\ pc = [p \in Proc |-> "idle"]
  /\ fresh = [p \in Proc |-> None] /\ file = fresh
  /\ pos = [p \in Proc |-> 0]
  /\ used = { } /\ issued = { }

Goto(p, l) == pc' = [pc EXCEPT ![p] = l]

-----------------------------------------------------------------------------
(* The function, step by step.                                             *)

(* build_vz_config_inner calls it: the configuration names a path.         *)
Enter(p) ==
  /\ pc[p] = "idle"
  /\ Goto(p, "check")
  /\ UNCHANGED << fsVars, fresh, file, pos, used, issued >>

(* path.exists() is false also when the path cannot be examined.           *)
Find(p) ==
  /\ pc[p] = "check"
  /\ dir["path"] # None
  /\ Goto(p, "load")
  /\ UNCHANGED << fsVars, fresh, file, pos, used, issued >>

(* The first boot: the identifier comes with the platform object.  The     *)
(* parent directory is made, if need be.                                   *)
Generate(p) ==
  /\ pc[p] = "check"
  /\ dir["path"] = None \/ "stat" \in Faults
  /\ \E i \in Id \ used :
       /\ fresh' = [fresh EXCEPT ![p] = i]
       /\ used' = used \cup { i }
  /\ Goto(p, "create")
  /\ UNCHANGED << fsVars, file, pos, issued >>

(* read() and initWithDataRepresentation:, whose nil is an error.          *)
Load(p) ==
  /\ pc[p] = "load"
  /\ issued' = issued \cup { i \in Id : Holds("path", i) }
  /\ Goto(p, "idle")
  /\ UNCHANGED << fsVars, fresh, file, pos, used >>

(* No name leads to file i, on the disk or not, and no process has it open. *)
Free(i) ==
  /\ \A n \in Name : i # dir[n] /\ i # ddir[n]
  /\ \A p \in Proc : pc[p] \in { "write", "sync" } => file[p] # i

(* File::create(&tmp): a new file, or the one already there, truncated.    *)
CreateTmp(p) ==
  /\ pc[p] = "create"
  /\ \/ /\ dir["tmp"] # None
        /\ file' = [file EXCEPT ![p] = dir["tmp"]]
        /\ data' = [data EXCEPT ![dir["tmp"]] = << >>]
        /\ UNCHANGED << dir, disk >>
     \/ /\ dir["tmp"] = None
        /\ \E i \in Inode :
             /\ Free(i)
             /\ file' = [file EXCEPT ![p] = i]
             /\ dir' = [dir EXCEPT !["tmp"] = i]
             /\ data' = [data EXCEPT ![i] = << >>]
             /\ disk' = [disk EXCEPT ![i] = << >>]
  /\ pos' = [pos EXCEPT ![p] = 0]
  /\ Goto(p, "write")
  /\ UNCHANGED << ddir, fresh, used, issued >>

(* Contents s with its chunk k overwritten by c; a file that was truncated *)
(* under the writer is filled up with a hole.                              *)
Overwrite(s, k, c) ==
  [ j \in 1..(IF k > Len(s) THEN k ELSE Len(s)) |->
      IF j = k THEN c ELSE IF j <= Len(s) THEN s[j] ELSE "hole" ]

(* Mutant of WriteChunk: one write too many.                               *)
WriteChunkPastEnd(p) ==
  /\ pc[p] = "write"
  /\ data' = [data EXCEPT ![file[p]] = Overwrite(@, pos[p] + 1, fresh[p])]
  /\ pos' = [pos EXCEPT ![p] = @ + 1]
  /\ IF pos[p] = Chunks THEN Goto(p, "sync") ELSE UNCHANGED pc
  /\ UNCHANGED << dir, ddir, disk, fresh, file, used, issued >>

(* write_all, one write at a time.                                         *)
WriteChunk(p) ==
  /\ pc[p] = "write"
  /\ data' = [data EXCEPT ![file[p]] = Overwrite(@, pos[p] + 1, fresh[p])]
  /\ pos' = [pos EXCEPT ![p] = @ + 1]
  /\ IF pos'[p] = Chunks THEN Goto(p, "sync") ELSE UNCHANGED pc
  /\ UNCHANGED << dir, ddir, disk, fresh, file, used, issued >>

(* Mutant of SyncTmp: no sync_all before the rename.                       *)
SyncTmpNot(p) ==
  /\ pc[p] = "sync"
  /\ Goto(p, "rename")
  /\ UNCHANGED << fsVars, fresh, file, pos, used, issued >>

(* sync_all makes the contents durable; the file is closed.                *)
SyncTmp(p) ==
  /\ pc[p] = "sync"
  /\ disk' = [disk EXCEPT ![file[p]] = data[file[p]]]
  /\ Goto(p, "rename")
  /\ UNCHANGED << dir, ddir, data, fresh, file, pos, used, issued >>

(* Mutant of RenameTmp: its failure is ignored.                            *)
RenameTmpPerhaps(p) ==
  /\ pc[p] = "rename"
  /\ dir' \in { dir, [n \in Name |-> IF n = "path" THEN dir["tmp"] ELSE None] }
  /\ Goto(p, "done")
  /\ UNCHANGED << data, ddir, disk, fresh, file, pos, used, issued >>

(* rename(&tmp, path): whatever tmp leads to now, and nothing else.  The   *)
(* directory is not synced.                                                *)
RenameTmp(p) ==
  /\ pc[p] = "rename"
  /\ dir["tmp"] # None
  /\ dir' = [n \in Name |-> IF n = "path" THEN dir["tmp"] ELSE None]
  /\ Goto(p, "done")
  /\ UNCHANGED << data, ddir, disk, fresh, file, pos, used, issued >>

(* Ok(identifier): the one generated, not what the path leads to.          *)
ReturnFresh(p) ==
  /\ pc[p] = "done"
  /\ issued' = issued \cup { fresh[p] }
  /\ Goto(p, "idle")
  /\ UNCHANGED << fsVars, fresh, file, pos, used >>

(* The process dies, or the call under way fails and the function returns  *)
(* its error: nothing is cleaned up either way.                            *)
Abandon(p) ==
  /\ pc[p] # "idle"
  /\ Goto(p, "idle")
  /\ UNCHANGED << fsVars, fresh, file, pos, used, issued >>

-----------------------------------------------------------------------------
(* The file system and the machine it runs on.                             *)

(* The directory, or the contents of a file, reach the disk.               *)
WriteBackDir ==
  /\ ddir' = dir
  /\ UNCHANGED << dir, data, disk, procVars, used, issued >>

WriteBackData(i) ==
  /\ disk' = [disk EXCEPT ![i] = data[i]]
  /\ UNCHANGED << dir, data, ddir, procVars, used, issued >>

(* What is not on the disk is lost, and every process ends.                *)
PowerLoss ==
  /\ "power" \in Faults
  /\ dir' = ddir
  /\ data' = disk
  /\ pc' = [p \in Proc |-> "idle"]
  /\ UNCHANGED << ddir, disk, fresh, file, pos, used, issued >>

Step(p) ==
  \/ Enter(p) \/ Find(p) \/ Generate(p) \/ Load(p) \/ CreateTmp(p)
  \/ WriteChunk(p) \/ SyncTmp(p) \/ RenameTmp(p) \/ ReturnFresh(p)
  \/ Abandon(p)

Next ==
  \/ \E p \in Proc : Step(p)
  \/ WriteBackDir
  \/ \E i \in Inode : WriteBackData(i)
  \/ PowerLoss

Spec == Init /\ [][Next]_vars

-----------------------------------------------------------------------------
(* An identifier that was returned stays the one at the path, whole: the   *)
(* next boot loads it, and a snapshot bound to it can be restored (the     *)
(* comment on machine_identifier_path).                                    *)
IssuedIsAtPath == \A i \in issued : Holds("path", i)

(* Whatever dies when, no boot is left with a path that leads to a         *)
(* truncated or mixed file, which would be refused at every later boot     *)
(* (the comment on the function: "permanently bricking snapshot-resume").  *)
NeverBricked ==
  (\A p \in Proc : pc[p] = "idle") /\ dir["path"] # None
    => \E i \in Id : Holds("path", i)
=============================================================================

---------------------------- MODULE SnapshotInv ----------------------------
(***************************************************************************)
(* The inductive invariant of Snapshot when one process at a time uses the *)
(* configuration: what is in the files at each step of the function, and   *)
(* what a save that was answered can be counted on for.                    *)
(***************************************************************************)
EXTENDS Snapshot

(* No two processes boot one configuration: with two, NeverBricked fails.  *)
OneProcess == \A p, q \in Proc : p = q

Filled(i, n) == [ c \in 1..n |-> i ]

(* File f holds a whole identifier, on the disk too.                       *)
Whole(f) ==
  \E i \in Id : data[f] = Representation(i) /\ disk[f] = Representation(i)

(* The path leads to a whole file, now and after a power loss, and what is *)
(* written next is another file.                                           *)
FilesInv ==
  /\ dir["path"] # None => Whole(dir["path"])
  /\ ddir["path"] # None => Whole(ddir["path"])
  /\ dir["tmp"] # None => dir["tmp"] # dir["path"] /\ dir["tmp"] # ddir["path"]
  /\ ddir["tmp"] # None => ddir["tmp"] # ddir["path"]

Renewing == { "create", "write", "sync", "rename" }

(* How far the process in the function has come with its temporary file.   *)
FunctionInv ==
  \A p \in Proc :
    /\ pc[p] \in Renewing \cup { "done" } => fresh[p] \in Id
    /\ pc[p] \in { "write", "sync", "rename" } => file[p] = dir["tmp"] /\ file[p] # None
    /\ pc[p] = "write" => pos[p] < Chunks /\ data[file[p]] = Filled(fresh[p], pos[p])
    /\ pc[p] \in { "sync", "rename" } => data[file[p]] = Representation(fresh[p])
    /\ pc[p] = "rename" => disk[file[p]] = Representation(fresh[p])
    /\ pc[p] = "done" => Holds("path", fresh[p])

(* A machine runs under the identifier that is at the path.                *)
VmInv ==
  \A p \in Proc :
    /\ vm[p] # None => pc[p] = "idle" /\ Holds("path", vm[p])
    /\ stage[p] # "none" => vm[p] # None
    /\ stage[p] \in { "saving", "written" } => promise = "none"
    /\ stage[p] = "written" => snap = vm[p]

PromiseInv ==
  promise # "none" =>
    /\ bound \in Id /\ snap = bound /\ Holds("path", bound)
    /\ \A p \in Proc : pc[p] \notin Renewing
    /\ promise \in { "synced", "safe" } => dsnap = snap
    /\ promise = "safe" => dnamed /\ ddir["path"] = dir["path"]

(* Before a fault, an identifier is generated only when none was returned. *)
IssuedInv ==
  calm =>
    /\ IssuedIsAtPath
    /\ \A p \in Proc : pc[p] \in Renewing => issued = { }

(* The inductive invariant: it implies NeverBricked, Resumable and         *)
(* IssuedIsKept (load_or_create_machine_identifier, save_state).           *)
SnapInv ==
  /\ SnapTypeOK /\ FilesInv /\ FunctionInv /\ VmInv /\ PromiseInv /\ IssuedInv
=============================================================================

--------------------------- MODULE SnapshotProofs ---------------------------
(***************************************************************************)
(* Proofs about Snapshot, for one process at a time and any identifiers,   *)
(* files, numbers of chunks and faults: SnapInv is inductive, and what     *)
(* follows from it.                                                        *)
(***************************************************************************)
EXTENDS SnapshotInv, SequenceTheorems, TLAPS

-----------------------------------------------------------------------------
(* A file as it is filled, chunk by chunk.                                 *)

LEMMA FilledIsSeq ==
  ASSUME NEW i \in Id, NEW n \in Nat
  PROVE  /\ Filled(i, n) \in Seq(Chunk)
         /\ Len(Filled(i, n)) = n
         /\ \A j \in 1..n : Filled(i, n)[j] = i
<1>1. Filled(i, n) \in [1..n -> Chunk]
  BY DEF Filled, Chunk
<1>2. Filled(i, n) \in Seq(Chunk)
  BY <1>1, SeqDef
<1>3. DOMAIN Filled(i, n) = 1..n
  BY DEF Filled
<1>4. Len(Filled(i, n)) = n
  BY <1>2, <1>3, LenProperties
<1> QED
  BY <1>2, <1>4 DEF Filled

LEMMA FilledIsWhole ==
  ASSUME NEW i \in Id
  PROVE  Filled(i, Chunks) = Representation(i) /\ Filled(i, 0) = << >>
<1>1. Filled(i, Chunks) = Representation(i)
  BY DEF Filled, Representation
<1>2. Filled(i, 0) \in Seq(Chunk) /\ Len(Filled(i, 0)) = 0
  BY FilledIsSeq
<1> QED
  BY <1>1, <1>2, EmptySeq

LEMMA OverwriteFills ==
  ASSUME NEW i \in Id, NEW n \in Nat
  PROVE  Overwrite(Filled(i, n), n + 1, i) = Filled(i, n + 1)
  BY FilledIsSeq DEF Overwrite, Filled

-----------------------------------------------------------------------------
(* The path still holds what it held if its file was not touched.          *)

LEMMA HoldsKept ==
  ASSUME dir'["path"] = dir["path"],
         dir["path"] # None => data'[dir["path"]] = data[dir["path"]]
  PROVE  \A i : Holds("path", i)' <=> Holds("path", i)
  BY DEF Holds, Representation

LEMMA FilesUntouched ==
  ASSUME UNCHANGED fsVars
  PROVE  /\ FilesInv => FilesInv'
         /\ \A i : Holds("path", i)' <=> Holds("path", i)
  BY DEF fsVars, FilesInv, Whole, Holds, Representation

-----------------------------------------------------------------------------
(* The steps that touch no file.                                           *)

(* Enter, Find, Abandon.                                                   *)
LEMMA MoveStep ==
  ASSUME SnapInv, OneProcess, NEW p \in Proc,
         \/ Enter(p) /\ vm[p] = None
         \/ Find(p) \/ Abandon(p),
         UNCHANGED snapVars
  PROVE  SnapInv'
<1>1. /\ UNCHANGED << fsVars, fresh, file, pos, used, issued, snapVars >>
      /\ pc' \in [Proc -> { "idle", "check", "load", "create", "write", "sync",
                            "rename", "done" }]
      /\ pc'[p] \in { "idle", "check", "load" }
      /\ vm[p] = None
    BY DEF Enter, Find, Abandon, Goto, snapVars, SnapInv, SnapTypeOK, TypeOK, VmInv
<1>2. \A x \in Proc : x = p
  BY DEF OneProcess
<1>3. SnapTypeOK'
  BY <1>1 DEF SnapInv, SnapTypeOK, TypeOK, fsVars, snapVars, Stage, Contents, Promise
<1>4. FilesInv'
  BY <1>1, FilesUntouched DEF SnapInv
<1>5. FunctionInv'
  BY <1>1, <1>2 DEF FunctionInv, Renewing
<1>6. VmInv'
  BY <1>1, <1>2 DEF SnapInv, VmInv, snapVars
<1>7. PromiseInv'
  BY <1>1, <1>2, FilesUntouched DEF SnapInv, PromiseInv, snapVars, fsVars, Renewing
<1>8. IssuedInv'
  BY <1>1, <1>2, FilesUntouched DEF SnapInv, IssuedInv, IssuedIsAtPath, snapVars, Renewing
<1> QED
  BY <1>3, <1>4, <1>5, <1>6, <1>7, <1>8 DEF SnapInv

(* BootLoaded and BootFresh: a machine under the identifier at the path.   *)
LEMMA BootStep ==
  ASSUME SnapInv, OneProcess, NEW p \in Proc, BootLoaded(p) \/ BootFresh(p)
  PROVE  SnapInv'
<1>1. /\ UNCHANGED << fsVars, fresh, file, pos, used, snap, dsnap, dnamed, bound, promise, calm >>
      /\ pc' = [pc EXCEPT ![p] = "idle"]
  BY DEF BootLoaded, BootFresh, Load, ReturnFresh, Goto
<1>2. /\ \A x \in Proc : x = p
      /\ pc'[p] = "idle"
  BY <1>1 DEF OneProcess, SnapInv, SnapTypeOK, TypeOK
<1>3. /\ issued' \subseteq Id
      /\ \A i \in issued' : i \in issued \/ Holds("path", i)
  <2>1. CASE BootLoaded(p)
    BY <2>1 DEF BootLoaded, Load, SnapInv, SnapTypeOK, TypeOK
  <2>2. CASE BootFresh(p)
    BY <2>2 DEF BootFresh, ReturnFresh, SnapInv, SnapTypeOK, TypeOK, FunctionInv
  <2> QED
    BY <2>1, <2>2
<1>4. \/ UNCHANGED << vm, stage >>
      \/ \E i \in Id : Holds("path", i) /\ Runs(p, i)
  <2>1. CASE BootLoaded(p)
    BY <2>1 DEF BootLoaded
  <2>2. CASE BootFresh(p)
    BY <2>2 DEF BootFresh, ReturnFresh, SnapInv, FunctionInv
  <2> QED
    BY <2>1, <2>2
<1>5. SnapTypeOK'
  <2>1. vm' \in [Proc -> Id \cup { None }] /\ stage' \in [Proc -> Stage]
    <3>1. vm \in [Proc -> Id \cup { None }] /\ stage \in [Proc -> Stage]
      BY DEF SnapInv, SnapTypeOK
    <3>2. ASSUME NEW i \in Id, Runs(p, i)
          PROVE  vm' \in [Proc -> Id \cup { None }] /\ stage' \in [Proc -> Stage]
      BY <3>1, <3>2 DEF Runs, Become, Stage
    <3> QED
      BY <1>4, <3>1, <3>2
  <2> QED
    BY <1>1, <1>3, <2>1 DEF SnapInv, SnapTypeOK, TypeOK, fsVars, Contents, Promise
<1>6. FilesInv'
  BY <1>1, FilesUntouched DEF SnapInv
<1>7. FunctionInv'
  BY <1>2 DEF FunctionInv, Renewing
<1>8. VmInv'
  <2>1. CASE UNCHANGED << vm, stage >>
    BY <1>1, <1>2, <2>1, FilesUntouched DEF SnapInv, VmInv
  <2>2. ASSUME NEW i \in Id, Holds("path", i), Runs(p, i)
        PROVE  VmInv'
    <3>1. vm'[p] = i /\ stage'[p] = "stopped" /\ i # None
      BY <2>2, IdentifierAssumption DEF Runs, Become, SnapInv, SnapTypeOK, TypeOK
    <3> QED
      BY <1>1, <1>2, <2>2, <3>1, FilesUntouched DEF VmInv
  <2> QED
    BY <1>4, <2>1, <2>2
<1>9. PromiseInv'
  BY <1>1, <1>2, FilesUntouched DEF SnapInv, PromiseInv, fsVars, Renewing
<1>10. IssuedInv'
  BY <1>1, <1>2, <1>3, FilesUntouched DEF SnapInv, IssuedInv, IssuedIsAtPath, Renewing
<1> QED
  BY <1>5, <1>6, <1>7, <1>8, <1>9, <1>10 DEF SnapInv

LEMMA TakeFreshStep ==
  ASSUME SnapInv, OneProcess, NEW p \in Proc, TakeFresh(p)
  PROVE  SnapInv'
<1>1. /\ UNCHANGED << fsVars, file, pos, issued, vm, stage, snap, dsnap, dnamed, bound >>
      /\ pc[p] = "check" /\ pc' = [pc EXCEPT ![p] = "create"]
      /\ promise' = IF dir["path"] = None THEN promise ELSE "none"
      /\ calm' = (calm /\ dir["path"] = None)
  BY DEF TakeFresh, Generate, Goto
<1>2. PICK i \in Id : fresh' = [fresh EXCEPT ![p] = i] /\ used' = used \cup { i }
  BY DEF TakeFresh, Generate
<1>3. /\ \A x \in Proc : x = p
      /\ pc'[p] = "create" /\ fresh'[p] = i
  BY <1>1, <1>2 DEF OneProcess, SnapInv, SnapTypeOK, TypeOK
<1>4. promise' = "none"
  BY <1>1 DEF SnapInv, PromiseInv, Holds
<1>5. SnapTypeOK'
  BY <1>1, <1>2, <1>4 DEF SnapInv, SnapTypeOK, TypeOK, fsVars, Stage, Contents, Promise
<1>6. FilesInv'
  BY <1>1, FilesUntouched DEF SnapInv
<1>7. FunctionInv'
  BY <1>3 DEF FunctionInv
<1>8. VmInv'
  BY <1>1, <1>3, <1>4 DEF SnapInv, VmInv
<1>9. IssuedInv'
  BY <1>1, FilesUntouched DEF SnapInv, IssuedInv, IssuedIsAtPath, Holds
<1> QED
  BY <1>4, <1>5, <1>6, <1>7, <1>8, <1>9 DEF SnapInv, PromiseInv

-----------------------------------------------------------------------------
(* The steps that write the identifier.                                    *)

(* CreateTmp opens a file that is not at the path, nor will be after a     *)
(* power loss.                                                             *)
LEMMA CreateTmpStep ==
  ASSUME SnapInv, OneProcess, NEW p \in Proc, CreateTmp(p), UNCHANGED snapVars
  PROVE  SnapInv'
<1>1. /\ UNCHANGED << ddir, fresh, used, issued >> /\ UNCHANGED snapVars
      /\ pc[p] = "create" /\ pc' = [pc EXCEPT ![p] = "write"]
      /\ pos' = [pos EXCEPT ![p] = 0]
  BY DEF CreateTmp, Goto
<1>2. PICK f \in Inode :
        /\ file' = [file EXCEPT ![p] = f]
        /\ data' = [data EXCEPT ![f] = << >>]
        /\ f # dir["path"] /\ f # ddir["path"]
        /\ \/ f = dir["tmp"] /\ dir' = dir /\ disk' = disk
           \/ /\ dir["tmp"] = None
              /\ f # ddir["tmp"]
              /\ dir' = [dir EXCEPT !["tmp"] = f]
              /\ disk' = [disk EXCEPT ![f] = << >>]
  <2>1. CASE dir["tmp"] # None
    <3>1. dir["tmp"] \in Inode /\ dir["tmp"] # dir["path"] /\ dir["tmp"] # ddir["path"]
      BY <2>1 DEF SnapInv, SnapTypeOK, TypeOK, Name, FilesInv
    <3> QED
      BY <2>1, <3>1 DEF CreateTmp
  <2>2. CASE dir["tmp"] = None
    BY <2>2 DEF CreateTmp, Free, Name
  <2> QED
    BY <2>1, <2>2
<1>3. /\ dir \in [Name -> Inode \cup { None }] /\ ddir \in [Name -> Inode \cup { None }]
      /\ data \in [Inode -> Seq(Chunk)] /\ disk \in [Inode -> Seq(Chunk)]
      /\ file \in [Proc -> Inode \cup { None }] /\ pos \in [Proc -> 0..Chunks]
      /\ f # None /\ Chunks \in Nat \ { 0 } /\ << >> \in Seq(Chunk)
      /\ dir["path"] \in Inode \cup { None } /\ ddir["path"] \in Inode \cup { None }
  BY IdentifierAssumption, EmptySeq DEF SnapInv, SnapTypeOK, TypeOK, Name
<1>4. /\ dir'["path"] = dir["path"] /\ dir'["tmp"] = f
      /\ data'[f] = << >>
      /\ \A g \in Inode \ { f } : data'[g] = data[g] /\ disk'[g] = disk[g]
  BY <1>2, <1>3 DEF Name
<1>5. /\ \A x \in Proc : x = p
      /\ pc'[p] = "write" /\ file'[p] = f /\ pos'[p] = 0 /\ fresh[p] \in Id
      /\ fresh' = fresh
  BY <1>1, <1>2 DEF OneProcess, SnapInv, SnapTypeOK, TypeOK, FunctionInv, Renewing
<1>6. \A i : Holds("path", i)' <=> Holds("path", i)
  BY <1>2, <1>3, <1>4, HoldsKept
<1>7. SnapTypeOK'
  <2>1. /\ dir' \in [Name -> Inode \cup { None }]
        /\ data' \in [Inode -> Seq(Chunk)] /\ disk' \in [Inode -> Seq(Chunk)]
        /\ file' \in [Proc -> Inode \cup { None }]
    BY <1>2, <1>3 DEF Name
  <2>2. pos' \in [Proc -> 0..Chunks]
    <3>1. 0 \in 0..Chunks
      BY <1>3
    <3> QED
      BY <1>1, <1>3, <3>1, Zenon
  <2> QED
    BY <1>1, <2>1, <2>2 DEF SnapInv, SnapTypeOK, TypeOK, snapVars, Stage, Contents, Promise
<1>8. FilesInv'
  <2>1. \A g \in Inode \ { f } : Whole(g) => Whole(g)'
    BY <1>4 DEF Whole, Representation
  <2> QED
    BY <1>1, <1>2, <1>3, <1>4, <2>1 DEF SnapInv, FilesInv
<1>9. FunctionInv'
  <2>1. data'[f] = Filled(fresh'[p], 0) /\ 0 < Chunks
    BY <1>3, <1>4, <1>5, FilledIsWhole
  <2> QED
    BY <1>3, <1>4, <1>5, <2>1 DEF FunctionInv, Filled
<1>10. VmInv'
  <2>1. vm[p] = None
    BY <1>1 DEF SnapInv, VmInv
  <2> QED
    BY <1>1, <1>5, <2>1 DEF SnapInv, VmInv, snapVars
<1>11. PromiseInv'
  BY <1>1 DEF SnapInv, PromiseInv, snapVars, Renewing
<1>12. IssuedInv'
  BY <1>1, <1>6 DEF SnapInv, IssuedInv, IssuedIsAtPath, snapVars, Renewing
<1> QED
  BY <1>7, <1>8, <1>9, <1>10, <1>11, <1>12 DEF SnapInv

(* What a process does to the file it has open as its temporary file.      *)
LEMMA OpenFile ==
  ASSUME SnapInv, NEW p \in Proc, pc[p] \in { "write", "sync", "rename" }
  PROVE  /\ file[p] = dir["tmp"] /\ file[p] \in Inode /\ fresh[p] \in Id
         /\ file[p] # dir["path"] /\ file[p] # ddir["path"]
         /\ vm[p] = None /\ promise = "none"
         /\ data \in [Inode -> Seq(Chunk)] /\ disk \in [Inode -> Seq(Chunk)]
         /\ dir["path"] \in Inode \cup { None } /\ ddir["path"] \in Inode \cup { None }
         /\ pos[p] \in Nat /\ pos \in [Proc -> 0..Chunks] /\ Chunks \in Nat \ { 0 }
<1>1. /\ file[p] = dir["tmp"] /\ file[p] # None /\ fresh[p] \in Id
  BY DEF SnapInv, FunctionInv, Renewing
<1>2. /\ file[p] # dir["path"] /\ file[p] # ddir["path"]
  BY <1>1 DEF SnapInv, FilesInv
<1>3. vm[p] = None /\ promise = "none"
  BY DEF SnapInv, VmInv, PromiseInv, Renewing
<1> QED
  BY <1>1, <1>2, <1>3, IdentifierAssumption DEF SnapInv, SnapTypeOK, TypeOK, Name

LEMMA WriteChunkStep ==
  ASSUME SnapInv, OneProcess, NEW p \in Proc, WriteChunk(p), UNCHANGED snapVars
  PROVE  SnapInv'
<1>1. /\ UNCHANGED << dir, ddir, disk, fresh, file, used, issued >> /\ UNCHANGED snapVars
      /\ pc[p] = "write"
      /\ data' = [data EXCEPT ![file[p]] = Overwrite(@, pos[p] + 1, fresh[p])]
      /\ pos' = [pos EXCEPT ![p] = @ + 1]
      /\ IF pos'[p] = Chunks THEN pc' = [pc EXCEPT ![p] = "sync"] ELSE pc' = pc
  BY DEF WriteChunk, Goto
<1>2. PICK f \in Inode, i \in Id, k \in Nat :
        /\ f = file[p] /\ i = fresh[p] /\ k = pos[p]
        /\ f = dir["tmp"] /\ f # dir["path"] /\ f # ddir["path"]
  BY <1>1, OpenFile
<1>3. /\ vm[p] = None /\ promise = "none"
      /\ data \in [Inode -> Seq(Chunk)] /\ disk \in [Inode -> Seq(Chunk)]
      /\ dir["path"] \in Inode \cup { None } /\ ddir["path"] \in Inode \cup { None }
      /\ pos \in [Proc -> 0..Chunks] /\ Chunks \in Nat \ { 0 } /\ f # None
  BY <1>1, <1>2, OpenFile, IdentifierAssumption
<1>4. k < Chunks /\ data[f] = Filled(i, k)
  BY <1>1, <1>2 DEF SnapInv, FunctionInv
<1> DEFINE n == k + 1
<1>5. n \in 0..Chunks /\ n \in Nat /\ (n # Chunks => n < Chunks)
  BY <1>3, <1>4
<1>6. Filled(i, n) \in Seq(Chunk) /\ Overwrite(data[f], n, i) = Filled(i, n)
  BY <1>4, <1>5, OverwriteFills, FilledIsSeq
<1>7. /\ data' = [data EXCEPT ![f] = Filled(i, n)]
      /\ pos' = [pos EXCEPT ![p] = n]
  BY <1>1, <1>2, <1>6
<1> HIDE DEF n
<1>8. /\ data'[f] = Filled(i, n) /\ data' \in [Inode -> Seq(Chunk)]
      /\ \A g \in Inode \ { f } : data'[g] = data[g]
  BY <1>3, <1>6, <1>7
<1>9. /\ \A x \in Proc : x = p
      /\ pos'[p] = n /\ pos' \in [Proc -> 0..Chunks]
      /\ IF n = Chunks THEN pc'[p] = "sync" ELSE pc'[p] = "write"
      /\ pc' \in [Proc -> { "idle", "check", "load", "create", "write", "sync",
                            "rename", "done" }]
  <2>1. pc \in [Proc -> { "idle", "check", "load", "create", "write", "sync",
                          "rename", "done" }]
    BY DEF SnapInv, SnapTypeOK, TypeOK
  <2>2. pos'[p] = n /\ pos' \in [Proc -> 0..Chunks]
    BY <1>3, <1>5, <1>7
  <2> QED
    BY <1>1, <2>1, <2>2 DEF OneProcess
<1>10. \A j : Holds("path", j)' <=> Holds("path", j)
  BY <1>1, <1>2, <1>3, <1>8, HoldsKept
<1>11. SnapTypeOK'
  BY <1>1, <1>8, <1>9 DEF SnapInv, SnapTypeOK, TypeOK, snapVars, Stage, Contents, Promise
<1>12. FilesInv'
  <2>1. \A g \in Inode \ { f } : Whole(g) => Whole(g)'
    BY <1>1, <1>8 DEF Whole, Representation
  <2> QED
    BY <1>1, <1>2, <1>3, <2>1 DEF SnapInv, FilesInv
<1>13. FunctionInv'
  <2>1. n = Chunks => data'[f] = Representation(i)
    BY <1>8, FilledIsWhole
  <2>2. /\ fresh'[p] = i /\ file'[p] = f /\ dir'["tmp"] = f
    BY <1>1, <1>2
  <2> QED
    BY <1>3, <1>5, <1>8, <1>9, <2>1, <2>2 DEF FunctionInv, Filled, Representation
<1>14. VmInv'
  BY <1>1, <1>3, <1>9 DEF SnapInv, VmInv, snapVars
<1>15. PromiseInv'
  BY <1>1, <1>3 DEF PromiseInv, snapVars
<1>16. IssuedInv'
  BY <1>1, <1>9, <1>10 DEF SnapInv, IssuedInv, IssuedIsAtPath, snapVars, Renewing
<1> QED
  BY <1>11, <1>12, <1>13, <1>14, <1>15, <1>16 DEF SnapInv

LEMMA SyncTmpStep ==
  ASSUME SnapInv, OneProcess, NEW p \in Proc, SyncTmp(p), UNCHANGED snapVars
  PROVE  SnapInv'
<1>1. /\ UNCHANGED << dir, ddir, data, fresh, file, pos, used, issued >> /\ UNCHANGED snapVars
      /\ pc[p] = "sync" /\ pc' = [pc EXCEPT ![p] = "rename"]
      /\ disk' = [disk EXCEPT ![file[p]] = data[file[p]]]
  BY DEF SyncTmp, Goto
<1>2. PICK f \in Inode :
        /\ f = file[p] /\ f = dir["tmp"] /\ f # dir["path"] /\ f # ddir["path"]
  BY <1>1, OpenFile
<1>3. /\ vm[p] = None /\ promise = "none"
      /\ data \in [Inode -> Seq(Chunk)] /\ disk \in [Inode -> Seq(Chunk)]
      /\ dir["path"] \in Inode \cup { None } /\ ddir["path"] \in Inode \cup { None }
  BY <1>1, OpenFile
<1>4. /\ disk'[f] = data[f] /\ disk' \in [Inode -> Seq(Chunk)]
      /\ \A g \in Inode \ { f } : disk'[g] = disk[g]
  BY <1>1, <1>2, <1>3
<1>5. /\ \A x \in Proc : x = p
      /\ pc'[p] = "rename"
  BY <1>1 DEF OneProcess, SnapInv, SnapTypeOK, TypeOK
<1>6. \A i : Holds("path", i)' <=> Holds("path", i)
  BY <1>1, HoldsKept
<1>7. SnapTypeOK'
  BY <1>1, <1>4 DEF SnapInv, SnapTypeOK, TypeOK, snapVars, Stage, Contents, Promise
<1>8. FilesInv'
  <2>1. \A g \in Inode \ { f } : Whole(g) => Whole(g)'
    BY <1>1, <1>4 DEF Whole, Representation
  <2> QED
    BY <1>1, <1>2, <1>3, <2>1 DEF SnapInv, FilesInv
<1>9. FunctionInv'
  <2>1. /\ fresh[p] \in Id /\ file[p] = dir["tmp"] /\ file[p] # None
        /\ data[file[p]] = Representation(fresh[p])
    BY <1>1 DEF SnapInv, FunctionInv, Renewing
  <2>2. /\ data'[f] = Representation(fresh[p]) /\ disk'[f] = Representation(fresh[p])
        /\ fresh'[p] = fresh[p] /\ file'[p] = f /\ dir'["tmp"] = f /\ f # None
    <3>1. data[f] = Representation(fresh[p]) /\ f # None
      BY <1>2, <2>1
    <3> QED
      BY <1>1, <1>2, <1>4, <3>1
  <2> QED
    BY <1>5, <2>1, <2>2 DEF FunctionInv, Representation
<1>10. VmInv'
  BY <1>1, <1>3, <1>5 DEF SnapInv, VmInv, snapVars
<1>11. PromiseInv'
  BY <1>1, <1>3 DEF PromiseInv, snapVars
<1>12. IssuedInv'
  BY <1>1, <1>6 DEF SnapInv, IssuedInv, IssuedIsAtPath, snapVars, Renewing
<1> QED
  BY <1>7, <1>8, <1>9, <1>10, <1>11, <1>12 DEF SnapInv

(* RenameTmp moves a file to the path that is whole, on the disk too.      *)
LEMMA RenameTmpStep ==
  ASSUME SnapInv, OneProcess, NEW p \in Proc, RenameTmp(p), UNCHANGED snapVars
  PROVE  SnapInv'
<1>1. /\ UNCHANGED << data, ddir, disk, fresh, file, pos, used, issued >> /\ UNCHANGED snapVars
      /\ pc[p] = "rename" /\ pc' = [pc EXCEPT ![p] = "done"]
      /\ dir' = [n \in Name |-> IF n = "path" THEN dir["tmp"] ELSE None]
  BY DEF RenameTmp, Goto
<1>2. PICK f \in Inode : f = file[p] /\ f = dir["tmp"] /\ f # ddir["path"]
  BY <1>1, OpenFile
<1>3. vm[p] = None /\ promise = "none" /\ f # None
  BY <1>1, OpenFile, IdentifierAssumption
<1>4. /\ fresh[p] \in Id
      /\ data[f] = Representation(fresh[p]) /\ disk[f] = Representation(fresh[p])
  BY <1>1, <1>2 DEF SnapInv, FunctionInv, Renewing
<1>5. /\ \A x \in Proc : x = p
      /\ pc'[p] = "done"
  BY <1>1 DEF OneProcess, SnapInv, SnapTypeOK, TypeOK
<1>6. dir'["path"] = f /\ dir'["tmp"] = None
  BY <1>1, <1>2 DEF Name
<1>7. SnapTypeOK'
  <2>1. dir' \in [Name -> Inode \cup { None }]
    BY <1>1, <1>2
  <2> QED
    BY <1>1, <2>1 DEF SnapInv, SnapTypeOK, TypeOK, snapVars, Stage, Contents, Promise
<1>8. FilesInv'
  <2>1. Whole(f)'
    BY <1>1, <1>4 DEF Whole, Representation
  <2>2. \A g : Whole(g) => Whole(g)'
    BY <1>1 DEF Whole, Representation
  <2> QED
    BY <1>1, <1>6, <2>1, <2>2 DEF SnapInv, FilesInv
<1>9. FunctionInv'
  BY <1>1, <1>3, <1>4, <1>5, <1>6 DEF FunctionInv, Holds, Representation
<1>10. VmInv'
  BY <1>1, <1>3, <1>5 DEF SnapInv, VmInv, snapVars
<1>11. PromiseInv'
  BY <1>1, <1>3 DEF PromiseInv, snapVars
<1>12. IssuedInv'
  BY <1>1, <1>5 DEF SnapInv, IssuedInv, IssuedIsAtPath, snapVars, Renewing
<1> QED
  BY <1>7, <1>8, <1>9, <1>10, <1>11, <1>12 DEF SnapInv

-----------------------------------------------------------------------------
(* The steps of the machine, which touch the snapshot only.                *)

LEMMA MachineStep ==
  ASSUME SnapInv, OneProcess, NEW p \in Proc,
         \/ Suspend(p) \/ BeginSave(p) \/ EndSave(p) \/ SyncSave(p) \/ SkipSync(p)
         \/ Restore(p) \/ Exit(p)
  PROVE  SnapInv'
<1>1. UNCHANGED << dir, data, ddir, disk, pc, fresh, file, pos, used, issued >> /\ UNCHANGED << dnamed, calm >>
  BY DEF Suspend, BeginSave, EndSave, SyncSave, SkipSync, Saved, Restore, Exit,
         vars, fsVars, procVars
<1>2. \A x \in Proc : x = p
  BY DEF OneProcess
<1>3. \A i : Holds("path", i)' <=> Holds("path", i)
  BY <1>1, HoldsKept
<1>4. FilesInv'
  BY <1>1, FilesUntouched DEF SnapInv, fsVars
<1>5. FunctionInv'
  <2>1. FunctionInv
    BY DEF SnapInv
  <2> QED
    BY <1>1, <2>1 DEF FunctionInv, Holds
<1>6. IssuedInv'
  BY <1>1, <1>3 DEF SnapInv, IssuedInv, IssuedIsAtPath
<1>7. /\ vm \in [Proc -> Id \cup { None }] /\ stage \in [Proc -> Stage]
      /\ snap \in Contents /\ dsnap \in Contents /\ dnamed \in BOOLEAN
      /\ bound \in Id \cup { None } /\ promise \in Promise /\ calm \in BOOLEAN
      /\ vm[p] # None => pc[p] = "idle" /\ Holds("path", vm[p])
      /\ stage[p] # "none" => vm[p] # None
      /\ stage[p] \in { "saving", "written" } => promise = "none"
      /\ stage[p] = "written" => snap = vm[p]
  BY DEF SnapInv, SnapTypeOK, VmInv
<1>8. ASSUME vm' \in [Proc -> Id \cup { None }], stage' \in [Proc -> Stage],
             snap' \in Contents, dsnap' \in Contents,
             bound' \in Id \cup { None }, promise' \in Promise
      PROVE  SnapTypeOK'
  BY <1>1, <1>7, <1>8 DEF SnapInv, SnapTypeOK, TypeOK
<1>9. CASE Suspend(p) \/ Restore(p)
  <2>1. /\ UNCHANGED << vm, snap, dsnap, bound, promise >> /\ stage[p] = "stopped"
        /\ stage' = [stage EXCEPT ![p] = "paused"]
    BY <1>9 DEF Suspend, Restore, Become
  <2>2. stage'[p] = "paused" /\ stage' \in [Proc -> Stage]
    BY <1>7, <2>1 DEF Stage
  <2>3. VmInv'
    BY <1>1, <1>2, <1>3, <1>7, <2>1, <2>2 DEF VmInv
  <2>4. PromiseInv'
    BY <1>1, <1>3, <2>1 DEF SnapInv, PromiseInv
  <2> QED
    BY <1>4, <1>5, <1>6, <1>7, <1>8, <2>1, <2>2, <2>3, <2>4 DEF SnapInv
<1>10. CASE BeginSave(p)
  <2>1. /\ UNCHANGED << vm, dsnap, bound >> /\ stage[p] = "paused"
        /\ stage' = [stage EXCEPT ![p] = "saving"] /\ snap' = "torn" /\ promise' = "none"
    BY <1>10 DEF BeginSave, Become
  <2>2. stage'[p] = "saving" /\ stage' \in [Proc -> Stage]
    BY <1>7, <2>1 DEF Stage
  <2>3. VmInv'
    BY <1>1, <1>2, <1>3, <1>7, <2>1, <2>2 DEF VmInv
  <2>4. PromiseInv'
    BY <2>1 DEF PromiseInv
  <2>5. snap' \in Contents /\ promise' \in Promise
    BY <2>1 DEF Contents, Promise
  <2> QED
    BY <1>4, <1>5, <1>6, <1>7, <1>8, <2>1, <2>2, <2>3, <2>4, <2>5 DEF SnapInv
<1>11. CASE EndSave(p)
  <2>1. /\ UNCHANGED << vm, dsnap, bound, promise >> /\ stage[p] = "saving"
        /\ \/ snap' = vm[p] /\ stage' = [stage EXCEPT ![p] = "written"]
           \/ snap' = snap /\ stage' = [stage EXCEPT ![p] = "paused"]
    BY <1>11 DEF EndSave, Become
  <2>2. /\ stage' \in [Proc -> Stage] /\ promise' = "none"
        /\ (stage'[p] = "written" /\ snap' = vm'[p]) \/ stage'[p] = "paused"
    BY <1>7, <2>1 DEF Stage
  <2>3. VmInv'
    BY <1>1, <1>2, <1>3, <1>7, <2>1, <2>2 DEF VmInv
  <2>4. PromiseInv'
    BY <2>2 DEF PromiseInv
  <2>5. snap' \in Contents
    BY <1>7, <2>1 DEF Contents
  <2> QED
    BY <1>4, <1>5, <1>6, <1>7, <1>8, <2>1, <2>2, <2>3, <2>4, <2>5 DEF SnapInv
<1>12. CASE SyncSave(p) \/ SkipSync(p)
  <2>1. /\ UNCHANGED << vm, snap >> /\ stage[p] = "written"
        /\ bound' = vm[p] /\ stage' = [stage EXCEPT ![p] = "paused"]
        /\ \/ dsnap' = snap /\ promise' = "synced"
           \/ dsnap' = dsnap /\ promise' = "saved"
    BY <1>12 DEF SyncSave, SkipSync, Saved, Become
  <2>2. stage'[p] = "paused" /\ stage' \in [Proc -> Stage]
    BY <1>7, <2>1 DEF Stage
  <2>3. VmInv'
    BY <1>1, <1>2, <1>3, <1>7, <2>1, <2>2 DEF VmInv
  <2>4. /\ bound' \in Id /\ snap' = bound' /\ Holds("path", bound')
        /\ pc[p] = "idle"
    BY <1>7, <2>1
  <2>5. Holds("path", bound)'
    BY <1>1, <2>4 DEF Holds, Representation
  <2>6. PromiseInv'
    BY <1>1, <1>2, <2>1, <2>4, <2>5 DEF PromiseInv, Renewing
  <2>7. dsnap' \in Contents /\ promise' \in Promise
    BY <1>7, <2>1 DEF Promise
  <2> QED
    BY <1>4, <1>5, <1>6, <1>7, <1>8, <2>1, <2>2, <2>3, <2>4, <2>6, <2>7 DEF SnapInv
<1>13. CASE Exit(p)
  <2>1. /\ UNCHANGED << snap, dsnap, bound, promise >>
        /\ vm' = [vm EXCEPT ![p] = None] /\ stage' = [stage EXCEPT ![p] = "none"]
    BY <1>13 DEF Exit, Become
  <2>2. /\ vm'[p] = None /\ stage'[p] = "none"
        /\ vm' \in [Proc -> Id \cup { None }] /\ stage' \in [Proc -> Stage]
    BY <1>7, <2>1 DEF Stage
  <2>3. VmInv'
    BY <1>2, <2>2 DEF VmInv
  <2>4. PromiseInv'
    BY <1>1, <1>3, <2>1 DEF SnapInv, PromiseInv
  <2> QED
    BY <1>4, <1>5, <1>6, <1>7, <1>8, <2>1, <2>2, <2>3, <2>4 DEF SnapInv
<1> QED
  BY <1>9, <1>10, <1>11, <1>12, <1>13

-----------------------------------------------------------------------------
(* The file system and the machine below.                                  *)

LEMMA WriteBackNamesStep ==
  ASSUME SnapInv, WriteBackNames
  PROVE  SnapInv'
<1>1. /\ UNCHANGED << dir, data, disk, pc, fresh, file, pos, used, issued >>
      /\ UNCHANGED << vm, stage, snap, dsnap, bound, calm >>
      /\ ddir' = dir /\ dnamed' = (snap # None)
      /\ promise' = IF promise = "synced" THEN "safe" ELSE promise
  BY DEF WriteBackNames, WriteBackDir, procVars
<1>2. \A i : Holds("path", i)' <=> Holds("path", i)
  BY <1>1, HoldsKept
<1>3. SnapTypeOK'
  BY <1>1 DEF SnapInv, SnapTypeOK, TypeOK, Stage, Contents, Promise
<1>4. FilesInv'
  <2>1. \A f : Whole(f) => Whole(f)'
    BY <1>1 DEF Whole
  <2> QED
    BY <1>1, <2>1 DEF SnapInv, FilesInv
<1>5. FunctionInv'
  <2>1. FunctionInv
    BY DEF SnapInv
  <2> QED
    BY <1>1, <2>1 DEF FunctionInv, Holds
<1>6. VmInv'
  <2>1. VmInv
    BY DEF SnapInv
  <2> QED
    BY <1>1, <2>1 DEF VmInv, Holds
<1>7. PromiseInv'
  <2>1. SUFFICES ASSUME promise # "none" PROVE PromiseInv'
    BY <1>1 DEF PromiseInv
  <2>2. /\ bound \in Id /\ snap = bound /\ Holds("path", bound)
        /\ \A p \in Proc : pc[p] \notin Renewing
        /\ promise \in { "synced", "safe" } => dsnap = snap
    BY <2>1 DEF SnapInv, PromiseInv
  <2>3. Holds("path", bound)' /\ dnamed' = TRUE
    BY <1>1, <2>2, IdentifierAssumption DEF Holds
  <2> QED
    BY <1>1, <2>2, <2>3 DEF PromiseInv
<1>8. IssuedInv'
  BY <1>1, <1>2 DEF SnapInv, IssuedInv, IssuedIsAtPath
<1> QED
  BY <1>3, <1>4, <1>5, <1>6, <1>7, <1>8 DEF SnapInv

LEMMA WriteBackSnapStep ==
  ASSUME SnapInv, WriteBackSnap
  PROVE  SnapInv'
<1>1. /\ UNCHANGED << dir, data, ddir, disk, pc, fresh, file, pos, used, issued >>
      /\ UNCHANGED << vm, stage, snap, dnamed, bound, promise, calm >>
      /\ snap # dsnap /\ dsnap' \in { snap, "torn" }
  BY DEF WriteBackSnap, vars, fsVars, procVars
<1>2. SnapTypeOK'
  BY <1>1 DEF SnapInv, SnapTypeOK, TypeOK, Stage, Contents, Promise
<1>3. FilesInv'
  BY <1>1, FilesUntouched DEF SnapInv, fsVars
<1>4. FunctionInv'
  <2>1. FunctionInv
    BY DEF SnapInv
  <2> QED
    BY <1>1, <2>1 DEF FunctionInv, Holds
<1>5. VmInv'
  <2>1. VmInv
    BY DEF SnapInv
  <2> QED
    BY <1>1, <2>1 DEF VmInv, Holds
<1>6. PromiseInv'
  <2>1. PromiseInv
    BY DEF SnapInv
  <2> QED
    BY <1>1, <2>1 DEF PromiseInv, Holds
<1>7. IssuedInv'
  BY <1>1 DEF SnapInv, IssuedInv, IssuedIsAtPath, Holds
<1> QED
  BY <1>2, <1>3, <1>4, <1>5, <1>6, <1>7 DEF SnapInv

LEMMA WriteBackDataStep ==
  ASSUME SnapInv, NEW f \in Inode, WriteBackData(f), UNCHANGED snapVars
  PROVE  SnapInv'
<1>1. /\ UNCHANGED << dir, data, ddir, pc, fresh, file, pos, used, issued >>
      /\ UNCHANGED << vm, stage, snap, dsnap, dnamed, bound, promise, calm >>
      /\ disk' = [disk EXCEPT ![f] = data[f]]
  BY DEF WriteBackData, procVars, snapVars
<1>2. /\ data \in [Inode -> Seq(Chunk)] /\ disk \in [Inode -> Seq(Chunk)]
      /\ dir["path"] \in Inode \cup { None } /\ ddir["path"] \in Inode \cup { None }
  BY DEF SnapInv, SnapTypeOK, TypeOK, Name
<1>3. /\ disk' \in [Inode -> Seq(Chunk)]
      /\ \A g \in Inode : disk'[g] \in { data[g], disk[g] }
  BY <1>1, <1>2
<1>4. SnapTypeOK'
  BY <1>1, <1>3 DEF SnapInv, SnapTypeOK, TypeOK, Stage, Contents, Promise
<1>5. FilesInv'
  <2>1. \A g \in Inode : Whole(g) => Whole(g)'
    BY <1>1, <1>3 DEF Whole
  <2> QED
    BY <1>1, <1>2, <2>1 DEF SnapInv, FilesInv
<1>6. FunctionInv'
  <2>1. FunctionInv
    BY DEF SnapInv
  <2>2. \A p \in Proc : pc[p] = "rename" => file[p] \in Inode
    BY OpenFile
  <2> QED
    BY <1>1, <1>3, <2>1, <2>2 DEF FunctionInv, Holds
<1>7. VmInv'
  <2>1. VmInv
    BY DEF SnapInv
  <2> QED
    BY <1>1, <2>1 DEF VmInv, Holds
<1>8. PromiseInv'
  <2>1. PromiseInv
    BY DEF SnapInv
  <2> QED
    BY <1>1, <2>1 DEF PromiseInv, Holds
<1>9. IssuedInv'
  BY <1>1 DEF SnapInv, IssuedInv, IssuedIsAtPath, Holds
<1> QED
  BY <1>4, <1>5, <1>6, <1>7, <1>8, <1>9 DEF SnapInv

LEMMA LosePowerStep ==
  ASSUME SnapInv, LosePower
  PROVE  SnapInv'
<1>1. /\ UNCHANGED << ddir, disk, fresh, file, pos, used, issued, dnamed, bound >>
      /\ dir' = ddir /\ data' = disk /\ pc' = [p \in Proc |-> "idle"]
      /\ vm' = [p \in Proc |-> None] /\ stage' = [p \in Proc |-> "none"]
      /\ snap' = IF dnamed THEN dsnap ELSE None
      /\ dsnap' = snap'
      /\ promise' = IF promise = "safe" THEN promise ELSE "none"
      /\ calm' = FALSE
  BY DEF LosePower, PowerLoss
<1>2. SnapTypeOK'
  BY <1>1 DEF SnapInv, SnapTypeOK, TypeOK, Stage, Contents, Promise
<1>3. FilesInv'
  <2>1. \A f : Whole(f) => Whole(f)'
    BY <1>1 DEF Whole
  <2> QED
    BY <1>1, <2>1 DEF SnapInv, FilesInv
<1>4. FunctionInv'
  BY <1>1 DEF FunctionInv, Renewing
<1>5. VmInv'
  BY <1>1 DEF VmInv
<1>6. PromiseInv'
  <2>1. SUFFICES ASSUME promise = "safe" PROVE PromiseInv'
    BY <1>1 DEF PromiseInv
  <2>2. /\ bound \in Id /\ snap = bound /\ Holds("path", bound)
        /\ dsnap = snap /\ dnamed /\ ddir["path"] = dir["path"]
    BY <2>1 DEF SnapInv, PromiseInv
  <2>3. disk[dir["path"]] = data[dir["path"]]
    BY <2>2 DEF SnapInv, FilesInv, Whole, Holds
  <2>4. Holds("path", bound)'
    BY <1>1, <2>2, <2>3 DEF Holds
  <2>5. snap' = bound' /\ dsnap' = snap' /\ dnamed'
    BY <1>1, <2>2
  <2> QED
    BY <1>1, <2>2, <2>4, <2>5 DEF PromiseInv, Renewing
<1>7. IssuedInv'
  BY <1>1 DEF IssuedInv
<1> QED
  BY <1>2, <1>3, <1>4, <1>5, <1>6, <1>7 DEF SnapInv

-----------------------------------------------------------------------------
(* The theorems.                                                           *)

LEMMA SnapInitial == SnapInit => SnapInv
<1> SUFFICES ASSUME SnapInit PROVE SnapInv
  OBVIOUS
<1>1. /\ dir = [n \in Name |-> None] /\ ddir = dir
      /\ data = [i \in Inode |-> << >>] /\ disk = data
      /\ pc = [p \in Proc |-> "idle"]
      /\ fresh = [p \in Proc |-> None] /\ file = fresh
      /\ pos = [p \in Proc |-> 0]
      /\ used = { } /\ issued = { }
      /\ vm = [p \in Proc |-> None] /\ stage = [p \in Proc |-> "none"]
      /\ snap = None /\ dsnap = None /\ dnamed = FALSE
      /\ bound = None /\ promise = "none" /\ calm = TRUE
  BY DEF SnapInit, Init
<1>2. /\ << >> \in Seq(Chunk) /\ 0 \in 0..Chunks
      /\ dir["path"] = None /\ dir["tmp"] = None
  BY <1>1, EmptySeq, IdentifierAssumption DEF Name
<1>3. TypeOK
  BY <1>1, <1>2 DEF TypeOK
<1>4. SnapTypeOK
  BY <1>1, <1>3 DEF SnapTypeOK, Stage, Contents, Promise
<1>5. FilesInv /\ PromiseInv
  BY <1>1, <1>2 DEF FilesInv, PromiseInv
<1>6. FunctionInv /\ VmInv /\ IssuedInv
  BY <1>1 DEF FunctionInv, VmInv, IssuedInv, IssuedIsAtPath, Renewing
<1> QED
  BY <1>4, <1>5, <1>6 DEF SnapInv

LEMMA SnapStep ==
  ASSUME SnapInv, OneProcess, [SnapNext]_<< vars, snapVars >>
  PROVE  SnapInv'
<1>1. ASSUME NEW p \in Proc, Build(p)
      PROVE  SnapInv'
  BY <1>1, MoveStep, CreateTmpStep, WriteChunkStep, SyncTmpStep, RenameTmpStep DEF Build
<1>2. CASE UNCHANGED << vars, snapVars >>
  <2>1. /\ UNCHANGED << dir, data, ddir, disk, pc, fresh, file, pos, used, issued >>
        /\ UNCHANGED << vm, stage, snap, dsnap, dnamed, bound, promise, calm >>
    BY <1>2 DEF vars, fsVars, procVars, snapVars
  <2>2. SnapTypeOK'
    BY <2>1 DEF SnapInv, SnapTypeOK, TypeOK
  <2>3. FilesInv' /\ VmInv' /\ PromiseInv' /\ IssuedInv'
    BY <2>1 DEF SnapInv, FilesInv, Whole, VmInv, PromiseInv, IssuedInv, IssuedIsAtPath, Holds
  <2>4. FunctionInv'
    <3>1. FunctionInv
      BY DEF SnapInv
    <3> QED
      BY <2>1, <3>1 DEF FunctionInv, Holds
  <2> QED
    BY <2>2, <2>3, <2>4 DEF SnapInv
<1> QED
  BY <1>1, <1>2, BootStep, TakeFreshStep, MachineStep, WriteBackNamesStep,
     WriteBackSnapStep, WriteBackDataStep, LosePowerStep DEF SnapNext

(* For one process at a time, whatever dies, fails or loses power when,    *)
(* the invariant of Snapshot holds in every reachable state.               *)
THEOREM SnapInvariance == ASSUME OneProcess PROVE SnapSpec => []SnapInv
<1>1. SnapInv /\ [SnapNext]_<< vars, snapVars >> => SnapInv'
  BY SnapStep
<1> QED
  BY <1>1, SnapInitial, PTL DEF SnapSpec

(* The variables of Snapshot have their types in every reachable state.    *)
THEOREM SnapTypeCorrect == ASSUME OneProcess PROVE SnapSpec => []SnapTypeOK
<1>1. SnapInv => SnapTypeOK
  BY DEF SnapInv
<1> QED
  BY <1>1, SnapInvariance, PTL

(* No identifier file is ever left that a later boot cannot load.          *)
THEOREM NothingBricked == ASSUME OneProcess PROVE SnapSpec => []NeverBricked
<1>1. SnapInv => NeverBricked
  BY DEF SnapInv, FilesInv, Whole, NeverBricked, Holds
<1> QED
  BY <1>1, SnapInvariance, PTL

(* A save that was answered Ok, and that nothing has undone since, is      *)
(* resumed by the next boot.                                               *)
THEOREM SavesResume == ASSUME OneProcess PROVE SnapSpec => []Resumable
<1>1. SnapInv => Resumable
  BY DEF SnapInv, PromiseInv, Resumable, Restorable
<1> QED
  BY <1>1, SnapInvariance, PTL

(* Until a fault takes it, an identifier that was returned is what every   *)
(* later boot loads.                                                       *)
THEOREM IdentifierKept == ASSUME OneProcess PROVE SnapSpec => []IssuedIsKept
<1>1. SnapInv => IssuedIsKept
  BY DEF SnapInv, IssuedInv, IssuedIsKept
<1> QED
  BY <1>1, SnapInvariance, PTL
=============================================================================

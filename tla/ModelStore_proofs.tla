------------------------- MODULE ModelStore_proofs -------------------------
(* Proofs about ModelStore, for repositories of any number of files of any    *)
(* size, any number of tasks, attempts, blocks of weights and revisions.      *)
EXTENDS ModelStore, TLAPS

-----------------------------------------------------------------------------
(* The invariant of the download. *)

HasFile(t) == worker[t] \in {"connect", "read", "link"}

(* A task that has a file to download has one of the repository; one that has *)
(* not begun is at the first.                                                 *)
CurOK ==
    \A t \in Task : /\ HasFile(t) => cur[t] \in File
                    /\ ~Running(t) \/ worker[t] = "asked" => cur[t] = 1

(* A deletion that meets no task has none; unless a deletion met another use, *)
(* one task at most runs, in the state of a download.                         *)
BusyOK ==
    /\ met => torn /\ deleting
    /\ deleting /\ ~met => NoneRuns
    /\ ~torn => /\ \A t \in Task : Running(t) => state = "DOWNLOADING"
                /\ \A t, u \in Task : Running(t) /\ Running(u) => t = u

(* A task that is alone writes to the .incomplete file.                       *)
HandleOK == \A t \in Task : worker[t] # "read" \/ ~torn => handle[t] = "part"

(* A file is there for good. *)
Present(f) == f \in link /\ blob[f] = "whole"

(* What the download has done so far, and what the link and the state say.    *)
TaskDone(t) ==
    /\ worker[t] = "file" \/ HasFile(t) => \A f \in File : f < cur[t] => Present(f)
    /\ worker[t] = "link" => blob[cur[t]] = "whole"

AllDone == folder \/ state = "COMPLETED" => \A f \in File : Present(f)

DoneOK == ~torn /\ ~deleting => AllDone /\ \A t \in Task : TaskDone(t)

DownloadInv == DownloadTypeOK /\ CurOK /\ BusyOK /\ HandleOK /\ BlobsWhole /\ DoneOK

Byte == {"good", "wrong"}
Stages == {"idle", "asked", "file", "connect", "read", "link"}

(* The type in parts: the disk, the tasks, the manager.                       *)
DiskTypeOK ==
    /\ part \in [File -> Seq(Byte)] /\ \A f \in File : Len(part[f]) <= Size[f]
    /\ blob \in [File -> {"none", "whole", "bad"}]
    /\ link \subseteq File
    /\ snapshot \in BOOLEAN /\ folder \in BOOLEAN

TaskTypeOK ==
    /\ worker \in [Task -> Stages] /\ cur \in [Task -> 1..Files + 1]
    /\ done \in [Task -> [File -> Nat]]
    /\ \A t \in Task, f \in File : done[t][f] <= Size[f]
    /\ tries \in [Task -> 0..MaxRetry - 1]
    /\ handle \in [Task -> {"part", "blob", "gone"}]

FlagTypeOK ==
    /\ state \in {"NOT_START", "DOWNLOADING", "PAUSED", "COMPLETED", "FAILED"}
    /\ paused \in BOOLEAN /\ deleting \in BOOLEAN /\ met \in BOOLEAN /\ torn \in BOOLEAN

LEMMA TypeParts == /\ DownloadTypeOK <=> DiskTypeOK /\ TaskTypeOK /\ FlagTypeOK
                   /\ DownloadTypeOK' <=> DiskTypeOK' /\ TaskTypeOK' /\ FlagTypeOK'
BY DEF DownloadTypeOK, DiskTypeOK, TaskTypeOK, FlagTypeOK, Byte, Stages

LEMMA Sizes == \A f \in File : Size[f] \in Nat /\ Size[f] >= 1 /\ File \subseteq Nat
BY DownloadAssumption DEF File

(* What a read leaves of a file is a file of no more than its size.           *)
LEMMA WrittenRead ==
    ASSUME NEW reads \in Seq(Byte), NEW size \in Nat, Len(reads) <= size,
           NEW at \in Nat, at < size, NEW r \in Byte
    PROVE  Written(reads, at, r) \in Seq(Byte) /\ Len(Written(reads, at, r)) <= size
<1>1. CASE at < Len(reads)
    <2>1. Written(reads, at, r) = [reads EXCEPT ![at + 1] = r] BY <1>1 DEF Written
    <2> QED BY <1>1, <2>1
<1>2. CASE ~(at < Len(reads))
    <2> DEFINE item(i) == IF i = at + 1 THEN r
                          ELSE IF i <= Len(reads) THEN reads[i] ELSE "wrong"
    <2>1. Written(reads, at, r) = [i \in 1..at + 1 |-> item(i)] BY <1>2 DEF Written
    <2>2. \A i \in 1..at + 1 : item(i) \in Byte BY DEF Byte
    <2> HIDE DEF item
    <2>3. [i \in 1..at + 1 |-> item(i)] \in [1..at + 1 -> Byte] BY <2>2
    <2>4. at + 1 \in Nat /\ at + 1 <= size OBVIOUS
    <2> QED BY <2>1, <2>3, <2>4
<1> QED BY <1>1, <1>2

LEMMA PartGone ==
    ASSUME part \in [File -> Seq(Byte)], \A f \in File : Len(part[f]) <= Size[f],
           NEW g \in File, part' = [part EXCEPT ![g] = <<>>]
    PROVE  part' \in [File -> Seq(Byte)] /\ \A f \in File : Len(part'[f]) <= Size[f]
<1>1. <<>> \in Seq(Byte) /\ Len(<<>>) = 0 OBVIOUS
<1>2. \A f \in File : part'[f] = IF f = g THEN <<>> ELSE part[f] OBVIOUS
<1>3. \A f \in File : Len(part'[f]) <= Size[f] BY <1>1, <1>2, Sizes
<1>4. part' \in [File -> Seq(Byte)] BY <1>1
<1> QED BY <1>3, <1>4

LEMMA EndedTask ==
    ASSUME TaskTypeOK, NEW t \in Task, TaskEnds(t)
    PROVE  /\ worker' \in [Task -> Stages] /\ cur' \in [Task -> 1..Files + 1]
           /\ done' \in [Task -> [File -> Nat]]
           /\ \A u \in Task, f \in File : done'[u][f] <= Size[f]
           /\ tries' \in [Task -> 0..MaxRetry - 1]
           /\ worker'[t] = "idle" /\ cur'[t] = 1
           /\ \A u \in Task \ {t} : worker'[u] = worker[u] /\ cur'[u] = cur[u]
<1> USE DownloadAssumption DEF TaskEnds, Goes, TaskTypeOK
<1>1. worker' \in [Task -> Stages] /\ cur' \in [Task -> 1..Files + 1] BY DEF Stages
<1>2. done' \in [Task -> [File -> Nat]] /\ tries' \in [Task -> 0..MaxRetry - 1]
    OBVIOUS
<1>3. \A u \in Task, f \in File : done'[u][f] <= Size[f] BY Sizes
<1>4. worker'[t] = "idle" /\ cur'[t] = 1
    OBVIOUS
<1>5. \A u \in Task \ {t} : worker'[u] = worker[u] /\ cur'[u] = cur[u] OBVIOUS
<1> QED BY <1>1, <1>2, <1>3, <1>4, <1>5

LEMMA Recounted ==
    ASSUME TaskTypeOK, NEW t \in Task, NEW g \in File,
           done' = done \/ done' = [done EXCEPT ![t][g] = 0]
    PROVE  /\ done' \in [Task -> [File -> Nat]]
           /\ \A u \in Task, f \in File : done'[u][f] <= Size[f]
<1>1. CASE done' = done BY <1>1 DEF TaskTypeOK
<1>2. CASE done' = [done EXCEPT ![t][g] = 0]
    <2>1. done' \in [Task -> [File -> Nat]] BY <1>2 DEF TaskTypeOK
    <2>2. \A u \in Task, f \in File : done'[u][f] = 0 \/ done'[u][f] = done[u][f]
        BY <1>2 DEF TaskTypeOK
    <2> QED BY <2>1, <2>2, Sizes DEF TaskTypeOK
<1> QED BY <1>1, <1>2

(* The shape of a step of task t.                                             *)
Alone(t) ==
    /\ Running(t) /\ UNCHANGED <<deleting, met, torn>>
    /\ \A u \in Task \ {t} : worker'[u] = worker[u] /\ cur'[u] = cur[u]
    /\ worker'[t] = "idle" \/ state' \in {state, "DOWNLOADING"}

LEMMA AloneKeeps ==
    ASSUME DownloadInv, NEW t \in Task, Alone(t)
    PROVE  BusyOK'
BY DEF DownloadInv, BusyOK, Alone, Running, NoneRuns

LEMMA AloneCur ==
    ASSUME DownloadInv, NEW t \in Task, Alone(t),
           worker'[t] \in {"idle", "asked"} => cur'[t] = 1, HasFile(t)' => cur'[t] \in File
    PROVE  CurOK'
BY DEF DownloadInv, CurOK, Alone, Running, HasFile, File

LEMMA AloneDone ==
    ASSUME DownloadInv, NEW t \in Task, Alone(t),
           ~torn /\ ~deleting => AllDone' /\ TaskDone(t)'
    PROVE  DoneOK'
<1> SUFFICES ASSUME ~torn, ~deleting PROVE AllDone' /\ \A u \in Task : TaskDone(u)'
    BY DEF DoneOK, Alone
<1>1. \A u \in Task \ {t} : worker'[u] = "idle"
    BY DEF DownloadInv, BusyOK, Alone, Running
<1>2. \A u \in Task \ {t} : TaskDone(u)' BY <1>1 DEF TaskDone, HasFile
<1> QED BY <1>2

(* The handles after a step of task t.                                        *)
LEMMA AloneHandle ==
    ASSUME DownloadInv, NEW t \in Task, Alone(t),
           \/ handle' = handle /\ (worker'[t] = "read" => worker[t] \in {"connect", "read"})
              /\ (worker[t] = "read" => worker'[t] = "read")
           \/ handle' = [handle EXCEPT ![t] = "part"]
           \/ \E f, a, b : Follow(Task \ {t}, f, a, b)
    PROVE  HandleOK'
<1>1. HandleOK /\ handle \in [Task -> {"part", "blob", "gone"}]
    BY TypeParts DEF DownloadInv, TaskTypeOK
<1>2. ~torn => \A u \in Task \ {t} : worker[u] = "idle"
    BY DEF DownloadInv, BusyOK, Alone, Running
<1>3. CASE handle' = handle /\ (worker'[t] = "read" => worker[t] \in {"connect", "read"})
           /\ (worker[t] = "read" => worker'[t] = "read")
    BY <1>1, <1>3 DEF HandleOK, Alone
<1>4. CASE handle' = [handle EXCEPT ![t] = "part"] BY <1>1, <1>4 DEF HandleOK, Alone
<1>5. CASE \E f, a, b : Follow(Task \ {t}, f, a, b)
    <2> SUFFICES ASSUME NEW u \in Task, worker'[u] # "read" \/ ~torn'
                 PROVE  handle'[u] = "part"
        BY DEF HandleOK
    <2>1. CASE u = t BY <1>5, <2>1 DEF Follow
    <2>2. CASE u # t
        <3>1. worker[u] # "read" BY <1>2, <2>2 DEF Alone
        <3>2. handle'[u] = handle[u] BY <1>5, <2>2, <3>1 DEF Follow
        <3> QED BY <1>1, <3>1, <3>2 DEF HandleOK
    <2> QED BY <2>1, <2>2
<1> QED BY <1>3, <1>4, <1>5

LEMMA FollowType ==
    ASSUME handle \in [Task -> {"part", "blob", "gone"}], NEW tasks, NEW f,
           NEW a \in {"part", "blob", "gone"}, NEW b \in {"part", "blob", "gone"},
           Follow(tasks, f, a, b)
    PROVE  handle' \in [Task -> {"part", "blob", "gone"}]
BY DEF Follow

LEMMA StartKeeps ==
    ASSUME DownloadInv, Start
    PROVE  DownloadInv'
<1> USE DownloadAssumption DEF DownloadInv, diskVars, workVars
<1>0. DiskTypeOK /\ TaskTypeOK /\ FlagTypeOK BY TypeParts
<1>1. DiskTypeOK' BY <1>0 DEF DiskTypeOK, Start
<1>2. TaskTypeOK'
    <2>1. PICK t \in Task : ~Running(t) /\ worker' = [worker EXCEPT ![t] = "asked"]
        BY DEF Start
    <2> QED BY <1>0, <2>1 DEF TaskTypeOK, Stages, Start
<1>3. FlagTypeOK' BY <1>0 DEF FlagTypeOK, NoneRuns, Start
<1>4. CurOK' BY <1>0 DEF CurOK, Running, HasFile, TaskTypeOK, Start
<1>5. BusyOK'
    <2>1. PICK t \in Task : ~Running(t) /\ worker' = [worker EXCEPT ![t] = "asked"]
        BY DEF Start
    <2> QED BY <1>0, <2>1 DEF TaskTypeOK, BusyOK, Running, NoneRuns, Start
<1>6. HandleOK'
    <2>1. PICK t \in Task : ~Running(t) /\ worker' = [worker EXCEPT ![t] = "asked"]
        BY DEF Start
    <2>2. \A u \in Task : worker'[u] = "read" <=> worker[u] = "read"
        BY <1>0, <2>1 DEF TaskTypeOK, Running
    <2> QED BY <2>2 DEF HandleOK, Start
<1>7. BlobsWhole' BY DEF BlobsWhole, Start
<1>8. DoneOK'
    <2>1. PICK t \in Task : ~Running(t) /\ worker' = [worker EXCEPT ![t] = "asked"]
        BY DEF Start
    <2> QED
        BY <1>0, <2>1 DEF DoneOK, AllDone, TaskDone, Present, HasFile, TaskTypeOK, Start
<1> QED BY <1>1, <1>2, <1>3, <1>4, <1>5, <1>6, <1>7, <1>8, TypeParts

LEMMA PauseKeeps ==
    ASSUME DownloadInv, Pause
    PROVE  DownloadInv'
<1> USE DownloadAssumption DEF DownloadInv, diskVars, workVars
<1>0. DiskTypeOK /\ TaskTypeOK /\ FlagTypeOK BY TypeParts
<1>1. DiskTypeOK' BY <1>0 DEF DiskTypeOK, Pause
<1>2. TaskTypeOK' BY <1>0 DEF TaskTypeOK, Pause
<1>3. FlagTypeOK' BY <1>0 DEF FlagTypeOK, NoneRuns, Pause
<1>4. CurOK' BY DEF CurOK, Running, HasFile, Pause
<1>5. BusyOK' BY DEF BusyOK, Running, NoneRuns, Pause
<1>6. HandleOK' BY DEF HandleOK, Pause
<1>7. BlobsWhole' BY DEF BlobsWhole, Pause
<1>8. DoneOK' BY DEF DoneOK, AllDone, TaskDone, Present, HasFile, Pause
<1> QED BY <1>1, <1>2, <1>3, <1>4, <1>5, <1>6, <1>7, <1>8, TypeParts

LEMMA DeleteKeeps ==
    ASSUME DownloadInv, Delete
    PROVE  DownloadInv'
<1> USE DownloadAssumption DEF DownloadInv, diskVars, workVars
<1>0. DiskTypeOK /\ TaskTypeOK /\ FlagTypeOK BY TypeParts
<1>1. DiskTypeOK' BY <1>0 DEF DiskTypeOK, Delete
<1>2. TaskTypeOK' BY <1>0 DEF TaskTypeOK, Delete
<1>3. FlagTypeOK' BY <1>0 DEF FlagTypeOK, NoneRuns, Delete
<1>4. CurOK' BY DEF CurOK, Running, HasFile, Delete
<1>5. BusyOK' BY DEF BusyOK, Running, NoneRuns, Delete
<1>6. HandleOK' BY DEF HandleOK, Delete
<1>7. BlobsWhole' BY DEF BlobsWhole, Delete
<1>8. DoneOK' BY DEF DoneOK, Delete
<1> QED BY <1>1, <1>2, <1>3, <1>4, <1>5, <1>6, <1>7, <1>8, TypeParts

LEMMA DeleteFileKeeps ==
    ASSUME DownloadInv, NEW f \in File, DeleteFile(f)
    PROVE  DownloadInv'
<1> USE DownloadAssumption DEF DownloadInv, diskVars, workVars
<1>0. DiskTypeOK /\ TaskTypeOK /\ FlagTypeOK BY TypeParts
<1>1. DiskTypeOK'
    BY <1>0, PartGone DEF DiskTypeOK, DeleteFile, DeletePart, DeleteBlob, DeletePointer
<1>2. TaskTypeOK'
    BY <1>0 DEF TaskTypeOK, DeleteFile, DeletePart, DeleteBlob, DeletePointer, Follow
<1>3. FlagTypeOK'
    BY <1>0
    DEF FlagTypeOK, NoneRuns, DeleteFile, DeletePart, DeleteBlob, DeletePointer, Follow
<1>4. CurOK'
    BY DEF CurOK, Running, HasFile, DeleteFile, DeletePart, DeleteBlob, DeletePointer,
           Follow
<1>5. BusyOK'
    BY DEF BusyOK, Running, NoneRuns, DeleteFile, DeletePart, DeleteBlob, DeletePointer,
           Follow
<1>6. HandleOK'
    <2>1. ~torn => NoneRuns BY DEF BusyOK, DeleteFile
    <2> QED
        BY <2>1
        DEF HandleOK, NoneRuns, DeleteFile, DeletePart, DeleteBlob, DeletePointer, Follow
<1>7. BlobsWhole'
    BY <1>0
    DEF BlobsWhole, DiskTypeOK, DeleteFile, DeletePart, DeleteBlob, DeletePointer
<1>8. DoneOK' BY DEF DoneOK, DeleteFile
<1> QED BY <1>1, <1>2, <1>3, <1>4, <1>5, <1>6, <1>7, <1>8, TypeParts

LEMMA DeleteTreeKeeps ==
    ASSUME DownloadInv, DeleteTree
    PROVE  DownloadInv'
<1> USE DownloadAssumption DEF DownloadInv, diskVars, workVars
<1>0. DiskTypeOK /\ TaskTypeOK /\ FlagTypeOK BY TypeParts
<1>1. DiskTypeOK' BY <1>0 DEF DiskTypeOK, DeleteTree
<1>2. TaskTypeOK' BY <1>0 DEF TaskTypeOK, DeleteTree
<1>3. FlagTypeOK' BY <1>0 DEF FlagTypeOK, NoneRuns, DeleteTree
<1>4. CurOK' BY DEF CurOK, Running, HasFile, DeleteTree
<1>5. BusyOK' BY DEF BusyOK, Running, NoneRuns, DeleteTree
<1>6. HandleOK' BY DEF HandleOK, DeleteTree
<1>7. BlobsWhole' BY DEF BlobsWhole, DeleteTree
<1>8. DoneOK' BY DEF DoneOK, DeleteTree
<1> QED BY <1>1, <1>2, <1>3, <1>4, <1>5, <1>6, <1>7, <1>8, TypeParts

LEMMA DeleteLinkKeeps ==
    ASSUME DownloadInv, DeleteLink
    PROVE  DownloadInv'
<1> USE DownloadAssumption DEF DownloadInv, diskVars, workVars
<1>0. DiskTypeOK /\ TaskTypeOK /\ FlagTypeOK BY TypeParts
<1>1. DiskTypeOK' BY <1>0 DEF DiskTypeOK, DeleteLink
<1>2. TaskTypeOK' BY <1>0 DEF TaskTypeOK, DeleteLink
<1>3. FlagTypeOK' BY <1>0 DEF FlagTypeOK, NoneRuns, DeleteLink
<1>4. CurOK' BY DEF CurOK, Running, HasFile, DeleteLink
<1>5. BusyOK' BY DEF BusyOK, Running, NoneRuns, DeleteLink
<1>6. HandleOK' BY DEF HandleOK, DeleteLink
<1>7. BlobsWhole' BY DEF BlobsWhole, DeleteLink
<1>8. DoneOK' BY DEF DoneOK, DeleteLink, TreeDeleted
<1> QED BY <1>1, <1>2, <1>3, <1>4, <1>5, <1>6, <1>7, <1>8, TypeParts

LEMMA DeleteEndKeeps ==
    ASSUME DownloadInv, DeleteEnd
    PROVE  DownloadInv'
<1> USE DownloadAssumption DEF DownloadInv, diskVars, workVars
<1>0. DiskTypeOK /\ TaskTypeOK /\ FlagTypeOK BY TypeParts
<1>1. DiskTypeOK' BY <1>0 DEF DiskTypeOK, DeleteEnd
<1>2. TaskTypeOK' BY <1>0 DEF TaskTypeOK, DeleteEnd
<1>3. FlagTypeOK' BY <1>0 DEF FlagTypeOK, NoneRuns, DeleteEnd
<1>4. CurOK' BY DEF CurOK, Running, HasFile, DeleteEnd
<1>5. BusyOK' BY DEF BusyOK, Running, NoneRuns, DeleteEnd, TreeDeleted
<1>6. HandleOK' BY DEF HandleOK, BusyOK, NoneRuns, DeleteEnd, TreeDeleted
<1>7. BlobsWhole' BY DEF BlobsWhole, DeleteEnd, TreeDeleted, Emptied
<1>8. DoneOK'
    <2>1. ~torn' => NoneRuns BY DEF BusyOK, DeleteEnd, TreeDeleted
    <2> QED BY <2>1 DEF DoneOK, AllDone, TaskDone, HasFile, NoneRuns, DeleteEnd
<1> QED BY <1>1, <1>2, <1>3, <1>4, <1>5, <1>6, <1>7, <1>8, TypeParts

LEMMA RunKeeps ==
    ASSUME DownloadInv, Run
    PROVE  DownloadInv'
<1> USE DownloadAssumption DEF DownloadInv, diskVars, workVars
<1>0. DiskTypeOK /\ TaskTypeOK /\ FlagTypeOK BY TypeParts
<1>1. DiskTypeOK' BY <1>0 DEF DiskTypeOK, Run
<1>2. TaskTypeOK' BY <1>0 DEF TaskTypeOK, Run
<1>3. FlagTypeOK' BY <1>0 DEF FlagTypeOK, NoneRuns, Run
<1>4. CurOK' BY DEF CurOK, Running, HasFile, Run
<1>5. BusyOK' BY DEF BusyOK, Running, NoneRuns, Run
<1>6. HandleOK' BY DEF HandleOK, Run
<1>7. BlobsWhole' BY DEF BlobsWhole, Run
<1>8. DoneOK' BY DEF DoneOK, AllDone, TaskDone, Present, HasFile, Run
<1> QED BY <1>1, <1>2, <1>3, <1>4, <1>5, <1>6, <1>7, <1>8, TypeParts

LEMMA RestartKeeps ==
    ASSUME DownloadInv, Restart
    PROVE  DownloadInv'
<1> USE DownloadAssumption DEF DownloadInv, diskVars, workVars
<1>0. DiskTypeOK /\ TaskTypeOK /\ FlagTypeOK BY TypeParts
<1>1. DiskTypeOK' BY <1>0 DEF DiskTypeOK, Restart
<1>2. TaskTypeOK' BY Sizes DEF TaskTypeOK, Stages, Restart, TasksEnd
<1>3. FlagTypeOK' BY <1>0 DEF FlagTypeOK, Restart
<1>4. \A t \in Task : worker'[t] = "idle" /\ cur'[t] = 1 /\ handle'[t] = "part"
    BY DEF Restart, TasksEnd
<1>5. CurOK' /\ HandleOK' BY <1>4 DEF CurOK, Running, HasFile, HandleOK
<1>6. BusyOK' BY <1>4 DEF BusyOK, Running, NoneRuns, Restart
<1>7. BlobsWhole' BY DEF BlobsWhole, Restart
<1>8. DoneOK'
    BY <1>4 DEF DoneOK, AllDone, TaskDone, Present, HasFile, Restart, FolderExists
<1> QED BY <1>1, <1>2, <1>3, <1>4, <1>5, <1>6, <1>7, <1>8, TypeParts

LEMMA ListFailsKeeps ==
    ASSUME DownloadInv, NEW t \in Task, ListFails(t)
    PROVE  DownloadInv'
<1> USE DownloadAssumption DEF DownloadInv, diskVars, workVars
<1>0. DiskTypeOK /\ TaskTypeOK /\ FlagTypeOK BY TypeParts
<1>1. DiskTypeOK' BY <1>0 DEF DiskTypeOK, ListFails
<1>2. TaskTypeOK' BY <1>0 DEF TaskTypeOK, Stages, ListFails, Goes
<1>3. FlagTypeOK' BY <1>0 DEF FlagTypeOK, ListFails
<1>4. Alone(t) BY <1>0 DEF Alone, Running, TaskTypeOK, ListFails, Goes
<1>5. CurOK' BY <1>0, <1>4, AloneCur DEF CurOK, HasFile, TaskTypeOK, ListFails, Goes
<1>6. BusyOK' BY <1>4, AloneKeeps
<1>7. HandleOK' BY <1>0, <1>4, AloneHandle DEF TaskTypeOK, ListFails, Goes
<1>8. BlobsWhole' BY DEF BlobsWhole, ListFails
<1>9. DoneOK'
    <2>1. ~torn /\ ~deleting => AllDone' /\ TaskDone(t)'
        BY <1>0
        DEF DoneOK, AllDone, TaskDone, Present, HasFile, TaskTypeOK, ListFails, Goes
    <2> QED BY <1>4, <2>1, AloneDone
<1> QED BY <1>1, <1>2, <1>3, <1>4, <1>5, <1>6, <1>7, <1>8, <1>9, TypeParts

LEMMA BeginKeeps ==
    ASSUME DownloadInv, NEW t \in Task, Begin(t)
    PROVE  DownloadInv'
<1> USE DownloadAssumption DEF DownloadInv, diskVars, workVars
<1>0. DiskTypeOK /\ TaskTypeOK /\ FlagTypeOK BY TypeParts
<1>1. DiskTypeOK' BY <1>0 DEF DiskTypeOK, Begin
<1>2. TaskTypeOK'
    <2>1. CASE FolderExists BY <1>0, <2>1, EndedTask DEF TaskTypeOK, Begin, Stop
    <2>2. CASE ~FolderExists
        <3> DEFINE found == [f \in File |-> IF blob[f] # "none" THEN Size[f]
                                            ELSE Len(part[f])]
        <3>1. found \in [File -> Nat] /\ \A f \in File : found[f] <= Size[f]
            BY <1>0, Sizes DEF DiskTypeOK
        <3>2. done' = [done EXCEPT ![t] = found] BY <2>2 DEF Begin
        <3> HIDE DEF found
        <3>3. /\ done' \in [Task -> [File -> Nat]]
              /\ \A u \in Task, f \in File : done'[u][f] <= Size[f]
            BY <1>0, <3>1, <3>2 DEF TaskTypeOK
        <3> QED BY <1>0, <2>2, <3>3 DEF TaskTypeOK, Stages, Begin, Goes
    <2> QED BY <2>1, <2>2
<1>3. FlagTypeOK' BY <1>0 DEF FlagTypeOK, Begin, Stop
<1>4. Alone(t) BY <1>0, EndedTask DEF Alone, Running, TaskTypeOK, Begin, Goes, Stop
<1>5. CurOK' BY <1>0, <1>4, EndedTask, AloneCur DEF HasFile, TaskTypeOK, Begin, Goes, Stop
<1>6. BusyOK' BY <1>4, AloneKeeps
<1>7. HandleOK' BY <1>0, <1>4, EndedTask, AloneHandle DEF TaskTypeOK, Begin, Goes, Stop
<1>8. BlobsWhole' BY DEF BlobsWhole, Begin
<1>9. DoneOK'
    <2>1. ~torn /\ ~deleting => AllDone' /\ TaskDone(t)'
        BY <1>0, EndedTask, Sizes
        DEF DoneOK, AllDone, TaskDone, Present, HasFile, CurOK, TaskTypeOK, File, Begin,
            Goes, Stop, FolderExists
    <2> QED BY <1>4, <2>1, AloneDone
<1> QED BY <1>1, <1>2, <1>3, <1>4, <1>5, <1>6, <1>7, <1>8, <1>9, TypeParts

LEMMA FileThereKeeps ==
    ASSUME DownloadInv, NEW t \in Task, FileThere(t)
    PROVE  DownloadInv'
<1> USE DownloadAssumption DEF DownloadInv, diskVars, workVars
<1>0. DiskTypeOK /\ TaskTypeOK /\ FlagTypeOK BY TypeParts
<1>a. cur[t] \in File /\ cur[t] + 1 \in 1..Files + 1
    BY <1>0 DEF TaskTypeOK, FileThere, File
<1>1. DiskTypeOK' BY <1>0, <1>a DEF DiskTypeOK, FileThere
<1>2. TaskTypeOK' BY <1>0, <1>a, Sizes DEF TaskTypeOK, FileThere
<1>3. FlagTypeOK' BY <1>0 DEF FlagTypeOK, FileThere
<1>4. Alone(t) BY <1>0 DEF Alone, Running, TaskTypeOK, FileThere
<1>5. CurOK' BY <1>0, <1>4, AloneCur DEF HasFile, TaskTypeOK, FileThere
<1>6. BusyOK' BY <1>4, AloneKeeps
<1>7. HandleOK' BY <1>0, <1>4, AloneHandle DEF FileThere
<1>8. BlobsWhole' BY DEF BlobsWhole, FileThere
<1>9. DoneOK'
    <2>1. /\ worker'[t] = "file" /\ cur'[t] = cur[t] + 1 /\ state' = state
          /\ link' = link \cup {cur[t]} /\ blob' = blob /\ folder' = folder
        BY <1>0 DEF TaskTypeOK, FileThere
    <2>2. ~torn => blob[cur[t]] = "whole"
        BY <1>0, <1>a DEF BlobsWhole, DiskTypeOK, FileThere
    <2>3. ~torn /\ ~deleting => AllDone' /\ TaskDone(t)'
        BY <1>a, <2>1, <2>2
        DEF DoneOK, AllDone, TaskDone, Present, HasFile, File, FileThere
    <2> QED BY <1>4, <2>3, AloneDone
<1> QED BY <1>1, <1>2, <1>3, <1>4, <1>5, <1>6, <1>7, <1>8, <1>9, TypeParts

LEMMA FileBeginKeeps ==
    ASSUME DownloadInv, NEW t \in Task, FileBegin(t)
    PROVE  DownloadInv'
<1> USE DownloadAssumption DEF DownloadInv, diskVars, workVars
<1>0. DiskTypeOK /\ TaskTypeOK /\ FlagTypeOK BY TypeParts
<1>1. DiskTypeOK'
    <2>1. cur[t] \in File BY <1>0 DEF TaskTypeOK, FileBegin, File
    <2>2. part' = part \/ part' = [part EXCEPT ![cur[t]] = <<>>]
        BY DEF FileBegin, Move, Discard
    <2>3. part' \in [File -> Seq(Byte)] /\ \A f \in File : Len(part'[f]) <= Size[f]
        BY <1>0, <2>1, <2>2, PartGone DEF DiskTypeOK
    <2> QED BY <1>0, <2>1, <2>3 DEF DiskTypeOK, FileBegin, Move, Discard
<1>2. TaskTypeOK'
    <2>1. cur[t] \in File BY <1>0 DEF TaskTypeOK, FileBegin, File
    <2>2. handle' \in [Task -> {"part", "blob", "gone"}]
        BY <1>0, FollowType DEF TaskTypeOK, FileBegin, Move, Discard
    <2>3. CASE Stop(t, "FAILED") BY <1>0, <2>2, <2>3, EndedTask DEF TaskTypeOK, Stop
    <2>4. CASE ~Stop(t, "FAILED")
        <3>1. /\ \E s \in {"connect", "link"} : Goes(t, s)
              /\ cur' = cur
              /\ tries' = tries \/ tries' = [tries EXCEPT ![t] = 0]
              /\ done' = done \/ done' = [done EXCEPT ![t][cur[t]] = 0]
            BY <2>4 DEF FileBegin, Move
        <3>2. worker' \in [Task -> Stages] BY <1>0, <3>1 DEF TaskTypeOK, Stages, Goes
        <3>3. tries' \in [Task -> 0..MaxRetry - 1] BY <1>0, <3>1 DEF TaskTypeOK
        <3>4. /\ done' \in [Task -> [File -> Nat]]
              /\ \A u \in Task, f \in File : done'[u][f] <= Size[f]
            BY <1>0, <2>1, <3>1, Recounted
        <3> QED BY <1>0, <2>2, <3>1, <3>2, <3>3, <3>4 DEF TaskTypeOK
    <2> QED BY <2>3, <2>4
<1>3. FlagTypeOK' BY <1>0 DEF FlagTypeOK, FileBegin, Stop, Move
<1>4. Alone(t)
    BY <1>0, EndedTask DEF Alone, Running, TaskTypeOK, FileBegin, Goes, Stop, Move
<1>5. CurOK'
    <2>1. cur[t] \in File BY <1>0 DEF TaskTypeOK, FileBegin, File
    <2>2. \/ worker'[t] = "idle" /\ cur'[t] = 1
          \/ worker'[t] \in {"connect", "link"} /\ cur' = cur
        BY <1>0, EndedTask DEF TaskTypeOK, FileBegin, Goes, Stop, Move
    <2> QED BY <1>4, <2>1, <2>2, AloneCur DEF HasFile
<1>6. BusyOK' BY <1>4, AloneKeeps
<1>7. HandleOK'
    <2>1. worker[t] = "file" /\ worker'[t] # "read"
        BY <1>0, EndedTask DEF TaskTypeOK, FileBegin, Goes, Stop, Move
    <2>2. handle' = handle \/ \E f, a, b : Follow(Task \ {t}, f, a, b)
        BY DEF FileBegin, Move, Discard
    <2> QED BY <1>4, <2>1, <2>2, AloneHandle
<1>8. BlobsWhole' BY <1>0 DEF BlobsWhole, DiskTypeOK, FileBegin, Move, Discard
<1>9. DoneOK'
    <2>1. cur[t] \in File BY <1>0 DEF TaskTypeOK, FileBegin, File
    <2>2. \A f \in File : Present(f) => Present(f)'
        BY <1>0, <2>1 DEF Present, DiskTypeOK, FileBegin, Move, Discard
    <2>3. worker'[t] = "link" => blob'[cur[t]] = "whole"
        BY <1>0, <2>1, EndedTask DEF DiskTypeOK, TaskTypeOK, FileBegin, Move, Goes, Stop
    <2>4. worker'[t] = "idle" \/ (cur' = cur /\ state' = state)
        BY <1>0, EndedTask DEF FileBegin, Move, Stop
    <2>5. folder' = folder /\ worker[t] = "file" /\ state' \in {state, "FAILED"}
        BY DEF FileBegin, Move, Stop
    <2>6. ~torn /\ ~deleting => AllDone' /\ TaskDone(t)'
        BY <2>2, <2>3, <2>4, <2>5 DEF DoneOK, AllDone, TaskDone, HasFile
    <2> QED BY <1>4, <2>6, AloneDone
<1> QED BY <1>1, <1>2, <1>3, <1>4, <1>5, <1>6, <1>7, <1>8, <1>9, TypeParts

LEMMA ConnectKeeps ==
    ASSUME DownloadInv, NEW t \in Task, Connect(t)
    PROVE  DownloadInv'
<1> USE DownloadAssumption DEF DownloadInv, diskVars, workVars
<1>0. DiskTypeOK /\ TaskTypeOK /\ FlagTypeOK BY TypeParts
<1>1. DiskTypeOK' BY <1>0 DEF DiskTypeOK, Connect
<1>2. TaskTypeOK' BY <1>0, EndedTask DEF TaskTypeOK, Stages, Connect, Goes, Stop
<1>3. FlagTypeOK' BY <1>0 DEF FlagTypeOK, Connect, Stop
<1>4. Alone(t) BY <1>0, EndedTask DEF Alone, Running, TaskTypeOK, Connect, Goes, Stop
<1>5. CurOK'
    BY <1>0, <1>4, EndedTask, AloneCur
    DEF CurOK, HasFile, TaskTypeOK, Connect, Goes, Stop
<1>6. BusyOK' BY <1>4, AloneKeeps
<1>7. HandleOK' BY <1>4, AloneHandle DEF Connect
<1>8. BlobsWhole' BY DEF BlobsWhole, Connect
<1>9. DoneOK'
    <2>1. ~torn /\ ~deleting => AllDone' /\ TaskDone(t)'
        BY <1>0, EndedTask
        DEF DoneOK, AllDone, TaskDone, Present, HasFile, TaskTypeOK, Connect, Goes, Stop
    <2> QED BY <1>4, <2>1, AloneDone
<1> QED BY <1>1, <1>2, <1>3, <1>4, <1>5, <1>6, <1>7, <1>8, <1>9, TypeParts

LEMMA ReadKeeps ==
    ASSUME DownloadInv, NEW t \in Task, Read(t)
    PROVE  DownloadInv'
<1> USE DownloadAssumption DEF DownloadInv, diskVars, workVars
<1>0. DiskTypeOK /\ TaskTypeOK /\ FlagTypeOK BY TypeParts
<1>1. DiskTypeOK'
    <2>1. /\ cur[t] \in File /\ done[t][cur[t]] \in Nat /\ done[t][cur[t]] < Size[cur[t]]
          /\ part[cur[t]] \in Seq(Byte) /\ Len(part[cur[t]]) <= Size[cur[t]]
        BY <1>0 DEF CurOK, HasFile, Read, TaskTypeOK, DiskTypeOK
    <2>2. PICK r \in Byte :
              /\ part' = IF handle[t] = "part"
                         THEN [part EXCEPT ![cur[t]] = Written(@, done[t][cur[t]], r)]
                         ELSE part
              /\ blob' = IF handle[t] = "blob" /\ r = "wrong"
                         THEN [blob EXCEPT ![cur[t]] = "bad"] ELSE blob
        BY DEF Read, Byte
    <2>3. LET w == Written(part[cur[t]], done[t][cur[t]], r)
          IN  w \in Seq(Byte) /\ Len(w) <= Size[cur[t]]
        BY <2>1, Sizes, WrittenRead
    <2>4. part' \in [File -> Seq(Byte)] /\ \A f \in File : Len(part'[f]) <= Size[f]
        BY <1>0, <2>1, <2>2, <2>3 DEF DiskTypeOK
    <2>5. blob' \in [File -> {"none", "whole", "bad"}]
        BY <1>0, <2>2 DEF DiskTypeOK
    <2> QED BY <1>0, <2>4, <2>5 DEF DiskTypeOK, Read
<1>2. TaskTypeOK'
    <2>1. cur[t] \in File /\ done[t][cur[t]] \in Nat /\ done[t][cur[t]] < Size[cur[t]]
        BY <1>0 DEF CurOK, HasFile, Read, TaskTypeOK
    <2>2. CASE paused
        <3>1. handle' \in [Task -> {"part", "blob", "gone"}]
            BY <1>0, <2>2 DEF Read, Closes, TaskTypeOK
        <3> QED BY <1>0, <2>2, <3>1, EndedTask DEF TaskTypeOK, Read, Stop
    <2>3. CASE ~paused
        <3>1. done' = [done EXCEPT ![t][cur[t]] = @ + 1] BY <2>3 DEF Read
        <3>2. /\ done' \in [Task -> [File -> Nat]]
              /\ \A u \in Task, f \in File : done'[u][f] <= Size[f]
            BY <1>0, <2>1, <3>1, Sizes DEF TaskTypeOK
        <3> QED BY <1>0, <2>3, <3>2 DEF TaskTypeOK, Read
    <2> QED BY <2>2, <2>3
<1>3. FlagTypeOK' BY <1>0 DEF FlagTypeOK, Read, Stop
<1>4. Alone(t) BY <1>0, EndedTask DEF Alone, Running, TaskTypeOK, Read, Stop
<1>5. CurOK' BY <1>0, <1>4, EndedTask, AloneCur DEF CurOK, HasFile, TaskTypeOK, Read, Stop
<1>6. BusyOK' BY <1>4, AloneKeeps
<1>7. HandleOK' BY <1>4, AloneHandle DEF Read, Closes
<1>8. BlobsWhole' BY DEF BlobsWhole, HandleOK, Read
<1>9. DoneOK'
    <2>1. ~torn => blob' = blob /\ link' = link /\ folder' = folder
        BY DEF HandleOK, Read
    <2>2. worker'[t] = "idle" \/ (cur' = cur /\ worker' = worker)
        BY <1>0, EndedTask DEF Read, Stop
    <2>3. state' \in {"PAUSED", "DOWNLOADING"} BY DEF Read, Stop
    <2>4. ~torn /\ ~deleting => AllDone' /\ TaskDone(t)'
        BY <2>1, <2>2, <2>3 DEF DoneOK, AllDone, TaskDone, Present, HasFile
    <2> QED BY <1>4, <2>4, AloneDone
<1> QED BY <1>1, <1>2, <1>3, <1>4, <1>5, <1>6, <1>7, <1>8, <1>9, TypeParts

(* An attempt that fails.                                                      *)
LEMMA Retries ==
    ASSUME TaskTypeOK, FlagTypeOK, NEW t \in Task, Retry(t), worker[t] = "read"
    PROVE  /\ worker' \in [Task -> Stages] /\ cur' \in [Task -> 1..Files + 1]
           /\ done' \in [Task -> [File -> Nat]]
           /\ \A u \in Task, f \in File : done'[u][f] <= Size[f]
           /\ tries' \in [Task -> 0..MaxRetry - 1]
           /\ \/ worker'[t] = "read" /\ cur'[t] = cur[t] /\ state' = state
              \/ worker'[t] = "idle" /\ cur'[t] = 1 /\ state' = "FAILED"
           /\ \A u \in Task \ {t} : worker'[u] = worker[u] /\ cur'[u] = cur[u]
<1>1. CASE tries[t] + 1 < MaxRetry
    <2>1. /\ worker' = [worker EXCEPT ![t] = "read"] /\ tries' = [tries EXCEPT ![t] = @ + 1]
          /\ state' = state /\ cur' = cur /\ done' = done
        BY <1>1 DEF Retry, Goes
    <2>2. tries[t] + 1 \in 0..MaxRetry - 1 BY <1>1, DownloadAssumption DEF TaskTypeOK
    <2>3. tries' \in [Task -> 0..MaxRetry - 1] BY <2>1, <2>2 DEF TaskTypeOK
    <2>4. worker' \in [Task -> Stages] BY <2>1 DEF TaskTypeOK, Stages
    <2> QED BY <2>1, <2>3, <2>4 DEF TaskTypeOK
<1>2. CASE ~(tries[t] + 1 < MaxRetry) BY <1>2, EndedTask DEF Retry, Stop
<1> QED BY <1>1, <1>2

LEMMA BreaksKeeps ==
    ASSUME DownloadInv, NEW t \in Task, Breaks(t)
    PROVE  DownloadInv'
<1> USE DownloadAssumption DEF DownloadInv, diskVars, workVars
<1>0. DiskTypeOK /\ TaskTypeOK /\ FlagTypeOK BY TypeParts
<1>1. DiskTypeOK' BY <1>0 DEF DiskTypeOK, Breaks
<1>2. TaskTypeOK' BY <1>0, Retries DEF TaskTypeOK, Breaks, Closes
<1>3. FlagTypeOK' BY <1>0, Retries DEF FlagTypeOK, Breaks
<1>4. Alone(t) BY <1>0, Retries DEF Alone, Running, Breaks
<1>5. CurOK' BY <1>0, <1>4, Retries, AloneCur DEF CurOK, HasFile, Breaks
<1>6. BusyOK' BY <1>4, AloneKeeps
<1>7. HandleOK' BY <1>4, AloneHandle DEF Breaks, Closes
<1>8. BlobsWhole' BY DEF BlobsWhole, Breaks
<1>9. DoneOK'
    <2>1. ~torn /\ ~deleting => AllDone' /\ TaskDone(t)'
        BY <1>0, Retries DEF DoneOK, AllDone, TaskDone, Present, HasFile, Breaks
    <2> QED BY <1>4, <2>1, AloneDone
<1> QED BY <1>1, <1>2, <1>3, <1>4, <1>5, <1>6, <1>7, <1>8, <1>9, TypeParts

LEMMA ValidateKeeps ==
    ASSUME DownloadInv, NEW t \in Task, Validate(t)
    PROVE  DownloadInv'
<1> USE DownloadAssumption DEF DownloadInv, diskVars, workVars
<1>0. DiskTypeOK /\ TaskTypeOK /\ FlagTypeOK BY TypeParts
<1>1. DiskTypeOK'
    <2>1. cur[t] \in File BY DEF CurOK, HasFile, Validate
    <2>2. part' = part \/ part' = [part EXCEPT ![cur[t]] = <<>>]
        BY DEF Validate, Move, Discard
    <2>3. part' \in [File -> Seq(Byte)] /\ \A f \in File : Len(part'[f]) <= Size[f]
        BY <1>0, <2>1, <2>2, PartGone DEF DiskTypeOK
    <2> QED BY <1>0, <2>1, <2>3 DEF DiskTypeOK, Validate, Move, Discard
<1>2. TaskTypeOK'
    <2>1. cur[t] \in File BY DEF CurOK, HasFile, Validate
    <2>2. handle' \in [Task -> {"part", "blob", "gone"}]
        BY <1>0, FollowType DEF TaskTypeOK, Validate, Move, Discard, Closes
    <2>3. CASE Stop(t, "FAILED") BY <1>0, <2>2, <2>3, EndedTask DEF TaskTypeOK, Stop
    <2>4. CASE Retry(t) BY <1>0, <2>2, <2>4, Retries DEF TaskTypeOK, Validate
    <2>5. CASE Move(t, cur[t])
        <3>1. /\ worker' \in [Task -> Stages] /\ cur' = cur
              /\ tries' \in [Task -> 0..MaxRetry - 1]
            BY <1>0, <2>5 DEF TaskTypeOK, Stages, Move, Goes
        <3>2. /\ done' \in [Task -> [File -> Nat]]
              /\ \A u \in Task, f \in File : done'[u][f] <= Size[f]
            BY <1>0, <2>1, <2>5, Sizes DEF TaskTypeOK, Move
        <3> QED BY <1>0, <2>2, <3>1, <3>2 DEF TaskTypeOK
    <2> QED BY <2>3, <2>4, <2>5 DEF Validate
<1>3. FlagTypeOK' BY <1>0, Retries DEF FlagTypeOK, Validate, Stop, Move
<1>4. Alone(t)
    BY <1>0, EndedTask, Retries
    DEF Alone, Running, TaskTypeOK, Validate, Goes, Stop, Move
<1>5. CurOK'
    BY <1>0, <1>4, EndedTask, Retries, AloneCur
    DEF CurOK, HasFile, TaskTypeOK, Validate, Goes, Stop, Move
<1>6. BusyOK' BY <1>4, AloneKeeps
<1>7. HandleOK'
    <2>1. \/ handle' = [handle EXCEPT ![t] = "part"]
          \/ \E f, a, b : Follow(Task \ {t}, f, a, b)
        BY DEF Validate, Move, Discard, Closes
    <2> QED BY <1>4, <2>1, AloneHandle
<1>8. BlobsWhole' BY <1>0 DEF BlobsWhole, DiskTypeOK, Validate, Move, Discard
<1>9. DoneOK'
    <2>1. cur[t] \in File BY DEF CurOK, HasFile, Validate
    <2>2. \A f \in File : Present(f) => Present(f)'
        BY <1>0, <2>1 DEF Present, DiskTypeOK, Validate, Move, Discard
    <2>3. worker'[t] = "link" => blob'[cur[t]] = "whole"
        BY <1>0, <2>1, EndedTask, Retries
        DEF DiskTypeOK, TaskTypeOK, Validate, Move, Goes, Stop
    <2>4. worker'[t] = "idle" \/ (cur'[t] = cur[t] /\ state' = state)
        BY <1>0, EndedTask, Retries DEF Validate, Move, Stop
    <2>5. folder' = folder /\ worker[t] = "read" /\ state' \in {state, "FAILED"}
        BY <1>0, Retries DEF Validate, Move, Stop
    <2>6. ~torn /\ ~deleting => AllDone' /\ TaskDone(t)'
        BY <2>2, <2>3, <2>4, <2>5 DEF DoneOK, AllDone, TaskDone, HasFile
    <2> QED BY <1>4, <2>6, AloneDone
<1> QED BY <1>1, <1>2, <1>3, <1>4, <1>5, <1>6, <1>7, <1>8, <1>9, TypeParts

LEMMA LinkKeeps ==
    ASSUME DownloadInv, NEW t \in Task, Link(t)
    PROVE  DownloadInv'
<1> USE DownloadAssumption DEF DownloadInv, diskVars, workVars
<1>0. DiskTypeOK /\ TaskTypeOK /\ FlagTypeOK BY TypeParts
<1>1. DiskTypeOK' BY <1>0 DEF DiskTypeOK, Link, CurOK, HasFile
<1>2. TaskTypeOK'
    <2>1. cur[t] \in File /\ cur[t] + 1 \in 1..Files + 1
        BY <1>0 DEF CurOK, HasFile, File, Link
    <2>2. CASE snapshot BY <1>0, <2>1, <2>2 DEF TaskTypeOK, Stages, Link, Goes
    <2>3. CASE ~snapshot BY <1>0, <2>3, EndedTask DEF TaskTypeOK, Link, Stop
    <2> QED BY <2>2, <2>3
<1>3. FlagTypeOK' BY <1>0 DEF FlagTypeOK, Link, Stop
<1>4. Alone(t) BY <1>0, EndedTask DEF Alone, Running, TaskTypeOK, Link, Goes, Stop
<1>5. CurOK' BY <1>0, <1>4, EndedTask, AloneCur DEF HasFile, TaskTypeOK, Link, Goes, Stop
<1>6. BusyOK' BY <1>4, AloneKeeps
<1>7. HandleOK' BY <1>0, <1>4, EndedTask, AloneHandle DEF TaskTypeOK, Link, Goes, Stop
<1>8. BlobsWhole' BY DEF BlobsWhole, Link
<1>9. DoneOK'
    <2>1. cur[t] \in File /\ worker[t] = "link" BY DEF CurOK, HasFile, Link
    <2>2. CASE snapshot
        <3>1. /\ worker'[t] = "file" /\ cur'[t] = cur[t] + 1 /\ state' = state
              /\ link' = link \cup {cur[t]} /\ blob' = blob /\ folder' = folder
            BY <1>0, <2>2 DEF TaskTypeOK, Link, Goes
        <3>2. ~torn /\ ~deleting => AllDone' /\ TaskDone(t)'
            BY <1>0, <2>1, <3>1
            DEF DoneOK, AllDone, TaskDone, Present, HasFile, File
        <3> QED BY <1>4, <3>2, AloneDone
    <2>3. CASE ~snapshot
        <3>1. /\ worker'[t] = "idle" /\ state' = "FAILED"
              /\ link' = link /\ blob' = blob /\ folder' = folder
            BY <1>0, <2>3, EndedTask DEF Link, Stop
        <3>2. ~torn /\ ~deleting => AllDone' /\ TaskDone(t)'
            BY <3>1 DEF DoneOK, AllDone, TaskDone, Present, HasFile
        <3> QED BY <1>4, <3>2, AloneDone
    <2> QED BY <2>2, <2>3
<1> QED BY <1>1, <1>2, <1>3, <1>4, <1>5, <1>6, <1>7, <1>8, <1>9, TypeParts

LEMMA FinishKeeps ==
    ASSUME DownloadInv, NEW t \in Task, Finish(t)
    PROVE  DownloadInv'
<1> USE DownloadAssumption DEF DownloadInv, diskVars, workVars
<1>0. DiskTypeOK /\ TaskTypeOK /\ FlagTypeOK BY TypeParts
<1>1. DiskTypeOK' BY <1>0 DEF DiskTypeOK, Finish
<1>2. TaskTypeOK' BY <1>0, EndedTask DEF TaskTypeOK, Finish, Stop
<1>3. FlagTypeOK' BY <1>0 DEF FlagTypeOK, Finish, Stop
<1>4. Alone(t) BY <1>0, EndedTask DEF Alone, Running, Finish, Stop
<1>5. CurOK' BY <1>0, <1>4, EndedTask, AloneCur DEF HasFile, Finish, Stop
<1>6. BusyOK' BY <1>4, AloneKeeps
<1>7. HandleOK'
    <2>1. worker[t] = "file" /\ worker'[t] = "idle" /\ handle' = handle
        BY <1>0, EndedTask DEF Finish, Stop
    <2> QED BY <1>4, <2>1, AloneHandle
<1>8. BlobsWhole' BY DEF BlobsWhole, Finish
<1>9. DoneOK'
    <2>1. ~torn /\ ~deleting => AllDone' /\ TaskDone(t)'
        BY <1>0, EndedTask
        DEF DoneOK, AllDone, TaskDone, Present, HasFile, File, Finish, Stop
    <2> QED BY <1>4, <2>1, AloneDone
<1> QED BY <1>1, <1>2, <1>3, <1>4, <1>5, <1>6, <1>7, <1>8, <1>9, TypeParts

-----------------------------------------------------------------------------
(* The invariant of the weights. *)

(* The number of the file of a block: files without their size are passed     *)
(* over.                                                                      *)
Skipped(n) == \E k \in Number : k < n /\ file[k] = Empty
NumberOf(b) == IF Skipped(b) THEN b ELSE b - 1

(* The files of the first blocks hold their weights. *)
WrittenTo(last) ==
    \A b \in Block : b <= last => file[NumberOf(b)] = Weights(revision, b)

Loading == stage \in {"alloc", "size", "fill"}

(* A model is not loaded while its files are removed, nor after a removal     *)
(* that was cut short.                                                        *)
UseOK ==
    /\ stage # "none" => ~cleft /\ ~deleting
    /\ Loading => ~clearing

(* One file at most has no size, and the one that gets its size now.          *)
EmptyOK ==
    /\ stage = "size" => file[number] = Empty
    /\ \A n, k \in Number :
         file[n] = Empty /\ file[k] = Empty /\ n # k =>
             stage = "size" /\ number \in {n, k}

(* A marker means that all files hold the weights, unless they are being      *)
(* removed.                                                                   *)
MarkerOK == marker /\ ~clearing /\ ~cleft /\ ~deleting => WrittenTo(Blocks)

(* Where a process is that loads the model.                                   *)
LoadOK ==
    Loading =>
        /\ trusts = marker
        /\ WrittenTo(block - 1)
        /\ \A b \in Block : b < block => memory[b] = Weights(revision, b)
        /\ stage \in {"alloc", "size"} =>
             number = IF Skipped(number) THEN block ELSE block - 1
        /\ stage = "size" => ~trusts
        /\ stage = "fill" => /\ number = NumberOf(block) + 1
                             /\ file[number - 1] = memory[block]

(* A process that has loaded the model computes with the weights; the files   *)
(* hold them, too, unless they were removed.                                  *)
ReadyOK ==
    stage = "ready" =>
        /\ \A b \in Block : memory[b] = Weights(revision, b)
        /\ clearing \/ Cleared \/ WrittenTo(Blocks)

(* What is lacking was asked for in a file that has no size.                  *)
LackOK == Loading /\ lacking # {} => \E n \in Number : n < number /\ file[n] = Empty

(* Where there are weights, or a process that loads them, there is a model.   *)
StoreOK ==
    ~deleting /\ ~cleft /\ ~(Cleared /\ stage = "none") => \A f \in File : Resolves(f)

CacheInv ==
    /\ CacheTypeOK /\ UseOK /\ EmptyOK /\ MarkerOK /\ LoadOK /\ ReadyOK /\ LackOK
    /\ StoreOK

LEMMA Contents ==
    /\ None # Empty /\ None \notin Content /\ Empty \notin Content /\ Zeros \in Content
    /\ \A r \in 1..MaxRevision, b \in Block : Weights(r, b) \in Content
BY DEF None, Empty, Zeros, Content, Weights, Block

(* Flags and files of the type, one by one.                                   *)
LEMMA CacheTypes ==
    /\ CacheTypeOK <=>
        /\ file \in [Number -> {None, Empty} \cup Content]
        /\ stage \in {"none", "alloc", "size", "fill", "ready"}
        /\ number \in 0..Blocks + MaxEmpty /\ block \in Block
        /\ memory \in [Block -> Content] /\ lacking \subseteq Kept
        /\ revision \in 1..MaxRevision
        /\ marker \in BOOLEAN /\ trusts \in BOOLEAN /\ fresh \in BOOLEAN
        /\ clearing \in BOOLEAN /\ cleft \in BOOLEAN
    /\ CacheTypeOK' <=>
        /\ file' \in [Number -> {None, Empty} \cup Content]
        /\ stage' \in {"none", "alloc", "size", "fill", "ready"}
        /\ number' \in 0..Blocks + MaxEmpty /\ block' \in Block
        /\ memory' \in [Block -> Content] /\ lacking' \subseteq Kept
        /\ revision' \in 1..MaxRevision
        /\ marker' \in BOOLEAN /\ trusts' \in BOOLEAN /\ fresh' \in BOOLEAN
        /\ clearing' \in BOOLEAN /\ cleft' \in BOOLEAN
BY DEF CacheTypeOK

(* The numbers of the files of blocks.                                        *)
LEMMA NumbersOf ==
    ASSUME NEW b \in Block
    PROVE  /\ NumberOf(b) \in Number /\ NumberOf(b) \in {b - 1, b}
           /\ \A c \in Block : b < c => NumberOf(b) < NumberOf(c)
<1> USE CacheAssumption DEF Block, Number, MaxEmpty
<1>1. NumberOf(b) \in Number /\ NumberOf(b) \in {b - 1, b} BY DEF NumberOf
<1>2. ASSUME NEW c \in Block, b < c PROVE NumberOf(b) < NumberOf(c)
    <2>1. Skipped(b) => Skipped(c) BY <1>2 DEF Skipped
    <2> QED BY <1>2, <2>1 DEF NumberOf
<1> QED BY <1>1, <1>2

(* Where the next file is that is asked for, and what it is for.              *)
LEMMA NumberNow ==
    ASSUME CacheInv, stage \in {"alloc", "size"}
    PROVE  /\ number \in Number /\ number \in {block - 1, block} /\ block \in Block
           /\ number = IF Skipped(number) THEN block ELSE block - 1
           /\ file[number] # Empty => number = NumberOf(block)
<1> USE CacheAssumption DEF Block, Number, MaxEmpty
<1>1. number = IF Skipped(number) THEN block ELSE block - 1
    BY DEF CacheInv, LoadOK, Loading
<1>2. block \in Block BY CacheTypes DEF CacheInv
<1>3. number \in Number /\ number \in {block - 1, block} BY <1>1, <1>2
<1>4. ASSUME file[number] # Empty PROVE number = NumberOf(block)
    <2>1. CASE Skipped(number)
        BY <1>1, <2>1 DEF NumberOf
    <2>2. CASE ~Skipped(number)
        <3>1. number = block - 1 BY <1>1, <2>2
        <3>2. ~Skipped(block) BY <1>2, <1>4, <2>2, <3>1 DEF Skipped
        <3> QED BY <3>1, <3>2 DEF NumberOf
    <2> QED BY <2>1, <2>2
<1> QED BY <1>1, <1>2, <1>3, <1>4

(* The files that a process trusts are all there.                             *)
LEMMA TrustedWritten ==
    ASSUME CacheInv, Loading, trusts
    PROVE  WrittenTo(Blocks)
<1>1. marker BY CacheTypes DEF CacheInv, LoadOK
<1>2. ~cleft /\ ~deleting /\ ~clearing BY DEF CacheInv, UseOK, Loading
<1> QED BY <1>1, <1>2 DEF CacheInv, MarkerOK

LEMMA AllocOpenKeeps ==
    ASSUME CacheInv, AllocOpen, UNCHANGED downloadVars
    PROVE  CacheInv'
<1>1. /\ stage = "alloc" /\ file[number] # None /\ number' = number + 1
      /\ UNCHANGED <<file, marker, trusts, fresh, block, revision, clearing, cleft>>
      /\ UNCHANGED <<deleting, link, blob>>
    BY DEF AllocOpen, downloadVars, diskVars
<1>2. /\ number \in Number /\ number \in {block - 1, block} /\ block \in Block
      /\ number = IF Skipped(number) THEN block ELSE block - 1
      /\ file[number] # Empty => number = NumberOf(block)
    BY <1>1, NumberNow
<1>3. /\ file \in [Number -> {None, Empty} \cup Content] /\ memory \in [Block -> Content]
    BY CacheTypes DEF CacheInv
<1>4. \/ /\ Mappable(number) /\ stage' = "fill"
         /\ memory' = [memory EXCEPT ![block] = file[number]] /\ lacking' = lacking
      \/ /\ file[number] = Empty /\ stage' = "alloc" /\ memory' = memory
         /\ lacking' = lacking \cup (Kept \cap {block})
    BY <1>1, <1>2, <1>3 DEF AllocOpen, Mappable
<1>5. CacheTypeOK'
    <2>1. number' \in 0..Blocks + MaxEmpty
        BY <1>1, <1>2, CacheAssumption DEF Number, MaxEmpty
    <2>2. memory' \in [Block -> Content] BY <1>3, <1>4 DEF Mappable
    <2> QED BY <1>1, <1>4, <2>1, <2>2, CacheTypes DEF CacheInv
<1>6. UseOK' BY <1>1, <1>4 DEF CacheInv, UseOK, Loading
<1>7. EmptyOK' BY <1>1, <1>4 DEF CacheInv, EmptyOK
<1>8. \A b : WrittenTo(b)' <=> WrittenTo(b) BY <1>1 DEF WrittenTo, NumberOf, Skipped
<1>9. MarkerOK' BY <1>1, <1>8 DEF CacheInv, MarkerOK
<1>10. /\ trusts = marker /\ WrittenTo(block - 1)
       /\ \A b \in Block : b < block => memory[b] = Weights(revision, b)
    BY <1>1 DEF CacheInv, LoadOK, Loading
<1>11. LoadOK'
    <2>1. CASE /\ Mappable(number) /\ stage' = "fill"
               /\ memory' = [memory EXCEPT ![block] = file[number]]
        <3>1. number = NumberOf(block) BY <1>2, <2>1, Contents DEF Mappable
        <3>2. number' - 1 = number BY <1>1, <1>2, CacheAssumption DEF Number
        <3>3. NumberOf(block)' = NumberOf(block) BY <1>1 DEF NumberOf, Skipped
        <3>4. memory'[block] = file[number] BY <1>2, <1>3, <2>1
        <3>5. \A b \in Block : b < block => memory'[b] = memory[b]
            BY <1>2, <1>3, <2>1 DEF Block
        <3>6. number' = NumberOf(block)' + 1 /\ file'[number' - 1] = memory'[block']
            BY <1>1, <3>1, <3>2, <3>3, <3>4
        <3> QED BY <1>1, <1>8, <1>10, <2>1, <3>5, <3>6 DEF LoadOK
    <2>2. CASE file[number] = Empty /\ stage' = "alloc" /\ memory' = memory
        <3>1. ~Skipped(number)
            BY <1>1, <1>2, <2>2 DEF CacheInv, EmptyOK, Skipped, Number
        <3>2. number = block - 1 BY <1>2, <3>1
        <3>3. Skipped(number)'
            BY <1>1, <1>2, <2>2, CacheAssumption DEF Skipped, Number
        <3>4. number' = block BY <1>1, <1>2, <3>2 DEF Block
        <3> QED BY <1>1, <1>8, <1>10, <2>2, <3>3, <3>4 DEF LoadOK
    <2> QED BY <1>4, <2>1, <2>2
<1>12. ReadyOK' BY <1>4 DEF ReadyOK
<1>13. LackOK'
    <2>1. number < number' /\ \A n \in Number : n < number => n < number'
        BY <1>1, <1>2 DEF Number
    <2> QED BY <1>1, <1>2, <1>4, <2>1 DEF CacheInv, LackOK, Loading
<1>14. StoreOK' BY <1>1, <1>4 DEF CacheInv, StoreOK, Resolves
<1> QED BY <1>5, <1>6, <1>7, <1>9, <1>11, <1>12, <1>13, <1>14 DEF CacheInv

LEMMA AllocCreateKeeps ==
    ASSUME CacheInv, AllocCreate, UNCHANGED downloadVars
    PROVE  CacheInv'
<1>1. /\ stage = "alloc" /\ file[number] = None /\ stage' = "size"
      /\ file' = [file EXCEPT ![number] = Empty]
      /\ UNCHANGED <<marker, trusts, fresh, number, block, memory, lacking, revision,
                     clearing, cleft>>
      /\ UNCHANGED <<deleting, link, blob>>
    BY DEF AllocCreate, downloadVars, diskVars
<1>2. /\ number \in Number /\ number \in {block - 1, block} /\ block \in Block
      /\ number = IF Skipped(number) THEN block ELSE block - 1
      /\ number = NumberOf(block)
    BY <1>1, NumberNow, Contents
<1>3. /\ file \in [Number -> {None, Empty} \cup Content] /\ revision \in 1..MaxRevision
      /\ trusts \in BOOLEAN
    BY CacheTypes DEF CacheInv
<1>4. /\ trusts = marker /\ WrittenTo(block - 1)
      /\ \A b \in Block : b < block => memory[b] = Weights(revision, b)
    BY <1>1 DEF CacheInv, LoadOK, Loading
<1>5. ~trusts
    <2>1. ASSUME trusts PROVE FALSE
        <3>1. WrittenTo(Blocks) BY <1>1, <2>1, TrustedWritten DEF Loading
        <3>2. block <= Blocks BY <1>2 DEF Block
        <3>3. file[number] = Weights(revision, block)
            BY <1>2, <3>1, <3>2 DEF WrittenTo
        <3> QED BY <1>1, <1>2, <1>3, <3>3, Contents
    <2> QED BY <2>1
<1>6. \A k \in Number : file'[k] = IF k = number THEN Empty ELSE file[k] BY <1>1, <1>3
<1>7. \A n \in 0..Blocks : n <= number => (Skipped(n)' <=> Skipped(n))
    BY <1>6 DEF Skipped, Number
<1>8. CacheTypeOK' BY <1>1, <1>2, <1>3, CacheTypes DEF CacheInv
<1>9. UseOK' BY <1>1 DEF CacheInv, UseOK, Loading
<1>10. EmptyOK'
    <2>1. \A n, k \in Number : file[n] = Empty /\ file[k] = Empty => n = k
        BY <1>1 DEF CacheInv, EmptyOK
    <2> QED BY <1>1, <1>2, <1>6, <2>1 DEF EmptyOK
<1>11. MarkerOK' BY <1>1, <1>3, <1>4, <1>5 DEF MarkerOK
<1>12. WrittenTo(block - 1)'
    <2> SUFFICES ASSUME NEW b \in Block, b <= block - 1
                 PROVE  file'[NumberOf(b)'] = Weights(revision, b)
        BY <1>1 DEF WrittenTo
    <2>1. file[NumberOf(b)] = Weights(revision, b) BY <1>4 DEF WrittenTo
    <2>2. NumberOf(b) \in Number BY NumbersOf
    <2>3. NumberOf(b) # number BY <1>1, <1>3, <2>1, Contents
    <2>4. b \in 0..Blocks /\ b <= number BY <1>2 DEF Block
    <2>5. NumberOf(b)' = NumberOf(b) BY <1>7, <2>4 DEF NumberOf
    <2> QED BY <1>6, <2>1, <2>2, <2>3, <2>5
<1>13. LoadOK'
    <2>1. Skipped(number)' <=> Skipped(number)
        <3>1. number \in 0..Blocks BY <1>2, CacheAssumption DEF Number, MaxEmpty
        <3> QED BY <1>1, <1>7, <3>1 DEF Number
    <2> QED BY <1>1, <1>2, <1>4, <1>5, <1>12, <2>1 DEF LoadOK
<1>14. ReadyOK' BY <1>1 DEF ReadyOK
<1>15. LackOK' BY <1>1, <1>6 DEF CacheInv, LackOK, Loading
<1>16. StoreOK' BY <1>1 DEF CacheInv, StoreOK, Resolves
<1> QED BY <1>8, <1>9, <1>10, <1>11, <1>13, <1>14, <1>15, <1>16 DEF CacheInv

LEMMA AllocSizeKeeps ==
    ASSUME CacheInv, AllocSize, UNCHANGED downloadVars
    PROVE  CacheInv'
<1>1. /\ stage = "size" /\ stage' = "fill" /\ number' = number + 1 /\ fresh' = TRUE
      /\ file' = [file EXCEPT ![number] = Zeros]
      /\ memory' = [memory EXCEPT ![block] = Zeros]
      /\ UNCHANGED <<marker, trusts, block, lacking, revision, clearing, cleft>>
      /\ UNCHANGED <<deleting, link, blob>>
    BY DEF AllocSize, downloadVars, diskVars
<1>2. /\ number \in Number /\ number \in {block - 1, block} /\ block \in Block
      /\ number = IF Skipped(number) THEN block ELSE block - 1
    BY <1>1, NumberNow
<1>3. /\ file \in [Number -> {None, Empty} \cup Content] /\ revision \in 1..MaxRevision
      /\ trusts \in BOOLEAN /\ memory \in [Block -> Content]
    BY CacheTypes DEF CacheInv
<1>4. /\ trusts = marker /\ ~trusts /\ WrittenTo(block - 1)
      /\ \A b \in Block : b < block => memory[b] = Weights(revision, b)
    BY <1>1 DEF CacheInv, LoadOK, Loading
<1>5. file[number] = Empty /\ Empty # Zeros BY <1>1, Contents DEF CacheInv, EmptyOK
<1>6. \A k \in Number : file'[k] = IF k = number THEN Zeros ELSE file[k] BY <1>1, <1>3
<1>7. \A n \in 0..Blocks : n <= number => (Skipped(n)' <=> Skipped(n))
    BY <1>6 DEF Skipped, Number
<1>8. CacheTypeOK'
    <2>1. number' \in 0..Blocks + MaxEmpty
        BY <1>1, <1>2, CacheAssumption DEF Number, MaxEmpty
    <2>2. file' \in [Number -> {None, Empty} \cup Content] BY <1>1, <1>3, Contents
    <2>3. memory' \in [Block -> Content] BY <1>1, <1>3, Contents
    <2> QED BY <1>1, <2>1, <2>2, <2>3, CacheTypes DEF CacheInv
<1>9. UseOK' BY <1>1 DEF CacheInv, UseOK, Loading
<1>10. EmptyOK'
    <2>1. \A n, k \in Number : file[n] = Empty /\ file[k] = Empty /\ n # k => number \in {n, k}
        BY <1>1 DEF CacheInv, EmptyOK
    <2> QED BY <1>1, <1>2, <1>5, <1>6, <2>1 DEF EmptyOK
<1>11. MarkerOK' BY <1>1, <1>3, <1>4 DEF MarkerOK
<1>12. WrittenTo(block - 1)'
    <2> SUFFICES ASSUME NEW b \in Block, b <= block - 1
                 PROVE  file'[NumberOf(b)'] = Weights(revision, b)
        BY <1>1 DEF WrittenTo
    <2>1. file[NumberOf(b)] = Weights(revision, b) BY <1>4 DEF WrittenTo
    <2>2. NumberOf(b) \in Number BY NumbersOf
    <2>3. NumberOf(b) # number BY <1>3, <1>5, <2>1, Contents
    <2>4. b \in 0..Blocks /\ b <= number BY <1>2 DEF Block
    <2>5. NumberOf(b)' = NumberOf(b) BY <1>7, <2>4 DEF NumberOf
    <2> QED BY <1>6, <2>1, <2>2, <2>3, <2>5
<1>13. NumberOf(block)' = number
    <2>1. block \in 0..Blocks BY <1>2 DEF Block
    <2>2. CASE Skipped(number)
        <3>1. number = block BY <1>2, <2>2
        <3>2. Skipped(block)' BY <1>1, <1>7, <2>1, <2>2, <3>1 DEF Block
        <3> QED BY <1>1, <3>1, <3>2 DEF NumberOf
    <2>3. CASE ~Skipped(number)
        <3>1. number = block - 1 BY <1>2, <2>3
        <3>2. ~Skipped(block)'
            <4>1. \A k \in Number : k < block => k < number \/ k = number
                BY <1>2, <3>1 DEF Block, Number
            <4> QED BY <1>1, <1>2, <1>5, <1>6, <2>3, <4>1 DEF Skipped
        <3> QED BY <1>1, <3>1, <3>2 DEF NumberOf
    <2> QED BY <2>2, <2>3
<1>14. LoadOK'
    <2>1. number' - 1 = number BY <1>1, <1>2 DEF Number
    <2>2. file'[number' - 1] = memory'[block'] BY <1>1, <1>2, <1>3, <1>6, <2>1
    <2>3. \A b \in Block : b < block => memory'[b] = memory[b]
        BY <1>1, <1>2, <1>3 DEF Block
    <2> QED BY <1>1, <1>4, <1>12, <1>13, <2>2, <2>3 DEF LoadOK
<1>15. ReadyOK' BY <1>1 DEF ReadyOK
<1>16. LackOK'
    <2>1. \A n \in Number : n < number => n < number' /\ file'[n] = file[n]
        BY <1>1, <1>2, <1>6 DEF Number
    <2> QED BY <1>1, <2>1 DEF CacheInv, LackOK, Loading
<1>17. StoreOK' BY <1>1 DEF CacheInv, StoreOK, Resolves
<1> QED BY <1>8, <1>9, <1>10, <1>11, <1>14, <1>15, <1>16, <1>17 DEF CacheInv

LEMMA FillKeeps ==
    ASSUME CacheInv, Fill, UNCHANGED downloadVars
    PROVE  CacheInv'
<1>1. /\ stage = "fill"
      /\ UNCHANGED <<marker, trusts, fresh, number, lacking, revision, clearing, cleft>>
      /\ UNCHANGED <<deleting, link, blob>>
      /\ trusts => UNCHANGED <<file, memory>>
      /\ ~trusts => /\ file' = [file EXCEPT ![number - 1] = Weights(revision, block)]
                    /\ memory' = [memory EXCEPT ![block] = Weights(revision, block)]
      /\ \/ block = Blocks /\ stage' = "ready" /\ block' = block
         \/ block # Blocks /\ stage' = "alloc" /\ block' = block + 1
    BY DEF Fill, downloadVars, diskVars
<1>2. /\ file \in [Number -> {None, Empty} \cup Content] /\ revision \in 1..MaxRevision
      /\ trusts \in BOOLEAN /\ memory \in [Block -> Content] /\ block \in Block
      /\ number \in 0..Blocks + MaxEmpty
    BY CacheTypes DEF CacheInv
<1>3. /\ trusts = marker /\ WrittenTo(block - 1)
      /\ \A b \in Block : b < block => memory[b] = Weights(revision, b)
      /\ number = NumberOf(block) + 1 /\ file[number - 1] = memory[block]
    BY <1>1 DEF CacheInv, LoadOK, Loading
<1>4. /\ number - 1 = NumberOf(block) /\ NumberOf(block) \in Number
      /\ NumberOf(block) \in {block - 1, block}
    <2>1. NumberOf(block) \in Number /\ NumberOf(block) \in {block - 1, block}
        BY <1>2, NumbersOf
    <2> QED BY <1>3, <2>1 DEF Number
<1>5. Weights(revision, block) \in Content /\ memory[block] \in Content
    BY <1>2, Contents
<1>6. trusts => memory[block] = Weights(revision, block)
    <2>1. ASSUME trusts PROVE WrittenTo(Blocks)
        BY <1>1, <2>1, TrustedWritten DEF Loading
    <2>2. block <= Blocks BY <1>2 DEF Block
    <2> QED BY <1>2, <1>3, <1>4, <2>1, <2>2 DEF WrittenTo
<1>7. /\ \A k \in Number : file'[k] = IF k = NumberOf(block) THEN Weights(revision, block)
                                      ELSE file[k]
      /\ \A b \in Block : memory'[b] = IF b = block THEN Weights(revision, block)
                                       ELSE memory[b]
      /\ file' \in [Number -> {None, Empty} \cup Content] /\ memory' \in [Block -> Content]
    <2>1. CASE trusts BY <1>1, <1>2, <1>3, <1>4, <1>6, <2>1
    <2>2. CASE ~trusts BY <1>1, <1>2, <1>4, <1>5, <2>2
    <2> QED BY <1>2, <2>1, <2>2
<1>8. \A k \in Number : file'[k] = Empty <=> file[k] = Empty
    BY <1>3, <1>4, <1>5, <1>7, Contents
<1>9. \A n : Skipped(n)' <=> Skipped(n)
    <2> TAKE n
    <2> QED BY <1>8 DEF Skipped
<1>10. CacheTypeOK'
    <2>1. block' \in Block BY <1>1, <1>2, CacheAssumption DEF Block
    <2> QED BY <1>1, <1>2, <1>7, <2>1, CacheTypes DEF CacheInv
<1>11. UseOK' BY <1>1 DEF CacheInv, UseOK, Loading
<1>12. EmptyOK' BY <1>1, <1>8 DEF CacheInv, EmptyOK
<1>13. \A b \in Block : b <= block => file'[NumberOf(b)] = Weights(revision, b)
    <2> SUFFICES ASSUME NEW b \in Block, b <= block
                 PROVE  file'[NumberOf(b)] = Weights(revision, b)
        OBVIOUS
    <2>1. CASE b = block BY <1>4, <1>7, <2>1
    <2>2. CASE b # block
        <3>1. b < block /\ b <= block - 1 BY <1>2, <2>2 DEF Block
        <3>2. file[NumberOf(b)] = Weights(revision, b) BY <1>3, <3>1 DEF WrittenTo
        <3>3. NumberOf(b) \in Number /\ NumberOf(b) < NumberOf(block)
            BY <1>2, <3>1, NumbersOf
        <3>4. NumberOf(b) # NumberOf(block) BY <1>4, <3>3 DEF Number
        <3> QED BY <1>7, <3>2, <3>3, <3>4
    <2> QED BY <2>1, <2>2
<1>14. \A b \in Block : b <= block => memory'[b] = Weights(revision, b)
    BY <1>2, <1>3, <1>7 DEF Block
<1>15. MarkerOK'
    <2>1. CASE trusts
        BY <1>1, <2>1 DEF CacheInv, MarkerOK, WrittenTo, NumberOf, Skipped
    <2>2. CASE ~trusts BY <1>1, <1>2, <1>3, <2>2 DEF MarkerOK
    <2> QED BY <2>1, <2>2
<1>16. LoadOK'
    <2>1. CASE stage' = "ready" BY <2>1 DEF LoadOK, Loading
    <2>2. CASE block # Blocks /\ stage' = "alloc" /\ block' = block + 1
        <3>1. block' - 1 = block BY <1>2, <2>2 DEF Block
        <3>2. WrittenTo(block - 1)' BY <1>1, <1>9, <1>13, <3>1 DEF WrittenTo, NumberOf
        <3>3. \A b \in Block : b < block' => memory'[b] = Weights(revision', b)
            BY <1>1, <1>2, <1>14, <2>2 DEF Block
        <3>4. number = IF Skipped(number) THEN block + 1 ELSE block
            <4>1. CASE Skipped(block)
                <5>1. number = block + 1 BY <1>3, <4>1 DEF NumberOf
                <5>2. Skipped(number) BY <1>2, <4>1, <5>1 DEF Skipped, Block, Number
                <5> QED BY <5>1, <5>2
            <4>2. CASE ~Skipped(block)
                <5>1. number = block BY <1>2, <1>3, <4>2 DEF NumberOf, Block
                <5> QED BY <4>2, <5>1
            <4> QED BY <4>1, <4>2
        <3>5. number' = IF Skipped(number)' THEN block' ELSE block' - 1
            BY <1>1, <1>9, <2>2, <3>1, <3>4
        <3> QED BY <1>1, <1>3, <2>2, <3>2, <3>3, <3>5 DEF LoadOK
    <2> QED BY <1>1, <2>1, <2>2
<1>17. ReadyOK'
    <2>1. CASE stage' # "ready" BY <2>1 DEF ReadyOK
    <2>2. CASE block = Blocks /\ block' = block
        <3>1. WrittenTo(Blocks)' BY <1>1, <1>9, <1>13, <2>2 DEF WrittenTo, NumberOf
        <3>2. \A b \in Block : memory'[b] = Weights(revision', b)
            BY <1>1, <1>14, <2>2 DEF Block
        <3> QED BY <3>1, <3>2 DEF ReadyOK
    <2> QED BY <1>1, <2>1, <2>2
<1>18. LackOK' BY <1>1, <1>8 DEF CacheInv, LackOK, Loading
<1>19. StoreOK' BY <1>1 DEF CacheInv, StoreOK, Resolves
<1> QED BY <1>10, <1>11, <1>12, <1>15, <1>16, <1>17, <1>18, <1>19 DEF CacheInv

(* Nothing of the cache changes, and no file of the repository goes unless    *)
(* the model is deleted.                                                      *)
LEMMA OthersKeep ==
    ASSUME CacheInv, UNCHANGED cacheVars, deleting' = deleting,
           ~deleting => \A f \in File : Resolves(f) => Resolves(f)'
    PROVE  CacheInv'
<1> USE DEF CacheInv, cacheVars, loadVars
<1>1. CacheTypeOK' BY DEF CacheTypeOK, Mappable
<1>2. \A n : Skipped(n)' <=> Skipped(n) BY DEF Skipped
<1>3. \A b : WrittenTo(b)' <=> WrittenTo(b) BY <1>2 DEF WrittenTo, NumberOf
<1>4. Cleared' <=> Cleared BY DEF Cleared
<1>5. UseOK' BY DEF UseOK, Loading
<1>6. EmptyOK' BY DEF EmptyOK
<1>7. MarkerOK' BY <1>3 DEF MarkerOK
<1>8. LoadOK'
    <2>1. NumberOf(block)' = NumberOf(block) BY <1>2 DEF NumberOf
    <2>2. WrittenTo(block - 1)' <=> WrittenTo(block - 1)
        BY <1>2 DEF WrittenTo, NumberOf
    <2> QED BY <1>2, <2>1, <2>2 DEF LoadOK, Loading
<1>9. ReadyOK' BY <1>3, <1>4 DEF ReadyOK
<1>10. LackOK' BY DEF LackOK, Loading
<1>11. StoreOK' BY <1>4 DEF StoreOK
<1> QED BY <1>1, <1>5, <1>6, <1>7, <1>8, <1>9, <1>10, <1>11

LEMMA ForwardKeeps ==
    ASSUME CacheInv, Forward, UNCHANGED downloadVars
    PROVE  CacheInv'
<1>1. /\ stage = "ready" /\ ~clearing /\ marker' = (marker \/ (fresh /\ ~Cleared))
      /\ UNCHANGED <<file, loadVars, revision, clearing, cleft>>
      /\ UNCHANGED <<deleting, link, blob>>
    BY DEF Forward, Synced, downloadVars, diskVars
<1> USE <1>1 DEF CacheInv, loadVars
<1>2. CacheTypeOK' BY CacheTypes
<1>3. \A b : WrittenTo(b)' <=> WrittenTo(b) BY DEF WrittenTo, NumberOf, Skipped
<1>4. UseOK' BY DEF UseOK, Loading
<1>5. EmptyOK' BY DEF EmptyOK
<1>6. marker' => WrittenTo(Blocks) \/ cleft \/ deleting
    BY DEF ReadyOK, MarkerOK
<1>7. MarkerOK' BY <1>3, <1>6 DEF MarkerOK
<1>8. LoadOK' /\ LackOK' BY DEF LoadOK, LackOK, Loading
<1>9. ReadyOK'
    <2>1. Cleared => Cleared' BY DEF Cleared
    <2> QED BY <1>3, <2>1 DEF ReadyOK
<1>10. StoreOK'
    <2>1. stage # "none" /\ \A f \in File : Resolves(f)' <=> Resolves(f)
        BY DEF Resolves
    <2> QED BY <2>1 DEF StoreOK
<1> QED BY <1>2, <1>4, <1>5, <1>7, <1>8, <1>9, <1>10

(* No process has the model any more.                                         *)
LEMMA UnloadedAre ==
    ASSUME Unloaded
    PROVE  /\ stage' = "none" /\ trusts' = FALSE /\ fresh' = FALSE
           /\ number' \in 0..Blocks + MaxEmpty /\ block' \in Block
           /\ memory' \in [Block -> Content] /\ lacking' \subseteq Kept
           /\ LoadOK' /\ ReadyOK' /\ LackOK'
BY CacheAssumption, Contents
DEF Unloaded, Block, MaxEmpty, LoadOK, Loading, ReadyOK, LackOK

LEMMA UnloadKeeps ==
    ASSUME CacheInv, Unload, UNCHANGED downloadVars
    PROVE  CacheInv'
<1>1. /\ stage = "ready" /\ ~clearing /\ marker' = (marker \/ (fresh /\ ~Cleared))
      /\ UNCHANGED <<file, revision, clearing, cleft>>
      /\ UNCHANGED <<deleting, link, blob>>
    BY DEF Unload, Synced, downloadVars, diskVars
<1>2. /\ stage' = "none" /\ trusts' = FALSE /\ fresh' = FALSE
      /\ number' \in 0..Blocks + MaxEmpty /\ block' \in Block
      /\ memory' \in [Block -> Content] /\ lacking' \subseteq Kept
      /\ LoadOK' /\ ReadyOK' /\ LackOK'
    BY UnloadedAre DEF Unload
<1> USE <1>1, <1>2 DEF CacheInv
<1>3. CacheTypeOK' BY CacheTypes
<1>4. \A b : WrittenTo(b)' <=> WrittenTo(b) BY DEF WrittenTo, NumberOf, Skipped
<1>5. UseOK' BY DEF UseOK, Loading
<1>6. EmptyOK' BY DEF EmptyOK
<1>7. marker' => WrittenTo(Blocks) \/ cleft \/ deleting
    BY DEF ReadyOK, MarkerOK
<1>8. MarkerOK' BY <1>4, <1>7 DEF MarkerOK
<1>9. StoreOK'
    <2>1. stage # "none" /\ \A f \in File : Resolves(f)' <=> Resolves(f)
        BY DEF Resolves
    <2> QED BY <2>1 DEF StoreOK
<1> QED BY <1>3, <1>5, <1>6, <1>8, <1>9

(* Files or the marker are removed.                                           *)
LEMMA ClearsKeep ==
    ASSUME CacheInv, Clears, UNCHANGED downloadVars
    PROVE  CacheInv'
<1>1. /\ clearing /\ UNCHANGED <<loadVars, revision, clearing, cleft>>
      /\ UNCHANGED <<deleting, link, blob>>
      /\ \/ marker' = marker /\ \E n \in Number : file' = [file EXCEPT ![n] = None]
         \/ marker' = FALSE /\ file' = file
    BY DEF Clears, ClearFile, ClearMarker, downloadVars, diskVars
<1> USE <1>1 DEF CacheInv, loadVars
<1>2. /\ file \in [Number -> {None, Empty} \cup Content] /\ marker \in BOOLEAN
      /\ clearing \in BOOLEAN
    BY CacheTypes
<1>3. \A k \in Number : file'[k] = Empty => file[k] = Empty BY <1>2, Contents
<1>4. CacheTypeOK'
    <2>1. file' \in [Number -> {None, Empty} \cup Content] /\ marker' \in BOOLEAN
        BY <1>2
    <2> QED BY <2>1, CacheTypes
<1>5. ~Loading BY DEF UseOK
<1>6. UseOK' BY DEF UseOK, Loading
<1>7. EmptyOK' BY <1>3, <1>5 DEF EmptyOK, Loading
<1>8. MarkerOK' BY DEF MarkerOK
<1>9. LoadOK' /\ LackOK' BY <1>5 DEF LoadOK, LackOK, Loading
<1>10. ReadyOK' BY DEF ReadyOK
<1>11. StoreOK'
    <2>1. Cleared => Cleared' BY <1>2, Contents DEF Cleared
    <2> QED BY <2>1 DEF StoreOK, Resolves
<1> QED BY <1>4, <1>6, <1>7, <1>8, <1>9, <1>10, <1>11

LEMMA ClearEndKeeps ==
    ASSUME CacheInv, ClearEnd, UNCHANGED downloadVars
    PROVE  CacheInv'
<1>1. /\ clearing /\ Cleared /\ clearing' = FALSE /\ cleft' = FALSE
      /\ UNCHANGED <<file, marker, loadVars, revision>>
      /\ UNCHANGED <<deleting, link, blob>>
    BY DEF ClearEnd, downloadVars, diskVars
<1> USE <1>1 DEF CacheInv, loadVars
<1>2. CacheTypeOK' BY CacheTypes
<1>3. ~Loading BY DEF UseOK
<1>4. Cleared' BY DEF Cleared
<1>5. UseOK' BY <1>3 DEF UseOK, Loading
<1>6. EmptyOK' BY DEF EmptyOK
<1>7. MarkerOK' BY <1>4 DEF MarkerOK, Cleared
<1>8. LoadOK' /\ LackOK' BY <1>3 DEF LoadOK, LackOK, Loading
<1>9. ReadyOK' BY <1>4 DEF ReadyOK
<1>10. StoreOK'
    <2>1. cleft => stage = "none" BY DEF UseOK
    <2> QED BY <1>4, <2>1 DEF StoreOK, Resolves
<1> QED BY <1>2, <1>5, <1>6, <1>7, <1>8, <1>9, <1>10

-----------------------------------------------------------------------------
(* The steps of both parts.                                                   *)

LEMMA StartDeleteKeeps ==
    ASSUME CacheInv, StartDelete
    PROVE  CacheInv'
<1>1. /\ stage = "none" /\ ~clearing /\ deleting' = TRUE /\ UNCHANGED cacheVars
    BY DEF StartDelete, Delete
<1> USE <1>1 DEF CacheInv, cacheVars, loadVars
<1>2. CacheTypeOK' BY CacheTypes
<1>3. UseOK' /\ LoadOK' /\ ReadyOK' /\ LackOK'
    BY DEF UseOK, Loading, LoadOK, ReadyOK, LackOK
<1>4. EmptyOK' BY DEF EmptyOK
<1>5. MarkerOK' /\ StoreOK' BY DEF MarkerOK, StoreOK
<1> QED BY <1>2, <1>3, <1>4, <1>5

LEMMA OpenKeeps ==
    ASSUME CacheInv, Open
    PROVE  CacheInv'
<1>1. UNCHANGED <<deleting, link, blob>> BY DEF Open, Run, diskVars
<1>2. CASE UNCHANGED cacheVars BY <1>1, <1>2, OthersKeep DEF Resolves
<1>3. CASE ~deleting /\ ~cleft /\ (\A f \in File : Resolves(f)) /\ LoadModel
    <2>1. /\ stage = "none" /\ ~clearing /\ stage' = "alloc" /\ trusts' = marker
          /\ fresh' = FALSE /\ number' = 0 /\ block' = 1
          /\ memory' = [b \in Block |-> Zeros] /\ lacking' = {}
          /\ UNCHANGED <<file, marker, revision, clearing, cleft>>
        BY <1>3 DEF LoadModel
    <2> USE <1>1, <1>3, <2>1 DEF CacheInv
    <2>2. CacheTypeOK'
        <3>1. memory' \in [Block -> Content] /\ block' \in Block
              /\ number' \in 0..Blocks + MaxEmpty
            BY Contents, CacheAssumption DEF Block, MaxEmpty
        <3> QED BY <3>1, CacheTypes
    <2>3. UseOK' BY DEF UseOK
    <2>4. EmptyOK' BY DEF EmptyOK
    <2>5. MarkerOK' BY DEF MarkerOK, WrittenTo, NumberOf, Skipped
    <2>6. LoadOK'
        <3>1. \A b \in Block : ~(b < 1) /\ ~(b <= 0) BY DEF Block
        <3>2. WrittenTo(block - 1)' BY <3>1 DEF WrittenTo
        <3>3. ~Skipped(number)' BY CacheAssumption DEF Skipped, Number, MaxEmpty
        <3> QED BY <3>1, <3>2, <3>3 DEF LoadOK
    <2>7. ReadyOK' /\ LackOK' BY DEF ReadyOK, LackOK
    <2>8. StoreOK' BY DEF StoreOK, Resolves
    <2> QED BY <2>2, <2>3, <2>4, <2>5, <2>6, <2>7, <2>8
<1> QED BY <1>2, <1>3 DEF Open

(* The weights are being removed, alone or with the model.                    *)
LEMMA ClearingKeeps ==
    ASSUME CacheInv, DeleteWeights \/ ClearWeights
    PROVE  CacheInv'
<1>1. /\ ~Loading /\ clearing' = TRUE
      /\ UNCHANGED <<file, marker, loadVars, revision, cleft>>
      /\ UNCHANGED <<deleting, link, blob>>
    BY DEF DeleteWeights, ClearWeights, Clear, TreeDeleted, CacheInv, UseOK, Loading,
           downloadVars, diskVars
<1> USE <1>1 DEF CacheInv, loadVars
<1>2. CacheTypeOK' BY CacheTypes
<1>3. UseOK' /\ LoadOK' /\ LackOK' BY DEF UseOK, Loading, LoadOK, LackOK
<1>4. EmptyOK' BY DEF EmptyOK
<1>5. MarkerOK' BY DEF MarkerOK
<1>6. ReadyOK' BY DEF ReadyOK
<1>7. StoreOK' BY DEF StoreOK, Resolves, Cleared
<1> QED BY <1>2, <1>3, <1>4, <1>5, <1>6, <1>7

LEMMA DeleteDoneKeepsAll ==
    ASSUME CacheInv, DeleteDone
    PROVE  CacheInv'
<1>1. /\ deleting /\ Cleared /\ ~clearing /\ cleft' = FALSE /\ deleting' = FALSE
      /\ UNCHANGED <<file, marker, loadVars, revision, clearing>>
    BY DEF DeleteDone, DeleteEnd, TreeDeleted
<1> USE <1>1 DEF CacheInv, loadVars
<1>2. stage = "none" BY DEF UseOK
<1>3. CacheTypeOK' BY CacheTypes
<1>4. Cleared' BY DEF Cleared
<1>5. UseOK' /\ LoadOK' /\ ReadyOK' /\ LackOK'
    BY <1>2 DEF UseOK, Loading, LoadOK, ReadyOK, LackOK
<1>6. EmptyOK' BY DEF EmptyOK
<1>7. MarkerOK' /\ StoreOK' BY <1>2, <1>4 DEF MarkerOK, StoreOK, Cleared
<1> QED BY <1>3, <1>5, <1>6, <1>7

(* Another revision comes only where nothing of the former one is trusted.    *)
LEMMA PublishKeeps ==
    ASSUME CacheInv, PublishRevision
    PROVE  CacheInv'
<1>1. /\ Emptied /\ revision < MaxRevision /\ revision' = revision + 1
      /\ UNCHANGED <<file, marker, loadVars, clearing, cleft>>
      /\ UNCHANGED <<deleting, link, blob>>
    BY DEF PublishRevision, Publish, downloadVars, diskVars
<1> USE <1>1 DEF CacheInv, loadVars
<1>2. deleting \/ cleft \/ (Cleared /\ stage = "none")
    <2>1. 1 \in File /\ ~Resolves(1) BY DownloadAssumption DEF File, Emptied, Resolves
    <2> QED BY <2>1 DEF StoreOK
<1>3. stage = "none" BY <1>2 DEF UseOK
<1>4. CacheTypeOK'
    <2>1. revision' \in 1..MaxRevision BY CacheTypes, CacheAssumption
    <2> QED BY <2>1, CacheTypes
<1>5. UseOK' /\ LoadOK' /\ ReadyOK' /\ LackOK'
    BY <1>3 DEF UseOK, Loading, LoadOK, ReadyOK, LackOK
<1>6. EmptyOK' BY DEF EmptyOK
<1>7. MarkerOK' BY <1>2 DEF MarkerOK, Cleared
<1>8. StoreOK' BY DEF StoreOK, Resolves, Cleared
<1> QED BY <1>4, <1>5, <1>6, <1>7, <1>8

LEMMA KillKeeps ==
    ASSUME CacheInv, Kill, CacheTypeOK, deleting \in BOOLEAN
    PROVE  CacheInv'
<1>1. /\ stage = "size" => \A n \in Number : n # number => file[n] # Empty
      /\ Unloaded /\ clearing' = FALSE /\ cleft' = (cleft \/ clearing \/ deleting)
      /\ deleting' = FALSE
      /\ UNCHANGED <<file, marker, revision>> /\ UNCHANGED <<link, blob>>
    BY DEF Kill, Dies, Restart, diskVars
<1>2. /\ stage' = "none" /\ trusts' = FALSE /\ fresh' = FALSE
      /\ number' \in 0..Blocks + MaxEmpty /\ block' \in Block
      /\ memory' \in [Block -> Content] /\ lacking' \subseteq Kept
      /\ LoadOK' /\ ReadyOK' /\ LackOK'
    BY <1>1, UnloadedAre
<1> USE <1>1, <1>2 DEF CacheInv
<1>3. CacheTypeOK'
    <2>1. cleft' \in BOOLEAN BY CacheTypes
    <2> QED BY <2>1, CacheTypes
<1>4. UseOK' BY DEF UseOK, Loading
<1>5. EmptyOK' BY DEF EmptyOK
<1>6. MarkerOK' BY DEF MarkerOK, WrittenTo, NumberOf, Skipped
<1>7. StoreOK'
    <2>1. Cleared' <=> Cleared BY DEF Cleared
    <2> QED BY <2>1 DEF StoreOK, Resolves
<1> QED BY <1>3, <1>4, <1>5, <1>6, <1>7

(* A deletion only removes, and the tasks that download only add, or replace. *)
LEMMA DownloadSteps ==
    ASSUME DownloadInv, Start \/ Pause \/ Deleting \/ Working
    PROVE  /\ DownloadInv' /\ deleting' = deleting
           /\ ~deleting => \A f \in File : Resolves(f) => Resolves(f)'
<1>1. CASE Start BY <1>1, StartKeeps DEF Start, diskVars, Resolves
<1>2. CASE Pause BY <1>2, PauseKeeps DEF Pause, diskVars, Resolves
<1>3. CASE Deleting
    <2>1. ASSUME NEW f \in File, DeleteFile(f) PROVE DownloadInv' /\ deleting /\ deleting'
        BY <2>1, DeleteFileKeeps DEF DeleteFile
    <2>2. CASE DeleteTree BY <2>2, DeleteTreeKeeps DEF DeleteTree
    <2>3. CASE DeleteLink BY <2>3, DeleteLinkKeeps DEF DeleteLink, TreeDeleted
    <2>4. DownloadInv' /\ deleting /\ deleting' = deleting
        BY <1>3, <2>1, <2>2, <2>3
        DEF Deleting, DeleteFile, DeleteTree, DeleteLink, TreeDeleted
    <2> QED BY <2>4
<1>4. CASE Working
    <2>1. PICK t \in Task : Works(t) BY <1>4 DEF Working
    <2>2. blob \in [File -> {"none", "whole", "bad"}]
        BY TypeParts DEF DownloadInv, DiskTypeOK
    <2>3. CASE ListFails(t) BY <2>3, ListFailsKeeps DEF ListFails, diskVars, Resolves
    <2>4. CASE Begin(t) BY <2>4, BeginKeeps DEF Begin, diskVars, Resolves
    <2>5. CASE FileThere(t) BY <2>5, FileThereKeeps DEF FileThere, Resolves
    <2>6. CASE FileBegin(t)
        BY <2>2, <2>6, FileBeginKeeps DEF FileBegin, Move, Discard, Resolves
    <2>7. CASE Connect(t) BY <2>7, ConnectKeeps DEF Connect, diskVars, Resolves
    <2>8. CASE Read(t) BY <2>2, <2>8, ReadKeeps DEF Read, Resolves
    <2>9. CASE Breaks(t) BY <2>9, BreaksKeeps DEF Breaks, diskVars, Resolves
    <2>10. CASE Validate(t)
        BY <2>2, <2>10, ValidateKeeps DEF Validate, Move, Discard, Resolves
    <2>11. CASE Link(t) BY <2>11, LinkKeeps DEF Link, Resolves
    <2>12. CASE Finish(t) BY <2>12, FinishKeeps DEF Finish, Resolves
    <2> QED
        BY <2>1, <2>3, <2>4, <2>5, <2>6, <2>7, <2>8, <2>9, <2>10, <2>11, <2>12 DEF Works
<1> QED BY <1>1, <1>2, <1>3, <1>4

LEMMA DownloadSame ==
    ASSUME DownloadInv, UNCHANGED downloadVars
    PROVE  DownloadInv'
<1> USE DEF DownloadInv, downloadVars, diskVars, workVars
<1>1. DownloadTypeOK' BY DEF DownloadTypeOK
<1>2. CurOK' /\ BusyOK' BY DEF CurOK, HasFile, BusyOK, Running, NoneRuns
<1>3. HandleOK' /\ BlobsWhole' BY DEF HandleOK, BlobsWhole
<1>4. DoneOK' BY DEF DoneOK, AllDone, TaskDone, HasFile, Present
<1> QED BY <1>1, <1>2, <1>3, <1>4

StoreInv == DownloadInv /\ CacheInv

(* Every step keeps the invariant of the store.                             *)
LEMMA StoreNextKeeps == StoreInv /\ [StoreNext]_storeVars => StoreInv'
<1> SUFFICES ASSUME DownloadInv, CacheInv, [StoreNext]_storeVars PROVE StoreInv'
    BY DEF StoreInv
<1>1. CASE StartDelete
    BY <1>1, DeleteKeeps, StartDeleteKeeps DEF StartDelete, StoreInv
<1>2. CASE Open BY <1>2, RunKeeps, OpenKeeps DEF Open, StoreInv
<1>3. CASE DeleteWeights \/ ClearWeights
    BY <1>3, DownloadSame, ClearingKeeps DEF DeleteWeights, ClearWeights, StoreInv
<1>4. CASE DeleteDone
    BY <1>4, DeleteEndKeeps, DeleteDoneKeepsAll DEF DeleteDone, StoreInv
<1>5. CASE CacheStep
    <2>1. DownloadInv' BY <1>5, DownloadSame DEF CacheStep
    <2>2. CacheInv'
        BY <1>5, AllocOpenKeeps, AllocCreateKeeps, AllocSizeKeeps, FillKeeps,
            ForwardKeeps,
           UnloadKeeps, ClearsKeep, ClearEndKeeps
        DEF CacheStep, Loads
    <2> QED BY <2>1, <2>2 DEF StoreInv
<1>6. CASE PublishRevision
    BY <1>6, DownloadSame, PublishKeeps DEF PublishRevision, StoreInv
<1>7. CASE Kill
    <2>1. deleting \in BOOLEAN /\ CacheTypeOK
        BY TypeParts DEF DownloadInv, FlagTypeOK, CacheInv
    <2> QED BY <1>7, <2>1, RestartKeeps, KillKeeps DEF Kill, StoreInv
<1>8. CASE (Start \/ Pause \/ Deleting \/ Working) /\ UNCHANGED cacheVars
    BY <1>8, DownloadSteps, OthersKeep DEF StoreInv
<1>9. CASE UNCHANGED storeVars
    <2>1. UNCHANGED downloadVars /\ UNCHANGED cacheVars BY <1>9 DEF storeVars
    <2>2. deleting' = deleting /\ \A f \in File : Resolves(f) => Resolves(f)'
        BY <2>1 DEF downloadVars, diskVars, Resolves
    <2> QED BY <2>1, <2>2, DownloadSame, OthersKeep DEF StoreInv
<1> QED BY <1>1, <1>2, <1>3, <1>4, <1>5, <1>6, <1>7, <1>8, <1>9 DEF StoreNext

LEMMA StoreInitInv == StoreInit => StoreInv
<1> SUFFICES ASSUME DownloadInit, CacheInit PROVE DownloadInv /\ CacheInv
    BY DEF StoreInit, StoreInv
<1>1. DownloadInv
    <2> USE DownloadAssumption DEF DownloadInit
    <2>1. DiskTypeOK
        <3>1. <<>> \in Seq(Byte) /\ Len(<<>>) = 0 OBVIOUS
        <3>2. part \in [File -> Seq(Byte)] BY <3>1
        <3>3. \A f \in File : Len(part[f]) <= Size[f] BY <3>1, Sizes
        <3> QED BY <3>2, <3>3 DEF DiskTypeOK
    <2>2. FlagTypeOK BY DEF FlagTypeOK
    <2>3. TaskTypeOK BY Sizes DEF TaskTypeOK, Stages
    <2>4. CurOK /\ BusyOK /\ HandleOK
        BY DEF CurOK, HasFile, BusyOK, Running, NoneRuns, HandleOK
    <2>5. BlobsWhole /\ DoneOK
        BY DEF BlobsWhole, DoneOK, AllDone, TaskDone, HasFile
    <2> QED BY <2>1, <2>2, <2>3, <2>4, <2>5, TypeParts DEF DownloadInv
<1>2. CacheInv
    <2> USE CacheAssumption DEF CacheInit
    <2>1. CacheTypeOK
        <3>1. /\ memory \in [Block -> Content] /\ block \in Block
              /\ revision \in 1..MaxRevision /\ number \in 0..Blocks + MaxEmpty
            BY Contents DEF Block, MaxEmpty
        <3>2. file \in [Number -> {None, Empty} \cup Content] OBVIOUS
        <3> QED BY <3>1, <3>2, CacheTypes
    <2>2. Cleared BY DEF Cleared
    <2>3. UseOK /\ MarkerOK /\ LoadOK /\ ReadyOK /\ LackOK
        BY DEF UseOK, Loading, MarkerOK, LoadOK, ReadyOK, LackOK
    <2>4. EmptyOK BY Contents DEF EmptyOK
    <2>5. StoreOK BY <2>2 DEF StoreOK
    <2> QED BY <2>1, <2>3, <2>4, <2>5 DEF CacheInv
<1> QED BY <1>1, <1>2

(* All that is known of a model on the disk, after any history.               *)
THEOREM StoreInvariant == StoreSpec => []StoreInv
<1>1. StoreInit => StoreInv BY StoreInitInv
<1>2. StoreInv /\ [StoreNext]_storeVars => StoreInv' BY StoreNextKeeps
<1> QED BY <1>1, <1>2, PTL DEF StoreSpec

(* Every variable of the store has its type; the attempts at a file never     *)
(* exceed what downloadToTmpAndMove allows.                                   *)
THEOREM TypeCorrect == StoreSpec => []TypeOK
<1>1. StoreInv => TypeOK BY DEF StoreInv, DownloadInv, CacheInv, TypeOK
<1> QED BY <1>1, StoreInvariant, PTL

(* A blob that is there is the whole file, for any number of files, reads,    *)
(* tasks, attempts, pauses, deletions and ends of the process                 *)
(* (ModelFileDownloader), until a deletion is cut short or meets another use. *)
THEOREM BlobsAlwaysWhole == StoreSpec => []BlobsWhole
<1>1. StoreInv => BlobsWhole BY DEF StoreInv, DownloadInv
<1> QED BY <1>1, StoreInvariant, PTL

(* A model shown as complete has all its files (MsModelDownloader), unless a  *)
(* deletion was cut short or met another use.                                 *)
THEOREM CompleteAlwaysWhole == StoreSpec => []CompleteWhole
<1>1. StoreInv => CompleteWhole
    BY DEF StoreInv, DownloadInv, DoneOK, AllDone, Present, CompleteWhole
<1> QED BY <1>1, StoreInvariant, PTL

(* A model that is loaded computes with its own weights, for any number of    *)
(* blocks and revisions and any number of processes that died while they      *)
(* loaded it (MmapAllocator with the marker of CPURuntime), but for what an   *)
(* operator lacks that was kept without memory.                               *)
THEOREM WeightsAlwaysRight == StoreSpec => []WeightsRight
<1>1. StoreInv => WeightsRight BY DEF StoreInv, CacheInv, ReadyOK, WeightsRight
<1> QED BY <1>1, StoreInvariant, PTL
-----------------------------------------------------------------------------
(* The promise of the store.                                                  *)

(* A model is shown as complete exactly when its folder is there, and the     *)
(* folder leads to the snapshot, which the first file makes.                  *)
AtFile(t) == HasFile(t) \/ (worker[t] = "file" /\ cur[t] > 1)

FolderOK ==
    ~torn /\ ~deleting =>
        /\ state = "COMPLETED" <=> folder
        /\ folder \/ (\E t \in Task : AtFile(t)) => snapshot

(* What is loaded is here. *)
UsedOK == stage # "none" /\ ~torn => state = "COMPLETED"

ShelfInv == FolderOK /\ UsedOK

LEMMA ShelfInit == StoreInit => ShelfInv
BY DEF StoreInit, DownloadInit, CacheInit, ShelfInv, FolderOK, UsedOK, AtFile, HasFile

(* The steps of the user and of the tasks that download.                      *)
DownloadStep ==
    \/ Start \/ Pause \/ Delete \/ Deleting \/ DeleteEnd \/ Run \/ Working \/ Restart
    \/ UNCHANGED downloadVars

(* What a step of a task does to what FolderOK says.                          *)
LEMMA TaskFolder ==
    ASSUME DownloadInv, FolderOK, NEW t \in Task, Works(t), ~torn, ~deleting
    PROVE  /\ Alone(t) /\ state = "DOWNLOADING" /\ ~folder
           /\ state' = "COMPLETED" <=> folder'
           /\ folder' => snapshot'
           /\ AtFile(t)' => snapshot'
<1> USE DEF FolderOK, AtFile, HasFile, Running
<1>0. DiskTypeOK /\ TaskTypeOK /\ FlagTypeOK BY TypeParts DEF DownloadInv
<1>1. Running(t)
    BY DEF Works, ListFails, Begin, FileThere, FileBegin, Connect, Read, Breaks, Validate,
           Link, Finish
<1>2. state = "DOWNLOADING" /\ ~folder BY <1>1 DEF DownloadInv, BusyOK
<1>3. CASE ListFails(t)
    BY <1>0, <1>2, <1>3 DEF Alone, TaskTypeOK, ListFails, Goes, diskVars
<1>4. CASE Begin(t)
    <2>1. worker[t] = "asked" /\ cur[t] = 1 BY <1>4 DEF DownloadInv, CurOK, Begin
    <2> QED
        BY <1>0, <1>2, <1>4, <2>1, EndedTask
        DEF Alone, TaskTypeOK, Begin, Goes, Stop, FolderExists, diskVars
<1>5. CASE FileThere(t)
    BY <1>0, <1>2, <1>5 DEF Alone, TaskTypeOK, FileThere
<1>6. CASE FileBegin(t)
    BY <1>0, <1>2, <1>6, EndedTask DEF Alone, TaskTypeOK, FileBegin, Goes, Stop, Move
<1>7. CASE Connect(t)
    BY <1>0, <1>2, <1>7, EndedTask DEF Alone, TaskTypeOK, Connect, Goes, Stop, diskVars
<1>8. CASE Read(t)
    BY <1>0, <1>2, <1>8, EndedTask DEF Alone, TaskTypeOK, Read, Stop
<1>9. CASE Breaks(t)
    BY <1>0, <1>2, <1>9, Retries DEF Alone, Breaks, diskVars
<1>10. CASE Validate(t)
    BY <1>0, <1>2, <1>10, EndedTask, Retries
    DEF Alone, TaskTypeOK, Validate, Goes, Stop, Move
<1>11. CASE Link(t)
    BY <1>0, <1>2, <1>11, EndedTask DEF Alone, TaskTypeOK, Link, Goes, Stop
<1>12. CASE Finish(t)
    <2>1. worker[t] = "file" /\ cur[t] > 1 BY <1>12, DownloadAssumption DEF Finish
    <2> QED BY <1>0, <1>2, <1>12, <2>1, EndedTask DEF Alone, Finish, Stop
<1> QED
    BY <1>3, <1>4, <1>5, <1>6, <1>7, <1>8, <1>9, <1>10, <1>11, <1>12 DEF Works

LEMMA FolderKept ==
    ASSUME DownloadInv, FolderOK, DownloadStep PROVE FolderOK'
<1> USE DEF FolderOK, AtFile, HasFile, diskVars, workVars, DownloadInv
<1>0. DiskTypeOK /\ TaskTypeOK /\ FlagTypeOK BY TypeParts
<1>1. CASE Start
    <2>1. PICK t \in Task : ~Running(t) /\ worker' = [worker EXCEPT ![t] = "asked"]
        BY <1>1 DEF Start
    <2>2. \A u \in Task : AtFile(u)' => AtFile(u)
        BY <1>0, <1>1, <2>1 DEF Start, TaskTypeOK
    <2>3. /\ state # "COMPLETED" /\ state' # "COMPLETED" /\ folder' = folder
          /\ snapshot' = snapshot /\ (~torn' /\ ~deleting' => ~torn /\ ~deleting)
        BY <1>1 DEF Start
    <2> QED BY <2>2, <2>3
<1>2. CASE Pause BY <1>2 DEF Pause
<1>3. CASE Delete
    <2>1. deleting' = TRUE BY <1>3 DEF Delete
    <2> QED BY <2>1
<1>4. CASE Deleting
    BY <1>4 DEF Deleting, DeleteFile, DeleteTree, DeleteLink, TreeDeleted
<1>5. CASE DeleteEnd
    <2>1. ~torn' => NoneRuns BY <1>5 DEF BusyOK, DeleteEnd, TreeDeleted
    <2> QED BY <1>5, <2>1 DEF DeleteEnd, NoneRuns
<1>6. CASE Run BY <1>6 DEF Run
<1>7. CASE Restart BY <1>7 DEF Restart, TasksEnd, FolderExists
<1>8. CASE UNCHANGED downloadVars BY <1>8 DEF downloadVars
<1>9. CASE Working
    <2>1. PICK t \in Task : Works(t) BY <1>9 DEF Working
    <2>2. SUFFICES ASSUME ~torn', ~deleting' PROVE FolderOK' OBVIOUS
    <2>3. torn' = torn /\ deleting' = deleting
        BY <2>1
        DEF Works, ListFails, Begin, FileThere, FileBegin, Connect, Read, Breaks, Validate,
            Link, Finish
    <2>4. /\ Alone(t) /\ (state' = "COMPLETED" <=> folder')
          /\ (folder' => snapshot') /\ (AtFile(t)' => snapshot')
        BY <2>1, <2>2, <2>3, TaskFolder
    <2>5. \A u \in Task \ {t} : worker'[u] = "idle"
        BY <2>2, <2>3, <2>4 DEF BusyOK, Alone, Running
    <2> QED BY <2>4, <2>5
<1> QED
    BY <1>1, <1>2, <1>3, <1>4, <1>5, <1>6, <1>7, <1>8, <1>9 DEF DownloadStep

(* Every step of the store is one of the download, or leaves it alone.        *)
LEMMA DownloadStepOf == [StoreNext]_storeVars => DownloadStep
BY DEF StoreNext, storeVars, StartDelete, Open, DeleteWeights, DeleteDone, ClearWeights,
       CacheStep, PublishRevision, Kill, DownloadStep

(* How the model comes and goes.                                              *)
ShelfIs ==
    IF torn THEN "doubtful"
    ELSE IF deleting THEN "going"
    ELSE IF state = "COMPLETED" THEN "here" ELSE "absent"

LEMMA ShelfOf == /\ DownloadInv /\ FolderOK => Shelf = ShelfIs
                 /\ (DownloadInv /\ FolderOK => Shelf = ShelfIs)'
<1>1. DownloadInv /\ FolderOK => Shelf = ShelfIs
    <2> SUFFICES ASSUME DownloadInv, FolderOK PROVE Shelf = ShelfIs OBVIOUS
    <2>1. CASE torn \/ deleting BY <2>1 DEF Shelf, ShelfIs
    <2>2. CASE ~torn /\ ~deleting
        <3>1. state = "COMPLETED" <=> FolderExists
            BY <2>2 DEF FolderOK, FolderExists
        <3>2. state = "COMPLETED" => \A f \in File : f \in link /\ blob[f] = "whole"
            BY <2>2 DEF DownloadInv, DoneOK, AllDone, Present
        <3> QED BY <2>2, <3>1, <3>2 DEF Shelf, ShelfIs
    <2> QED BY <2>1, <2>2
<1> QED BY <1>1, PTL

LEMMA UsedKept ==
    ASSUME StoreInv, StoreInv', UsedOK, [StoreNext]_storeVars PROVE UsedOK'
<1> USE DEF UsedOK, BusyOK, diskVars, workVars
<1>0. /\ BusyOK /\ (stage # "none" => ~deleting)
      /\ TaskTypeOK /\ FlagTypeOK
    BY TypeParts DEF StoreInv, DownloadInv, CacheInv, UseOK
<1>1. CASE StartDelete BY <1>1 DEF StartDelete, Delete, cacheVars, loadVars
<1>2. CASE Open
    BY <1>0, <1>2 DEF Open, Run, LoadModel, cacheVars, loadVars
<1>3. CASE DeleteWeights \/ ClearWeights
    BY <1>3
    DEF DeleteWeights, ClearWeights, Clear, downloadVars, loadVars
<1>4. CASE DeleteDone
    BY <1>0, <1>4 DEF DeleteDone, DeleteEnd, TreeDeleted, loadVars
<1>5. CASE CacheStep
    <2>1. stage' # "none" => stage # "none"
        BY <1>5
        DEF CacheStep, Loads, AllocOpen, AllocCreate, AllocSize, Fill, Forward, Unload,
            Unloaded, Clears, ClearFile, ClearMarker, ClearEnd, loadVars
    <2> QED BY <1>5, <2>1 DEF CacheStep, downloadVars
<1>6. CASE PublishRevision BY <1>6 DEF PublishRevision, Publish, downloadVars, loadVars
<1>7. CASE Kill BY <1>7 DEF Kill, Dies, Unloaded
<1>8. CASE (Start \/ Pause \/ Deleting \/ Working) /\ UNCHANGED cacheVars
    <2>1. stage' = stage BY <1>8 DEF cacheVars, loadVars
    <2>2. SUFFICES ASSUME stage # "none", ~torn', state' # "COMPLETED" PROVE FALSE
        BY <2>1
    <2>3. ASSUME torn' = torn, state' = state PROVE FALSE BY <2>2, <2>3
    <2>4. CASE Start BY <1>0, <2>2, <2>4 DEF Start
    <2>5. CASE Pause BY <2>3, <2>5 DEF Pause
    <2>6. CASE Deleting
        BY <2>3, <2>6 DEF Deleting, DeleteFile, DeleteTree, DeleteLink
    <2>7. CASE Working
        <3>1. torn' = torn /\ \E t \in Task : Running(t)
            BY <2>7
            DEF Working, Works, Running, ListFails, Begin, FileThere, FileBegin, Connect,
                Read, Breaks, Validate, Link, Finish
        <3> QED BY <1>0, <2>2, <3>1
    <2> QED BY <1>8, <2>4, <2>5, <2>6, <2>7
<1>9. CASE UNCHANGED storeVars
    BY <1>9 DEF storeVars, downloadVars, cacheVars, loadVars
<1> QED BY <1>1, <1>2, <1>3, <1>4, <1>5, <1>6, <1>7, <1>8, <1>9 DEF StoreNext

LEMMA ShelfNext ==
    StoreInv /\ StoreInv' /\ ShelfInv /\ [StoreNext]_storeVars => ShelfInv'
BY FolderKept, DownloadStepOf, UsedKept DEF StoreInv, ShelfInv

(* What a chat computes with.                                                 *)
ChatIs ==
    IF stage = "ready" THEN {revision} \cup (IF lacking = {} THEN {} ELSE {0}) ELSE {}

LEMMA ChatOf == /\ StoreInv => Chat = ChatIs
                /\ (StoreInv => Chat = ChatIs)'
<1>1. StoreInv => Chat = ChatIs
    <2> SUFFICES ASSUME StoreInv PROVE Chat = ChatIs OBVIOUS
    <2>1. CASE stage = "ready"
        <3>1. ASSUME NEW b \in Block PROVE memory[b][1] = revision
            BY <2>1 DEF StoreInv, CacheInv, ReadyOK, Weights
        <3>2. 1 \in Block BY CacheAssumption DEF Block
        <3> QED BY <2>1, <3>1, <3>2 DEF Chat, ChatIs
    <2>2. CASE stage # "ready" BY <2>2 DEF Chat, ChatIs
    <2> QED BY <2>1, <2>2
<1> QED BY <1>1, PTL

Same == ShelfIs' = ShelfIs
Arrives == ShelfIs = "absent" /\ ShelfIs' = "here"
IsCut == ShelfIs = "going" /\ ShelfIs' = "doubtful"

LEMMA MovesDownloading ==
    ASSUME DownloadInv, Start \/ Pause \/ Deleting \/ Working
    PROVE  Same \/ Arrives \/ IsCut
<1> USE DEF Same, Arrives, IsCut, ShelfIs, diskVars, workVars
<1>1. CASE Start BY <1>1 DEF Start
<1>2. CASE Pause BY <1>2 DEF Pause
<1>3. CASE Deleting BY <1>3 DEF Deleting, DeleteFile, DeleteTree, DeleteLink
<1>4. CASE Working
    <2>1. (\E t \in Task : Running(t)) /\ torn' = torn /\ deleting' = deleting
        BY <1>4
        DEF Working, Works, Running, ListFails, Begin, FileThere, FileBegin, Connect, Read,
            Breaks, Validate, Link, Finish
    <2>2. ~torn => state = "DOWNLOADING" BY <2>1 DEF DownloadInv, BusyOK
    <2> QED BY <2>1, <2>2
<1> QED BY <1>1, <1>2, <1>3, <1>4

LEMMA MovesRunning ==
    ASSUME FolderOK, Run \/ Restart
    PROVE  Same \/ IsCut
<1> USE DEF Same, IsCut, ShelfIs, diskVars, workVars
<1>1. CASE Run BY <1>1 DEF Run
<1>2. CASE Restart BY <1>2 DEF Restart, FolderExists, FolderOK
<1> QED BY <1>1, <1>2

(* Whether a file without its size is left over.                              *)
LEMMA ScarKept ==
    ASSUME UNCHANGED file, UNCHANGED number, stage = "size" <=> stage' = "size"
    PROVE  Scarred' = Scarred
BY DEF Scarred

LEMMA ScarOfLoading ==
    ASSUME CacheInv, Loads
    PROVE  Scarred' = Scarred
<1>0. file \in [Number -> {None, Empty} \cup Content] BY CacheTypes DEF CacheInv
<1>1. CASE AllocOpen BY <1>1 DEF AllocOpen, Scarred
<1>2. CASE AllocCreate
    <2>1. number \in Number BY <1>2, NumberNow DEF AllocCreate
    <2>2. \A n \in Number : file'[n] = IF n = number THEN Empty ELSE file[n]
        BY <1>0, <1>2, <2>1 DEF AllocCreate
    <2>3. file[number] = None /\ stage = "alloc" /\ stage' = "size" /\ number' = number
        BY <1>2 DEF AllocCreate
    <2> QED BY <2>1, <2>2, <2>3, Contents DEF Scarred
<1>3. CASE AllocSize
    <2>1. number \in Number BY <1>3, NumberNow DEF AllocSize
    <2>2. \A n \in Number : file'[n] = IF n = number THEN Zeros ELSE file[n]
        BY <1>0, <1>3, <2>1 DEF AllocSize
    <2>3. stage = "size" /\ stage' = "fill" BY <1>3 DEF AllocSize
    <2> QED BY <2>1, <2>2, <2>3, Contents DEF Scarred
<1>4. CASE Fill
    <2>1. stage = "fill" /\ stage' # "size" BY <1>4 DEF Fill
    <2>2. \A n \in Number : file'[n] = Empty <=> file[n] = Empty
        <3>1. block \in Block /\ revision \in 1..MaxRevision /\ memory \in [Block -> Content]
            BY CacheTypes DEF CacheInv
        <3>2. Weights(revision, block) # Empty /\ memory[block] # Empty
            BY <3>1, Contents
        <3>3. file[number - 1] = memory[block] BY <2>1 DEF CacheInv, LoadOK, Loading
        <3> QED BY <1>0, <1>4, <3>2, <3>3 DEF Fill
    <2> QED BY <2>1, <2>2 DEF Scarred
<1> QED BY <1>1, <1>2, <1>3, <1>4 DEF Loads

(* Each step of the store is one of the promise, or none.                     *)
LEMMA PromiseNext ==
    ASSUME StoreInv, StoreInv', ShelfInv, ShelfInv', [StoreNext]_storeVars
    PROVE  [Promise!Next]_(Promise!vars)
<1>1. Shelf = ShelfIs /\ Shelf' = ShelfIs' BY ShelfOf DEF StoreInv, ShelfInv
<1>2. Chat = ChatIs /\ Chat' = ChatIs' BY ChatOf
<1>3. /\ DownloadInv /\ CacheInv /\ FolderOK /\ UsedOK /\ FlagTypeOK
      /\ stage # "none" => ~cleft /\ ~deleting
    BY TypeParts DEF StoreInv, DownloadInv, ShelfInv, CacheInv, UseOK
<1>4. ASSUME Same, ChatIs' = ChatIs, Scarred' = Scarred, revision' = revision
      PROVE  [Promise!Next]_(Promise!vars)
    BY <1>1, <1>2, <1>4 DEF Same, Promise!vars
<1>5. ASSUME IsCut, ChatIs' = ChatIs, Scarred' = Scarred, revision' = revision
      PROVE  [Promise!Next]_(Promise!vars)
    BY <1>1, <1>2, <1>5 DEF IsCut, Promise!Next, Promise!CutShort
<1>6. CASE StartDelete
    <2>1. /\ Delete /\ stage = "none" /\ stage' = stage /\ revision' = revision
          /\ file' = file /\ number' = number
        BY <1>6 DEF StartDelete, cacheVars, loadVars
    <2>2. ChatIs = {} /\ ChatIs' = {} BY <2>1 DEF ChatIs
    <2>3. Scarred' = Scarred BY <2>1, ScarKept
    <2>4. CASE torn
        <3>1. Same BY <2>1, <2>4 DEF Delete, Same, ShelfIs
        <3> QED BY <1>4, <2>1, <2>2, <2>3, <3>1
    <2>5. CASE ~torn
        <3>1. ShelfIs \in {"absent", "here"} BY <2>1, <2>5 DEF Delete, ShelfIs
        <3>2. ShelfIs' = "going" BY <2>1, <2>5 DEF Delete, ShelfIs
        <3> QED
            BY <1>1, <1>2, <2>1, <2>2, <2>3, <3>1, <3>2 DEF Promise!Next, Promise!Leave
    <2> QED BY <2>4, <2>5
<1>7. CASE Open
    <2>1. Same \/ IsCut BY <1>3, <1>7, MovesRunning DEF Open
    <2>2. CASE UNCHANGED cacheVars
        <3>1. ChatIs' = ChatIs /\ revision' = revision
            BY <2>2 DEF ChatIs, cacheVars, loadVars
        <3>2. Scarred' = Scarred BY <2>2, ScarKept DEF cacheVars, loadVars
        <3> QED BY <1>4, <1>5, <2>1, <3>1, <3>2
    <2>3. CASE LoadModel
        <3>1. /\ stage = "none" /\ stage' = "alloc" /\ revision' = revision
              /\ file' = file
            BY <2>3 DEF LoadModel
        <3>2. ChatIs' = ChatIs /\ Scarred' = Scarred BY <3>1 DEF ChatIs, Scarred
        <3> QED BY <1>4, <1>5, <2>1, <3>1, <3>2
    <2> QED BY <1>7, <2>2, <2>3 DEF Open
<1>8. CASE DeleteWeights \/ ClearWeights
    <2>1. /\ torn' = torn /\ deleting' = deleting /\ state' = state
          /\ UNCHANGED <<file, loadVars>> /\ revision' = revision
        BY <1>8 DEF DeleteWeights, ClearWeights, Clear, downloadVars
    <2>2. Scarred' = Scarred BY <2>1, ScarKept DEF loadVars
    <2> QED BY <1>4, <2>1, <2>2 DEF Same, ShelfIs, ChatIs, loadVars
<1>9. CASE DeleteDone
    <2>1. /\ DeleteEnd /\ deleting /\ stage = "none" /\ UNCHANGED <<file, loadVars>>
          /\ revision' = revision
        BY <1>3, <1>9 DEF DeleteDone, DeleteEnd, TreeDeleted
    <2>2. ChatIs = {} /\ ChatIs' = {} BY <2>1 DEF ChatIs, loadVars
    <2>3. Scarred' = Scarred BY <2>1, ScarKept DEF loadVars
    <2>4. ShelfIs \in {"going", "doubtful"} BY <2>1 DEF ShelfIs
    <2>5. ShelfIs' = "absent" \/ Same
        <3>1. met => torn BY <1>3 DEF DownloadInv, BusyOK
        <3> QED BY <2>1, <3>1 DEF DeleteEnd, Same, ShelfIs
    <2> QED
        BY <1>1, <1>2, <1>4, <2>1, <2>2, <2>3, <2>4, <2>5 DEF Promise!Next, Promise!Left
<1>10. CASE CacheStep
    <2>1. Same /\ revision' = revision
        BY <1>10
        DEF CacheStep, downloadVars, Same, ShelfIs, Loads, AllocOpen, AllocCreate,
            AllocSize, Fill, Forward, Unload, Clears, ClearFile, ClearMarker, ClearEnd
    <2>2. CASE AllocOpen \/ AllocCreate \/ AllocSize
        <3>1. ChatIs' = ChatIs
            BY <2>2 DEF ChatIs, AllocOpen, AllocCreate, AllocSize
        <3> QED BY <1>3, <1>4, <2>1, <2>2, <3>1, ScarOfLoading DEF Loads
    <2>3. CASE Fill
        <3>1. stage = "fill" /\ ChatIs = {} /\ lacking' = lacking
            BY <2>3 DEF Fill, ChatIs
        <3>2. Scarred' = Scarred BY <1>3, <2>3, ScarOfLoading DEF Loads
        <3>3. CASE stage' # "ready"
            BY <1>4, <2>1, <3>1, <3>2, <3>3 DEF ChatIs
        <3>4. CASE stage' = "ready"
            <4>1. lacking # {} => Scarred
                BY <1>3, <3>1 DEF CacheInv, LackOK, Loading, Scarred
            <4>2. ChatIs' = {revision} \/ (Scarred /\ ChatIs' = {0, revision})
                BY <2>1, <3>1, <3>4, <4>1 DEF ChatIs
            <4>3. ShelfIs \in {"here", "doubtful"} BY <1>3, <3>1 DEF UsedOK, ShelfIs
            <4>4. Promise!Load
                BY <1>1, <1>2, <2>1, <3>1, <3>2, <4>2, <4>3 DEF Same, Promise!Load
            <4> QED BY <4>4 DEF Promise!Next
        <3> QED BY <3>3, <3>4
    <2>4. CASE Forward \/ ClearMarker \/ ClearEnd
        <3>1. UNCHANGED <<file, loadVars>> BY <2>4 DEF Forward, ClearMarker, ClearEnd
        <3>2. Scarred' = Scarred BY <3>1, ScarKept DEF loadVars
        <3> QED BY <1>4, <2>1, <3>1, <3>2 DEF ChatIs, loadVars
    <2>5. CASE Unload
        <3>1. ChatIs' = {} BY <2>5 DEF Unload, Unloaded, ChatIs
        <3>2. Scarred' = Scarred BY <2>5 DEF Unload, Unloaded, Scarred
        <3>3. Promise!Close
            BY <1>1, <1>2, <2>1, <3>1, <3>2 DEF Same, Promise!Close
        <3> QED BY <3>3 DEF Promise!Next
    <2>6. ASSUME NEW n \in Number, ClearFile(n) PROVE [Promise!Next]_(Promise!vars)
        <3>1. UNCHANGED loadVars /\ file' = [file EXCEPT ![n] = None] /\ clearing
            BY <2>6 DEF ClearFile
        <3>2. ChatIs' = ChatIs BY <2>1, <3>1 DEF ChatIs, loadVars
        <3>3. stage # "size" BY <1>3, <3>1 DEF CacheInv, UseOK, Loading
        <3>4. file \in [Number -> {None, Empty} \cup Content]
            BY <1>3, CacheTypes DEF CacheInv
        <3>5. Scarred' => Scarred BY <3>1, <3>3, <3>4, Contents DEF Scarred, loadVars
        <3>6. Scarred' = Scarred \/ Scarred' = FALSE BY <3>5 DEF Scarred
        <3>7. CASE Scarred' = FALSE
            <4>1. Promise!Heal
                BY <1>1, <1>2, <2>1, <3>2, <3>7 DEF Same, Promise!Heal
            <4> QED BY <4>1 DEF Promise!Next
        <3> QED BY <1>4, <2>1, <3>2, <3>6, <3>7
    <2> QED
        BY <1>10, <2>2, <2>3, <2>4, <2>5, <2>6 DEF CacheStep, Loads, Clears
<1>11. CASE PublishRevision
    <2>1. /\ Same /\ UNCHANGED <<file, loadVars>> /\ revision < MaxRevision
          /\ revision' = revision + 1 /\ Emptied /\ ~folder
        BY <1>11 DEF PublishRevision, Publish, Same, ShelfIs, downloadVars
    <2>2. ShelfIs # "here" BY <1>3, <2>1 DEF FolderOK, ShelfIs
    <2>3. stage = "none"
        <3>1. 1 \in File BY DownloadAssumption DEF File
        <3>2. ~Resolves(1) BY <2>1, <3>1 DEF Emptied, Resolves
        <3> QED BY <1>3, <3>1, <3>2 DEF CacheInv, StoreOK
    <2>4. ChatIs = {} /\ ChatIs' = {} BY <2>1, <2>3 DEF ChatIs, loadVars
    <2>5. Scarred' = Scarred BY <2>1, ScarKept DEF loadVars
    <2> QED
        BY <1>1, <1>2, <2>1, <2>2, <2>4, <2>5 DEF Same, Promise!Next, Promise!Publish
<1>12. CASE Kill
    <2>1. Restart /\ stage' = "none" /\ revision' = revision /\ file' = file
        BY <1>12 DEF Kill, Dies, Unloaded
    <2>2. ChatIs' = {} BY <2>1 DEF ChatIs
    <2>3. CASE stage = "size"
        <3>1. ~deleting /\ ChatIs = {} BY <1>3, <2>3 DEF ChatIs
        <3>2. Same BY <1>3, <2>1, <3>1, MovesRunning DEF IsCut, ShelfIs
        <3>3. number \in Number /\ file[number] = Empty
            BY <1>3, <2>3, NumberNow DEF CacheInv, EmptyOK
        <3>4. Scarred' = TRUE BY <2>1, <3>3 DEF Scarred
        <3>5. Promise!Scar
            BY <1>1, <1>2, <2>1, <2>2, <3>1, <3>2, <3>4 DEF Same, Promise!Scar
        <3> QED BY <3>5 DEF Promise!Next
    <2>4. CASE stage # "size"
        <3>1. Scarred' = Scarred BY <2>1, <2>4 DEF Scarred
        <3>2. CASE Same
            <4>1. Promise!Close
                BY <1>1, <1>2, <2>1, <2>2, <3>1, <3>2 DEF Same, Promise!Close
            <4> QED BY <4>1 DEF Promise!Next
        <3>3. CASE IsCut
            <4>1. deleting BY <3>3 DEF IsCut, ShelfIs
            <4>2. ChatIs = {} BY <1>3, <4>1 DEF ChatIs
            <4> QED BY <1>5, <2>1, <2>2, <3>1, <3>3, <4>2
        <3> QED BY <1>3, <2>1, <3>2, <3>3, MovesRunning
    <2> QED BY <2>3, <2>4
<1>13. CASE (Start \/ Pause \/ Deleting \/ Working) /\ UNCHANGED cacheVars
    <2>1. Same \/ Arrives \/ IsCut BY <1>3, <1>13, MovesDownloading
    <2>2. ChatIs' = ChatIs /\ revision' = revision
        BY <1>13 DEF ChatIs, cacheVars, loadVars
    <2>3. Scarred' = Scarred BY <1>13, ScarKept DEF cacheVars, loadVars
    <2>4. CASE Arrives
        BY <1>1, <1>2, <2>2, <2>3, <2>4 DEF Arrives, Promise!Next, Promise!Arrive
    <2> QED BY <1>4, <1>5, <2>1, <2>2, <2>3, <2>4
<1>14. CASE UNCHANGED storeVars
    <2>1. /\ torn' = torn /\ deleting' = deleting /\ state' = state
          /\ UNCHANGED <<file, loadVars>> /\ revision' = revision
        BY <1>14 DEF storeVars, downloadVars, cacheVars
    <2>2. Scarred' = Scarred BY <2>1, ScarKept DEF loadVars
    <2> QED BY <1>4, <2>1, <2>2 DEF Same, ShelfIs, ChatIs, loadVars
<1> QED
    BY <1>6, <1>7, <1>8, <1>9, <1>10, <1>11, <1>12, <1>13, <1>14 DEF StoreNext

LEMMA PromiseInit == StoreInit => Promise!Init
<1> SUFFICES ASSUME StoreInit PROVE Promise!Init OBVIOUS
<1>1. Shelf = ShelfIs /\ Chat = ChatIs
    BY StoreInitInv, ShelfInit, ShelfOf, ChatOf DEF StoreInv, ShelfInv
<1>2. ShelfIs = "absent" /\ ChatIs = {} /\ revision = 1
    BY DEF StoreInit, DownloadInit, CacheInit, ShelfIs, ChatIs
<1>3. Scarred = FALSE BY Contents DEF StoreInit, CacheInit, Scarred
<1> QED BY <1>1, <1>2, <1>3 DEF Promise!Init

(* To the user, a model comes and goes in one step, stays through any end of  *)
(* the process until it is deleted, and what a chat loads is the revision     *)
(* that is here, for any number of files, tasks, blocks, revisions and        *)
(* processes; weights are missing only where a process died while it made a   *)
(* file of them that is still there.                                          *)
THEOREM StoreImplementsPromise == StoreSpec => StorePromise
<1>1. StoreInv /\ StoreInv' /\ ShelfInv /\ [StoreNext]_storeVars => ShelfInv'
    BY ShelfNext
<1>2. StoreSpec => []ShelfInv
    <2>1. StoreInit => ShelfInv BY ShelfInit
    <2> QED BY <1>1, <2>1, StoreInvariant, PTL DEF StoreSpec
<1>3. StoreInv /\ StoreInv' /\ ShelfInv /\ ShelfInv' /\ [StoreNext]_storeVars
        => [Promise!Next]_(Promise!vars)
    BY PromiseNext
<1> QED
    BY <1>2, <1>3, PromiseInit, StoreInvariant, PTL
    DEF StoreSpec, StorePromise, Promise!Spec
=============================================================================

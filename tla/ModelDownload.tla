--------------------------- MODULE ModelDownload ---------------------------
(* The download of one model by MnnLlmChat: ModelDownloadManager.kt keeps its *)
(* state, MsModelDownloader.kt downloads the files of a repository one after  *)
(* the other in a task of the executor, ModelFileDownloader.kt one file.      *)
(* A file is written to "<sha>.incomplete", moved to "<sha>" (the blob) when  *)
(* it is all there and has the right hash, and linked into the snapshot of    *)
(* the repository; a link to the snapshot makes the model complete. The user  *)
(* pauses, resumes and deletes; connections break, deliver wrong bytes or end *)
(* early; the process dies at any point and starts again from the files.      *)
(* Nothing but the state keeps two tasks from downloading the same model, and *)
(* the end of a deletion sets the state whatever task has started meanwhile.  *)
EXTENDS Naturals, Sequences

CONSTANTS
    Files,      \* the number of files of the repository, which are 1..Files
    Size,       \* the reads that make each file
    MaxRetry,   \* maxRetry of downloadToTmpAndMove
    Task        \* the tasks that download, a bound; the executor has ten threads

ASSUME DownloadAssumption ==
    Files \in Nat \ {0} /\ Size \in [1..Files -> Nat \ {0}] /\ MaxRetry \in Nat \ {0}

VARIABLES
    part,       \* the reads in the .incomplete file of each file, <<>>: no file
    blob,       \* the blob of each file
    link,       \* the files whose link in the snapshot was made
    snapshot,   \* the directory of the snapshot is there
    folder,     \* the link to the snapshot is there
    state,      \* DownloadInfo.downlodaState
    paused,     \* the model is in pausedSet
    worker,     \* where each task is
    cur,        \* the file it downloads
    done,       \* its downloadedSize of each file
    tries,      \* its failed attempts at this file
    handle,     \* what became of the .incomplete file it has open: still "part",
                \* moved to be the "blob", or "gone"
    deleting,   \* deleteModel is under way
    met,        \* this deletion has met a download
    torn        \* a deletion was cut short, or overlapped with another use

diskVars == <<part, blob, link, snapshot, folder>>
workVars == <<worker, cur, done, tries, handle>>
downloadVars == <<diskVars, state, paused, workVars, deleting, met, torn>>

File == 1..Files
Whole(f) == part[f] = [i \in 1..Size[f] |-> "good"]
FolderExists == folder /\ snapshot
Resolves(f) == f \in link /\ blob[f] # "none"
Running(t) == worker[t] # "idle"
NoneRuns == \A t \in Task : worker[t] = "idle"

DownloadInit ==
    /\ part = [f \in File |-> <<>>] /\ blob = [f \in File |-> "none"]
    /\ link = {} /\ snapshot = FALSE /\ folder = FALSE
    /\ state = "NOT_START" /\ paused = FALSE
    /\ worker = [t \in Task |-> "idle"] /\ cur = [t \in Task |-> 1]
    /\ done = [t \in Task |-> [f \in File |-> 0]]
    /\ tries = [t \in Task |-> 0] /\ handle = [t \in Task |-> "part"]
    /\ deleting = FALSE /\ met = FALSE /\ torn = FALSE

(* When the .incomplete file or the blob of f is moved or deleted, the tasks  *)
(* that read f keep what they have open; one that is done with it, which is   *)
(* not in tasks, has nothing open.                                            *)
Follow(tasks, f, partTo, blobTo) ==
    handle' = [t \in Task |->
        IF t \notin tasks THEN "part"
        ELSE IF ~(worker[t] = "read" /\ cur[t] = f) THEN handle[t]
        ELSE CASE handle[t] = "part" -> partTo
               [] handle[t] = "blob" -> blobTo
               [] OTHER -> handle[t]]

-----------------------------------------------------------------------------
(* The user. *)

(* onItemClicked, startDownload: the list of the files is asked for. The      *)
(* state alone is tested, not whether a task runs.                            *)
Start ==
    /\ state \in {"NOT_START", "PAUSED", "FAILED"}
    /\ \E t \in Task : ~Running(t) /\ worker' = [worker EXCEPT ![t] = "asked"]
    /\ state' = "DOWNLOADING"
    /\ met' = (met \/ deleting) /\ torn' = (torn \/ deleting)
    /\ UNCHANGED <<diskVars, paused, cur, done, tries, handle, deleting>>

(* pauseDownload, pause: seen when the next bytes have come, by one task.     *)
Pause ==
    /\ state = "DOWNLOADING"
    /\ paused' = TRUE
    /\ UNCHANGED <<diskVars, state, workVars, deleting, met, torn>>

(* deleteModel, deleteRepo: the tree is removed file by file, then the link   *)
(* to it.                                                                     *)
Delete ==
    /\ state \in {"COMPLETED", "PAUSED", "FAILED"} /\ ~deleting
    /\ deleting' = TRUE /\ met' = ~NoneRuns
    /\ UNCHANGED <<diskVars, state, paused, workVars, torn>>

DeletePart(f) ==
    /\ part[f] # <<>> /\ part' = [part EXCEPT ![f] = <<>>]
    /\ Follow(Task, f, "gone", "blob")
    /\ UNCHANGED <<blob, link>>

DeleteBlob(f) ==
    /\ blob[f] # "none" /\ blob' = [blob EXCEPT ![f] = "none"]
    /\ Follow(Task, f, "part", "gone")
    /\ UNCHANGED <<part, link>>

DeletePointer(f) == f \in link /\ link' = link \ {f} /\ UNCHANGED <<part, blob, handle>>

DeleteFile(f) ==
    /\ deleting
    /\ DeletePart(f) \/ DeleteBlob(f) \/ DeletePointer(f)
    /\ UNCHANGED <<snapshot, folder, state, paused, worker, cur, done, tries, deleting,
                   met, torn>>

(* The links are in the snapshot; the blobs may be removed before or after.   *)
DeleteTree ==
    /\ deleting /\ link = {} /\ snapshot
    /\ snapshot' = FALSE
    /\ UNCHANGED <<part, blob, link, folder, state, paused, workVars, deleting, met, torn>>

(* A tree that is written to meanwhile may not get empty; the link goes then, *)
(* too.                                                                       *)
Emptied == \A f \in File : part[f] = <<>> /\ blob[f] = "none" /\ f \notin link
TreeDeleted == deleting /\ ((Emptied /\ ~snapshot) \/ met)

DeleteLink ==
    /\ TreeDeleted /\ folder
    /\ folder' = FALSE
    /\ UNCHANGED <<part, blob, link, snapshot, state, paused, workVars, deleting, met,
                   torn>>

(* The state is set, whatever the tasks do.                                   *)
DeleteEnd ==
    /\ TreeDeleted /\ ~folder
    /\ state' = "NOT_START"
    /\ deleting' = FALSE /\ met' = FALSE
    /\ torn' = met
    /\ UNCHANGED <<diskVars, paused, workVars>>

(* onItemClicked, runModel: a chat is opened with a model that is complete    *)
(* and has its first file, config.json.                                       *)
Run ==
    /\ state = "COMPLETED" /\ FolderExists /\ Resolves(1)
    /\ torn' = (torn \/ deleting)
    /\ UNCHANGED <<diskVars, state, paused, workVars, deleting, met>>

-----------------------------------------------------------------------------
(* A task that downloads. *)

Goes(t, to) == worker' = [worker EXCEPT ![t] = to]
Closes(t) == handle' = [handle EXCEPT ![t] = "part"]

(* The task ends, and what it counted is forgotten. *)
TaskEnds(t) ==
    /\ Goes(t, "idle") /\ cur' = [cur EXCEPT ![t] = 1]
    /\ done' = [done EXCEPT ![t] = [f \in File |-> 0]] /\ tries' = [tries EXCEPT ![t] = 0]
Stop(t, s) == TaskEnds(t) /\ state' = s

(* The request for the list fails, or is answered with an HTTP error: then    *)
(* the executor drops the exception and nobody is told.                       *)
ListFails(t) ==
    /\ worker[t] = "asked"
    /\ Goes(t, "idle")
    /\ state' \in {"FAILED", state}
    /\ UNCHANGED <<diskVars, paused, cur, done, tries, handle, deleting, met, torn>>

(* downloadMsRepoInner, collectMsTaskList: what is there already counts. *)
Begin(t) ==
    /\ worker[t] = "asked"
    /\ IF FolderExists
       THEN Stop(t, "COMPLETED")
       ELSE /\ Goes(t, "file")
            /\ done' = [done EXCEPT ![t] = [f \in File |->
                            IF blob[f] # "none" THEN Size[f] ELSE Len(part[f])]]
            /\ UNCHANGED <<state, cur, tries>>
    /\ UNCHANGED <<diskVars, paused, handle, deleting, met, torn>>

(* downloadFile when the blob is there: at most the link is missing. What is  *)
(* counted of a file that is done is not looked at again.                     *)
FileThere(t) ==
    /\ worker[t] = "file" /\ cur[t] <= Files /\ blob[cur[t]] # "none"
    /\ link' = link \cup {cur[t]} /\ snapshot' = TRUE
    /\ cur' = [cur EXCEPT ![t] = @ + 1] /\ done' = [done EXCEPT ![t][cur[t]] = 0]
    /\ UNCHANGED <<part, blob, folder, state, paused, worker, tries, handle, deleting,
                   met, torn>>

(* moveWithPermissions. Another task may have moved the same file before.     *)
Move(t, f) ==
    /\ blob' = [blob EXCEPT ![f] = IF Whole(f) THEN "whole" ELSE "bad"]
    /\ part' = [part EXCEPT ![f] = <<>>]
    /\ Follow(Task \ {t}, f, "blob", "gone")
    /\ Goes(t, "link") /\ tries' = [tries EXCEPT ![t] = 0]
    /\ done' = [done EXCEPT ![t][f] = 0]
    /\ UNCHANGED <<state, cur>>

Discard(t, f) ==
    /\ part' = [part EXCEPT ![f] = <<>>]
    /\ Follow(Task \ {t}, f, "gone", "blob")
    /\ UNCHANGED blob

(* Mutant: a file whose bytes are all there is not moved. *)
FileBeginNoMove(t) ==
    /\ worker[t] = "file" /\ cur[t] <= Files /\ blob[cur[t]] = "none"
    /\ snapshot' = TRUE
    /\ Goes(t, IF done[t][cur[t]] < Size[cur[t]] THEN "connect" ELSE "link")
    /\ UNCHANGED <<part, blob, link, folder, state, paused, cur, done, tries, handle,
                   deleting, met, torn>>

(* downloadToTmpAndMove before it connects: an .incomplete file that has all  *)
(* its bytes is moved if its hash is right, and dropped if not; one that was  *)
(* deleted meanwhile has no hash, which ends the task. (A file without a read *)
(* is not told from one that is not there.)                                   *)
FileBegin(t) ==
    /\ worker[t] = "file" /\ cur[t] <= Files /\ blob[cur[t]] = "none"
    /\ snapshot' = TRUE
    /\ \/ /\ done[t][cur[t]] < Size[cur[t]]
          /\ Goes(t, "connect")
          /\ UNCHANGED <<part, blob, handle, state, cur, done, tries>>
       \/ /\ done[t][cur[t]] >= Size[cur[t]] /\ Whole(cur[t])
          /\ Move(t, cur[t])
       \/ /\ done[t][cur[t]] >= Size[cur[t]] /\ ~Whole(cur[t])
          /\ Discard(t, cur[t]) /\ Goes(t, "connect")
          /\ done' = [done EXCEPT ![t][cur[t]] = 0]
          /\ UNCHANGED <<state, cur, tries>>
       \/ /\ done[t][cur[t]] >= Size[cur[t]] /\ part[cur[t]] = <<>>
          /\ Stop(t, "FAILED")
          /\ UNCHANGED <<part, blob, handle>>
    /\ UNCHANGED <<link, folder, paused, deleting, met, torn>>

(* The request that follows redirections is not repeated when it fails. Then  *)
(* downloadChunk opens the .incomplete file.                                  *)
Connect(t) ==
    /\ worker[t] = "connect"
    /\ \/ Goes(t, "read") /\ UNCHANGED <<state, cur, done, tries>>
       \/ Stop(t, "FAILED")
    /\ UNCHANGED <<diskVars, paused, handle, deleting, met, torn>>

(* One read is written where the task has got to. What is missing before it,  *)
(* in a file that was deleted meanwhile, reads as zeros.                      *)
Written(reads, at, r) ==
    IF at < Len(reads) THEN [reads EXCEPT ![at + 1] = r]
    ELSE [i \in 1..at + 1 |-> IF i = at + 1 THEN r
                              ELSE IF i <= Len(reads) THEN reads[i] ELSE "wrong"]

(* downloadChunk. A server that ignores the range that was asked for sends    *)
(* wrong bytes. The file that is open is written to wherever it is by now: it *)
(* may be a blob.                                                             *)
Read(t) ==
    /\ worker[t] = "read" /\ done[t][cur[t]] < Size[cur[t]]
    /\ \E r \in {"good", "wrong"} :
         /\ part' = IF handle[t] = "part"
                    THEN [part EXCEPT ![cur[t]] = Written(@, done[t][cur[t]], r)] ELSE part
         /\ blob' = IF handle[t] = "blob" /\ r = "wrong"
                    THEN [blob EXCEPT ![cur[t]] = "bad"] ELSE blob
    /\ IF paused
       THEN Stop(t, "PAUSED") /\ Closes(t) /\ paused' = FALSE
       ELSE /\ done' = [done EXCEPT ![t][cur[t]] = @ + 1]
            /\ state' = "DOWNLOADING"
            /\ UNCHANGED <<worker, paused, cur, tries, handle>>
    /\ UNCHANGED <<link, snapshot, folder, deleting, met, torn>>

(* Mutant: one attempt too many. *)
RetryOnceMore(t) ==
    IF tries[t] < MaxRetry
    THEN /\ Goes(t, "read") /\ tries' = [tries EXCEPT ![t] = @ + 1]
         /\ UNCHANGED <<state, cur, done>>
    ELSE Stop(t, "FAILED")

(* An attempt fails: the next one opens the file again and goes on where this *)
(* one stopped.                                                               *)
Retry(t) ==
    IF tries[t] + 1 < MaxRetry
    THEN /\ Goes(t, "read") /\ tries' = [tries EXCEPT ![t] = @ + 1]
         /\ UNCHANGED <<state, cur, done>>
    ELSE Stop(t, "FAILED")

(* The connection breaks, or the server refuses. *)
Breaks(t) ==
    /\ worker[t] = "read"
    /\ Retry(t) /\ Closes(t)
    /\ UNCHANGED <<diskVars, paused, deleting, met, torn>>

(* Mutant: the file is moved without a look at its hash. *)
ValidateNothing(t) ==
    /\ worker[t] = "read"
    /\ Move(t, cur[t])
    /\ UNCHANGED <<link, snapshot, folder, paused, deleting, met, torn>>

(* The body ends, after all bytes or before, and the file is closed: it is    *)
(* moved if its hash is right; if not it is dropped, and the second look for  *)
(* it throws. When it is not there the first look throws, which is one more   *)
(* failed attempt.                                                            *)
Validate(t) ==
    /\ worker[t] = "read"
    /\ \/ /\ Whole(cur[t])
          /\ Move(t, cur[t])
       \/ /\ ~Whole(cur[t])
          /\ Discard(t, cur[t]) /\ Stop(t, "FAILED")
       \/ /\ part[cur[t]] = <<>>
          /\ Retry(t) /\ Closes(t) /\ UNCHANGED <<part, blob>>
    /\ UNCHANGED <<link, snapshot, folder, paused, deleting, met, torn>>

(* createSymlink throws when the directory was deleted. *)
Link(t) ==
    /\ worker[t] = "link"
    /\ IF snapshot
       THEN /\ link' = link \cup {cur[t]}
            /\ cur' = [cur EXCEPT ![t] = @ + 1] /\ Goes(t, "file")
            /\ UNCHANGED <<state, done, tries>>
       ELSE Stop(t, "FAILED") /\ UNCHANGED link
    /\ UNCHANGED <<part, blob, snapshot, folder, paused, handle, deleting, met, torn>>

(* All files are there: the model is complete. *)
Finish(t) ==
    /\ worker[t] = "file" /\ cur[t] = Files + 1
    /\ folder' = TRUE
    /\ Stop(t, "COMPLETED")
    /\ UNCHANGED <<part, blob, link, snapshot, paused, handle, deleting, met, torn>>

-----------------------------------------------------------------------------
(* The process dies, and its tasks with it. *)
TasksEnd ==
    /\ worker' = [t \in Task |-> "idle"] /\ cur' = [t \in Task |-> 1]
    /\ done' = [t \in Task |-> [f \in File |-> 0]]
    /\ tries' = [t \in Task |-> 0] /\ handle' = [t \in Task |-> "part"]

(* Mutant: the state is that of the size that was saved. *)
RestartFromSize ==
    /\ TasksEnd /\ paused' = FALSE /\ deleting' = FALSE /\ met' = FALSE
    /\ torn' = (torn \/ deleting)
    /\ state' \in {"PAUSED", "NOT_START"}
    /\ UNCHANGED diskVars

(* The next process takes the state from what it finds: getDownloadInfo says  *)
(* complete when the folder is there, else paused or not started by the size  *)
(* that was saved.                                                            *)
Restart ==
    /\ TasksEnd /\ paused' = FALSE /\ deleting' = FALSE /\ met' = FALSE
    /\ torn' = (torn \/ deleting)
    /\ IF FolderExists THEN state' = "COMPLETED"
       ELSE state' \in {"PAUSED", "NOT_START"}
    /\ UNCHANGED diskVars

-----------------------------------------------------------------------------
Works(t) == ListFails(t) \/ Begin(t) \/ FileThere(t) \/ FileBegin(t) \/ Connect(t)
         \/ Read(t) \/ Breaks(t) \/ Validate(t) \/ Link(t) \/ Finish(t)

Working == \E t \in Task : Works(t)

Deleting == (\E f \in File : DeleteFile(f)) \/ DeleteTree \/ DeleteLink

-----------------------------------------------------------------------------
(* Properties. *)

(* Every variable has its type. *)
DownloadTypeOK ==
    /\ part \in [File -> Seq({"good", "wrong"})]
    /\ \A f \in File : Len(part[f]) <= Size[f]
    /\ blob \in [File -> {"none", "whole", "bad"}]
    /\ link \subseteq File
    /\ {snapshot, folder, paused, deleting, met, torn} \subseteq BOOLEAN
    /\ state \in {"NOT_START", "DOWNLOADING", "PAUSED", "COMPLETED", "FAILED"}
    /\ worker \in [Task -> {"idle", "asked", "file", "connect", "read", "link"}]
    /\ cur \in [Task -> 1..Files + 1] /\ done \in [Task -> [File -> Nat]]
    /\ \A t \in Task, f \in File : done[t][f] <= Size[f]
    /\ tries \in [Task -> 0..MaxRetry - 1] /\ handle \in [Task -> {"part", "blob", "gone"}]

(* A blob is never anything but the whole file, whatever was paused, resumed, *)
(* retried, delivered wrongly, deleted or cut off by the end of the process:  *)
(* blobs are taken for good without looking at them again. Excepted is what   *)
(* comes after a deletion that met a download, until the model is deleted     *)
(* again: then two tasks may run, and one of them may write to a file that    *)
(* the other has moved.                                                       *)
BlobsWhole == ~torn => \A f \in File : blob[f] # "bad"

(* A model that is shown as complete has all its files, at any time after any *)
(* number of attempts and restarts -- unless a deletion was cut short by the  *)
(* end of the process or by another use of the model while it ran.            *)
CompleteWhole ==
    state = "COMPLETED" /\ ~torn /\ ~deleting =>
        \A f \in File : f \in link /\ blob[f] = "whole"
=============================================================================

----------------------------- MODULE ModelStore -----------------------------
(* A model on the disk of MnnLlmChat, from its download to its use: the       *)
(* repository (ModelDownload) and the mapped weights that were made from it   *)
(* (WeightCache). A click on a complete model loads it, deleteModel removes   *)
(* first the repository and then the weights, and the process that does all   *)
(* of this may die at any point.                                              *)
EXTENDS ModelDownload, WeightCache

storeVars == <<downloadVars, cacheVars>>

StoreInit == DownloadInit /\ CacheInit

-----------------------------------------------------------------------------
(* The user deletes what is not in use. *)
StartDelete == Delete /\ stage = "none" /\ ~clearing /\ UNCHANGED cacheVars

(* runModel: a chat loads the model, with all its files; during a deletion    *)
(* it may be opened, too, and finds nothing to load.                          *)
Open ==
    /\ Run
    /\ IF ~deleting /\ ~cleft /\ \A f \in File : Resolves(f)
       THEN LoadModel ELSE UNCHANGED cacheVars

(* The weights are removed when the link is. *)
DeleteWeights == TreeDeleted /\ ~folder /\ ~clearing /\ ~Cleared
              /\ clearing' = TRUE
              /\ UNCHANGED <<downloadVars, file, marker, loadVars, revision, cleft>>

(* Mutant: the weights stay. *)
DeleteDoneKeeps ==
    /\ DeleteEnd /\ ~clearing
    /\ cleft' = FALSE
    /\ UNCHANGED <<file, marker, loadVars, revision, clearing>>

DeleteDone ==
    /\ DeleteEnd /\ ~clearing /\ Cleared
    /\ cleft' = FALSE
    /\ UNCHANGED <<file, marker, loadVars, revision, clearing>>

(* The settings of a model that is complete. *)
ClearWeights ==
    /\ Clear /\ state = "COMPLETED" /\ ~deleting
    /\ UNCHANGED downloadVars

CacheStep == (Loads \/ Forward \/ Unload \/ Clears \/ ClearEnd)
          /\ UNCHANGED downloadVars

(* The files of the repository change only while none of them is here: the    *)
(* files of two revisions have different names and do not meet.               *)
PublishRevision ==
    /\ Publish /\ Emptied /\ ~snapshot /\ ~folder /\ NoneRuns
    /\ UNCHANGED downloadVars

Kill == Restart /\ Dies(deleting)

StoreNext ==
    \/ StartDelete \/ Open \/ DeleteWeights \/ DeleteDone \/ ClearWeights
    \/ CacheStep \/ PublishRevision \/ Kill
    \/ (Start \/ Pause \/ Deleting \/ Working) /\ UNCHANGED cacheVars

StoreSpec == StoreInit /\ [][StoreNext]_storeVars

-----------------------------------------------------------------------------
(* Every variable has its type. *)
TypeOK == DownloadTypeOK /\ CacheTypeOK

(* To the user, a model is here when it is shown as complete; no state but    *)
(* these is allowed by the promise.                                           *)
Shelf ==
    IF torn THEN "doubtful"
    ELSE IF deleting THEN "going"
    ELSE IF state = "COMPLETED"
    THEN IF FolderExists /\ \A f \in File : f \in link /\ blob[f] = "whole"
         THEN "here" ELSE "broken"
    ELSE IF FolderExists THEN "hidden" ELSE "absent"

Chat ==
    IF stage = "ready"
    THEN {memory[b][1] : b \in Block} \cup (IF lacking = {} THEN {} ELSE {0})
    ELSE {}

(* A file has no size, and is not the one that gets it now. *)
Scarred == \E n \in Number : file[n] = Empty /\ ~(stage = "size" /\ n = number)

Promise == INSTANCE AbstractStore WITH shelf <- Shelf, chat <- Chat, scar <- Scarred

(* The files, links, markers and flags of a model, of which any number of     *)
(* processes leaves any part behind, amount to a model that comes and goes in *)
(* one step: it does not get complete or lost but by a download or a deletion *)
(* that ran to its end, a chat is never loaded from anything else, and never  *)
(* computes with weights of another revision, or with missing ones unless a   *)
(* process died while it made a file of weights that is still there.          *)
StorePromise == Promise!Spec
=============================================================================

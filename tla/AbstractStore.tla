--------------------------- MODULE AbstractStore ---------------------------
(* What MnnLlmChat promises of a model on the disk: it is here or it is not,  *)
(* comes and goes as a whole, and stays through any end of the process until  *)
(* it is deleted; a chat computes with the weights of the revision that is    *)
(* here, and with no others. Two ends of the process leave something behind:  *)
(* a deletion that is cut short leaves a doubt about what is left, until the  *)
(* model is deleted again; a process that dies while it makes a file of       *)
(* weights leaves a scar, and weights may be missing until they are removed.  *)
EXTENDS Naturals

CONSTANT MaxRevision

VARIABLES
    shelf,      \* "absent", "here", "going" or, after a deletion that was cut
                \* short, "doubtful"
    chat,       \* the revisions whose weights a chat computes with; 0 stands
                \* for weights that are missing
    scar,       \* a file of weights was left unfinished
    revision    \* the revision that is published

vars == <<shelf, chat, scar, revision>>

Init == shelf = "absent" /\ chat = {} /\ scar = FALSE /\ revision = 1

(* The model is here, all at once. *)
Arrive == shelf = "absent" /\ shelf' = "here" /\ UNCHANGED <<chat, scar, revision>>

(* It is deleted, but not under a chat. *)
Leave ==
    /\ shelf \in {"absent", "here"} /\ chat = {}
    /\ shelf' = "going"
    /\ UNCHANGED <<chat, scar, revision>>

Left ==
    /\ shelf \in {"going", "doubtful"} /\ chat = {}
    /\ shelf' = "absent"
    /\ UNCHANGED <<chat, scar, revision>>

CutShort == shelf = "going" /\ shelf' = "doubtful" /\ UNCHANGED <<chat, scar, revision>>

(* A chat has loaded the model. *)
Load ==
    /\ shelf \in {"here", "doubtful"} /\ chat = {}
    /\ chat' \in {{revision}} \cup (IF scar THEN {{0, revision}} ELSE {})
    /\ UNCHANGED <<shelf, scar, revision>>

(* It is closed, or dies with the process. *)
Close == chat' = {} /\ UNCHANGED <<shelf, scar, revision>>

(* The process dies while a model is loaded; the weights are removed.         *)
Scar == chat = {} /\ scar' = TRUE /\ UNCHANGED <<shelf, chat, revision>>
Heal == scar' = FALSE /\ UNCHANGED <<shelf, chat, revision>>

Publish ==
    /\ revision < MaxRevision /\ shelf # "here" /\ chat = {}
    /\ revision' = revision + 1
    /\ UNCHANGED <<shelf, chat, scar>>

Next == Arrive \/ Leave \/ Left \/ CutShort \/ Load \/ Close \/ Scar \/ Heal \/ Publish

Spec == Init /\ [][Next]_vars
=============================================================================

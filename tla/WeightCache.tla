---------------------------- MODULE WeightCache ----------------------------
(* The weights of a model in files that a later process maps again: the       *)
(* MmapAllocator of BufferAllocator.cpp as CPURuntime::onCreate configures it *)
(* with use_mmap and use_cached_mmap, from the loading of the model to the    *)
(* end of its session. Each block that the static allocator asks for is the   *)
(* file of the next number. The first process writes the weights into the     *)
(* files and then makes a marker; a process that finds the marker maps the    *)
(* files in the same order and does not read the weights. The process may die *)
(* at any point, and the files are removed one by one (clearMmapCache) from   *)
(* the settings or when the model is deleted.                                 *)
EXTENDS Naturals

CONSTANTS
    Blocks,       \* the blocks of static memory that the weights take
    Kept,         \* those that are asked for first by an operator that is kept
                  \* when it gets no memory: a dense int8 convolution
    MaxRevision   \* bound on the revisions of the model

ASSUME CacheAssumption ==
    Blocks \in Nat \ {0} /\ Kept \subseteq 1..Blocks /\ MaxRevision \in Nat \ {0}

(* At most one file is left without its size by the end of a process: see     *)
(* Dies.                                                                      *)
MaxEmpty == 1
Number == 0..Blocks + MaxEmpty - 1
Block == 1..Blocks

VARIABLES
    file,        \* what the file of each number holds
    marker,      \* the file "sync" is there
    stage,       \* where the loading of the model is
    trusts,      \* hint().useCachedMmap > 1
    fresh,       \* mNewMmap
    number,      \* mAllocTimes
    block,       \* the block that is asked for
    memory,      \* what is mapped for each block
    lacking,     \* the blocks of which an operator was kept without its weights
    revision,    \* the revision of the model whose files are on the disk
    clearing,    \* the files are being removed
    cleft        \* a removal was cut short by the end of the process

loadVars == <<stage, trusts, fresh, number, block, memory, lacking>>
cacheVars == <<file, marker, loadVars, revision, clearing, cleft>>

(* A file is not there, has no size yet (and cannot be mapped then), or holds *)
(* zeros or the weights of a revision.                                        *)
None == <<>>
Empty == <<0>>
Zeros == <<0, 0>>
Weights(r, b) == <<r, b>>
Content == {Zeros} \cup {Weights(r, b) : r \in 1..MaxRevision, b \in Block}

Mappable(n) == file[n] \in Content
Cleared == ~marker /\ \A n \in Number : file[n] = None

CacheInit ==
    /\ file = [n \in Number |-> None] /\ marker = FALSE
    /\ stage = "none" /\ trusts = FALSE /\ fresh = FALSE
    /\ number = 0 /\ block = 1 /\ memory = [b \in Block |-> Zeros] /\ lacking = {}
    /\ revision = 1 /\ clearing = FALSE /\ cleft = FALSE

-----------------------------------------------------------------------------
(* Mutant: that there are files is taken for the marker. *)
LoadModelUnmarked ==
    /\ stage = "none" /\ ~clearing /\ ~cleft
    /\ stage' = "alloc"
    /\ trusts' = (file[0] # None) /\ fresh' = FALSE
    /\ number' = 0 /\ block' = 1
    /\ memory' = [b \in Block |-> Zeros] /\ lacking' = {}
    /\ UNCHANGED <<file, marker, revision, clearing, cleft>>

(* initRuntime, onCreate: a new runtime looks for the marker. After a removal *)
(* that was cut short it could trust a marker whose files are gone, or are    *)
(* those of another revision: then the model is loaded only when a removal    *)
(* was completed.                                                             *)
LoadModel ==
    /\ stage = "none" /\ ~clearing /\ ~cleft
    /\ stage' = "alloc"
    /\ trusts' = marker /\ fresh' = FALSE
    /\ number' = 0 /\ block' = 1
    /\ memory' = [b \in Block |-> Zeros] /\ lacking' = {}
    /\ UNCHANGED <<file, marker, revision, clearing, cleft>>

(* onAlloc of a file that is there. A file without its size is passed over.   *)
(* Most operators are not created then, and ask again for the second backend. *)
(* DenseConvInt8TiledExecutor prints an error and is kept: what else it and   *)
(* the others of the block ask for is in the next file, and it neither reads  *)
(* nor writes its weights.                                                    *)
AllocOpen ==
    /\ stage = "alloc" /\ file[number] # None
    /\ number' = number + 1
    /\ IF Mappable(number)
       THEN /\ stage' = "fill" /\ memory' = [memory EXCEPT ![block] = file[number]]
            /\ UNCHANGED lacking
       ELSE /\ lacking' = lacking \cup (Kept \cap {block})
            /\ UNCHANGED <<stage, memory>>
    /\ UNCHANGED <<file, marker, trusts, fresh, block, revision, clearing, cleft>>

(* onAlloc of a file that is not there: it is created, then gets its size.    *)
AllocCreate ==
    /\ stage = "alloc" /\ file[number] = None
    /\ file' = [file EXCEPT ![number] = Empty]
    /\ stage' = "size"
    /\ UNCHANGED <<marker, trusts, fresh, number, block, memory, lacking, revision,
                   clearing, cleft>>

AllocSize ==
    /\ stage = "size"
    /\ file' = [file EXCEPT ![number] = Zeros]
    /\ memory' = [memory EXCEPT ![block] = Zeros]
    /\ fresh' = TRUE
    /\ number' = number + 1
    /\ stage' = "fill"
    /\ UNCHANGED <<marker, trusts, block, lacking, revision, clearing, cleft>>

(* The operators of this block write their weights, unless they trust that    *)
(* they are there; one that lacks them does not.                              *)
Fill ==
    /\ stage = "fill"
    /\ IF trusts
       THEN UNCHANGED <<file, memory>>
       ELSE /\ file' = [file EXCEPT ![number - 1] = Weights(revision, block)]
            /\ memory' = [memory EXCEPT ![block] = Weights(revision, block)]
    /\ IF block = Blocks THEN stage' = "ready" /\ UNCHANGED block
       ELSE stage' = "alloc" /\ block' = block + 1
    /\ UNCHANGED <<marker, trusts, fresh, number, lacking, revision, clearing, cleft>>

(* sync. The directory may have been removed meanwhile: then no marker is     *)
(* made.                                                                      *)
Synced(there) == marker' = (marker \/ (fresh /\ there))

Unloaded ==
    /\ stage' = "none" /\ trusts' = FALSE /\ fresh' = FALSE
    /\ number' = 0 /\ block' = 1 /\ memory' = [b \in Block |-> Zeros] /\ lacking' = {}

(* onClearBuffer in the first forward pass. *)
Forward ==
    /\ stage = "ready" /\ ~clearing
    /\ Synced(~Cleared)
    /\ UNCHANGED <<file, loadVars, revision, clearing, cleft>>

(* The session is deleted: onClearBuffer in ~Pipeline. The files stay. *)
Unload ==
    /\ stage = "ready" /\ ~clearing
    /\ Synced(~Cleared)
    /\ Unloaded
    /\ UNCHANGED <<file, revision, clearing, cleft>>

-----------------------------------------------------------------------------
(* clearMmapCache from the settings, when the model is not being loaded. *)
Clear ==
    /\ stage \in {"none", "ready"} /\ ~clearing
    /\ clearing' = TRUE
    /\ UNCHANGED <<file, marker, loadVars, revision, cleft>>

ClearFile(n) ==
    /\ clearing /\ file[n] # None
    /\ file' = [file EXCEPT ![n] = None]
    /\ UNCHANGED <<marker, loadVars, revision, clearing, cleft>>

ClearMarker ==
    /\ clearing /\ marker
    /\ marker' = FALSE
    /\ UNCHANGED <<file, loadVars, revision, clearing, cleft>>

ClearEnd ==
    /\ clearing /\ Cleared
    /\ clearing' = FALSE /\ cleft' = FALSE
    /\ UNCHANGED <<file, marker, loadVars, revision>>

-----------------------------------------------------------------------------
(* The process dies. A file may be left without its size. (If two were, an    *)
(* operator could be refused twice. It would then be created outside of the   *)
(* files later, and without its weights by a process that trusts them.) The   *)
(* argument says whether the model was being deleted.                         *)
Dies(removing) ==
    /\ stage = "size" => \A n \in Number : n # number => file[n] # Empty
    /\ Unloaded /\ clearing' = FALSE
    /\ cleft' = (cleft \/ clearing \/ removing)
    /\ UNCHANGED <<file, marker, revision>>

(* Another revision of the model is published. *)
Publish ==
    /\ revision < MaxRevision
    /\ revision' = revision + 1
    /\ UNCHANGED <<file, marker, loadVars, clearing, cleft>>

Loads == AllocOpen \/ AllocCreate \/ AllocSize \/ Fill
Clears == (\E n \in Number : ClearFile(n)) \/ ClearMarker

-----------------------------------------------------------------------------
(* Properties. *)

(* Every variable has its type. *)
CacheTypeOK ==
    /\ file \in [Number -> {None, Empty} \cup Content]
    /\ stage \in {"none", "alloc", "size", "fill", "ready"}
    /\ number \in 0..Blocks + MaxEmpty /\ block \in Block
    /\ memory \in [Block -> Content] /\ lacking \subseteq Kept
    /\ revision \in 1..MaxRevision
    /\ {marker, trusts, fresh, clearing, cleft} \subseteq BOOLEAN

(* A model that is loaded computes with its own weights, read or found in the *)
(* files, after any number of processes that died while they loaded it, of    *)
(* removals of the files and of downloads of other revisions; excepted are    *)
(* the blocks of an int8 convolution that was kept without memory, which the  *)
(* code prints and does not refuse.                                           *)
WeightsRight ==
    stage = "ready" => \A b \in Block \ lacking : memory[b] = Weights(revision, b)
=============================================================================

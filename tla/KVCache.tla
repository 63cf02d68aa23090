------------------------------ MODULE KVCache ------------------------------
(***************************************************************************)
(* The key/value cache of an attention layer on the CPU, and the           *)
(* bookkeeping (KVMeta) through which Llm drives it.  Llm announces what a *)
(* forward pass adds, how many of the last entries it removes, and which   *)
(* range of the removed ones it keeps after all ("reserve"); the cache     *)
(* carries that out before it appends, and both sides compute the new      *)
(* length on their own.  The cache grows in memory, moves to a mapped file *)
(* when it exceeds the limit and grows there.                              *)
(*                                                                         *)
(* An entry is the number of the token it was computed from; sizes are     *)
(* counted in entries.  The calls of Llm are serial, so that each is one   *)
(* step; one layer stands for all, which see the same KVMeta.              *)
(*                                                                         *)
(* With lookahead (speculative_decoding/lookahead.cpp) a round computes    *)
(* the current token and some drafts in one pass; the entries of the       *)
(* drafts that are rejected stay until the next pass removes them.         *)
(***************************************************************************)
EXTENDS Integers, Sequences

CONSTANTS
  Align,        \* hP: entries are moved in blocks of this many
  ExpandChunk,  \* KVCacheConfig::mExpandChunk
  Limit,        \* mKVCacheSizeLimit, NoLimit if there is none
  Uses,         \* what the user does beyond erasing carefully
  DraftLength,  \* mDraftLength: tokens of a round with drafts
  MaxAdd,       \* bound: the tokens of a prompt
  MaxToken      \* bound: tokens computed since the cache was last empty,
                \* and positions used since it was last reset

NoLimit == -1

ASSUME KVCacheAssumption ==
  /\ Align \in Nat \ {0}
  /\ ExpandChunk \in Nat
  /\ Limit \in Nat \cup {NoLimit}
  /\ Uses \subseteq {"head", "override", "dirty"}
  /\ DraftLength \in Nat \ {0}
  /\ MaxAdd \in Nat \ {0} /\ MaxToken \in Nat

VARIABLES
  lookAhead,  \* mLookAhead
  meta,       \* KVMeta between calls: previous, remove and reserve
  cache,      \* KVCacheManager
  allSeqLen,  \* LlmContext::all_seq_len: the position of the next token
  last,       \* the token computed last
  kept,       \* history: the tokens the conversation consists of
  cut,        \* history: the range of it that the next pass is to drop
  skipped     \* history: the positions that eraseHistory leaves unused

vars == <<lookAhead, meta, cache, allSeqLen, last, kept, cut, skipped>>

Garbage == 0
NoCut == [from |-> 0, to |-> 0, by |-> "none"]

Init ==
  /\ lookAhead \in BOOLEAN
  /\ meta = [previous |-> 0, remove |-> 0, reserve |-> <<>>]
  /\ cache = [cells |-> <<>>, past |-> 0, max |-> 0,
              disk |-> FALSE, file |-> 0, mapped |-> 0]
  /\ allSeqLen = 0 /\ last = 0
  /\ kept = <<>> /\ cut = NoCut /\ skipped = 0

Up(n) == ((n + Align - 1) \div Align) * Align
Down(n) == (n \div Align) * Align

Entry(c, i) == IF i \in 0 .. c.max - 1 THEN c.cells[i] ELSE Garbage
Exceeds(size) == Limit # NoLimit /\ size > Limit

-----------------------------------------------------------------------------
(* KVCacheManager::onClear *)
Cleared(c) ==
  [c EXCEPT !.cells = <<>>, !.past = 0, !.max = 0, !.disk = FALSE,
            !.file = IF c.disk THEN 0 ELSE @, !.mapped = IF c.disk THEN 0 ELSE @]

(* createKVCacheFile, resetKVCacheFileSize and mmapKVCache, which leaves an *)
(* existing mapping as it is                                                *)
OnDisk(c, size) ==
  [c EXCEPT !.disk = TRUE, !.file = size, !.mapped = IF @ = 0 THEN size ELSE @]

(* KVCacheManager::onAlloc *)
Allocated(c, length) ==
  LET size == length + ExpandChunk
      blank == [c EXCEPT !.max = size, !.cells = [i \in 0 .. size - 1 |-> Garbage]]
  IN  IF Exceeds(size) THEN OnDisk(blank, size) ELSE blank

(* The first half of KVCacheManager::onRealloc.  Where the cache is now    *)
(* follows from its old size.  (expandKVCacheInDisk takes the sizes of the *)
(* files as int: those of keys and of values stay below 2 GiB.)            *)
GrownUnmapped(c, length) ==
  LET size == length + ExpandChunk IN
  IF length <= c.max THEN c
  ELSE LET copy == [c EXCEPT !.max = size, !.cells = [i \in 0 .. size - 1 |-> Entry(c, i)]]
       IN  IF Exceeds(size) THEN OnDisk(copy, size) ELSE copy
Grown(c, length) ==
  LET size == length + ExpandChunk
      copy == [c EXCEPT !.max = size,
                        !.cells = [i \in 0 .. size - 1 |-> Entry(c, i)]]
  IN  IF length <= c.max THEN c
      ELSE IF ~Exceeds(size) THEN copy
      ELSE IF ~Exceeds(c.max) THEN OnDisk(copy, size)
      ELSE OnDisk([copy EXCEPT !.mapped = 0], size)

(* The blocks from on, n entries, are copied to the blocks to on. *)
MovedOneBlock(c, from, to, n) ==
  [c EXCEPT !.cells = [i \in DOMAIN @ |->
                        IF i \in to .. to + Align - 1 THEN Entry(c, i - to + from) ELSE @[i]]]
Moved(c, from, to, n) ==
  [c EXCEPT !.cells = [i \in DOMAIN @ |->
                        IF i \in to .. to + n - 1 THEN Entry(c, i - to + from) ELSE @[i]]]

(* The second half of onRealloc: the last entries are removed, except for  *)
(* the reserved ones, which take their place unless they begin in the same *)
(* block.                                                                  *)
Ending(c, past) == [c EXCEPT !.past = past]
Removed(c, m) ==
  LET start == c.past - m.remove IN
  IF m.reserve = <<>> THEN Ending(c, start)
  ELSE LET from == Down(start + m.reserve[1])
           to == Up(start)
           end == Up(start + m.reserve[1] + m.reserve[2])
           moved == IF from <= to THEN c ELSE Moved(c, from, to, end - from)
       IN  Ending(moved, start + m.reserve[2])

(* KVCacheManager::onPushBack: the tokens after base *)
Pushed(c, base, n) ==
  [c EXCEPT !.past = @ + n,
            !.cells = [i \in DOMAIN @ |->
                        IF i \in c.past .. c.past + n - 1 THEN base + 1 + i - c.past ELSE @[i]]]

(* KVMeta::computeReverseSize; Llm reserves at most one range. *)
ReserveSize(m) == IF m.reserve = <<>> THEN 0 ELSE m.reserve[2]

(* What CPUAttention::onExecute does to the cache, for n new tokens. *)
Attended(c, m, base, n) ==
  IF m.previous = m.remove THEN Pushed(Allocated(Cleared(c), n), base, n)
  ELSE Pushed(Removed(Grown(c, m.previous + n - m.remove + ReserveSize(m)), m), base, n)

(* KVMeta::sync *)
SyncedWithoutReserve(m, n) ==
  [previous |-> m.previous - m.remove + n, remove |-> 0, reserve |-> <<>>]
Synced(m, n) ==
  [previous |-> m.previous - m.remove + n + ReserveSize(m), remove |-> 0, reserve |-> <<>>]

-----------------------------------------------------------------------------
Without(seq, range) ==
  SubSeq(seq, 1, range.from) \o SubSeq(seq, range.to + 1, Len(seq))

(* The numbering of the tokens restarts with an empty cache. *)
Base(m) == IF m.previous = m.remove THEN 0 ELSE last

(* Llm::forward and forwardRaw with the KVMeta m, for n tokens, when the   *)
(* range dropped is to go, from the position pos on: all but KVMeta and    *)
(* the positions.                                                          *)
Computed(m, dropped, n, pos) ==
  /\ Base(m) + n <= MaxToken /\ pos + n <= MaxToken
  /\ cache' = Attended(cache, m, Base(m), n)
  /\ last' = Base(m) + n
  /\ kept' = Without(kept, dropped) \o [i \in 1 .. n |-> Base(m) + i]

(* An ordinary pass *)
Forward(m, dropped, n, pos) ==
  /\ Computed(m, dropped, n, pos)
  /\ meta' = Synced(m, n)
  /\ allSeqLen' = pos + n
  /\ cut' = NoCut

Length(range) == range.to - range.from
All == [from |-> 0, to |-> Len(kept), by |-> "reset"]
Last(n, by) == [from |-> Len(kept') - n, to |-> Len(kept'), by |-> by]

(* Unless the user "overrides", nothing but a response follows an erasure  *)
(* that keeps a tail.                                                      *)
MayChange == meta.reserve = <<>> \/ "override" \in Uses

(* Llm::response: generate_init and the prefill.  The configuration says   *)
(* whether the history is reused, and can change between responses.        *)
Respond(n, reuse_kv) ==
  /\ UNCHANGED lookAhead
  /\ IF reuse_kv THEN Forward(meta, cut, n, allSeqLen) /\ UNCHANGED skipped
     ELSE /\ MayChange
          /\ Forward([meta EXCEPT !.remove = meta.previous], All, n, 0)
          /\ skipped' = 0

(* Llm::generate with a prompt continues whatever the configuration says. *)
Continue(n) == Forward(meta, cut, n, allSeqLen) /\ UNCHANGED <<lookAhead, skipped>>

(* One round of the loop in Llm::generate; pending erasures are for a      *)
(* response.                                                               *)
Generate ==
  /\ ~lookAhead
  /\ cut = NoCut
  /\ Forward([meta EXCEPT !.remove = 0], NoCut, 1, allSeqLen)
  /\ UNCHANGED <<lookAhead, skipped>>

(* Mutant: the rejected drafts keep their positions. *)
SpeculateForward(accepted, n) ==
  /\ lookAhead
  /\ Computed(meta, cut, n, allSeqLen)
  /\ meta' = [Synced(meta, n) EXCEPT !.remove = n - accepted]
  /\ allSeqLen' = allSeqLen + n
  /\ cut' = IF accepted = n THEN NoCut ELSE Last(n - accepted, "reject")
  /\ UNCHANGED <<lookAhead, skipped>>

(* One round of the loop in Llm::speculativeGenerate: of the current token *)
(* and its drafts, if any are found, the first ones are accepted; the      *)
(* entries of the others ("dirty kv-cache") go with the next pass.         *)
Speculate(accepted, n) ==
  /\ lookAhead
  /\ Computed(meta, cut, n, allSeqLen)
  /\ meta' = [Synced(meta, n) EXCEPT !.remove = n - accepted]
  /\ allSeqLen' = allSeqLen + n - (n - accepted)
  /\ cut' = IF accepted = n THEN NoCut ELSE Last(n - accepted, "reject")
  /\ UNCHANGED <<lookAhead, skipped>>

(* Unless the user does as in Uses: something remains before a tail that   *)
(* is kept, and no entry that a reset or a round of lookahead gave up is   *)
(* kept by an erasure that "overrides" it.                                 *)
Careful(begin, end) ==
  /\ end = meta.previous \/ begin > 0 \/ "head" \in Uses
  /\ \/ cut.by \in {"none", "erase"} \/ "dirty" \in Uses
     \/ cut.by = "reject" /\ begin <= cut.from /\ end = meta.previous

(* Mutant: the tail is not announced. *)
EraseReservesNothing(begin, end) ==
  /\ MayChange /\ Careful(begin, end)
  /\ begin < end /\ end <= meta.previous
  /\ meta' = [meta EXCEPT !.remove = meta.previous - begin,
                          !.reserve = <<end - begin, meta.previous - end>>]
  /\ cut' = [from |-> begin, to |-> end,
              by |-> IF cut.by = "reject" THEN "reject" ELSE "erase"]
  /\ skipped' = skipped + (end - begin) - Length(cut)
  /\ UNCHANGED <<lookAhead, cache, allSeqLen, last, kept>>

(* Llm::eraseHistory.  Only whole blocks can be erased before a tail that  *)
(* is kept ("Don't support not align reserve").                            *)
Erase(begin, end) ==
  /\ MayChange /\ Careful(begin, end)
  /\ begin < end /\ end <= meta.previous
  /\ IF end = meta.previous
     THEN meta' = [meta EXCEPT !.remove = meta.previous - begin]
     ELSE /\ begin % Align = 0 /\ end % Align = 0
          /\ meta' = [meta EXCEPT !.remove = meta.previous - begin,
                                  !.reserve = <<end - begin, meta.previous - end>>]
  /\ cut' = [from |-> begin, to |-> end,
              by |-> IF cut.by = "reject" THEN "reject" ELSE "erase"]
  /\ skipped' = skipped + (end - begin) - Length(cut)
  /\ UNCHANGED <<lookAhead, cache, allSeqLen, last, kept>>

(* Llm::reset *)
Reset ==
  /\ MayChange
  /\ meta' = [meta EXCEPT !.remove = meta.previous]
  /\ allSeqLen' = 0
  /\ cut' = All /\ skipped' = 0
  /\ UNCHANGED <<lookAhead, cache, last, kept>>

(* Llm::tuning with one candidate: with lookahead, one token and then as   *)
(* many as a round has; otherwise one.  All of them go.                    *)
Tune ==
  /\ MayChange
  /\ LET first == Attended(cache, meta, Base(meta), 1)
         m == Synced(meta, 1)
         n == IF lookAhead THEN 1 + DraftLength ELSE 1
     IN  /\ Base(meta) + n <= MaxToken
         /\ cache' = IF lookAhead THEN Attended(first, m, Base(meta) + 1, DraftLength) ELSE first
         /\ LET all == IF lookAhead THEN Synced(m, DraftLength) ELSE m
            IN  meta' = [all EXCEPT !.remove = all.previous]
         /\ last' = Base(meta) + n
         /\ kept' = Without(kept, cut) \o [i \in 1 .. n |-> Base(meta) + i]
  /\ allSeqLen' = 0
  /\ cut' = Last(Len(kept'), "reset") /\ skipped' = 0
  /\ UNCHANGED lookAhead

Next ==
  \/ \E n \in 1 .. MaxAdd : Continue(n) \/ \E reuse_kv \in BOOLEAN : Respond(n, reuse_kv)
  \/ Generate \/ Reset \/ Tune
  \/ \E n \in {1, DraftLength} : \E accepted \in 1 .. n : Speculate(accepted, n)
  \/ \E begin, end \in 0 .. MaxToken : Erase(begin, end)

Spec == Init /\ [][Next]_vars
-----------------------------------------------------------------------------
(* Every variable has its type. *)
TypeOK ==
  /\ meta \in [previous : 0 .. MaxToken, remove : 0 .. MaxToken,
               reserve : {<<>>} \cup ((1 .. MaxToken) \X (1 .. MaxToken))]
  /\ cache.past \in 0 .. MaxToken /\ cache.max \in 0 .. MaxToken + ExpandChunk
  /\ cache.max > 0 => cache.cells \in [0 .. cache.max - 1 -> 0 .. MaxToken]
  /\ cache.disk \in BOOLEAN
  /\ kept \in Seq(0 .. MaxToken) /\ cut.from <= cut.to /\ cut.to <= Len(kept)
  /\ lookAhead \in BOOLEAN /\ {allSeqLen, skipped} \subseteq Nat

(* The entries that the cache holds are those of the conversation, in      *)
(* order: prompts and answers less what was erased, whether the cache grew,*)
(* moved to disk or compacted since (KVCacheManager::onRealloc).           *)
HistoryKept ==
  /\ cache.past = Len(kept)
  /\ \A i \in 1 .. cache.past : Entry(cache, i - 1) = kept[i]

(* The position that the next token is given follows the positions of the  *)
(* conversation: all_seq_len, which forward, speculativeGenerate, reset    *)
(* and generate_init keep apart from KVMeta, is the number of entries that *)
(* remain once all that is given up is removed, plus what eraseHistory,    *)
(* which leaves all_seq_len alone, took out.                               *)
PositionsFollow == allSeqLen = Len(kept) - Length(cut) + skipped

(* Llm's account of the length is the cache's, whenever the cache is used  *)
(* again (MNN_ASSERT in CPUAttention::onExecute).                          *)
KVLengthAgrees == meta.previous # meta.remove => meta.previous = cache.past

(* The entries fit into the buffer, and a cache on disk is mapped over the *)
(* whole of its file: onPushBack and the kernels write up to max.          *)
FitsBuffer ==
  /\ cache.past <= cache.max
  /\ cache.disk => cache.mapped = cache.max /\ cache.file = cache.max
  /\ ~cache.disk => cache.mapped = 0 /\ cache.file = 0
=============================================================================

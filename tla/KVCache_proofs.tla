--------------------------- MODULE KVCache_proofs ---------------------------
(* Proofs about KVCache, for caches of any length, blocks, chunks and limits  *)
(* of any size and drafts of any number.  The user is careful, but may keep   *)
(* entries that were given up; only TypeCorrect, which says that no count is  *)
(* negative, excludes that.                                                   *)
EXTENDS KVCache, SequenceTheorems, TLAPS

-----------------------------------------------------------------------------
(* Lemmas about blocks.                                                       *)

LEMMA Division ==
    ASSUME NEW n \in Nat, NEW a \in Nat, a > 0,
           NEW q \in Int, q = n \div a, NEW r \in Int, r = n % a
    PROVE  q \in Nat /\ r \in 0 .. a - 1 /\ n = a * q + r
OBVIOUS

LEMMA Divided ==
    ASSUME NEW n \in Nat
    PROVE  \E q \in Nat, r \in 0 .. Align - 1 :
               q = n \div Align /\ r = n % Align /\ n = Align * q + r
<1> USE KVCacheAssumption
<1>1. PICK q \in Int : q = n \div Align OBVIOUS
<1>2. PICK r \in Int : r = n % Align OBVIOUS
<1> QED BY <1>1, <1>2, Division

LEMMA UpCovers == \A n \in Nat : Up(n) \in Nat /\ n <= Up(n)
<1> TAKE n \in Nat
<1> USE KVCacheAssumption
<1>1. n + Align - 1 \in Nat OBVIOUS
<1>2. PICK q \in Nat, r \in 0 .. Align - 1 :
          q = (n + Align - 1) \div Align /\ n + Align - 1 = Align * q + r
    BY <1>1, Divided
<1>3. Up(n) = q * Align BY <1>2 DEF Up
<1>4. q * Align = Align * q /\ Align * q \in Nat BY <1>2
<1> QED BY <1>2, <1>3, <1>4

LEMMA DownWhole == \A n \in Nat : n % Align = 0 => Down(n) = n
<1> SUFFICES ASSUME NEW n \in Nat, n % Align = 0 PROVE Down(n) = n OBVIOUS
<1>1. PICK q \in Nat : q = n \div Align /\ n = Align * q
    BY Divided, KVCacheAssumption
<1>2. q * Align = Align * q BY <1>1, KVCacheAssumption
<1> QED BY <1>1, <1>2 DEF Down

LEMMA UpWhole == \A n \in Nat : n % Align = 0 => Up(n) = n
<1> SUFFICES ASSUME NEW n \in Nat, n % Align = 0 PROVE Up(n) = n OBVIOUS
<1> USE KVCacheAssumption
<1>1. PICK q \in Nat : n = Align * q BY Divided
<1>2. n + Align - 1 \in Nat BY <1>1
<1>3. PICK p \in Nat, r \in 0 .. Align - 1 :
          p = (n + Align - 1) \div Align /\ n + Align - 1 = Align * p + r
    BY <1>2, Divided
<1>4. p = q
    <2>1. ASSUME p >= q + 1 PROVE FALSE
        <3>1. PICK d \in Nat : p = q + 1 + d BY <1>1, <1>3, <2>1
        <3>2. Align * p = Align * q + Align + Align * d /\ Align * d \in Nat
            BY <3>1, <1>1
        <3> QED BY <1>1, <1>3, <3>2
    <2>2. ASSUME q >= p + 1 PROVE FALSE
        <3>1. PICK d \in Nat : q = p + 1 + d BY <1>1, <1>3, <2>2
        <3>2. Align * q = Align * p + Align + Align * d /\ Align * d \in Nat
            BY <3>1, <1>3
        <3> QED BY <1>1, <1>3, <3>2
    <2> QED BY <1>1, <1>3, <2>1, <2>2
<1>5. p * Align = Align * q BY <1>1, <1>3, <1>4
<1> QED BY <1>1, <1>3, <1>5 DEF Up

-----------------------------------------------------------------------------
(* The invariant.                                                             *)

Contents == {<<>>} \cup UNION {[0 .. m - 1 -> 0 .. MaxToken] : m \in Nat}

CacheRec == [cells : Contents, past : Nat, max : Nat, disk : BOOLEAN, file : Nat, mapped : Nat]

(* The buffer is filled, and in the file exactly when it exceeds the limit.   *)
Sound(c) ==
    /\ c \in CacheRec
    /\ c.past <= c.max /\ c.max <= MaxToken + ExpandChunk
    /\ c.max > 0 => c.cells \in [0 .. c.max - 1 -> 0 .. MaxToken]
    /\ c.disk <=> Exceeds(c.max)
    /\ c.disk => c.mapped = c.max /\ c.file = c.max
    /\ ~c.disk => c.mapped = 0 /\ c.file = 0

(* A cache holds the tokens of a sequence, in order.                          *)
Holds(c, k) ==
    /\ Sound(c) /\ c.past = Len(k)
    /\ \A i \in 1 .. Len(k) : Entry(c, i - 1) = k[i]

Ranges == [from : Nat, to : Nat, by : {"none", "reset", "erase", "reject"}]
Metas == [previous : Nat, remove : Nat, reserve : {<<>>} \cup (Nat \X Nat)]

(* What KVMeta announces is the range that is to go: the end of a sequence of *)
(* length len, or whole blocks, not the first, before a tail that is kept.    *)
Announces(m, range, len) ==
    /\ m \in Metas /\ range \in Ranges
    /\ m.previous = len
    /\ range.from <= range.to /\ range.to <= len
    /\ \/ m.reserve = <<>> /\ m.remove = Length(range) /\ (range.to = len \/ m.remove = 0)
       \/ /\ m.remove = len - range.from
          /\ m.reserve = <<Length(range), len - range.to>>
          /\ 0 < range.from /\ range.from < range.to /\ range.to < len
          /\ range.from % Align = 0 /\ range.to % Align = 0

(* The tokens were numbered from 1 to last since the cache was empty.         *)
NumbersOK ==
    /\ kept \in Seq(0 .. MaxToken) /\ Len(kept) <= last /\ last <= MaxToken /\ last \in Nat

CountsOK ==
    /\ lookAhead \in BOOLEAN /\ allSeqLen \in Int /\ skipped \in Int
    /\ cut.by = "none" => cut = NoCut
    /\ PositionsFollow

(* A range that was erased was counted; no other is pending but from a reset  *)
(* or a rejection, which an erasure does not bring back.                      *)
SkippedOK ==
    /\ allSeqLen \in Nat /\ skipped \in Nat
    /\ cut.by = "erase" => Length(cut) <= skipped

HistoryInv ==
    /\ Holds(cache, kept) /\ Announces(meta, cut, Len(kept)) /\ NumbersOK /\ CountsOK
    /\ Uses = {} => SkippedOK

-----------------------------------------------------------------------------
(* What the operations of the cache do, one after the other.                  *)

LEMMA NothingExceeds == Exceeds(0) = FALSE
BY KVCacheAssumption DEF Exceeds, NoLimit

LEMMA MoreExceeds ==
    ASSUME NEW a \in Nat, NEW b \in Nat, a <= b, Exceeds(a) PROVE Exceeds(b)
BY KVCacheAssumption DEF Exceeds, NoLimit

LEMMA ClearedSound ==
    ASSUME NEW c, Sound(c) PROVE Sound(Cleared(c)) /\ Cleared(c).max = 0
<1> DEFINE d == Cleared(c)
<1>1. c \in CacheRec BY DEF Sound
<1>2. /\ d \in CacheRec /\ d.max = 0 /\ d.past = 0 /\ d.disk = FALSE
      /\ d.file = (IF c.disk THEN 0 ELSE c.file)
      /\ d.mapped = (IF c.disk THEN 0 ELSE c.mapped)
    BY <1>1 DEF Cleared, CacheRec, Contents
<1> HIDE DEF d
<1>3. Sound(d) BY <1>2, NothingExceeds, KVCacheAssumption DEF Sound
<1> QED BY <1>2, <1>3 DEF d

(* A buffer of some size, in the file or not.                                 *)
LEMMA OnDiskIs ==
    ASSUME NEW c \in CacheRec, NEW size \in Nat
    PROVE  LET d == OnDisk(c, size) IN
           /\ d \in CacheRec /\ d.max = c.max /\ d.past = c.past /\ d.cells = c.cells
           /\ d.disk /\ d.file = size
           /\ d.mapped = IF c.mapped = 0 THEN size ELSE c.mapped
BY DEF OnDisk, CacheRec

LEMMA InContents ==
    ASSUME NEW m \in Nat, NEW f \in [0 .. m - 1 -> 0 .. MaxToken] PROVE f \in Contents
BY DEF Contents

LEMMA AllocatedSound ==
    ASSUME NEW c, Sound(c), c.max = 0, NEW length \in 0 .. MaxToken
    PROVE  LET d == Allocated(c, length) IN
           Sound(d) /\ d.past = 0 /\ length <= d.max
<1> USE KVCacheAssumption
<1>1. c \in CacheRec /\ c.past = 0 /\ ~c.disk /\ c.mapped = 0 /\ c.file = 0
    BY NothingExceeds DEF Sound, CacheRec
<1>2. PICK size \in Nat : size = length + ExpandChunk OBVIOUS
<1>3. PICK f \in [0 .. size - 1 -> 0 .. MaxToken] : f = [i \in 0 .. size - 1 |-> Garbage]
    <2>1. Garbage \in 0 .. MaxToken BY DEF Garbage
    <2> QED BY <2>1
<1>4. PICK b \in CacheRec : b = [c EXCEPT !.max = size, !.cells = f]
    BY <1>1, <1>3, InContents DEF CacheRec
<1>5. /\ b.max = size /\ b.cells = f /\ b.past = 0 /\ ~b.disk /\ b.mapped = 0 /\ b.file = 0
    BY <1>1, <1>4 DEF CacheRec
<1>6. Allocated(c, length) = IF Exceeds(size) THEN OnDisk(b, size) ELSE b
    BY <1>2, <1>3, <1>4 DEF Allocated
<1>7. CASE Exceeds(size)
    <2>1. PICK d : d = OnDisk(b, size) OBVIOUS
    <2>2. /\ d \in CacheRec /\ d.max = size /\ d.past = 0 /\ d.cells = f
          /\ d.disk /\ d.file = size /\ d.mapped = size
        BY <1>5, <2>1, OnDiskIs
    <2>3. Sound(d) BY <1>2, <1>7, <2>2 DEF Sound
    <2> QED BY <1>2, <1>6, <1>7, <2>1, <2>2, <2>3
<1>8. CASE ~Exceeds(size)
    <2>1. Sound(b) BY <1>2, <1>5, <1>8 DEF Sound
    <2> QED BY <1>2, <1>5, <1>6, <1>8, <2>1
<1> QED BY <1>7, <1>8

(* When the cache grows, nothing that it holds is lost, whatever becomes of   *)
(* the file.                                                                  *)
LEMMA GrownSound ==
    ASSUME NEW c, Sound(c), NEW length \in 0 .. MaxToken
    PROVE  LET d == Grown(c, length) IN
           /\ Sound(d) /\ d.past = c.past /\ length <= d.max
           /\ \A i \in 0 .. c.max - 1 : Entry(d, i) = Entry(c, i)
<1> USE KVCacheAssumption
<1>1. c \in CacheRec /\ c.max \in Nat /\ c.past \in Nat BY DEF Sound, CacheRec
<1>2. CASE length <= c.max
    <2>1. Grown(c, length) = c BY <1>2 DEF Grown
    <2> QED BY <1>2, <2>1
<1>3. CASE ~(length <= c.max)
    <2>1. PICK size \in Nat : size = length + ExpandChunk OBVIOUS
    <2>2. c.max <= size BY <1>1, <1>3, <2>1
    <2>3. \A i \in 0 .. size - 1 : Entry(c, i) \in 0 .. MaxToken
        BY <1>1 DEF Sound, Entry, Garbage
    <2>4. PICK f \in [0 .. size - 1 -> 0 .. MaxToken] :
              f = [i \in 0 .. size - 1 |-> Entry(c, i)]
        BY <2>3
    <2>5. PICK b \in CacheRec : b = [c EXCEPT !.max = size, !.cells = f]
        BY <1>1, <2>4, InContents DEF CacheRec
    <2>6. /\ b.max = size /\ b.cells = f /\ b.past = c.past /\ b.disk = c.disk
          /\ b.mapped = c.mapped /\ b.file = c.file
        BY <1>1, <2>5 DEF CacheRec
    <2>7. PICK u \in CacheRec : u = [b EXCEPT !.mapped = 0]
        BY DEF CacheRec
    <2>8. /\ u.max = size /\ u.cells = f /\ u.past = c.past /\ u.mapped = 0
        BY <2>6, <2>7 DEF CacheRec
    <2>9. Grown(c, length) = IF ~Exceeds(size) THEN b
                             ELSE IF ~Exceeds(c.max) THEN OnDisk(b, size)
                             ELSE OnDisk(u, size)
        BY <1>3, <2>1, <2>4, <2>5, <2>7 DEF Grown
    <2>10. PICK d : d = Grown(c, length) OBVIOUS
    <2>11. d \in CacheRec /\ d.max = size /\ d.past = c.past /\ d.cells = f
        <3>1. \/ d = b \/ d = OnDisk(b, size) \/ d = OnDisk(u, size) BY <2>9, <2>10
        <3>2. CASE d = b BY <2>6, <3>2
        <3>3. CASE d = OnDisk(b, size) BY <2>6, <3>3, OnDiskIs
        <3>4. CASE d = OnDisk(u, size) BY <2>8, <3>4, OnDiskIs
        <3> QED BY <3>1, <3>2, <3>3, <3>4
    <2>12. /\ d.disk <=> Exceeds(size)
           /\ d.disk => d.mapped = size /\ d.file = size
           /\ ~d.disk => d.mapped = 0 /\ d.file = 0
        <3>1. CASE ~Exceeds(size)
            <4>1. ~Exceeds(c.max) BY <1>1, <2>2, <3>1, MoreExceeds
            <4>2. ~c.disk /\ c.mapped = 0 /\ c.file = 0 BY <4>1 DEF Sound
            <4> QED BY <2>6, <2>9, <2>10, <3>1, <4>2
        <3>2. CASE Exceeds(size) /\ ~Exceeds(c.max)
            <4>1. ~c.disk /\ c.mapped = 0 BY <3>2 DEF Sound
            <4>2. d = OnDisk(b, size) /\ b.mapped = 0 BY <2>6, <2>9, <2>10, <3>2, <4>1
            <4> QED BY <3>2, <4>2, OnDiskIs
        <3>3. CASE Exceeds(size) /\ Exceeds(c.max)
            <4>1. d = OnDisk(u, size) BY <2>9, <2>10, <3>3
            <4> QED BY <2>8, <3>3, <4>1, OnDiskIs
        <3> QED BY <3>1, <3>2, <3>3
    <2>13. c.past <= size /\ size <= MaxToken + ExpandChunk
        BY <1>1, <2>1, <2>2 DEF Sound
    <2>14. Sound(d) BY <2>11, <2>12, <2>13 DEF Sound
    <2>15. \A i \in 0 .. c.max - 1 : Entry(d, i) = Entry(c, i)
        BY <1>1, <2>2, <2>4, <2>11 DEF Entry
    <2> QED BY <2>1, <2>10, <2>11, <2>14, <2>15
<1> QED BY <1>2, <1>3

(* The end of the cache is removed, and what is reserved of it takes the      *)
(* place of the rest.                                                         *)
LEMMA RemovedSound ==
    ASSUME NEW c, Sound(c), NEW m, NEW range, Announces(m, range, c.past)
    PROVE  LET d == Removed(c, m) IN
           /\ Sound(d) /\ d.max = c.max /\ d.past = c.past - Length(range)
           /\ \A i \in 0 .. d.past - 1 :
                  Entry(d, i) = Entry(c, IF i < range.from THEN i ELSE i + Length(range))
<1> USE KVCacheAssumption
<1>1. c \in CacheRec /\ c.max \in Nat /\ c.past \in Nat /\ c.past <= c.max
    BY DEF Sound, CacheRec
<1>2. PICK f \in Nat, t \in Nat, len \in Nat : f = range.from /\ t = range.to /\ len = c.past
    BY <1>1 DEF Announces, Ranges
<1>3. f <= t /\ t <= len /\ Length(range) = t - f BY <1>2 DEF Announces, Length
<1>7. PICK x \in Nat : x = c.max BY <1>1
<1>4. PICK p \in Nat : p = len - (t - f) BY <1>1, <1>2, <1>3
<1>8. len <= x BY <1>1, <1>2, <1>7
<1>9. p <= len BY <1>3, <1>4
<1>5. CASE m.reserve = <<>>
    <2>1. m.remove = t - f /\ (t = len \/ t = f) BY <1>2, <1>3, <1>5 DEF Announces
    <2>2. PICK d \in CacheRec : d = [c EXCEPT !.past = p]
        BY <1>1 DEF CacheRec
    <2>3. /\ d.past = p /\ d.max = c.max /\ d.cells = c.cells
          /\ d.disk = c.disk /\ d.mapped = c.mapped /\ d.file = c.file
        BY <1>1, <2>2 DEF CacheRec
    <2>4. d = Removed(c, m)
        <3>1. c.past - m.remove = p BY <1>2, <1>4, <2>1
        <3> QED BY <1>5, <2>2, <3>1 DEF Removed, Ending
    <2>5. Sound(d) BY SMTT(30), <1>1, <1>2, <1>3, <1>4, <2>2, <2>3 DEF Sound
    <2>6. \A i \in 0 .. d.past - 1 :
              Entry(d, i) = Entry(c, IF i < range.from THEN i ELSE i + Length(range))
        BY <1>2, <1>3, <1>4, <2>1, <2>3 DEF Entry
    <2> QED BY <1>2, <1>3, <1>4, <2>3, <2>4, <2>5, <2>6
<1>6. CASE m.reserve # <<>>
    <2>1. /\ m.remove = len - f /\ m.reserve[1] = t - f /\ m.reserve[2] = len - t
          /\ 0 < f /\ f < t /\ t < len /\ f % Align = 0 /\ t % Align = 0
        BY <1>2, <1>3, <1>6 DEF Announces
    <2>2. Down(t) = t /\ Up(f) = f BY <2>1, DownWhole, UpWhole
    <2>3. PICK e \in Nat : e = Up(len) /\ len <= e BY UpCovers
    <2>4. x > 0 /\ c.cells \in [0 .. x - 1 -> 0 .. MaxToken]
        BY <1>1, <1>2, <1>7, <2>1 DEF Sound
    <2>5. \A i \in Int : Entry(c, i) \in 0 .. MaxToken
        BY <1>7, <2>4 DEF Entry, Garbage
    <2>6. PICK cells \in [0 .. x - 1 -> 0 .. MaxToken] :
              cells = [i \in DOMAIN c.cells |->
                         IF i \in f .. f + (e - t) - 1 THEN Entry(c, i - f + t) ELSE c.cells[i]]
        <3>1. ASSUME NEW i \in 0 .. x - 1
              PROVE  (IF i \in f .. f + (e - t) - 1 THEN Entry(c, i - f + t)
                      ELSE c.cells[i]) \in 0 .. MaxToken
            <4>1. i - f + t \in Int BY <1>1, <1>2
            <4> QED BY <1>1, <2>4, <2>5, <4>1
        <3>2. DOMAIN c.cells = 0 .. x - 1 BY <2>4
        <3> QED BY <3>1, <3>2
    <2>14. \A i \in 0 .. x - 1 : cells[i] = IF i \in f .. f + (e - t) - 1
                                            THEN Entry(c, i - f + t) ELSE c.cells[i]
        <3>1. DOMAIN c.cells = 0 .. x - 1 BY <2>4
        <3> QED BY <2>6, <3>1
    <2>7. PICK v \in CacheRec : v = [c EXCEPT !.cells = cells]
        BY <1>1, <2>6, InContents DEF CacheRec
    <2>8. PICK d \in CacheRec : d = [v EXCEPT !.past = p]
        BY <2>7 DEF CacheRec
    <2>9. /\ d.past = p /\ d.max = x /\ d.cells = cells
          /\ d.disk = c.disk /\ d.mapped = c.mapped /\ d.file = c.file
        BY <1>1, <1>7, <2>7, <2>8 DEF CacheRec
    <2>10. v = Moved(c, t, f, e - t) BY <2>6, <2>7 DEF Moved
    <2>11. d = Removed(c, m)
        <3>1. c.past - m.remove = f BY <1>2, <1>3, <2>1
        <3>2. f + m.reserve[1] = t /\ f + m.reserve[1] + m.reserve[2] = len
            BY <1>3, <2>1
        <3>3. ~(t <= f) BY <2>1
        <3>4. PICK y \in Nat : y = len - t /\ f + y = p BY <1>3, <1>4
        <3>5. (IF t <= f THEN c ELSE Moved(c, t, f, e - t)) = v BY <2>10, <3>3
        <3>6. Removed(c, m) = Ending(v, p) 
            BY <1>6, <2>1, <2>2, <2>3, <3>1, <3>2, <3>4, <3>5 DEF Removed
        <3> QED BY <2>8, <3>6 DEF Ending
    <2>12. Sound(d)
        <3>1. x <= MaxToken + ExpandChunk /\ (c.disk <=> Exceeds(x))
              /\ (c.disk => c.mapped = x /\ c.file = x) /\ (~c.disk => c.mapped = 0 /\ c.file = 0)
            BY <1>7 DEF Sound
        <3>2. p <= x BY <1>8, <1>9
        <3> QED BY <2>6, <2>8, <2>9, <3>1, <3>2 DEF Sound
    <2>13. ASSUME NEW i \in 0 .. d.past - 1
           PROVE  Entry(d, i) = Entry(c, IF i < range.from THEN i ELSE i + Length(range))
        <3>0. i \in 0 .. p - 1 /\ p <= x BY <1>8, <1>9, <2>9
        <3>1. i \in 0 .. x - 1 /\ Entry(d, i) = cells[i] BY <2>9, <3>0 DEF Entry
        <3>2. CASE i < f
            <4>1. cells[i] = c.cells[i] BY <2>14, <3>1, <3>2
            <4>2. Entry(c, i) = c.cells[i] BY <1>7, <3>1 DEF Entry
            <4> QED BY <1>2, <3>1, <3>2, <4>1, <4>2
        <3>3. CASE ~(i < f)
            <4>1. i \in f .. f + (e - t) - 1 BY <1>3, <1>4, <2>3, <2>9, <3>1, <3>3
            <4>2. cells[i] = Entry(c, i - f + t) BY <2>14, <3>1, <4>1
            <4>3. i - f + t = i + (t - f) BY <3>1
            <4> QED BY <1>2, <1>3, <3>1, <3>3, <4>2, <4>3
        <3> QED BY <3>1, <3>2, <3>3
    <2> QED BY <1>2, <1>3, <1>4, <1>7, <2>9, <2>11, <2>12, <2>13
<1> QED BY <1>5, <1>6

LEMMA PushedSound ==
    ASSUME NEW c, Sound(c), NEW base \in Nat, NEW n \in Nat \ {0},
           base + n <= MaxToken, c.past + n <= c.max
    PROVE  LET d == Pushed(c, base, n) IN
           /\ Sound(d) /\ d.past = c.past + n
           /\ \A i \in 0 .. c.past - 1 : Entry(d, i) = Entry(c, i)
           /\ \A i \in 1 .. n : Entry(d, c.past + i - 1) = base + i
<1> USE KVCacheAssumption
<1>1. c \in CacheRec BY DEF Sound
<1>0. PICK x \in Nat \ {0}, p \in Nat : /\ x = c.max /\ p = c.past /\ p + n <= x
                                       /\ c.cells \in [0 .. x - 1 -> 0 .. MaxToken]
    BY <1>1 DEF Sound, CacheRec
<1>2. PICK cells \in [0 .. x - 1 -> 0 .. MaxToken] :
          cells = [i \in DOMAIN c.cells |->
                     IF i \in p .. p + n - 1 THEN base + 1 + i - p ELSE c.cells[i]]
    <2>1. ASSUME NEW i \in 0 .. x - 1
          PROVE  (IF i \in p .. p + n - 1 THEN base + 1 + i - p ELSE c.cells[i])
                   \in 0 .. MaxToken
        <3>1. i \in p .. p + n - 1 => base + 1 + i - p \in 0 .. MaxToken OBVIOUS
        <3> QED BY <1>0, <3>1
    <2>2. DOMAIN c.cells = 0 .. x - 1 BY <1>0
    <2> QED BY <2>1, <2>2
<1>3. PICK d \in CacheRec : d = [c EXCEPT !.past = p + n, !.cells = cells]
    <2>1. PICK q \in Nat : q = p + n OBVIOUS
    <2>2. [c EXCEPT !.past = q, !.cells = cells] \in CacheRec
        BY <1>1, <1>2, InContents DEF CacheRec
    <2> QED BY <2>1, <2>2
<1>4. /\ d.past = p + n /\ d.max = x /\ d.cells = cells
      /\ d.disk = c.disk /\ d.mapped = c.mapped /\ d.file = c.file
    BY <1>0, <1>1, <1>3 DEF CacheRec
<1>5. d = Pushed(c, base, n) BY <1>0, <1>2, <1>3 DEF Pushed
<1>6. Sound(d) BY <1>0, <1>2, <1>3, <1>4 DEF Sound
<1>9. \A i \in 0 .. x - 1 : cells[i] = IF i \in p .. p + n - 1 THEN base + 1 + i - p
                                      ELSE c.cells[i]
    <2>1. DOMAIN c.cells = 0 .. x - 1 BY <1>0
    <2> QED BY <1>2, <2>1
<1>7. \A i \in 0 .. p - 1 : Entry(d, i) = Entry(c, i) BY <1>0, <1>4, <1>9 DEF Entry
<1>8. ASSUME NEW i \in 1 .. n PROVE Entry(d, p + i - 1) = base + i
    <2>1. PICK j \in 0 .. x - 1 : j = p + i - 1 /\ j \in p .. p + n - 1 BY SMTT(30), <1>0
    <2>2. cells[j] = base + 1 + j - p BY <1>9, <2>1
    <2>3. base + 1 + j - p = base + i BY <2>1
    <2> QED BY <1>4, <2>1, <2>2, <2>3 DEF Entry
<1> QED BY <1>0, <1>4, <1>5, <1>6, <1>7, <1>8

-----------------------------------------------------------------------------
(* The history.                                                               *)

Tokens == 0 .. MaxToken
Fresh(base, n) == [i \in 1 .. n |-> base + i]

LEMMA FreshIs ==
    ASSUME NEW base \in Nat, NEW n \in Nat, base + n <= MaxToken
    PROVE  Fresh(base, n) \in Seq(Tokens) /\ Len(Fresh(base, n)) = n
<1>1. Fresh(base, n) \in [1 .. n -> Tokens] BY KVCacheAssumption DEF Fresh, Tokens
<1> QED BY <1>1 DEF Fresh

LEMMA WithoutIs ==
    ASSUME NEW k \in Seq(Tokens), NEW range \in Ranges,
           range.from <= range.to, range.to <= Len(k)
    PROVE  LET w == Without(k, range) IN
           /\ w \in Seq(Tokens) /\ Len(w) = Len(k) - Length(range)
           /\ \A i \in 1 .. Len(w) :
                  w[i] = k[IF i <= range.from THEN i ELSE i + Length(range)]
<1>1. PICK f \in Nat, t \in Nat, len \in Nat : f = range.from /\ t = range.to /\ len = Len(k)
    BY DEF Ranges
<1>2. f <= t /\ t <= len /\ Length(range) = t - f BY <1>1 DEF Length
<1>3. PICK a \in Seq(Tokens) : /\ a = SubSeq(k, 1, f) /\ Len(a) = f
                               /\ \A i \in 1 .. f : a[i] = k[i]
    <2>1. \A i \in 1 .. f : k[i] \in Tokens BY <1>1, <1>2
    <2>2. /\ SubSeq(k, 1, f) \in Seq(Tokens) /\ Len(SubSeq(k, 1, f)) = f
          /\ \A i \in 1 .. f : SubSeq(k, 1, f)[i] = k[i]
        BY <1>1, <2>1, SubSeqProperties
    <2> QED BY <2>2
<1>4. PICK b \in Seq(Tokens) : /\ b = SubSeq(k, t + 1, len) /\ Len(b) = len - t
                               /\ \A i \in 1 .. len - t : b[i] = k[i + t]
    <2>1. PICK m \in Int : m = t + 1 BY <1>1
    <2>2. \A i \in m .. len : k[i] \in Tokens BY <1>1, <1>2, <2>1
    <2>3. /\ SubSeq(k, m, len) \in Seq(Tokens)
          /\ Len(SubSeq(k, m, len)) = IF m <= len THEN len - m + 1 ELSE 0
          /\ \A i \in 1 .. len - m + 1 : SubSeq(k, m, len)[i] = k[m + i - 1]
        <3>1. len \in Int OBVIOUS
        <3> QED BY <2>2, <3>1, SubSeqProperties
    <2>4. \A i \in 1 .. len - t : m + i - 1 = i + t BY <1>1, <2>1
    <2>5. Len(SubSeq(k, m, len)) = len - t /\ len - m + 1 = len - t
        BY <1>1, <1>2, <2>1, <2>3
    <2> DEFINE u == SubSeq(k, t + 1, len)
    <2>6. u \in Seq(Tokens) /\ Len(u) = len - t BY <2>1, <2>3, <2>5
    <2>7. \A i \in 1 .. len - t : u[i] = k[i + t] BY <2>1, <2>3, <2>4, <2>5
    <2> QED BY <2>6, <2>7
<1>5. Without(k, range) = a \o b BY <1>1, <1>3, <1>4 DEF Without
<1>6. /\ a \o b \in Seq(Tokens) /\ Len(a \o b) = len - (t - f)
      /\ \A i \in 1 .. f : (a \o b)[i] = k[i]
      /\ \A i \in f + 1 .. len - (t - f) : (a \o b)[i] = k[i + (t - f)]
    <2>1. /\ a \o b \in Seq(Tokens) /\ Len(a \o b) = f + (len - t)
          /\ \A i \in 1 .. f + (len - t) : (a \o b)[i] = IF i <= f THEN a[i] ELSE b[i - f]
        <3>1. /\ a \o b \in Seq(Tokens) /\ Len(a \o b) = Len(a) + Len(b)
              /\ \A i \in 1 .. Len(a) + Len(b) :
                     (a \o b)[i] = IF i <= Len(a) THEN a[i] ELSE b[i - Len(a)]
            BY ConcatProperties
        <3> QED BY <1>3, <1>4, <3>1
    <2>2. ASSUME NEW i \in f + 1 .. len - (t - f) PROVE (a \o b)[i] = k[i + (t - f)]
        <3>1. PICK j \in 1 .. len - t : j = i - f BY SMTT(30), <1>1, <1>2
        <3>2. j + t = i + (t - f) BY <1>1, <3>1
        <3>3. i \in 1 .. f + (len - t) /\ ~(i <= f) BY <1>2
        <3>4. (a \o b)[i] = b[i - f] BY <2>1, <3>3
        <3> QED BY <1>4, <3>1, <3>2, <3>4
    <2>3. \A i \in 1 .. f : i \in 1 .. f + (len - t) BY <1>2
    <2>4. \A i \in 1 .. f : (a \o b)[i] = k[i] BY <1>3, <2>1, <2>3
    <2>5. f + (len - t) = len - (t - f) OBVIOUS
    <2> QED BY <2>1, <2>2, <2>4, <2>5
<1>7. PICK l \in Nat : l = len - (t - f) BY <1>2
<1>8. \A i \in 1 .. l : (a \o b)[i] = k[IF i <= f THEN i ELSE i + (t - f)]
    <2> TAKE i \in 1 .. l
    <2>1. CASE i <= f
        <3>1. i \in 1 .. f BY <2>1
        <3> QED BY <1>6, <2>1, <3>1
    <2>2. CASE ~(i <= f)
        <3>1. i \in f + 1 .. len - (t - f) BY <1>7, <2>2
        <3> QED BY <1>6, <2>2, <3>1
    <2> QED BY <2>1, <2>2
<1> QED BY <1>1, <1>2, <1>5, <1>6, <1>7, <1>8

(* The history after a pass: less what is dropped, with n new tokens.         *)
After(k, range, base, n) == Without(k, range) \o Fresh(base, n)

Appended(h, w, base, n) ==
    /\ h \in Seq(Tokens) /\ Len(h) = Len(w) + n
    /\ \A i \in 1 .. Len(w) : h[i] = w[i]
    /\ \A i \in 1 .. n : h[Len(w) + i] = base + i

LEMMA AfterIs ==
    ASSUME NEW k \in Seq(Tokens), NEW range \in Ranges,
           range.from <= range.to, range.to <= Len(k),
           NEW base \in Nat, NEW n \in Nat, base + n <= MaxToken
    PROVE  Appended(After(k, range, base, n), Without(k, range), base, n)
<1>1. PICK w \in Seq(Tokens) : w = Without(k, range) BY WithoutIs
<1>2. PICK v \in Seq(Tokens) : v = Fresh(base, n) /\ Len(v) = n BY FreshIs
<1>3. PICK h : h = w \o v OBVIOUS
<1>4. /\ h \in Seq(Tokens) /\ Len(h) = Len(w) + n
      /\ \A i \in 1 .. Len(w) + n : h[i] = IF i <= Len(w) THEN w[i] ELSE v[i - Len(w)]
    <2>1. /\ w \o v \in Seq(Tokens) /\ Len(w \o v) = Len(w) + Len(v)
          /\ \A i \in 1 .. Len(w) + Len(v) :
                 (w \o v)[i] = IF i <= Len(w) THEN w[i] ELSE v[i - Len(w)]
        BY ConcatProperties
    <2> QED BY <1>2, <1>3, <2>1
<1>5. PICK l \in Nat : l = Len(w) OBVIOUS
<1>6. \A i \in 1 .. l : h[i] = w[i] BY <1>4, <1>5
<1>7. ASSUME NEW i \in 1 .. n PROVE h[l + i] = base + i
    <2>1. PICK j \in 1 .. l + n : j = l + i /\ ~(j <= l) /\ j - l = i OBVIOUS
    <2>2. h[j] = v[i] BY <1>4, <1>5, <2>1
    <2>3. v[i] = base + i BY <1>2 DEF Fresh
    <2> QED BY <2>1, <2>2, <2>3
<1>8. h = After(k, range, base, n) BY <1>1, <1>2, <1>3 DEF After
<1> QED BY <1>1, <1>4, <1>5, <1>6, <1>7, <1>8 DEF Appended

(* A cache that holds the history holds it after a pass, too, if KVMeta tells *)
(* it what to remove.                                                         *)
LEMMA AttendedHolds ==
    ASSUME NEW c, NEW k \in Seq(Tokens), Holds(c, k),
           NEW m, NEW range, Announces(m, range, Len(k)),
           NEW base \in Nat, NEW n \in Nat \ {0}, base + n <= MaxToken,
           Len(k) - Length(range) + n <= MaxToken
    PROVE  Holds(Attended(c, m, base, n), After(k, range, base, n))
<1> USE KVCacheAssumption
<1>1. range \in Ranges /\ range.from <= range.to /\ range.to <= Len(k)
    BY DEF Announces
<1>2. PICK f \in Nat, g \in Nat, len \in Nat :
          f = range.from /\ g = Length(range) /\ len = Len(k) /\ f + g <= len
    BY <1>1 DEF Ranges, Length
<1>3. PICK w \in Seq(Tokens) :
          /\ w = Without(k, range) /\ Len(w) = len - g
          /\ \A i \in 1 .. Len(w) : w[i] = k[IF i <= f THEN i ELSE i + g]
    BY <1>1, <1>2, WithoutIs
<1>4. PICK l \in Nat : l = Len(w) /\ l = len - g /\ l + n <= MaxToken BY <1>2, <1>3
<1>5. PICK h \in Seq(Tokens) :
          /\ h = After(k, range, base, n) /\ Len(h) = l + n
          /\ \A i \in 1 .. l : h[i] = w[i]
          /\ \A i \in 1 .. n : h[l + i] = base + i
    <2>1. n \in Nat OBVIOUS
    <2>2. PICK h : h = After(k, range, base, n) OBVIOUS
    <2>3. Appended(After(k, range, base, n), Without(k, range), base, n)
        BY <1>1, <2>1, AfterIs
    <2>4. Appended(h, w, base, n) BY <1>3, <2>2, <2>3
    <2> QED BY <1>4, <2>2, <2>4 DEF Appended
<1>6. Sound(c) /\ c.past = len /\ \A i \in 1 .. len : Entry(c, i - 1) = k[i]
    BY <1>2 DEF Holds
(* It is enough that a cache holds what remains and has room.                 *)
<1>7. ASSUME NEW b, Sound(b), b.past = l, l + n <= b.max,
             \A i \in 0 .. l - 1 : Entry(b, i) = w[i + 1]
      PROVE  Holds(Pushed(b, base, n), h)
    <2>1. PICK d : d = Pushed(b, base, n) OBVIOUS
    <2>2. /\ Sound(d) /\ d.past = l + n
          /\ \A i \in 0 .. l - 1 : Entry(d, i) = Entry(b, i)
          /\ \A i \in 1 .. n : Entry(d, l + i - 1) = base + i
        <3>1. b.past + n <= b.max BY <1>7
        <3>2. /\ Sound(d) /\ d.past = b.past + n
              /\ \A i \in 0 .. b.past - 1 : Entry(d, i) = Entry(b, i)
              /\ \A i \in 1 .. n : Entry(d, b.past + i - 1) = base + i
            <4>1. LET e == Pushed(b, base, n) IN
                  /\ Sound(e) /\ e.past = b.past + n
                  /\ \A i \in 0 .. b.past - 1 : Entry(e, i) = Entry(b, i)
                  /\ \A i \in 1 .. n : Entry(e, b.past + i - 1) = base + i
                BY ZenonT(40), <1>7, <3>1, PushedSound
            <4> QED BY <2>1, <4>1
        <3> QED BY <1>7, <3>2
    <2>3. ASSUME NEW i \in 1 .. l + n PROVE Entry(d, i - 1) = h[i]
        <3>1. CASE i <= l
            <4>1. i - 1 \in 0 .. l - 1 /\ i \in 1 .. l /\ i - 1 + 1 = i BY <3>1
            <4> QED BY <1>5, <1>7, <2>2, <4>1
        <3>2. CASE ~(i <= l)
            <4>1. PICK j \in 1 .. n : i = l + j /\ i - 1 = l + j - 1 BY <3>2
            <4> QED BY <1>5, <2>2, <4>1
        <3> QED BY <3>1, <3>2
    <2> QED BY <1>5, <2>1, <2>2, <2>3 DEF Holds
<1>8. m.previous = len /\ m.previous \in Nat /\ m.remove \in Nat
    BY <1>2 DEF Announces, Metas
<1>9. CASE m.previous = m.remove
    <2>1. l = 0
        <3>1. CASE m.reserve = <<>>
            <4>1. m.remove = g BY <1>2, <3>1 DEF Announces
            <4> QED BY <1>4, <1>8, <1>9, <4>1
        <3>2. CASE m.reserve # <<>>
            <4>1. m.remove = len - f /\ 0 < f BY <1>2, <3>2 DEF Announces
            <4> QED BY <1>8, <1>9, <4>1
        <3> QED BY <3>1, <3>2
    <2>2. PICK d : d = Cleared(c) OBVIOUS
    <2>3. Sound(d) /\ d.max = 0 BY <1>6, <2>2, ClearedSound
    <2>4. PICK b : b = Allocated(d, n) OBVIOUS
    <2>5. n \in 0 .. MaxToken BY <1>4
    <2>6. Sound(b) /\ b.past = 0 /\ n <= b.max BY <2>3, <2>4, <2>5, AllocatedSound
    <2>7. Holds(Pushed(b, base, n), h) BY <1>7, <2>1, <2>6
    <2> QED BY <1>5, <1>9, <2>2, <2>4, <2>7 DEF Attended
<1>10. CASE m.previous # m.remove
    <2>1. PICK length \in 0 .. MaxToken :
              length = m.previous + n - m.remove + ReserveSize(m) /\ length = l + n
        <3>1. CASE m.reserve = <<>>
            <4>1. m.remove = g /\ ReserveSize(m) = 0
                BY <1>2, <3>1 DEF Announces, ReserveSize
            <4> QED BY <1>4, <1>8, <4>1
        <3>2. CASE m.reserve # <<>>
            <4>1. m.remove = len - f /\ ReserveSize(m) = len - range.to
                BY SMTT(30), <1>2, <3>2 DEF Announces, ReserveSize
            <4>2. range.to = f + g BY <1>1, <1>2 DEF Length, Ranges
            <4>4. PICK y \in Nat : y = len - (f + g) BY SMTT(30), <1>2
            <4>5. ReserveSize(m) = y BY <4>1, <4>2, <4>4
            <4>6. PICK x \in Nat : x = len - f /\ m.remove = x BY SMTT(30), <1>2, <4>1
            <4>3. m.previous + n - m.remove + ReserveSize(m) = len + n - (len - f) + (len - (f + g))
                BY <1>8, <4>4, <4>5, <4>6
            <4>7. len + n - (len - f) + (len - (f + g)) = l + n BY <1>4
            <4> QED BY <1>4, <4>3, <4>7
        <3> QED BY <3>1, <3>2
    <2>2. PICK d : d = Grown(c, length) OBVIOUS
    <2>3. /\ Sound(d) /\ d.past = len /\ l + n <= d.max
          /\ \A i \in 0 .. c.max - 1 : Entry(d, i) = Entry(c, i)
        BY <1>6, <2>1, <2>2, GrownSound
    <2>4. PICK b : b = Removed(d, m) OBVIOUS
    <2>5. Announces(m, range, d.past) BY <1>2, <2>3
    <2>6. /\ Sound(b) /\ b.max = d.max /\ b.past = l
          /\ \A i \in 0 .. l - 1 : Entry(b, i) = Entry(d, IF i < f THEN i ELSE i + g)
        <3>1. /\ Sound(b) /\ b.max = d.max /\ b.past = d.past - Length(range)
              /\ \A i \in 0 .. b.past - 1 :
                     Entry(b, i) = Entry(d, IF i < range.from THEN i ELSE i + Length(range))
            BY <2>3, <2>4, <2>5, RemovedSound
        <3>2. b.past = l BY <1>2, <1>4, <2>3, <3>1
        <3> QED BY <1>2, <3>1, <3>2
    <2>7. len <= c.max /\ c.max \in Nat BY <1>6 DEF Sound, CacheRec
    <2>8. ASSUME NEW i \in 0 .. l - 1 PROVE Entry(b, i) = w[i + 1]
        <3>0. i \in 0 .. len - g - 1 BY <1>4
        <3>1. PICK j \in 0 .. len - 1 : j = IF i < f THEN i ELSE i + g
            <4>1. CASE i < f BY <1>2, <3>0, <4>1
            <4>2. CASE ~(i < f)
                <5>1. i + g \in 0 .. len - 1 BY <3>0
                <5> QED BY <4>2, <5>1
            <4> QED BY <4>1, <4>2
        <3>2. j + 1 = (IF i + 1 <= f THEN i + 1 ELSE i + 1 + g)
            <4>1. CASE i < f BY <3>0, <3>1, <4>1
            <4>2. CASE ~(i < f) BY <3>0, <3>1, <4>2
            <4> QED BY <4>1, <4>2
        <3>8. i + 1 \in 1 .. Len(w) BY <1>4
        <3>3. w[i + 1] = k[j + 1] BY <1>3, <3>2, <3>8
        <3>4. Entry(b, i) = Entry(d, j) BY <2>6, <3>1
        <3>5. Entry(d, j) = Entry(c, j) BY <2>3, <2>7
        <3>6. PICK x \in 1 .. len : x = j + 1 /\ x - 1 = j OBVIOUS
        <3>7. Entry(c, j) = k[j + 1] BY <1>6, <3>6
        <3> QED BY <3>3, <3>4, <3>5, <3>7
    <2>9. Holds(Pushed(b, base, n), h) BY <1>7, <2>3, <2>6, <2>8
    <2> QED BY <1>5, <1>10, <2>1, <2>2, <2>4, <2>9 DEF Attended
<1> QED BY <1>9, <1>10

LEMMA Remaining ==
    ASSUME NEW len \in Nat, NEW m, NEW range, Announces(m, range, len)
    PROVE  /\ len - Length(range) \in 0 .. len
           /\ m.previous = m.remove <=> Length(range) = len
<1>1. PICK f \in Nat, t \in Nat : f = range.from /\ t = range.to
    BY DEF Announces, Ranges
<1>2. f <= t /\ t <= len /\ Length(range) = t - f BY <1>1 DEF Announces, Length
<1>3. m.previous = len BY DEF Announces
<1>4. CASE m.reserve = <<>>
    <2>1. m.remove = t - f BY <1>1, <1>2, <1>4 DEF Announces
    <2> QED BY <1>2, <1>3, <2>1
<1>5. CASE m.reserve # <<>>
    <2>1. m.remove = len - f /\ 0 < f BY <1>1, <1>5 DEF Announces
    <2> QED BY <1>2, <1>3, <2>1
<1> QED BY <1>4, <1>5

(* KVMeta after a pass announces the length of the cache, and removes nothing.*)
LEMMA SyncedIs ==
    ASSUME NEW len \in Nat, NEW m, NEW range, Announces(m, range, len), NEW n \in Nat
    PROVE  Synced(m, n) = [previous |-> len - Length(range) + n, remove |-> 0, reserve |-> <<>>]
<1>1. PICK f \in Nat, t \in Nat : f = range.from /\ t = range.to
    BY DEF Announces, Ranges
<1>2. f <= t /\ t <= len /\ Length(range) = t - f BY <1>1 DEF Announces, Length
<1>3. m.previous = len BY DEF Announces
<1>4. CASE m.reserve = <<>>
    <2>1. m.remove = t - f BY <1>1, <1>2, <1>4 DEF Announces
    <2>2. ReserveSize(m) = 0 BY <1>4 DEF ReserveSize
    <2>3. m.previous - m.remove + n + ReserveSize(m) = len - (t - f) + n
        BY <1>3, <2>1, <2>2
    <2> QED BY <1>2, <2>3 DEF Synced
<1>5. CASE m.reserve # <<>>
    <2>1. m.remove = len - f /\ ReserveSize(m) = len - t
        BY <1>1, <1>2, <1>5 DEF Announces, ReserveSize
    <2>2. m.previous - m.remove + n + ReserveSize(m) = len - (t - f) + n BY <1>3, <2>1
    <2> QED BY <1>2, <2>2 DEF Synced
<1> QED BY <1>4, <1>5

LEMMA NoCutIs == NoCut \in Ranges /\ NoCut.from = 0 /\ NoCut.to = 0
BY DEF NoCut, Ranges

LEMMA NothingAnnounced ==
    ASSUME NEW len \in Nat, NEW m, m = [previous |-> len, remove |-> 0, reserve |-> <<>>]
    PROVE  Announces(m, NoCut, len)
BY DEF Announces, Metas, Ranges, NoCut, Length

(* A pass, for tokens after base: 0 if the cache starts anew, otherwise the   *)
(* last one.                                                                  *)
Passed(c, k, lst) ==
    /\ Holds(c, k) /\ k \in Seq(Tokens)
    /\ Len(k) <= lst /\ lst <= MaxToken /\ lst \in Nat

(* One forward pass, in the cache and in KVMeta, keeps the invariant.       *)
LEMMA PassKeeps ==
    ASSUME NEW c, NEW k, NEW lst, Passed(c, k, lst),
           NEW m, NEW range, Announces(m, range, Len(k)),
           NEW base, base = IF m.previous = m.remove THEN 0 ELSE lst,
           NEW n \in Nat \ {0}, base + n <= MaxToken
    PROVE  /\ Passed(Attended(c, m, base, n), After(k, range, base, n), base + n)
           /\ Len(After(k, range, base, n)) = Len(k) - Length(range) + n
<1>1. k \in Seq(Tokens) /\ Holds(c, k) /\ lst \in Nat /\ Len(k) <= lst BY DEF Passed
<1>2. base \in Nat BY <1>1
<1>3. PICK len \in Nat : len = Len(k) BY <1>1
<1>4. PICK l \in Nat : /\ l = len - Length(range) /\ l <= len
                       /\ m.previous = m.remove => l = 0
    <2>1. /\ len - Length(range) \in 0 .. len
          /\ m.previous = m.remove <=> Length(range) = len
        BY <1>3, Remaining
    <2> QED BY <2>1
<1>5. l <= base BY <1>1, <1>3, <1>4
<1>6. l + n <= MaxToken BY <1>2, <1>5, KVCacheAssumption
<1>7. Holds(Attended(c, m, base, n), After(k, range, base, n))
    BY <1>1, <1>2, <1>3, <1>4, <1>6, AttendedHolds
<1>8. range \in Ranges /\ range.from <= range.to /\ range.to <= Len(k)
    BY DEF Announces
<1>9. n \in Nat OBVIOUS
<1>10. Appended(After(k, range, base, n), Without(k, range), base, n)
    BY <1>1, <1>2, <1>8, <1>9, AfterIs
<1>11. Len(Without(k, range)) = l
    <2>1. Len(Without(k, range)) = Len(k) - Length(range) BY <1>1, <1>8, WithoutIs
    <2> QED BY <1>3, <1>4, <2>1
<1>12. PICK h \in Seq(Tokens) : h = After(k, range, base, n) /\ Len(h) = l + n
    BY <1>10, <1>11 DEF Appended
<1>13. Len(h) <= base + n /\ base + n \in Nat BY <1>2, <1>5, <1>12
<1>14. Passed(Attended(c, m, base, n), h, base + n) BY <1>7, <1>12, <1>13 DEF Passed
<1> QED BY <1>3, <1>4, <1>12, <1>14

(* Two passes that drop nothing in between add what one pass does.            *)
LEMMA TwoPasses ==
    ASSUME NEW k \in Seq(Tokens), NEW range \in Ranges,
           range.from <= range.to, range.to <= Len(k),
           NEW base \in Nat, NEW n \in Nat, base + 1 + n <= MaxToken
    PROVE  After(After(k, range, base, 1), NoCut, base + 1, n) = After(k, range, base, 1 + n)
<1> USE KVCacheAssumption
<1>1. PICK w \in Seq(Tokens) : w = Without(k, range) BY WithoutIs
<1>2. PICK l \in Nat : l = Len(w) OBVIOUS
<1>3. PICK g \in Seq(Tokens) : /\ g = After(k, range, base, 1) /\ Len(g) = l + 1
                               /\ \A i \in 1 .. l : g[i] = w[i]
                               /\ g[l + 1] = base + 1
    <2>1. Appended(After(k, range, base, 1), Without(k, range), base, 1) BY AfterIs
    <2> QED BY <1>1, <1>2, <2>1 DEF Appended
<1>4. PICK v \in Seq(Tokens) : /\ v = Without(g, NoCut) /\ Len(v) = l + 1
                               /\ \A i \in 1 .. l + 1 : v[i] = g[i]
    <2>1. PICK none \in Ranges : none = NoCut /\ none.from = 0 /\ none.to = 0
        BY NoCutIs
    <2>2. Length(none) = 0 BY <2>1 DEF Length
    <2>3. none.from <= none.to /\ none.to <= Len(g) BY <1>3, <2>1
    <2>4. /\ Without(g, none) \in Seq(Tokens)
          /\ Len(Without(g, none)) = Len(g) - Length(none)
          /\ \A i \in 1 .. Len(Without(g, none)) :
                 Without(g, none)[i] = g[IF i <= none.from THEN i ELSE i + Length(none)]
        BY <2>3, WithoutIs
    <2>5. PICK v \in Seq(Tokens) :
              /\ v = Without(g, NoCut) /\ Len(v) = l + 1
              /\ \A i \in 1 .. l + 1 : v[i] = g[IF i <= 0 THEN i ELSE i + 0]
        BY <1>3, <2>1, <2>2, <2>4
    <2>6. \A i \in 1 .. l + 1 : (IF i <= 0 THEN i ELSE i + 0) = i OBVIOUS
    <2> QED BY <2>5, <2>6
<1>5. PICK h \in Seq(Tokens) : /\ h = After(g, NoCut, base + 1, n) /\ Len(h) = l + 1 + n
                               /\ \A i \in 1 .. l + 1 : h[i] = v[i]
                               /\ \A i \in 1 .. n : h[l + 1 + i] = base + 1 + i
    <2>1. PICK none \in Ranges : none = NoCut /\ none.from = 0 /\ none.to = 0
        BY NoCutIs
    <2>2. PICK b \in Nat : b = base + 1 /\ b + n <= MaxToken OBVIOUS
    <2>3. none.from <= none.to /\ none.to <= Len(g) BY <1>3, <2>1
    <2>4. Appended(After(g, none, b, n), Without(g, none), b, n)
        BY <2>2, <2>3, AfterIs
    <2>5. PICK h : h = After(g, NoCut, base + 1, n) OBVIOUS
    <2>6. Appended(h, v, b, n) BY <1>4, <2>1, <2>2, <2>4, <2>5
    <2>7. /\ h \in Seq(Tokens) /\ Len(h) = l + 1 + n
          /\ \A i \in 1 .. l + 1 : h[i] = v[i]
          /\ \A i \in 1 .. n : h[l + 1 + i] = base + 1 + i
        BY <1>4, <2>2, <2>6 DEF Appended
    <2> QED BY <2>5, <2>7
<1>6. PICK u \in Seq(Tokens) : /\ u = After(k, range, base, 1 + n) /\ Len(u) = l + (1 + n)
                               /\ \A i \in 1 .. l : u[i] = w[i]
                               /\ \A i \in 1 .. 1 + n : u[l + i] = base + i
    <2>1. PICK x \in Nat : x = 1 + n OBVIOUS
    <2>2. base + x <= MaxToken BY <2>1
    <2>3. Appended(After(k, range, base, x), Without(k, range), base, x)
        BY <2>2, AfterIs
    <2> QED BY <1>1, <1>2, <2>1, <2>3 DEF Appended
<1>7. ASSUME NEW i \in 1 .. l + 1 + n PROVE h[i] = u[i]
    <2>1. CASE i <= l
        <3>1. i \in 1 .. l /\ i \in 1 .. l + 1 BY <2>1
        <3> QED BY <1>3, <1>4, <1>5, <1>6, <3>1
    <2>2. CASE i = l + 1
        <3>1. i \in 1 .. l + 1 /\ 1 \in 1 .. 1 + n BY <2>2
        <3> QED BY <1>3, <1>4, <1>5, <1>6, <2>2, <3>1
    <2>3. CASE i > l + 1
        <3>1. PICK j \in 1 .. n : i = l + 1 + j BY <2>3
        <3>2. PICK x \in 1 .. 1 + n : x = 1 + j /\ l + x = i /\ base + x = base + 1 + j
            BY <3>1
        <3>3. h[i] = base + 1 + j BY <1>5, <3>1
        <3>4. u[i] = base + 1 + j BY <1>6, <3>2
        <3> QED BY <3>3, <3>4
    <2> QED BY <2>1, <2>2, <2>3
<1>8. Len(h) = Len(u) /\ \A i \in 1 .. Len(h) : h[i] = u[i]
    <2>1. l + 1 + n = l + (1 + n) OBVIOUS
    <2> QED BY <1>5, <1>6, <1>7, <2>1
<1>9. h = u BY <1>8, SeqEqual
<1> QED BY <1>3, <1>5, <1>6, <1>9

-----------------------------------------------------------------------------
(* Every call keeps the invariant.                                            *)

LEMMA InitInv == Init => HistoryInv
<1> SUFFICES ASSUME Init PROVE HistoryInv OBVIOUS
<1> USE KVCacheAssumption
<1>1. kept = <<>> /\ Len(kept) = 0 /\ kept \in Seq(0 .. MaxToken) BY DEF Init
<1>2. PICK c : c = cache OBVIOUS
<1>3. c \in CacheRec /\ c.past = 0 /\ c.max = 0 /\ ~c.disk /\ c.file = 0 /\ c.mapped = 0
    BY <1>2 DEF Init, CacheRec, Contents
<1>4. Sound(c) BY <1>3, NothingExceeds DEF Sound
<1>5. Holds(cache, kept) BY <1>1, <1>2, <1>3, <1>4 DEF Holds
<1>6. Announces(meta, NoCut, 0) BY NothingAnnounced DEF Init
<1>7. cut = NoCut /\ NoCut.by = "none" /\ Length(NoCut) = 0 BY DEF Init, NoCut, Length
<1>8. CountsOK BY <1>1, <1>7 DEF Init, CountsOK, PositionsFollow
<1>9. NumbersOK BY <1>1 DEF Init, NumbersOK
<1>10. SkippedOK BY <1>7 DEF Init, SkippedOK
<1> QED BY <1>1, <1>5, <1>6, <1>7, <1>8, <1>9, <1>10 DEF HistoryInv

(* What a pass does to everything but KVMeta and the positions.               *)
LEMMA ComputedKeeps ==
    ASSUME HistoryInv, NEW m, NEW range, Announces(m, range, Len(kept)),
           NEW n \in Nat \ {0}, NEW pos, Computed(m, range, n, pos)
    PROVE  /\ Holds(cache', kept') /\ NumbersOK'
           /\ Len(kept') = Len(kept) - Length(range) + n
           /\ Synced(m, n) = [previous |-> Len(kept'), remove |-> 0, reserve |-> <<>>]
<1> USE KVCacheAssumption
<1>1. PICK c : c = cache OBVIOUS
<1>2. PICK k : k = kept OBVIOUS
<1>3. PICK lst : lst = last OBVIOUS
<1>4. PICK base : base = Base(m) OBVIOUS
<1>5. Passed(c, k, lst)
    BY <1>1, <1>2, <1>3 DEF HistoryInv, NumbersOK, Passed, Tokens
<1>6. base = IF m.previous = m.remove THEN 0 ELSE lst BY <1>3, <1>4 DEF Base
<1>7. base + n <= MaxToken BY <1>4 DEF Computed
<1>8. Announces(m, range, Len(k)) BY <1>2
<1>9. /\ Passed(Attended(c, m, base, n), After(k, range, base, n), base + n)
      /\ Len(After(k, range, base, n)) = Len(k) - Length(range) + n
    BY <1>5, <1>6, <1>7, <1>8, PassKeeps
<1>10. /\ cache' = Attended(c, m, base, n) /\ last' = base + n
       /\ kept' = After(k, range, base, n)
    BY <1>1, <1>2, <1>4 DEF Computed, After, Fresh
<1>11. Passed(cache', kept', last') BY <1>9, <1>10
<1>12. Len(kept') = Len(kept) - Length(range) + n BY <1>2, <1>9, <1>10
<1>13. Len(k) \in Nat BY <1>5 DEF Passed
<1>14. n \in Nat OBVIOUS
<1>15. Synced(m, n) = [previous |-> Len(k) - Length(range) + n, remove |-> 0, reserve |-> <<>>]
    BY <1>8, <1>13, <1>14, SyncedIs
<1> QED BY <1>2, <1>11, <1>12, <1>15 DEF Passed, NumbersOK, Tokens

LEMMA LengthKept == HistoryInv => Len(kept) \in Nat /\ kept \in Seq(Tokens)
BY KVCacheAssumption DEF HistoryInv, NumbersOK, Tokens

(* An ordinary pass drops what KVMeta announces, and adds the new tokens.     *)
LEMMA ForwardKeeps ==
    ASSUME HistoryInv, NEW m, NEW range, Announces(m, range, Len(kept)),
           NEW n \in Nat \ {0}, NEW pos, Forward(m, range, n, pos),
           UNCHANGED lookAhead, skipped' \in Int, pos \in Int,
           Uses = {} => skipped' \in Nat /\ pos \in Nat,
           pos = Len(kept) - Length(range) + skipped'
    PROVE  HistoryInv'
<1> USE KVCacheAssumption
<1>1. Computed(m, range, n, pos) BY DEF Forward
<1>2. /\ Holds(cache', kept') /\ NumbersOK'
      /\ Len(kept') = Len(kept) - Length(range) + n
      /\ Synced(m, n) = [previous |-> Len(kept'), remove |-> 0, reserve |-> <<>>]
    BY <1>1, ComputedKeeps
<1>3. meta' = Synced(m, n) /\ allSeqLen' = pos + n /\ cut' = NoCut BY DEF Forward
<1>4. Len(kept') \in Nat BY <1>2 DEF NumbersOK
<1>5. PICK len \in Nat : len = Len(kept') BY <1>4
<1>6. Announces(meta', NoCut, len) BY <1>2, <1>3, <1>5, NothingAnnounced
<1>7. Announces(meta', cut', Len(kept')) BY <1>3, <1>5, <1>6
<1>8. cut' = NoCut /\ NoCut.by = "none" /\ Length(NoCut) = 0 BY <1>3 DEF NoCut, Length
<1>9. PICK l \in Nat : l = Len(kept) BY LengthKept
<1>10. PICK g \in 0 .. l : g = Length(range)
    <2>1. l - Length(range) \in 0 .. l BY <1>9, Remaining
    <2>2. PICK f \in Nat, t \in Nat : f = range.from /\ t = range.to
        BY DEF Announces, Ranges
    <2> QED BY SMTT(30), <2>1, <2>2 DEF Length
<1>11. allSeqLen' = Len(kept') - Length(cut') + skipped'
    <2>1. PICK s \in Int, p \in Int : s = skipped' /\ p = pos /\ p = l - g + s
        BY <1>9, <1>10
    <2>2. Len(kept') = l - g + n BY <1>2, <1>9, <1>10
    <2>3. allSeqLen' = p + n BY <1>3, <2>1
    <2>4. Length(cut') = 0 BY <1>8
    <2> QED BY <2>1, <2>2, <2>3, <2>4
<1>12. allSeqLen' \in Int BY <1>3
<1>13. CountsOK'
    BY <1>8, <1>11, <1>12 DEF HistoryInv, CountsOK, PositionsFollow
<1>14. ASSUME Uses = {} PROVE SkippedOK'
    BY <1>3, <1>8, <1>14 DEF SkippedOK
<1> QED BY <1>2, <1>7, <1>13, <1>14 DEF HistoryInv

(* The whole history, given up by a reset.                                    *)
LEMMA AllAnnounced ==
    ASSUME NEW len \in Nat, NEW m \in Metas, m.previous = len, m.reserve = <<>>,
           NEW w, w = [m EXCEPT !.remove = m.previous],
           NEW range, range = [from |-> 0, to |-> len, by |-> "reset"]
    PROVE  Announces(w, range, len) /\ Length(range) = len
<1>1. w \in Metas /\ w.previous = len /\ w.remove = len /\ w.reserve = <<>>
    BY DEF Metas
<1>2. range \in Ranges /\ Length(range) = len BY DEF Ranges, Length
<1> QED BY <1>1, <1>2 DEF Announces

(* Who overrides nothing changes nothing while a tail is reserved.            *)
LEMMA NothingReserved == Uses \subseteq {"dirty"} /\ MayChange => meta.reserve = <<>>
BY DEF MayChange

LEMMA PositionsCounted ==
    ASSUME HistoryInv
    PROVE  /\ Announces(meta, cut, Len(kept))
           /\ allSeqLen = Len(kept) - Length(cut) + skipped
           /\ allSeqLen \in Int /\ skipped \in Int /\ lookAhead \in BOOLEAN
           /\ Uses = {} => allSeqLen \in Nat /\ skipped \in Nat
BY DEF HistoryInv, CountsOK, SkippedOK, PositionsFollow

LEMMA ContinueKeeps ==
    ASSUME HistoryInv, NEW n \in Nat \ {0}, Continue(n) PROVE HistoryInv'
<1>1. /\ Forward(meta, cut, n, allSeqLen) /\ UNCHANGED lookAhead /\ skipped' = skipped
    BY DEF Continue
<1> QED BY <1>1, PositionsCounted, ForwardKeeps

LEMMA RespondKeeps ==
    ASSUME Uses \subseteq {"dirty"}, HistoryInv,
           NEW n \in Nat \ {0}, NEW reuse_kv \in BOOLEAN, Respond(n, reuse_kv)
    PROVE  HistoryInv'
<1>1. CASE reuse_kv
    <2>1. Forward(meta, cut, n, allSeqLen) /\ UNCHANGED lookAhead /\ skipped' = skipped
        BY <1>1 DEF Respond
    <2> QED BY <2>1, PositionsCounted, ForwardKeeps
<1>2. CASE ~reuse_kv
    <2>1. /\ MayChange /\ Forward([meta EXCEPT !.remove = meta.previous], All, n, 0)
          /\ UNCHANGED lookAhead /\ skipped' = 0
        BY <1>2 DEF Respond
    <2>2. PICK w : w = [meta EXCEPT !.remove = meta.previous] OBVIOUS
    <2>3. PICK range : range = All OBVIOUS
    <2>4. PICK len \in Nat : len = Len(kept) BY LengthKept
    <2>5. PICK m \in Metas : m = meta /\ m.previous = len
        BY <2>4 DEF HistoryInv, Announces
    <2>6. m.reserve = <<>> BY <2>1, <2>5, NothingReserved
    <2>7. w = [m EXCEPT !.remove = m.previous] BY <2>2, <2>5
    <2>8. range = [from |-> 0, to |-> len, by |-> "reset"] BY <2>3, <2>4 DEF All
    <2>9. Announces(w, range, len) /\ Length(range) = len
        BY <2>5, <2>6, <2>7, <2>8, AllAnnounced
    <2>10. Announces(w, range, Len(kept)) BY <2>4, <2>9
    <2>11. Forward(w, range, n, 0) BY <2>1, <2>2, <2>3
    <2>12. 0 = Len(kept) - Length(range) + skipped' BY <2>1, <2>4, <2>9
    <2>13. skipped' \in Nat /\ skipped' \in Int /\ 0 \in Nat /\ 0 \in Int BY <2>1
    <2> QED BY <2>1, <2>10, <2>11, <2>12, <2>13, ForwardKeeps
<1> QED BY <1>1, <1>2

LEMMA GenerateKeeps ==
    ASSUME HistoryInv, Generate PROVE HistoryInv'
<1>1. /\ cut = NoCut /\ Forward([meta EXCEPT !.remove = 0], NoCut, 1, allSeqLen)
      /\ UNCHANGED lookAhead /\ skipped' = skipped
    BY DEF Generate
<1>2. PICK len \in Nat : len = Len(kept) BY LengthKept
<1>3. PICK m \in Metas : m = meta /\ Announces(m, NoCut, len)
    BY <1>1, <1>2 DEF HistoryInv, Announces
<1>4. PICK w : w = [m EXCEPT !.remove = 0] OBVIOUS
<1>5. Announces(w, NoCut, len)
    <2>1. w \in Metas /\ w.previous = m.previous /\ w.remove = 0 /\ w.reserve = m.reserve
        BY <1>4 DEF Metas
    <2>2. m.reserve = <<>> BY <1>3, NoCutIs DEF Announces
    <2>3. Length(NoCut) = 0 BY NoCutIs DEF Length
    <2> QED BY <1>3, <2>1, <2>2, <2>3, NoCutIs DEF Announces
<1>6. Announces(w, NoCut, Len(kept)) BY <1>2, <1>5
<1>7. Forward(w, NoCut, 1, allSeqLen) BY <1>1, <1>3, <1>4
<1>8. /\ allSeqLen = Len(kept) - Length(NoCut) + skipped' /\ allSeqLen \in Int
      /\ skipped' \in Int
      /\ Uses = {} => skipped' \in Nat /\ allSeqLen \in Nat
    BY <1>1, PositionsCounted
<1> QED BY <1>1, <1>6, <1>7, <1>8, ForwardKeeps

(* The entries of the drafts that are rejected stay, and are announced.       *)
LEMMA SpeculateKeeps ==
    ASSUME HistoryInv, NEW n \in Nat \ {0}, NEW accepted \in 1 .. n, Speculate(accepted, n)
    PROVE  HistoryInv'
<1>1. /\ Computed(meta, cut, n, allSeqLen)
      /\ meta' = [Synced(meta, n) EXCEPT !.remove = n - accepted]
      /\ allSeqLen' = allSeqLen + n - (n - accepted)
      /\ cut' = IF accepted = n THEN NoCut ELSE Last(n - accepted, "reject")
      /\ lookAhead' = lookAhead /\ skipped' = skipped
    BY DEF Speculate
<1>2. Announces(meta, cut, Len(kept)) BY PositionsCounted
<1>3. /\ Holds(cache', kept') /\ NumbersOK'
      /\ Len(kept') = Len(kept) - Length(cut) + n
      /\ Synced(meta, n) = [previous |-> Len(kept'), remove |-> 0, reserve |-> <<>>]
    BY <1>1, <1>2, ComputedKeeps
<1>4. PICK l \in Nat : l = Len(kept) BY LengthKept
<1>5. PICK rest \in Nat : rest = Len(kept) - Length(cut)
    <2>1. l - Length(cut) \in 0 .. l BY <1>2, <1>4, Remaining
    <2> QED BY <1>4, <2>1
<1>6. PICK len \in Nat : len = Len(kept') /\ len = rest + n BY <1>3, <1>5
<1>7. PICK r \in Nat : r = n - accepted /\ r < n OBVIOUS
<1>8. PICK w \in Metas : w = meta' /\ w.previous = len /\ w.remove = r /\ w.reserve = <<>>
    <2>1. Synced(meta, n) = [previous |-> len, remove |-> 0, reserve |-> <<>>]
        BY <1>3, <1>6
    <2>2. PICK m \in Metas : m = Synced(meta, n) /\ m.previous = len /\ m.reserve = <<>>
        BY <2>1 DEF Metas
    <2>3. meta' = [m EXCEPT !.remove = r] BY <1>1, <1>7, <2>2
    <2> QED BY <2>2, <2>3 DEF Metas
<1>9. PICK range \in Ranges : range = cut' /\ Length(range) = r /\ range.to <= len
                              /\ range.from <= range.to /\ (range.to = len \/ r = 0)
                              /\ (range = NoCut \/ range.by = "reject")
    <2>1. CASE accepted = n
        <3>1. cut' = NoCut /\ r = 0 BY <1>1, <1>7, <2>1
        <3>2. Length(NoCut) = 0 BY NoCutIs DEF Length
        <3> QED BY <3>1, <3>2, NoCutIs
    <2>2. CASE accepted # n
        <3>1. cut' = [from |-> len - r, to |-> len, by |-> "reject"]
            BY <1>1, <1>6, <1>7, <2>2 DEF Last
        <3>2. PICK f \in Nat : f = len - r BY <1>6, <1>7
        <3>3. PICK range : range = [from |-> f, to |-> len, by |-> "reject"] OBVIOUS
        <3>4. range \in Ranges /\ range.from = f /\ range.to = len /\ range.by = "reject"
            BY <3>3 DEF Ranges
        <3>5. Length(range) = r /\ f <= len BY <3>2, <3>4 DEF Length
        <3> QED BY <3>1, <3>2, <3>3, <3>4, <3>5
    <2> QED BY <2>1, <2>2
<1>10. Announces(meta', cut', Len(kept'))
    <2>1. Announces(w, range, len) BY <1>8, <1>9 DEF Announces
    <2> QED BY <1>6, <1>8, <1>9, <2>1
<1>11. /\ allSeqLen' = Len(kept') - Length(cut') + skipped' /\ allSeqLen' \in Int
       /\ Uses = {} => allSeqLen' \in Nat
    <2>1. PICK s \in Int, p \in Int : s = skipped /\ p = allSeqLen /\ p = rest + s
                                      /\ (Uses = {} => p \in Nat)
        BY <1>5, PositionsCounted
    <2>2. allSeqLen' = p + n - r BY <1>1, <1>7, <2>1
    <2>3. Len(kept') - Length(cut') + skipped' = rest + n - r + s
        BY <1>1, <1>6, <1>9, <2>1
    <2> QED BY <1>7, <2>1, <2>2, <2>3
<1>12. CountsOK'
    <2>1. (cut.by = "none" => cut = NoCut)' BY <1>9
    <2> QED BY <1>1, <1>11, <2>1, PositionsCounted DEF CountsOK, PositionsFollow
<1>13. ASSUME Uses = {} PROVE SkippedOK'
    <2>1. cut'.by # "erase"
        <3>1. NoCut.by = "none" BY DEF NoCut
        <3> QED BY <1>9, <3>1
    <2> QED BY <1>1, <1>11, <1>13, <2>1, PositionsCounted DEF SkippedOK
<1> QED BY <1>3, <1>10, <1>12, <1>13 DEF HistoryInv

(* An erasure announces its range, which is counted, even one that brings     *)
(* back entries that were given up: the count then goes below zero.           *)
LEMMA EraseKeeps ==
    ASSUME Uses \subseteq {"dirty"}, HistoryInv,
           NEW begin \in 0 .. MaxToken, NEW end \in 0 .. MaxToken, Erase(begin, end)
    PROVE  HistoryInv'
<1> USE KVCacheAssumption
<1>1. PICK len \in Nat : len = Len(kept) BY LengthKept
<1>2. PICK m \in Metas : m = meta /\ m.previous = len
    BY <1>1 DEF HistoryInv, Announces
<1>3. /\ MayChange /\ Careful(begin, end)
      /\ begin < end /\ end <= len
      /\ IF end = len THEN meta' = [m EXCEPT !.remove = len - begin]
         ELSE /\ begin % Align = 0 /\ end % Align = 0
              /\ meta' = [m EXCEPT !.remove = len - begin, !.reserve = <<end - begin, len - end>>]
      /\ cut' = [from |-> begin, to |-> end,
                  by |-> IF cut.by = "reject" THEN "reject" ELSE "erase"]
      /\ skipped' = skipped + (end - begin) - Length(cut)
    BY <1>2 DEF Erase
<1>4. lookAhead' = lookAhead /\ cache' = cache /\ allSeqLen' = allSeqLen /\ last' = last
      /\ kept' = kept
    BY DEF Erase
<1>5. m.reserve = <<>> BY <1>2, <1>3, NothingReserved
<1>6. /\ end = len \/ begin > 0
      /\ \/ Uses # {} \/ cut.by \in {"none", "erase"}
         \/ cut.by = "reject" /\ begin <= cut.from /\ end = len
    BY <1>2, <1>3 DEF Careful
<1>7. PICK range \in Ranges : /\ range = cut' /\ range.from = begin /\ range.to = end
                              /\ Length(range) = end - begin
                              /\ range.by = IF cut.by = "reject" THEN "reject" ELSE "erase"
    BY <1>3 DEF Ranges, Length
<1>8. Announces(meta', cut', Len(kept'))
    <2>1. PICK x \in Nat, y \in Nat, z \in Nat : x = len - begin /\ y = end - begin /\ z = len - end
        BY <1>3
    <2>2. CASE end = len
        <3>1. meta' = [m EXCEPT !.remove = x] BY <1>3, <2>1, <2>2
        <3>2. PICK w \in Metas : w = meta' /\ w.previous = len /\ w.remove = x /\ w.reserve = <<>>
            BY <1>2, <1>5, <3>1 DEF Metas
        <3>3. Announces(w, range, len) BY <1>3, <1>7, <2>1, <2>2, <3>2 DEF Announces
        <3> QED BY <1>1, <1>4, <1>7, <3>2, <3>3
    <2>3. CASE end # len
        <3>1. /\ meta' = [m EXCEPT !.remove = x, !.reserve = <<y, z>>]
              /\ begin % Align = 0 /\ end % Align = 0
            BY <1>3, <2>1, <2>3
        <3>2. PICK w \in Metas : /\ w = meta' /\ w.previous = len /\ w.remove = x
                                 /\ w.reserve = <<y, z>>
            <4>1. PICK u \in Nat \X Nat : u = <<y, z>> OBVIOUS
            <4>2. PICK w : w = [m EXCEPT !.remove = x, !.reserve = u] OBVIOUS
            <4>3. w \in Metas /\ w.previous = len /\ w.remove = x /\ w.reserve = u
                BY <1>2, <4>2 DEF Metas
            <4> QED BY <3>1, <4>1, <4>2, <4>3
        <3>3. 0 < begin /\ begin < end /\ end < len BY <1>3, <1>6, <2>3
        <3>4. Announces(w, range, len) BY <1>7, <2>1, <3>1, <3>2, <3>3 DEF Announces
        <3> QED BY <1>1, <1>4, <1>7, <3>2, <3>4
    <2> QED BY <2>2, <2>3
<1>9. PICK f \in Nat, t \in Nat, g \in Nat, s \in Int, p \in Int :
          /\ f = cut.from /\ t = cut.to /\ f <= t /\ t <= len /\ g = t - f /\ g = Length(cut)
          /\ s = skipped /\ p = allSeqLen /\ p = len - g + s
          /\ cut.by = "none" => g = 0
          /\ Uses = {} => s \in Nat /\ (cut.by = "erase" => g <= s)
    <2>1. PICK f \in Nat, t \in Nat : f = cut.from /\ t = cut.to /\ f <= t /\ t <= len
        BY <1>1 DEF HistoryInv, Announces, Ranges
    <2>2. PICK g \in Nat : g = t - f /\ g = Length(cut) BY <2>1 DEF Length
    <2>3. PICK s \in Int, p \in Int : s = skipped /\ p = allSeqLen /\ p = len - g + s
        BY <1>1, <2>2, PositionsCounted
    <2>4. cut.by = "none" => g = 0
        <3>1. Length(NoCut) = 0 BY NoCutIs DEF Length
        <3> QED BY <2>2, <3>1 DEF HistoryInv, CountsOK
    <2>5. Uses = {} => s \in Nat /\ (cut.by = "erase" => g <= s)
        BY <2>2, <2>3 DEF HistoryInv, SkippedOK
    <2> QED BY <2>1, <2>2, <2>3, <2>4, <2>5
<1>10. skipped' = s + (end - begin) - g BY <1>3, <1>9
<1>11. ASSUME Uses = {} PROVE skipped' \in Nat
    <2>1. CASE cut.by = "none" BY <1>3, <1>9, <1>10, <1>11, <2>1
    <2>2. CASE cut.by = "erase" BY <1>3, <1>9, <1>10, <1>11, <2>2
    <2>3. CASE cut.by = "reject"
        <3>1. begin <= f /\ end = len BY <1>6, <1>9, <1>11, <2>3
        <3> QED BY <1>3, <1>9, <1>10, <1>11, <3>1
    <2> QED BY <1>6, <1>11, <2>1, <2>2, <2>3
<1>12. ASSUME Uses = {} PROVE cut'.by = "erase" => Length(cut') <= skipped'
    <2>1. ASSUME cut'.by = "erase" PROVE g <= s
        <3>1. cut.by # "reject" BY <1>7, <2>1
        <3> QED BY <1>6, <1>9, <1>12, <3>1
    <2> QED BY <1>3, <1>7, <1>9, <1>10, <2>1
<1>13. allSeqLen' = Len(kept') - Length(cut') + skipped'
    <2>1. p = len - (end - begin) + (s + (end - begin) - g) BY <1>9
    <2> QED BY <1>1, <1>4, <1>7, <1>9, <1>10, <2>1
<1>14. CountsOK'
    <2>1. cut'.by # "none" BY <1>7
    <2>2. skipped' \in Int BY <1>9, <1>10
    <2> QED
        BY <1>4, <1>13, <2>1, <2>2, PositionsCounted DEF CountsOK, PositionsFollow
<1>15. Holds(cache', kept') /\ NumbersOK' BY <1>4 DEF HistoryInv, NumbersOK
<1>16. ASSUME Uses = {} PROVE SkippedOK'
    BY <1>4, <1>11, <1>12, <1>16, PositionsCounted DEF SkippedOK
<1> QED BY <1>8, <1>14, <1>15, <1>16 DEF HistoryInv

LEMMA ResetKeeps ==
    ASSUME Uses \subseteq {"dirty"}, HistoryInv, Reset PROVE HistoryInv'
<1>1. /\ MayChange /\ meta' = [meta EXCEPT !.remove = meta.previous]
      /\ allSeqLen' = 0 /\ cut' = All /\ skipped' = 0
      /\ lookAhead' = lookAhead /\ cache' = cache /\ last' = last /\ kept' = kept
    BY DEF Reset
<1>2. PICK len \in Nat : len = Len(kept) BY LengthKept
<1>3. PICK m \in Metas : m = meta /\ m.previous = len
    BY <1>2 DEF HistoryInv, Announces
<1>4. m.reserve = <<>> BY <1>1, <1>3, NothingReserved
<1>5. PICK w : w = meta' OBVIOUS
<1>6. w = [m EXCEPT !.remove = m.previous] BY <1>1, <1>3, <1>5
<1>7. PICK range : range = cut' OBVIOUS
<1>8. range = [from |-> 0, to |-> len, by |-> "reset"] BY <1>1, <1>2, <1>7 DEF All
<1>9. Announces(w, range, len) /\ Length(range) = len
    BY <1>3, <1>4, <1>6, <1>8, AllAnnounced
<1>10. Announces(meta', cut', Len(kept')) BY <1>1, <1>2, <1>5, <1>7, <1>9
<1>11. cut'.by = "reset" BY <1>7, <1>8
<1>12. CountsOK'
    <2>1. allSeqLen' = Len(kept') - Length(cut') + skipped' BY <1>1, <1>2, <1>7, <1>9
    <2> QED BY <1>1, <1>11, <2>1, PositionsCounted DEF CountsOK, PositionsFollow
<1>13. Holds(cache', kept') /\ NumbersOK' BY <1>1 DEF HistoryInv, NumbersOK
<1>14. SkippedOK' BY <1>1, <1>11 DEF SkippedOK
<1> QED BY <1>10, <1>12, <1>13, <1>14 DEF HistoryInv

(* Tuning makes one or two passes, and gives up all that there is then.       *)
LEMMA TuneKeeps ==
    ASSUME Uses \subseteq {"dirty"}, HistoryInv, Tune PROVE HistoryInv'
<1> USE KVCacheAssumption
<1>1. PICK c, k, lst, m, range : c = cache /\ k = kept /\ lst = last /\ m = meta /\ range = cut
    OBVIOUS
<1>2. PICK base, d : base = Base(m) /\ d = DraftLength OBVIOUS
<1>3. PICK c1, m1, k1 : /\ c1 = Attended(c, m, base, 1) /\ m1 = Synced(m, 1)
                        /\ k1 = After(k, range, base, 1)
    OBVIOUS
<1>4. /\ base + (IF lookAhead THEN 1 + d ELSE 1) <= MaxToken
      /\ cache' = IF lookAhead THEN Attended(c1, m1, base + 1, d) ELSE c1
      /\ meta' = [(IF lookAhead THEN Synced(m1, d) ELSE m1) EXCEPT
                      !.remove = (IF lookAhead THEN Synced(m1, d) ELSE m1).previous]
      /\ last' = base + (IF lookAhead THEN 1 + d ELSE 1)
      /\ kept' = After(k, range, base, IF lookAhead THEN 1 + d ELSE 1)
      /\ allSeqLen' = 0 /\ cut' = Last(Len(kept'), "reset") /\ skipped' = 0
      /\ lookAhead' = lookAhead
    BY <1>1, <1>2, <1>3 DEF Tune, After, Fresh
<1>5. lookAhead \in BOOLEAN BY PositionsCounted
<1>6. d \in Nat \ {0} /\ d \in Nat BY <1>2
<1>7. Passed(c, k, lst) BY <1>1 DEF HistoryInv, NumbersOK, Passed, Tokens
<1>8. Announces(m, range, Len(k)) BY <1>1 DEF HistoryInv
<1>9. base = IF m.previous = m.remove THEN 0 ELSE lst BY <1>1, <1>2 DEF Base
<1>10. base \in Nat BY <1>7, <1>9 DEF Passed
<1>11. base + 1 <= MaxToken BY <1>4, <1>5, <1>6, <1>10
<1>12. Passed(c1, k1, base + 1)
    BY <1>3, <1>7, <1>8, <1>9, <1>11, PassKeeps
<1>13. PICK len \in Nat : len = Len(k1) /\ m1 = [previous |-> len, remove |-> 0, reserve |-> <<>>]
                          /\ len > 0
    <2>1. Len(k1) = Len(k) - Length(range) + 1
        BY <1>3, <1>7, <1>8, <1>9, <1>11, PassKeeps
    <2>2. PICK l \in Nat : l = Len(k) BY <1>7 DEF Passed
    <2>3. l - Length(range) \in 0 .. l BY <1>8, <2>2, Remaining
    <2>4. m1 = [previous |-> l - Length(range) + 1, remove |-> 0, reserve |-> <<>>]
        BY <1>3, <1>8, <2>2, SyncedIs
    <2>5. PICK rest \in Nat : rest = l - Length(range) BY <2>3
    <2> QED BY <2>1, <2>2, <2>4, <2>5
(* What is left in both cases: a cache that holds a history, all given up.    *)
<1>14. ASSUME NEW h, NEW w, Passed(cache', h, last'), kept' = h,
              w = [previous |-> Len(h), remove |-> 0, reserve |-> <<>>],
              meta' = [w EXCEPT !.remove = w.previous]
       PROVE  HistoryInv'
    <2>1. PICK n \in Nat : n = Len(h) BY <1>14 DEF Passed
    <2>2. w \in Metas /\ w.previous = n /\ w.reserve = <<>> BY <1>14, <2>1 DEF Metas
    <2>3. PICK v : v = meta' OBVIOUS
    <2>4. PICK all : all = cut' OBVIOUS
    <2>5. all = [from |-> 0, to |-> n, by |-> "reset"]
        <3>1. n - n = 0 OBVIOUS
        <3> QED BY <1>4, <1>14, <2>1, <2>4, <3>1 DEF Last
    <2>6. v = [w EXCEPT !.remove = w.previous] BY <1>14, <2>3
    <2>7. Announces(v, all, n) /\ Length(all) = n BY <2>2, <2>5, <2>6, AllAnnounced
    <2>8. Announces(meta', cut', Len(kept')) BY <1>14, <2>1, <2>3, <2>4, <2>7
    <2>9. cut'.by = "reset" BY <2>4, <2>5
    <2>10. allSeqLen' = Len(kept') - Length(cut') + skipped'
        BY <1>4, <1>14, <2>1, <2>4, <2>7
    <2>11. CountsOK' BY <1>4, <1>5, <2>9, <2>10 DEF CountsOK, PositionsFollow
    <2>12. Holds(cache', kept') /\ NumbersOK'
        BY <1>14 DEF Passed, NumbersOK, Tokens
    <2>13. SkippedOK' BY <1>4, <2>9 DEF SkippedOK
    <2> QED BY <2>8, <2>11, <2>12, <2>13 DEF HistoryInv
<1>15. CASE ~lookAhead
    <2>1. cache' = c1 /\ last' = base + 1 /\ kept' = k1 BY <1>3, <1>4, <1>15
    <2>2. meta' = [m1 EXCEPT !.remove = m1.previous] BY <1>4, <1>15
    <2>3. m1 = [previous |-> Len(k1), remove |-> 0, reserve |-> <<>>] BY <1>13
    <2> QED BY <1>12, <1>14, <2>1, <2>2, <2>3
<1>16. CASE lookAhead
    <2>1. PICK b \in Nat : b = base + 1 /\ b + d <= MaxToken /\ last' = b + d
        <3>1. base + (1 + d) <= MaxToken /\ last' = base + (1 + d) BY <1>4, <1>16
        <3> QED BY <1>6, <1>10, <3>1
    <2>2. PICK none : none = NoCut OBVIOUS
    <2>3. Announces(m1, none, Len(k1)) BY <1>13, <2>2, NothingAnnounced
    <2>4. m1.previous = len /\ m1.remove = 0 BY <1>13
    <2>5. b = IF m1.previous = m1.remove THEN 0 ELSE b BY <1>13, <2>4
    <2>6. Passed(c1, k1, b) BY <1>12, <2>1
    <2>7. /\ Passed(Attended(c1, m1, b, d), After(k1, none, b, d), b + d)
          /\ Len(After(k1, none, b, d)) = Len(k1) - Length(none) + d
        BY <1>6, <2>1, <2>3, <2>5, <2>6, PassKeeps
    <2>8. After(k1, none, b, d) = After(k, range, base, 1 + d)
        <3>1. k \in Seq(Tokens) BY <1>7 DEF Passed
        <3>2. range \in Ranges /\ range.from <= range.to /\ range.to <= Len(k)
            BY <1>8 DEF Announces
        <3>3. base + 1 + d <= MaxToken BY <2>1
        <3>4. After(After(k, range, base, 1), NoCut, base + 1, d) = After(k, range, base, 1 + d)
            BY <1>6, <1>10, <3>1, <3>2, <3>3, TwoPasses
        <3> QED BY <1>3, <2>1, <2>2, <3>4
    <2>9. PICK h : h = kept' OBVIOUS
    <2>10. h = After(k1, none, b, d) BY <1>4, <1>16, <2>8, <2>9
    <2>11. Passed(cache', h, last')
        <3>1. cache' = Attended(c1, m1, b, d) BY <1>4, <1>16, <2>1
        <3> QED BY <2>1, <2>7, <2>10, <3>1
    <2>12. PICK w : w = Synced(m1, d) OBVIOUS
    <2>13. w = [previous |-> Len(h), remove |-> 0, reserve |-> <<>>]
        <3>1. Announces(m1, none, len) BY <1>13, <2>3
        <3>2. w = [previous |-> len - Length(none) + d, remove |-> 0, reserve |-> <<>>]
            BY <1>6, <2>12, <3>1, SyncedIs
        <3> QED BY <1>13, <2>7, <2>10, <3>2
    <2>14. meta' = [w EXCEPT !.remove = w.previous] BY <1>4, <1>16, <2>12
    <2> QED BY <1>14, <2>9, <2>11, <2>13, <2>14
<1> QED BY <1>5, <1>15, <1>16

LEMMA StutterKeeps == HistoryInv /\ UNCHANGED vars => HistoryInv'
BY DEF HistoryInv, NumbersOK, CountsOK, SkippedOK, PositionsFollow, vars

(* Every call keeps the invariant.                                          *)
LEMMA NextKeeps ==
    ASSUME Uses \subseteq {"dirty"}, HistoryInv, [Next]_vars PROVE HistoryInv'
<1> USE KVCacheAssumption
<1>1. CASE \E n \in 1 .. MaxAdd : Continue(n) \/ \E reuse_kv \in BOOLEAN : Respond(n, reuse_kv)
    <2>1. PICK n \in Nat \ {0} :
              Continue(n) \/ \E reuse_kv \in BOOLEAN : Respond(n, reuse_kv)
        BY <1>1
    <2> QED BY <2>1, ContinueKeeps, RespondKeeps
<1>2. CASE Generate BY <1>2, GenerateKeeps
<1>3. CASE Reset BY <1>3, ResetKeeps
<1>4. CASE Tune BY <1>4, TuneKeeps
<1>5. CASE \E n \in {1, DraftLength} : \E accepted \in 1 .. n : Speculate(accepted, n)
    <2>1. PICK n \in Nat \ {0} : \E accepted \in 1 .. n : Speculate(accepted, n)
        BY <1>5
    <2> QED BY <2>1, SpeculateKeeps
<1>6. CASE \E begin, end \in 0 .. MaxToken : Erase(begin, end)
    BY <1>6, EraseKeeps
<1>7. CASE UNCHANGED vars BY <1>7, StutterKeeps
<1> QED BY <1>1, <1>2, <1>3, <1>4, <1>5, <1>6, <1>7 DEF Next

-----------------------------------------------------------------------------
(* The theorems.                                                              *)

(* Whatever entries an erasure keeps that a reset or a round of lookahead gave *)
(* up, the cache holds the history, KVMeta announces the range that is to go,  *)
(* and the positions are counted, after every call.                            *)
THEOREM HistoryInvariant == ASSUME Uses \subseteq {"dirty"} PROVE Spec => []HistoryInv
<1>1. Init => HistoryInv BY InitInv
<1>2. HistoryInv /\ [Next]_vars => HistoryInv' BY NextKeeps
<1> QED BY <1>1, <1>2, PTL DEF Spec

(* Every variable of Llm, KVMeta and the cache has its type.                  *)
THEOREM TypeCorrect == ASSUME Uses = {} PROVE Spec => []TypeOK
<1> USE KVCacheAssumption
<1>1. ASSUME HistoryInv PROVE TypeOK
    <2>1. PICK len \in Nat, lst \in Nat :
              len = Len(kept) /\ lst = last /\ len <= lst /\ lst <= MaxToken
        BY <1>1, LengthKept DEF HistoryInv, NumbersOK
    <2>2. len \in 0 .. MaxToken BY <2>1
    <2>3. PICK c : c = cache OBVIOUS
    <2>4. Sound(c) /\ c.past = len BY <1>1, <2>1, <2>3 DEF HistoryInv, Holds
    <2>5. /\ c.past \in 0 .. MaxToken /\ c.max \in 0 .. MaxToken + ExpandChunk
          /\ c.max > 0 => c.cells \in [0 .. c.max - 1 -> 0 .. MaxToken]
          /\ c.disk \in BOOLEAN
        BY <2>2, <2>4 DEF Sound, CacheRec
    <2>6. PICK m \in Metas, range \in Ranges : m = meta /\ range = cut /\ Announces(m, range, len)
        BY <1>1, <2>1 DEF HistoryInv, Announces
    <2>7. PICK f \in Nat, t \in Nat : f = range.from /\ t = range.to /\ f <= t /\ t <= len
        BY <2>6 DEF Announces, Ranges
    <2>8. m.previous \in 0 .. MaxToken BY <2>2, <2>6 DEF Announces
    <2>9. /\ m.remove \in 0 .. MaxToken
          /\ m.reserve \in {<<>>} \cup ((1 .. MaxToken) \X (1 .. MaxToken))
        <3>1. CASE m.reserve = <<>>
            <4>1. m.remove = t - f BY <2>6, <2>7, <3>1 DEF Announces, Length
            <4> QED BY <2>2, <2>7, <3>1, <4>1
        <3>2. CASE m.reserve # <<>>
            <4>1. /\ m.remove = len - f /\ m.reserve = <<t - f, len - t>>
                  /\ f < t /\ t < len
                BY <2>6, <2>7, <3>2 DEF Announces, Length
            <4>2. PICK x \in 1 .. MaxToken, y \in 1 .. MaxToken : x = t - f /\ y = len - t
                BY <2>2, <2>7, <4>1
            <4> QED BY <2>2, <2>7, <4>1, <4>2
        <3> QED BY <3>1, <3>2
    <2>10. m \in [previous : 0 .. MaxToken, remove : 0 .. MaxToken,
                  reserve : {<<>>} \cup ((1 .. MaxToken) \X (1 .. MaxToken))]
        BY <2>6, <2>8, <2>9 DEF Metas
    <2>11. lookAhead \in BOOLEAN /\ allSeqLen \in Nat /\ skipped \in Nat
        BY <1>1, PositionsCounted
    <2>12. kept \in Seq(0 .. MaxToken) BY <1>1, LengthKept DEF Tokens
    <2> QED BY <2>1, <2>3, <2>5, <2>6, <2>7, <2>10, <2>11, <2>12 DEF TypeOK
<1>2. Spec => []HistoryInv BY HistoryInvariant
<1> QED BY <1>1, <1>2, PTL

(* What the cache holds is the conversation, in order, for prompts and        *)
(* answers of any length, blocks, chunks and limits of any size: growth, the  *)
(* move to a file, erasures with a tail and rejected drafts lose nothing and  *)
(* leave nothing behind (KVCacheManager::onRealloc).                          *)
THEOREM HistoryAlwaysKept == ASSUME Uses \subseteq {"dirty"} PROVE Spec => []HistoryKept
<1>1. ASSUME HistoryInv PROVE HistoryKept BY <1>1 DEF HistoryInv, Holds, HistoryKept
<1> QED BY <1>1, HistoryInvariant, PTL

(* KVMeta and the cache, which count the entries apart, agree whenever the    *)
(* cache is used again (CPUAttention::onExecute).                             *)
THEOREM LengthAlwaysAgrees == ASSUME Uses \subseteq {"dirty"} PROVE Spec => []KVLengthAgrees
<1>1. ASSUME HistoryInv PROVE KVLengthAgrees
    BY <1>1 DEF HistoryInv, Holds, Announces, KVLengthAgrees
<1> QED BY <1>1, HistoryInvariant, PTL

(* The entries fit into the buffer, and the mapping of a cache on disk is as  *)
(* long as its file and its buffer (KVCacheManager::onAlloc, onRealloc).      *)
THEOREM AlwaysFits == ASSUME Uses \subseteq {"dirty"} PROVE Spec => []FitsBuffer
<1>1. ASSUME HistoryInv PROVE FitsBuffer
    BY <1>1 DEF HistoryInv, Holds, Sound, FitsBuffer
<1> QED BY <1>1, HistoryInvariant, PTL

(* The next token's position follows those of the conversation, counting the  *)
(* gaps of eraseHistory, although Llm and KVMeta count apart.                 *)
THEOREM PositionsAlwaysFollow == ASSUME Uses \subseteq {"dirty"} PROVE Spec => []PositionsFollow
<1>1. ASSUME HistoryInv PROVE PositionsFollow BY <1>1 DEF HistoryInv, CountsOK
<1> QED BY <1>1, HistoryInvariant, PTL
=============================================================================

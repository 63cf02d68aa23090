----------------------- MODULE DeferAllocator_proofs -----------------------
(***************************************************************************)
(* Theorems about DeferAllocator, for any number of nodes and allocations  *)
(* and any sizes.                                                          *)
(*                                                                         *)
(* While the network is resized no chunk has an offset yet: compute makes  *)
(* them up from the fusions that happened meanwhile.  The invariant says   *)
(* that an assignment of places exists all the same:                       *)
(*   root[n]  the node on the list whose tree of fused nodes holds n;      *)
(*   pos[n]   where n begins, if the nodes of the list follow each other;  *)
(*   ord[n]   the position of a node in the list;                          *)
(*   dep[n]   how deep n is in its tree;                                   *)
(*   end      where the last node ends.                                    *)
(***************************************************************************)
EXTENDS DeferAllocator, FiniteSetTheorems, WellFoundedInduction, TLAPS

Lists ==
  [head : Node \cup {Nil}, tail : Node \cup {Nil},
   left : [Node -> Node \cup {Nil}], right : [Node -> Node \cup {Nil}],
   size : [Node -> Nat], offset : [Node -> Nat],
   children : [Node -> SUBSET Node], free : SUBSET Node]

Roots(root, N) == {n \in 1 .. N : root[n] = n}

(* The fused nodes form trees, whose roots are the nodes on the list. *)
Trees(l, N, root, dep) ==
  /\ \A n \in 1 .. N : root[n] \in 1 .. N /\ root[root[n]] = root[n]
  /\ \A n \in 1 .. N : root[n] # n => \E m \in Node : n \in l.children[m]
  /\ \A n, m \in Node : n \in l.children[m] =>
       /\ n \in 1 .. N /\ m \in 1 .. N
       /\ root[n] = root[m] /\ root[n] # n
       /\ dep[m] < dep[n]
  /\ \A n, m, k \in Node : n \in l.children[m] /\ n \in l.children[k] => m = k

(* The pointers make one list of the roots, in the order ord, and the      *)
(* places follow each other on it without a gap.                           *)
Chain(l, N, root, pos, ord, end) ==
  LET R == Roots(root, N) IN
  /\ \A n \in R :
       /\ l.right[n] = Nil <=> n = l.tail
       /\ l.left[n] = Nil <=> n = l.head
       /\ l.right[n] # Nil => /\ l.right[n] \in R /\ l.left[l.right[n]] = n
                              /\ ord[n] < ord[l.right[n]]
                              /\ pos[l.right[n]] = pos[n] + l.size[n]
       /\ l.left[n] # Nil => l.left[n] \in R /\ l.right[l.left[n]] = n
  /\ \A n, m \in R :
       /\ n # m => ord[n] # ord[m]
       /\ ord[n] < ord[m] => /\ l.right[n] # Nil
                             /\ ord[l.right[n]] <= ord[m]
                             /\ pos[n] + l.size[n] <= pos[m]
  /\ IF N = 0 THEN l.head = Nil /\ l.tail = Nil
     ELSE /\ l.head \in R /\ l.tail \in R
          /\ end = pos[l.tail] + l.size[l.tail]
          /\ \A n \in R : ord[l.head] <= ord[n]

(* What was fused lies behind its root and before the end. *)
Within(N, root, pos, end) ==
  \A x \in 1 .. N : pos[root[x]] <= pos[x] /\ pos[x] <= end

Offsets(l, pos) ==
  \A n, m \in Node : n \in l.children[m] => pos[n] = pos[m] + l.offset[n]

Ghosts == [Node -> Nat]

LEMMA NotNil == \A n \in Node : n # Nil
BY DeferAssumption DEF Node, Nil

-----------------------------------------------------------------------------
(* fuse_to_left, field by field. *)
Fuses(l, k, a, b) ==
  /\ k.right = Link(l.right, l.left[b], l.right[b])
  /\ k.left = Link(l.left, l.right[b], l.left[b])
  /\ k.tail = IF l.right[b] = Nil THEN l.left[b] ELSE l.tail
  /\ k.head = IF l.left[b] = Nil THEN l.right[b] ELSE l.head
  /\ k.size = [l.size EXCEPT ![a] = @ + l.size[b]]
  /\ k.offset = [l.offset EXCEPT ![b] = l.size[a]]
  /\ k.children = [l.children EXCEPT ![a] = @ \cup {b}]
  /\ k.free = l.free

(* What eraseNode changes.                                                  *)
LEMMA EraseFields ==
  ASSUME NEW l \in Lists, NEW n \in Node
  PROVE  /\ EraseNode(l, n) \in Lists
         /\ EraseNode(l, n).right = Link(l.right, l.left[n], l.right[n])
         /\ EraseNode(l, n).left = Link(l.left, l.right[n], l.left[n])
         /\ EraseNode(l, n).tail = IF l.right[n] = Nil THEN l.left[n] ELSE l.tail
         /\ EraseNode(l, n).head = IF l.left[n] = Nil THEN l.right[n] ELSE l.head
         /\ EraseNode(l, n).size = l.size /\ EraseNode(l, n).offset = l.offset
         /\ EraseNode(l, n).children = l.children /\ EraseNode(l, n).free = l.free
<1>1. PICK f : f = Link(l.right, l.left[n], l.right[n]) OBVIOUS
<1>2. PICK g : g = Link(l.left, l.right[n], l.left[n]) OBVIOUS
<1>3. PICK t : t = IF l.right[n] = Nil THEN l.left[n] ELSE l.tail OBVIOUS
<1>4. PICK h : h = IF l.left[n] = Nil THEN l.right[n] ELSE l.head OBVIOUS
<1>5. /\ f \in [Node -> Node \cup {Nil}] /\ g \in [Node -> Node \cup {Nil}]
      /\ t \in Node \cup {Nil} /\ h \in Node \cup {Nil}
  BY <1>1, <1>2, <1>3, <1>4 DEF Lists, Link
<1>6. EraseNode(l, n) = [l EXCEPT !.right = f, !.left = g, !.tail = t, !.head = h]
  BY <1>1, <1>2, <1>3, <1>4 DEF EraseNode, Lists
<1> HIDE DEF Link
<1>7. EraseNode(l, n) \in Lists BY <1>5, <1>6 DEF Lists
<1>8. LET e == EraseNode(l, n) IN
      /\ e.right = f /\ e.left = g /\ e.tail = t /\ e.head = h
      /\ e.size = l.size /\ e.offset = l.offset /\ e.children = l.children /\ e.free = l.free
  BY <1>6 DEF Lists
<1> QED BY <1>1, <1>2, <1>3, <1>4, <1>7, <1>8

(* What fuse_to_left changes.                                               *)
LEMMA FuseFields ==
  ASSUME NEW l \in Lists, NEW a \in Node, NEW b \in Node
  PROVE  FuseToLeft(l, a, b) \in Lists /\ Fuses(l, FuseToLeft(l, a, b), a, b)
<1>1. PICK o : o = [l.offset EXCEPT ![b] = l.size[a]] OBVIOUS
<1>2. PICK s : s = [l.size EXCEPT ![a] = @ + l.size[b]] OBVIOUS
<1>3. PICK c : c = [l.children EXCEPT ![a] = @ \cup {b}] OBVIOUS
<1>4. o \in [Node -> Nat] /\ s \in [Node -> Nat] /\ c \in [Node -> SUBSET Node]
  BY <1>1, <1>2, <1>3 DEF Lists
<1>5. PICK w : w = [l EXCEPT !.offset = o, !.size = s, !.children = c] OBVIOUS
<1>6. /\ w \in Lists
      /\ w.offset = o /\ w.size = s /\ w.children = c
      /\ w.left = l.left /\ w.right = l.right /\ w.head = l.head /\ w.tail = l.tail
      /\ w.free = l.free
  BY <1>4, <1>5 DEF Lists
<1>7. [l EXCEPT !.offset[b] = l.size[a], !.size[a] = @ + l.size[b],
                !.children[a] = @ \cup {b}] = w
  BY <1>1, <1>2, <1>3, <1>5 DEF Lists
<1>8. FuseToLeft(l, a, b) = EraseNode(w, b) BY <1>7 DEF FuseToLeft
<1> QED BY <1>1, <1>2, <1>3, <1>6, <1>8, EraseFields DEF Fuses

(* Two neighbours a and b of the list become one tree. *)
Merged(root, a, b) == [x \in Node |-> IF root[x] = b THEN a ELSE root[x]]
Deeper(root, dep, a, b) ==
  [x \in Node |-> IF root[x] = b THEN dep[x] + dep[a] + 1 ELSE dep[x]]

Neighbours(l, N, root, a, b) ==
  a \in Roots(root, N) /\ b \in Roots(root, N) /\ l.right[a] = b

LEMMA MergedRoots ==
  ASSUME NEW N \in 0 .. MaxNodes, NEW root \in [Node -> Node], NEW dep \in Ghosts,
         NEW a \in Roots(root, N), NEW b \in Roots(root, N), a # b
  PROVE  /\ Merged(root, a, b) \in [Node -> Node]
         /\ Deeper(root, dep, a, b) \in Ghosts
         /\ Roots(Merged(root, a, b), N) = Roots(root, N) \ {b}
<1>1. a \in Node /\ b \in Node /\ root[a] = a /\ root[b] = b
  BY DeferAssumption DEF Roots, Node
<1>2. \A x \in 1 .. N : x \in Node BY DeferAssumption DEF Node
<1>3. Merged(root, a, b) \in [Node -> Node] BY <1>1 DEF Merged
<1>4. Deeper(root, dep, a, b) \in Ghosts BY <1>1 DEF Deeper, Ghosts
<1>5. \A x \in 1 .. N : Merged(root, a, b)[x] = x <=> root[x] = x /\ x # b
  BY <1>1, <1>2 DEF Merged
<1> QED BY <1>3, <1>4, <1>5 DEF Roots

LEMMA FuseTrees ==
  ASSUME NEW l \in Lists, NEW k \in Lists, NEW N \in 0 .. MaxNodes,
         NEW root \in [Node -> Node], NEW dep \in Ghosts,
         NEW a \in Roots(root, N), NEW b \in Roots(root, N), a # b,
         Fuses(l, k, a, b), Trees(l, N, root, dep)
  PROVE  Trees(k, N, Merged(root, a, b), Deeper(root, dep, a, b))
<1> DEFINE r == Merged(root, a, b)
           d == Deeper(root, dep, a, b)
<1>1. /\ a \in 1 .. N /\ b \in 1 .. N /\ root[a] = a /\ root[b] = b
      /\ \A n \in 1 .. N : n \in Node
  BY DeferAssumption DEF Roots, Node
<1>2. \A x \in Node : /\ r[x] = IF root[x] = b THEN a ELSE root[x]
                      /\ d[x] = IF root[x] = b THEN dep[x] + dep[a] + 1 ELSE dep[x]
  BY DEF Merged, Deeper
<1>3. \A n, m \in Node : n \in k.children[m] <=> n \in l.children[m] \/ (n = b /\ m = a)
  BY <1>1 DEF Fuses, Lists
<1>4. \A m \in Node : b \notin l.children[m] BY <1>1 DEF Trees
<1>5. \A x \in Node : dep[x] \in Nat BY DEF Ghosts
<1> HIDE DEF r, d
<1>6. \A n \in 1 .. N : r[n] \in 1 .. N /\ r[r[n]] = r[n] BY <1>1, <1>2 DEF Trees
<1>7. \A n \in 1 .. N : r[n] # n => \E m \in Node : n \in k.children[m]
  <2> TAKE n \in 1 .. N
  <2>1. CASE n = b BY <2>1, <1>1, <1>3
  <2>2. CASE n # b BY <2>2, <1>1, <1>2, <1>3 DEF Trees
  <2> QED BY <2>1, <2>2
<1>8. ASSUME NEW n \in Node, NEW m \in Node, n \in k.children[m]
      PROVE  /\ n \in 1 .. N /\ m \in 1 .. N
             /\ r[n] = r[m] /\ r[n] # n
             /\ d[m] < d[n]
  <2>1. CASE n \in l.children[m]
    <3>1. /\ n \in 1 .. N /\ m \in 1 .. N
          /\ root[n] = root[m] /\ root[n] # n
          /\ dep[m] < dep[n]
      BY <2>1 DEF Trees
    <3> QED BY <3>1, <1>1, <1>2, <1>5
  <2>2. CASE n = b /\ m = a BY <2>2, <1>1, <1>2, <1>5
  <2> QED BY <2>1, <2>2, <1>3, <1>8
<1>9. \A n, m, h \in Node : n \in k.children[m] /\ n \in k.children[h] => m = h
  BY <1>3, <1>4 DEF Trees
<1>10. Trees(k, N, r, d) BY <1>6, <1>7, <1>8, <1>9 DEF Trees
<1> QED BY <1>10 DEF r, d

LEMMA FuseChain ==
  ASSUME NEW l \in Lists, NEW k \in Lists, NEW N \in 0 .. MaxNodes,
         NEW root \in [Node -> Node], NEW pos \in Ghosts, NEW ord \in Ghosts, NEW end \in Nat,
         NEW a \in Roots(root, N), NEW b \in Roots(root, N), l.right[a] = b,
         Fuses(l, k, a, b), Chain(l, N, root, pos, ord, end)
  PROVE  /\ Chain(k, N, Merged(root, a, b), pos, ord, end)
         /\ a # b
         /\ k.left[a] = l.left[a] /\ k.right[a] = l.right[b]
         /\ \A n \in Node : n # a /\ n # b => k.right[n] = l.right[n]
<1> DEFINE R == Roots(root, N)
           S == Roots(Merged(root, a, b), N)
           c == l.right[b]
<1>1. \A n \in R : n \in Node /\ n # Nil /\ n \in 1 .. N
  BY DeferAssumption DEF Roots, Node, Nil
<1>2. \A n \in Node : pos[n] \in Nat /\ ord[n] \in Nat /\ l.size[n] \in Nat
  BY DEF Ghosts, Lists
<1>3. /\ a # b /\ l.left[b] = a /\ ord[a] < ord[b] /\ pos[b] = pos[a] + l.size[a]
      /\ c # Nil => c \in R /\ l.left[c] = b /\ ord[b] < ord[c] /\ pos[c] = pos[b] + l.size[b]
      /\ c # a
  BY <1>1, <1>2 DEF Chain
<1>4. S = R \ {b} BY <1>3, MergedRoots DEF Ghosts
<1>5. /\ k.right = [l.right EXCEPT ![a] = c]
      /\ k.left = IF c = Nil THEN l.left ELSE [l.left EXCEPT ![c] = a]
      /\ k.tail = IF c = Nil THEN a ELSE l.tail
      /\ k.head = l.head
      /\ k.size = [l.size EXCEPT ![a] = @ + l.size[b]]
  BY <1>1, <1>3 DEF Fuses, Link
<1>6. \A n \in Node : /\ k.right[n] = IF n = a THEN c ELSE l.right[n]
                      /\ k.left[n] = IF n = c THEN a ELSE l.left[n]
                      /\ k.size[n] = IF n = a THEN l.size[a] + l.size[b] ELSE l.size[n]
  <2>1. a \in Node /\ b \in Node /\ a # Nil /\ (c # Nil => c \in Node) BY <1>1, <1>3
  <2>2. \A n \in Node : k.right[n] = IF n = a THEN c ELSE l.right[n]
    BY <2>1, <1>5 DEF Lists
  <2>3. \A n \in Node : k.left[n] = IF n = c THEN a ELSE l.left[n]
    <3>1. \A n \in Node : n # Nil BY DeferAssumption DEF Node, Nil
    <3>2. CASE c = Nil BY <3>1, <3>2, <1>5
    <3>3. CASE c # Nil
      <4>1. l.left \in [Node -> Node \cup {Nil}] BY DEF Lists
      <4> QED BY <4>1, <3>3, <2>1, <1>5
    <3> QED BY <3>2, <3>3
  <2>4. \A n \in Node : k.size[n] = IF n = a THEN l.size[a] + l.size[b] ELSE l.size[n]
    BY <2>1, <1>5 DEF Lists
  <2> QED BY <2>2, <2>3, <2>4
<1>7. ASSUME NEW n \in S
      PROVE  /\ k.right[n] = Nil <=> n = k.tail
             /\ k.left[n] = Nil <=> n = k.head
             /\ k.right[n] # Nil => /\ k.right[n] \in S /\ k.left[k.right[n]] = n
                                    /\ ord[n] < ord[k.right[n]]
                                    /\ pos[k.right[n]] = pos[n] + k.size[n]
             /\ k.left[n] # Nil => k.left[n] \in S /\ k.right[k.left[n]] = n
  <2>1. n \in R /\ n # b /\ n \in Node /\ a \in Node /\ b \in Node
    BY <1>1, <1>4
  <2>2. CASE n = a
    <3>1. k.right[n] = c /\ k.left[n] = l.left[a] BY <2>1, <2>2, <1>3, <1>6
    <3>2. l.left[a] # Nil => l.left[a] \in R /\ l.right[l.left[a]] = a /\ l.left[a] # b
      BY <1>1, <1>2, <1>3 DEF Chain
    <3>3. k.right[n] = Nil <=> n = k.tail BY <2>1, <2>2, <3>1, <1>1, <1>3, <1>5 DEF Chain
    <3>4. k.left[n] = Nil <=> n = k.head BY <2>1, <2>2, <3>1, <1>5 DEF Chain
    <3>5. k.right[n] # Nil => /\ k.right[n] \in S /\ k.left[k.right[n]] = n
                              /\ ord[n] < ord[k.right[n]]
                              /\ pos[k.right[n]] = pos[n] + k.size[n]
      BY <2>1, <2>2, <3>1, <1>1, <1>2, <1>3, <1>4, <1>6
    <3>6. l.left[a] # a BY <3>2, <1>1, <1>2, <1>3 DEF Chain
    <3>7. k.left[n] # Nil => k.left[n] \in S /\ k.right[k.left[n]] = n
      BY <2>1, <2>2, <3>1, <3>2, <3>6, <1>1, <1>4, <1>6
    <3> QED BY <3>3, <3>4, <3>5, <3>7
  <2>3. CASE n # a
    <3>1. /\ l.right[n] = Nil <=> n = l.tail
          /\ l.left[n] = Nil <=> n = l.head
          /\ l.right[n] # Nil => /\ l.right[n] \in R /\ l.left[l.right[n]] = n
                                 /\ ord[n] < ord[l.right[n]]
                                 /\ pos[l.right[n]] = pos[n] + l.size[n]
          /\ l.left[n] # Nil => l.left[n] \in R /\ l.right[l.left[n]] = n
      BY <2>1 DEF Chain
    <3>2. k.right[n] = l.right[n] /\ k.size[n] = l.size[n] BY <2>1, <2>3, <1>6
    <3>3. (l.right[n] # b /\ l.right[n] # c) \/ l.right[n] = Nil
      BY <2>1, <2>3, <3>1, <1>3
    <3>4. k.right[n] = Nil <=> n = k.tail
      <4>1. CASE c = Nil
        <5>1. b = l.tail BY <4>1 DEF Chain
        <5> QED BY <4>1, <5>1, <2>1, <2>3, <3>1, <3>2, <1>5
      <4>2. CASE c # Nil BY <4>2, <3>1, <3>2, <1>5
      <4> QED BY <4>1, <4>2
    <3>5. k.left[n] = Nil <=> n = k.head
      BY <2>1, <3>1, <1>1, <1>3, <1>5, <1>6 
    <3>6. k.right[n] # Nil => /\ k.right[n] \in S /\ k.left[k.right[n]] = n
                              /\ ord[n] < ord[k.right[n]]
                              /\ pos[k.right[n]] = pos[n] + k.size[n]
      BY <3>1, <3>2, <3>3, <1>1, <1>4, <1>6
    <3>7. k.left[n] # Nil => k.left[n] \in S /\ k.right[k.left[n]] = n
      <4>1. CASE n = c BY <4>1, <2>1, <1>1, <1>3, <1>4, <1>6
      <4>2. CASE n # c
        <5>1. k.left[n] = l.left[n] BY <4>2, <2>1, <1>6
        <5>2. l.left[n] # Nil => l.left[n] # b /\ l.left[n] # a
          BY <4>2, <3>1, <2>1
        <5> QED BY <5>1, <5>2, <3>1, <1>1, <1>4, <1>6
      <4> QED BY <4>1, <4>2
    <3> QED BY <3>4, <3>5, <3>6, <3>7
  <2> QED BY <2>2, <2>3
<1>8. ASSUME NEW n \in S, NEW m \in S
      PROVE  /\ n # m => ord[n] # ord[m]
             /\ ord[n] < ord[m] => /\ k.right[n] # Nil
                                   /\ ord[k.right[n]] <= ord[m]
                                   /\ pos[n] + k.size[n] <= pos[m]
  <2>1. n \in R /\ m \in R /\ n # b /\ m # b /\ n \in Node /\ m \in Node
    BY <1>1, <1>4
  <2>2. /\ n # m => ord[n] # ord[m]
        /\ ord[n] < ord[m] => /\ l.right[n] # Nil
                              /\ ord[l.right[n]] <= ord[m]
                              /\ pos[n] + l.size[n] <= pos[m]
    BY <2>1 DEF Chain
  <2>3. CASE n # a BY <2>1, <2>2, <2>3, <1>6
  <2>4. CASE n = a /\ ord[a] < ord[m]
    <3>1. ord[b] <= ord[m] BY <2>2, <2>4
    <3>2. ord[b] < ord[m]
      <4>1. b \in R /\ b \in Node BY <1>1
      <4>2. ord[b] # ord[m] BY <4>1, <2>1 DEF Chain
      <4> QED BY <4>1, <4>2, <3>1, <2>1, <1>2
    <3>3. /\ l.right[b] # Nil
          /\ ord[l.right[b]] <= ord[m]
          /\ pos[b] + l.size[b] <= pos[m]
      BY <3>2, <2>1 DEF Chain
    <3> QED BY <3>3, <2>1, <2>2, <2>4, <1>1, <1>2, <1>3, <1>6
  <2> QED BY <2>2, <2>3, <2>4
<1>9. IF N = 0 THEN k.head = Nil /\ k.tail = Nil
      ELSE /\ k.head \in S /\ k.tail \in S
           /\ end = pos[k.tail] + k.size[k.tail]
           /\ \A n \in S : ord[k.head] <= ord[n]
  <2>1. N # 0 BY <1>1
  <2>0. \A n \in S : ord[k.head] <= ord[n] BY <2>1, <1>4, <1>5 DEF Chain
  <2>2. l.head \in R /\ l.tail \in R /\ end = pos[l.tail] + l.size[l.tail]
    BY <2>1 DEF Chain
  <2>3. l.head # b BY <1>1, <1>3 DEF Chain
  <2>4. CASE c = Nil
    <3>1. l.tail = b BY <2>4 DEF Chain
    <3> QED BY <2>0, <2>1, <2>2, <2>3, <2>4, <3>1, <1>1, <1>2, <1>3, <1>4, <1>5, <1>6
  <2>5. CASE c # Nil
    <3>1. l.tail # b /\ l.tail # a BY <2>5, <1>1 DEF Chain
    <3> QED BY <2>0, <2>1, <2>2, <2>3, <2>5, <3>1, <1>1, <1>4, <1>5, <1>6
  <2> QED BY <2>4, <2>5
<1>10. Chain(k, N, Merged(root, a, b), pos, ord, end)
  BY <1>7, <1>8, <1>9 DEF Chain
<1> QED BY <1>1, <1>3, <1>6, <1>10

LEMMA FuseWithin ==
  ASSUME NEW l \in Lists, NEW N \in 0 .. MaxNodes,
         NEW root \in [Node -> Node], NEW dep \in Ghosts,
         NEW pos \in Ghosts, NEW ord \in Ghosts, NEW end \in Nat,
         NEW a \in Roots(root, N), NEW b \in Roots(root, N), l.right[a] = b,
         Trees(l, N, root, dep), Chain(l, N, root, pos, ord, end), Within(N, root, pos, end)
  PROVE  Within(N, Merged(root, a, b), pos, end)
<1>1. \A n \in 1 .. N : n \in Node BY DeferAssumption DEF Node
<1>2. \A n \in Node : pos[n] \in Nat /\ l.size[n] \in Nat BY DEF Ghosts, Lists
<1>3. b # Nil /\ a \in Node BY <1>1 DEF Roots, Nil
<1>4. pos[b] = pos[a] + l.size[a] BY <1>3 DEF Chain
<1>5. ASSUME NEW x \in 1 .. N
      PROVE  pos[Merged(root, a, b)[x]] <= pos[x] /\ pos[x] <= end
  <2>1. pos[root[x]] <= pos[x] /\ pos[x] <= end BY DEF Within
  <2>2. x \in Node /\ root[x] \in Node BY <1>1
  <2>3. CASE root[x] = b
    <3>1. Merged(root, a, b)[x] = a BY <2>2, <2>3 DEF Merged
    <3> QED BY <3>1, <2>1, <2>2, <2>3, <1>2, <1>3, <1>4
  <2>4. CASE root[x] # b
    <3>1. Merged(root, a, b)[x] = root[x] BY <2>2, <2>4 DEF Merged
    <3> QED BY <3>1, <2>1
  <2> QED BY <2>3, <2>4
<1> QED BY <1>5 DEF Within

LEMMA FuseOffsets ==
  ASSUME NEW l \in Lists, NEW k \in Lists, NEW N \in 0 .. MaxNodes,
         NEW root \in [Node -> Node], NEW dep \in Ghosts,
         NEW pos \in Ghosts, NEW ord \in Ghosts, NEW end \in Nat,
         NEW a \in Roots(root, N), NEW b \in Roots(root, N), l.right[a] = b,
         Fuses(l, k, a, b),
         Trees(l, N, root, dep), Chain(l, N, root, pos, ord, end), Offsets(l, pos)
  PROVE  Offsets(k, pos)
<1>1. a \in Node /\ b \in Node /\ b \in 1 .. N /\ root[b] = b
  BY DeferAssumption DEF Node, Roots
<1>2. b # Nil BY <1>1 DEF Nil
<1>3. pos[b] = pos[a] + l.size[a] BY <1>2 DEF Chain
<1>4. \A n, m \in Node : n \in k.children[m] <=> n \in l.children[m] \/ (n = b /\ m = a)
  BY <1>1 DEF Fuses, Lists
<1>5. \A m \in Node : b \notin l.children[m] BY <1>1 DEF Trees
<1>6. \A n \in Node : k.offset[n] = IF n = b THEN l.size[a] ELSE l.offset[n]
  BY <1>1 DEF Fuses, Lists
<1>7. ASSUME NEW n \in Node, NEW m \in Node, n \in k.children[m]
      PROVE  pos[n] = pos[m] + k.offset[n]
  <2>1. CASE n = b /\ m = a BY <2>1, <1>1, <1>3, <1>6
  <2>2. CASE n \in l.children[m]
    <3>1. n # b BY <2>2, <1>5
    <3>2. k.offset[n] = l.offset[n] BY <3>1, <1>6
    <3> QED BY <2>2, <3>2 DEF Offsets
  <2> QED BY <2>1, <2>2, <1>4, <1>7
<1> QED BY <1>7 DEF Offsets

-----------------------------------------------------------------------------
(* The chunks.  Two that met were in use at the same time. *)
Met(a, b) == {a, b} \in together /\ a # b

(* Chunks that met do not overlap where the places are, and keep apart     *)
(* wherever their trees move, since they lie in the order of their trees.  *)
Spread(root, pos, ord, end) ==
  /\ \A a \in 1 .. nallocs : nodeOf[a] \in 1 .. count /\ pos[nodeOf[a]] + sizeOf[a] <= end
  /\ \A a, b \in 1 .. nallocs : Met(a, b) =>
       /\ ord[root[nodeOf[a]]] < ord[root[nodeOf[b]]] =>
            pos[nodeOf[a]] + sizeOf[a] <= pos[nodeOf[b]]
       /\ root[nodeOf[a]] = root[nodeOf[b]] =>
            \/ pos[nodeOf[a]] + sizeOf[a] <= pos[nodeOf[b]]
            \/ pos[nodeOf[b]] + sizeOf[b] <= pos[nodeOf[a]]

LEMMA FuseSpread ==
  ASSUME NEW l \in Lists, TypeOK,
         NEW root \in [Node -> Node], NEW dep \in Ghosts,
         NEW pos \in Ghosts, NEW ord \in Ghosts, NEW end \in Nat,
         NEW a \in Roots(root, count), NEW b \in Roots(root, count), l.right[a] = b,
         Trees(l, count, root, dep), Chain(l, count, root, pos, ord, end),
         Spread(root, pos, ord, end)
  PROVE  Spread(Merged(root, a, b), pos, ord, end)
<1> DEFINE r == Merged(root, a, b)
           R == Roots(root, count)
<1>1. \A n \in 1 .. count : n \in Node BY DeferAssumption DEF Node, TypeOK
<1>2. \A n \in Node : ord[n] \in Nat BY DEF Ghosts
<1>3. a \in Node /\ b \in Node /\ b # Nil BY <1>1 DEF Roots, Nil
<1>4. ord[a] < ord[b] BY <1>3 DEF Chain
<1>5. \A n \in 1 .. count : root[n] \in R /\ root[n] \in Node
  BY <1>1 DEF Trees, Roots
<1>6. \A n \in 1 .. count : r[n] = IF root[n] = b THEN a ELSE root[n]
  BY <1>1 DEF Merged
<1>7. \A m \in R : ord[a] < ord[m] => ord[b] <= ord[m]
  BY <1>3 DEF Chain
<1>8. \A m, n \in R : m # n => ord[m] < ord[n] \/ ord[n] < ord[m]
  <2> TAKE m, n \in R
  <2>1. m # n => ord[m] # ord[n] BY DEF Chain
  <2>2. ord[m] \in Nat /\ ord[n] \in Nat BY <1>1, <1>2 DEF Roots
  <2> QED BY <2>1, <2>2
<1> HIDE DEF r
<1>9. ASSUME NEW c \in 1 .. nallocs, NEW d \in 1 .. nallocs, Met(c, d)
      PROVE  /\ ord[r[nodeOf[c]]] < ord[r[nodeOf[d]]] =>
                  pos[nodeOf[c]] + sizeOf[c] <= pos[nodeOf[d]]
             /\ r[nodeOf[c]] = r[nodeOf[d]] =>
                  \/ pos[nodeOf[c]] + sizeOf[c] <= pos[nodeOf[d]]
                  \/ pos[nodeOf[d]] + sizeOf[d] <= pos[nodeOf[c]]
  <2>1. PICK x \in 1 .. count, y \in 1 .. count : x = nodeOf[c] /\ y = nodeOf[d]
    BY DEF Spread
  <2>2. PICK f \in R, g \in R : f = root[x] /\ g = root[y] BY <1>5
  <2>3. /\ ord[f] < ord[g] => pos[x] + sizeOf[c] <= pos[y]
        /\ ord[g] < ord[f] => pos[y] + sizeOf[d] <= pos[x]
        /\ f = g => pos[x] + sizeOf[c] <= pos[y] \/ pos[y] + sizeOf[d] <= pos[x]
    <3>1. Met(d, c) BY <1>9 DEF Met
    <3> QED BY <3>1, <2>1, <2>2, <1>9 DEF Spread
  <2>4. /\ r[x] = IF f = b THEN a ELSE f
        /\ r[y] = IF g = b THEN a ELSE g
    BY <2>2, <1>6
  <2>5. ord[f] \in Nat /\ ord[g] \in Nat /\ ord[a] \in Nat /\ ord[b] \in Nat
    BY <2>2, <1>2, <1>3, <1>5
  <2>6. ord[r[x]] < ord[r[y]] => ord[f] < ord[g]
    BY <2>2, <2>4, <2>5, <1>4, <1>7, <1>8
  <2>7. r[x] = r[y] => f = g \/ ord[f] < ord[g] \/ ord[g] < ord[f] BY <1>8
  <2> QED BY <2>1, <2>3, <2>6, <2>7
<1>10. Spread(r, pos, ord, end) BY <1>9 DEF Spread
<1> QED BY <1>10 DEF r

-----------------------------------------------------------------------------
(* free of a node.  A plan is all that the places promise but the offsets, *)
(* which mean something else once compute ran.                             *)
Plan(l, root, pos, ord, dep, end) ==
  /\ Trees(l, count, root, dep)
  /\ Chain(l, count, root, pos, ord, end)
  /\ Within(count, root, pos, end)
  /\ Spread(root, pos, ord, end)

AfterFuse(l, k, root, pos, ord, end, a, b, r, d) ==
  /\ k \in Lists /\ Plan(k, r, pos, ord, d, end) /\ Offsets(k, pos)
  /\ Roots(r, count) = Roots(root, count) \ {b} /\ a # b
  /\ k.free = l.free /\ k.right[a] = l.right[b]
  /\ \A n \in Node : n # a => k.size[n] = l.size[n]
  /\ \A n \in Node : n # a /\ n # b => k.right[n] = l.right[n]

LEMMA FusePlan ==
  ASSUME NEW l \in Lists, TypeOK,
         NEW root \in [Node -> Node], NEW dep \in Ghosts,
         NEW pos \in Ghosts, NEW ord \in Ghosts, NEW end \in Nat,
         NEW a \in Roots(root, count), NEW b \in Roots(root, count), l.right[a] = b,
         Plan(l, root, pos, ord, dep, end), Offsets(l, pos),
         NEW k, k = FuseToLeft(l, a, b)
  PROVE  \E r \in [Node -> Node], d \in Ghosts :
           AfterFuse(l, k, root, pos, ord, end, a, b, r, d)
<1>1. a \in Node /\ b \in Node /\ count \in 0 .. MaxNodes
  BY DeferAssumption DEF Roots, Node, TypeOK
<1>2. k \in Lists /\ Fuses(l, k, a, b) BY <1>1, FuseFields
<1>3. Chain(l, count, root, pos, ord, end) /\ Trees(l, count, root, dep)
      /\ Within(count, root, pos, end) /\ Spread(root, pos, ord, end)
  BY DEF Plan
<1>4. /\ Chain(k, count, Merged(root, a, b), pos, ord, end)
      /\ a # b
      /\ k.right[a] = l.right[b]
      /\ \A n \in Node : n # a /\ n # b => k.right[n] = l.right[n]
  BY <1>1, <1>2, <1>3, FuseChain
<1>5. /\ Merged(root, a, b) \in [Node -> Node] /\ Deeper(root, dep, a, b) \in Ghosts
      /\ Roots(Merged(root, a, b), count) = Roots(root, count) \ {b}
  BY <1>1, <1>4, MergedRoots
<1>6. Trees(k, count, Merged(root, a, b), Deeper(root, dep, a, b))
  BY <1>1, <1>2, <1>3, <1>4, FuseTrees
<1>7. Within(count, Merged(root, a, b), pos, end) BY <1>1, <1>3, FuseWithin
<1>8. Offsets(k, pos) BY <1>1, <1>2, <1>3, FuseOffsets
<1>9. Spread(Merged(root, a, b), pos, ord, end) BY <1>3, FuseSpread
<1>10. k.free = l.free /\ \A n \in Node : n # a => k.size[n] = l.size[n]
  BY <1>1, <1>2 DEF Fuses, Lists
<1>11. Plan(k, Merged(root, a, b), pos, ord, Deeper(root, dep, a, b), end)
  BY <1>4, <1>6, <1>7, <1>9 DEF Plan
<1> QED BY <1>2, <1>4, <1>5, <1>8, <1>10, <1>11 DEF AfterFuse

(* Taking a node off the free list changes nothing else. *)
LEMMA FreeListApart ==
  ASSUME NEW l \in Lists, NEW s \in SUBSET Node, NEW k, k = [l EXCEPT !.free = s]
  PROVE  /\ k \in Lists /\ k.free = s
         /\ k.head = l.head /\ k.tail = l.tail /\ k.left = l.left /\ k.right = l.right
         /\ k.size = l.size /\ k.offset = l.offset /\ k.children = l.children
         /\ \A root, pos, ord, dep, end :
              Plan(l, root, pos, ord, dep, end) => Plan(k, root, pos, ord, dep, end)
         /\ \A pos : Offsets(l, pos) => Offsets(k, pos)
<1>1. k \in Lists /\ k.free = s
      /\ k.head = l.head /\ k.tail = l.tail /\ k.left = l.left /\ k.right = l.right
      /\ k.size = l.size /\ k.offset = l.offset /\ k.children = l.children
  BY DEF Lists
<1>2. ASSUME NEW root, NEW pos, NEW ord, NEW dep, NEW end, Plan(l, root, pos, ord, dep, end)
      PROVE  Plan(k, root, pos, ord, dep, end)
  <2>1. Trees(k, count, root, dep) BY <1>1, <1>2 DEF Plan, Trees
  <2>2. Chain(k, count, root, pos, ord, end) BY <1>1, <1>2 DEF Plan, Chain
  <2> QED BY <2>1, <2>2, <1>2 DEF Plan
<1>3. \A pos : Offsets(l, pos) => Offsets(k, pos) BY <1>1 DEF Offsets
<1> QED BY <1>1, <1>2, <1>3

(* What holds of the free list while n, which is being freed, is not on it. *)
KeptBut(l, root, n) ==
  /\ l.free \subseteq Roots(root, count) \ {n}
  /\ \A m \in Roots(root, count) : m # n =>
       /\ ~ usage[m] <=> m \in l.free
       /\ ~ usage[m] /\ l.right[m] # Nil /\ l.right[m] # n => usage[l.right[m]]

(* ... and its left neighbour is in use. *)
LeftUsed(l, root, n) == \A m \in Roots(root, count) : l.right[m] = n => usage[m]

AfterLeft(l, f, n, root, pos, ord, end, r, d) ==
  /\ f.list \in Lists /\ f.node \in Roots(r, count)
  /\ Plan(f.list, r, pos, ord, d, end) /\ Offsets(f.list, pos)
  /\ Roots(r, count) \subseteq Roots(root, count)
  /\ n \in Roots(r, count) => n = f.node
  /\ \A m \in Roots(root, count) : m # n /\ usage[m] =>
       m \in Roots(r, count) /\ m # f.node
  /\ \A m \in Node : m # f.node => f.list.size[m] = l.size[m]
  /\ KeptBut(f.list, r, f.node) /\ LeftUsed(f.list, r, f.node)
  /\ f.list.right[f.node] = l.right[n]
  /\ \A m \in Node \ Roots(root, count) : f.list.right[m] = l.right[m]

(* Fusing with a free node on the left keeps the plan.                      *)
LEMMA LeftStep ==
  ASSUME NEW l \in Lists, TypeOK,
         NEW root \in [Node -> Node], NEW dep \in Ghosts,
         NEW pos \in Ghosts, NEW ord \in Ghosts, NEW end \in Nat,
         Plan(l, root, pos, ord, dep, end), Offsets(l, pos),
         NEW n \in Roots(root, count), usage[n], KeptBut(l, root, n),
         NEW f, f = FusedLeft(l, n)
  PROVE  \E r \in [Node -> Node], d \in Ghosts :
           AfterLeft(l, f, n, root, pos, ord, end, r, d)
<1>0. PICK a : a = l.left[n] OBVIOUS
<1> DEFINE R == Roots(root, count)
<1>1. \A m \in R : m \in Node /\ m # Nil BY DeferAssumption DEF Roots, Node, Nil, TypeOK
<1>2. /\ a # Nil => a \in R /\ l.right[a] = n
      /\ \A m \in R : l.right[m] = n => l.left[n] = m
  BY <1>0, <1>1 DEF Plan, Chain
<1>3. CASE a # Nil /\ ~ usage[a]
  <2>1. PICK k : k = [l EXCEPT !.free = @ \ {a}] OBVIOUS
  <2>2. l.free \ {a} \in SUBSET Node BY DEF Lists
  <2>3. k = [l EXCEPT !.free = l.free \ {a}] BY <2>1 DEF Lists
  <2>4. /\ k \in Lists /\ k.free = l.free \ {a} /\ k.right = l.right /\ k.size = l.size
        /\ Plan(k, root, pos, ord, dep, end) /\ Offsets(k, pos)
    BY <2>2, <2>3, FreeListApart
  <2>5. f.list = FuseToLeft(k, a, n) /\ f.node = a BY <1>0, <1>3, <2>1 DEF FusedLeft
  <2>6. PICK r \in [Node -> Node], d \in Ghosts :
           /\ f.list \in Lists /\ Plan(f.list, r, pos, ord, d, end) /\ Offsets(f.list, pos)
           /\ Roots(r, count) = R \ {n} /\ a # n
           /\ f.list.free = k.free /\ f.list.right[a] = k.right[n]
           /\ \A m \in Node : m # a => f.list.size[m] = k.size[m]
           /\ \A m \in Node : m # a /\ m # n => f.list.right[m] = k.right[m]
    <3>1. a \in Roots(root, count) /\ k.right[a] = n BY <1>2, <1>3, <2>4
    <3>2. PICK g : g = f.list OBVIOUS
    <3>3. /\ k \in Lists /\ g = FuseToLeft(k, a, n)
          /\ Plan(k, root, pos, ord, dep, end) /\ Offsets(k, pos)
      BY <2>4, <2>5, <3>2
    <3>4. PICK r \in [Node -> Node], d \in Ghosts :
             AfterFuse(k, g, root, pos, ord, end, a, n, r, d)
      BY <3>1, <3>3, FusePlan
    <3>5. /\ f.list \in Lists /\ Plan(f.list, r, pos, ord, d, end) /\ Offsets(f.list, pos)
          /\ Roots(r, count) = R \ {n} /\ a # n
          /\ f.list.free = k.free /\ f.list.right[a] = k.right[n]
          /\ \A m \in Node : m # a => f.list.size[m] = k.size[m]
          /\ \A m \in Node : m # a /\ m # n => f.list.right[m] = k.right[m]
      BY <3>2, <3>4 DEF AfterFuse
    <3> QED BY <3>5
  <2>7. a \in R /\ a \in Node /\ n \in Node BY <1>1, <1>2, <1>3
  <2>8. KeptBut(f.list, r, a)
    <3>1. f.list.free \subseteq Roots(r, count) \ {a}
      BY <2>4, <2>6 DEF KeptBut
    <3>2. ASSUME NEW m \in Roots(r, count), m # a
          PROVE  /\ ~ usage[m] <=> m \in f.list.free
                 /\ ~ usage[m] /\ f.list.right[m] # Nil /\ f.list.right[m] # a
                      => usage[f.list.right[m]]
      <4>1. m \in R /\ m # n /\ m \in Node BY <2>6, <3>2, <1>1
      <4>2. f.list.right[m] = l.right[m] /\ l.right[m] # n
        <5>1. l.right[m] # n BY <4>1, <3>2, <1>0, <1>2
        <5> QED BY <5>1, <4>1, <3>2, <2>4, <2>6
      <4> QED BY <4>1, <4>2, <3>2, <2>4, <2>6 DEF KeptBut
    <3> QED BY <3>1, <3>2 DEF KeptBut
  <2>9. LeftUsed(f.list, r, a)
    <3> SUFFICES ASSUME NEW m \in Roots(r, count), f.list.right[m] = a PROVE usage[m]
      BY DEF LeftUsed
    <3>1. m \in R /\ m # n /\ m \in Node BY <2>6, <1>1
    <3>2. m # a
      <4>1. Chain(f.list, count, r, pos, ord, end) BY <2>6 DEF Plan
      <4>2. ord[m] < ord[a] BY <4>1, <2>7, <1>1 DEF Chain
      <4>3. ord[a] \in Nat BY <2>7 DEF Ghosts
      <4> QED BY <4>2, <4>3
    <3>3. l.right[m] = a BY <3>1, <3>2, <2>4, <2>6
    <3>4. m # n /\ ~ usage[m] /\ l.right[m] # Nil /\ l.right[m] # n => usage[l.right[m]]
      BY <3>1 DEF KeptBut
    <3> QED BY <3>1, <3>3, <3>4, <1>3, <2>6
  <2>10. \A m \in R : m # n /\ usage[m] => m \in Roots(r, count) /\ m # a
    BY <1>3, <2>6
  <2>11. n \notin Roots(r, count) /\ a \in Roots(r, count) BY <2>6, <2>7
  <2> QED BY <2>4, <2>5, <2>6, <2>7, <2>8, <2>9, <2>10, <2>11 DEF AfterLeft
<1>4. CASE ~ (a # Nil /\ ~ usage[a])
  <2>1. f.list = l /\ f.node = n BY <1>0, <1>4 DEF FusedLeft
  <2>2. LeftUsed(l, root, n)
    <3> SUFFICES ASSUME NEW m \in R, l.right[m] = n PROVE usage[m] BY DEF LeftUsed
    <3>1. m = a /\ m # Nil BY <1>0, <1>1, <1>2
    <3> QED BY <3>1, <1>4
  <2> QED BY <2>1, <2>2 DEF AfterLeft
<1> QED BY <1>3, <1>4

AfterRight(l, k, n, root, pos, ord, end, r, d) ==
  /\ k \in Lists /\ n \in Roots(r, count)
  /\ Plan(k, r, pos, ord, d, end) /\ Offsets(k, pos)
  /\ Roots(r, count) \subseteq Roots(root, count)
  /\ \A m \in Roots(root, count) : m # n /\ usage[m] => m \in Roots(r, count)
  /\ \A m \in Node : m # n => k.size[m] = l.size[m]
  /\ KeptBut(k, r, n) /\ LeftUsed(k, r, n)
  /\ k.right[n] # Nil => usage[k.right[n]]
  /\ \A m \in Node \ Roots(root, count) : k.right[m] = l.right[m]

(* Fusing with a free node on the right keeps the plan.                     *)
LEMMA RightStep ==
  ASSUME NEW l \in Lists, TypeOK,
         NEW root \in [Node -> Node], NEW dep \in Ghosts,
         NEW pos \in Ghosts, NEW ord \in Ghosts, NEW end \in Nat,
         Plan(l, root, pos, ord, dep, end), Offsets(l, pos),
         NEW n \in Roots(root, count), KeptBut(l, root, n), LeftUsed(l, root, n),
         NEW k, k = FusedRight(l, n, l.right[n])
  PROVE  \E r \in [Node -> Node], d \in Ghosts :
           AfterRight(l, k, n, root, pos, ord, end, r, d)
<1>0. PICK b : b = l.right[n] OBVIOUS
<1> DEFINE R == Roots(root, count)
<1>1. \A m \in R : m \in Node /\ m # Nil BY DeferAssumption DEF Roots, Node, Nil, TypeOK
<1>2. Chain(l, count, root, pos, ord, end) BY DEF Plan
<1>3. b # Nil => b \in R /\ l.left[b] = n BY <1>0, <1>2 DEF Chain
<1>4. CASE b # Nil /\ ~ usage[b]
  <2>1. PICK g : g = [l EXCEPT !.free = @ \ {b}] OBVIOUS
  <2>2. l.free \ {b} \in SUBSET Node BY DEF Lists
  <2>3. g = [l EXCEPT !.free = l.free \ {b}] BY <2>1 DEF Lists
  <2>4. /\ g \in Lists /\ g.free = l.free \ {b} /\ g.right = l.right /\ g.size = l.size
        /\ Plan(g, root, pos, ord, dep, end) /\ Offsets(g, pos)
    BY <2>2, <2>3, FreeListApart
  <2>5. k = FuseToLeft(g, n, b) BY <1>0, <1>4, <2>1 DEF FusedRight
  <2>6. PICK r \in [Node -> Node], d \in Ghosts :
           /\ k \in Lists /\ Plan(k, r, pos, ord, d, end) /\ Offsets(k, pos)
           /\ Roots(r, count) = R \ {b} /\ n # b
           /\ k.free = g.free /\ k.right[n] = g.right[b]
           /\ \A m \in Node : m # n => k.size[m] = g.size[m]
           /\ \A m \in Node : m # n /\ m # b => k.right[m] = g.right[m]
    <3>1. b \in Roots(root, count) /\ g.right[n] = b BY <1>0, <1>3, <1>4, <2>4
    <3>2. PICK r \in [Node -> Node], d \in Ghosts :
             AfterFuse(g, k, root, pos, ord, end, n, b, r, d)
      BY <3>1, <2>4, <2>5, FusePlan
    <3> QED BY <3>2 DEF AfterFuse
  <2>7. b \in R /\ b \in Node /\ n \in Node BY <1>1, <1>3, <1>4
  <2>8. \A m \in R : m # n => l.right[m] # b
    BY <2>7, <1>0, <1>1, <1>2, <1>3 DEF Chain
  <2>9. l.right[b] # n
    <3>1. l.right[b] = n => ord[b] < ord[n] BY <2>7, <1>1, <1>2 DEF Chain
    <3>2. ord[n] < ord[b] BY <1>0, <1>2, <1>4 DEF Chain
    <3>3. ord[b] \in Nat /\ ord[n] \in Nat BY <2>7 DEF Ghosts
    <3> QED BY <3>1, <3>2, <3>3
  <2>10. KeptBut(k, r, n)
    <3>1. k.free \subseteq Roots(r, count) \ {n} BY <2>4, <2>6 DEF KeptBut
    <3>2. ASSUME NEW m \in Roots(r, count), m # n
          PROVE  /\ ~ usage[m] <=> m \in k.free
                 /\ ~ usage[m] /\ k.right[m] # Nil /\ k.right[m] # n => usage[k.right[m]]
      <4>1. m \in R /\ m # b /\ m \in Node BY <2>6, <1>1
      <4>2. k.right[m] = l.right[m] BY <4>1, <3>2, <2>4, <2>6
      <4> QED BY <4>1, <4>2, <3>2, <2>4, <2>6 DEF KeptBut
    <3> QED BY <3>1, <3>2 DEF KeptBut
  <2>11. LeftUsed(k, r, n)
    <3> SUFFICES ASSUME NEW m \in Roots(r, count), k.right[m] = n PROVE usage[m]
      BY DEF LeftUsed
    <3>1. m \in R /\ m # b /\ m \in Node BY <2>6, <1>1
    <3>2. m # n BY <2>4, <2>6, <2>9
    <3>3. l.right[m] = n BY <3>1, <3>2, <2>4, <2>6
    <3> QED BY <3>1, <3>3 DEF LeftUsed
  <2>12. k.right[n] # Nil => usage[k.right[n]]
    BY <2>4, <2>6, <2>7, <2>9, <1>4 DEF KeptBut
  <2>13. \A m \in R : m # n /\ usage[m] => m \in Roots(r, count) BY <1>4, <2>6
  <2> QED BY <2>4, <2>6, <2>7, <2>10, <2>11, <2>12, <2>13 DEF AfterRight
<1>5. CASE ~ (b # Nil /\ ~ usage[b])
  <2>1. k = l BY <1>0, <1>5 DEF FusedRight
  <2> QED BY <2>1, <1>0, <1>5 DEF AfterRight
<1> QED BY <1>4, <1>5

(* The free list holds the unused nodes of the list, no two of them        *)
(* neighbours.                                                             *)
Kept(l, root, used) ==
  /\ l.free \subseteq Roots(root, count)
  /\ \A m \in Roots(root, count) :
       /\ ~ used[m] <=> m \in l.free
       /\ ~ used[m] /\ l.right[m] # Nil => used[l.right[m]]

AfterFree(l, f, n, root, pos, ord, end, r, d) ==
  /\ f.list \in Lists /\ f.node \in Roots(r, count)
  /\ Plan(f.list, r, pos, ord, d, end) /\ Offsets(f.list, pos)
  /\ Roots(r, count) \subseteq Roots(root, count)
  /\ n \in Roots(r, count) => n = f.node
  /\ \A m \in Roots(root, count) : m # n /\ usage[m] =>
       m \in Roots(r, count) /\ m # f.node
  /\ \A m \in Node : m # f.node => f.list.size[m] = l.size[m]
  /\ \A m \in Node \ Roots(root, count) : f.list.right[m] = l.right[m]
  /\ Kept(f.list, r, [usage EXCEPT ![f.node] = FALSE])

(* Freeing a node keeps the plan.                                           *)
LEMMA FreeStep ==
  ASSUME NEW l \in Lists, TypeOK,
         NEW root \in [Node -> Node], NEW dep \in Ghosts,
         NEW pos \in Ghosts, NEW ord \in Ghosts, NEW end \in Nat,
         Plan(l, root, pos, ord, dep, end), Offsets(l, pos),
         NEW n \in Roots(root, count), usage[n], Kept(l, root, usage),
         NEW f, f = FreeNode(l, n)
  PROVE  \E r \in [Node -> Node], d \in Ghosts :
           AfterFree(l, f, n, root, pos, ord, end, r, d)
<1>1. KeptBut(l, root, n) BY DEF Kept, KeptBut
<1>2. PICK g : g = FusedLeft(l, n) OBVIOUS
<1>3. PICK q \in [Node -> Node], e \in Ghosts : AfterLeft(l, g, n, root, pos, ord, end, q, e)
  BY <1>1, <1>2, LeftStep
<1>4. PICK x, c : x = g.node /\ c = g.list OBVIOUS
<1>5. /\ c \in Lists /\ x \in Roots(q, count)
      /\ Plan(c, q, pos, ord, e, end) /\ Offsets(c, pos)
      /\ KeptBut(c, q, x) /\ LeftUsed(c, q, x)
      /\ c.right[x] = l.right[n]
  BY <1>3, <1>4 DEF AfterLeft
<1>6. PICK k : k = FusedRight(c, x, c.right[x]) OBVIOUS
<1>7. PICK r \in [Node -> Node], d \in Ghosts : AfterRight(c, k, x, q, pos, ord, end, r, d)
  BY <1>5, <1>6, RightStep
<1>8. x \in Node BY <1>5, DeferAssumption DEF Roots, Node, TypeOK
<1>9. /\ k \in Lists /\ x \in Roots(r, count)
      /\ Plan(k, r, pos, ord, d, end) /\ Offsets(k, pos)
      /\ KeptBut(k, r, x) /\ LeftUsed(k, r, x)
      /\ k.right[x] # Nil => usage[k.right[x]]
  BY <1>7 DEF AfterRight
<1>10. PICK h : h = [k EXCEPT !.free = k.free \cup {x}] OBVIOUS
<1>11. k.free \cup {x} \in SUBSET Node BY <1>8, <1>9 DEF Lists
<1>12. /\ h \in Lists /\ h.free = k.free \cup {x} /\ h.right = k.right /\ h.size = k.size
       /\ Plan(h, r, pos, ord, d, end) /\ Offsets(h, pos)
  BY <1>9, <1>10, <1>11, FreeListApart
<1>13. f.list = h /\ f.node = x
  <2>1. h = [k EXCEPT !.free = @ \cup {x}] BY <1>9, <1>10 DEF Lists
  <2> QED BY <2>1, <1>2, <1>4, <1>5, <1>6 DEF FreeNode
<1>14. Kept(h, r, [usage EXCEPT ![x] = FALSE])
  <2>1. \A m \in Node : [usage EXCEPT ![x] = FALSE][m] = IF m = x THEN FALSE ELSE usage[m]
    BY <1>8 DEF TypeOK
  <2>2. \A m \in Roots(r, count) : m \in Node BY DeferAssumption DEF Roots, Node, TypeOK
  <2>3. h.free \subseteq Roots(r, count) BY <1>9, <1>12 DEF KeptBut
  <2>4. Chain(k, count, r, pos, ord, end) BY <1>9 DEF Plan
  <2>5. \A m \in Roots(r, count) : k.right[m] # Nil =>
          k.right[m] \in Roots(r, count) /\ ord[m] < ord[k.right[m]]
    BY <2>4 DEF Chain
  <2>6. ord[x] \in Nat BY <1>8 DEF Ghosts
  <2>7. ASSUME NEW m \in Roots(r, count)
        PROVE  /\ ~ [usage EXCEPT ![x] = FALSE][m] <=> m \in h.free
               /\ ~ [usage EXCEPT ![x] = FALSE][m] /\ h.right[m] # Nil
                    => [usage EXCEPT ![x] = FALSE][h.right[m]]
    <3>1. CASE m = x
      <4>1. k.right[x] # x /\ (k.right[x] # Nil => k.right[x] \in Node)
        BY <2>2, <2>5, <2>6, <1>8, <1>9, <3>1, NotNil
      <4> QED BY <4>1, <3>1, <2>1, <1>8, <1>9, <1>12
    <3>2. CASE m # x
      <4>1. /\ ~ usage[m] <=> m \in k.free
            /\ ~ usage[m] /\ k.right[m] # Nil /\ k.right[m] # x => usage[k.right[m]]
            /\ k.right[m] = x => usage[m]
        BY <3>2, <1>9 DEF KeptBut, LeftUsed
      <4>2. k.right[m] # Nil => k.right[m] \in Node BY <2>2, <2>5
      <4> QED BY <4>1, <4>2, <3>2, <2>1, <2>2, <1>12
    <3> QED BY <3>1, <3>2
  <2> QED BY <2>3, <2>7 DEF Kept
<1>15. /\ Roots(r, count) \subseteq Roots(root, count)
       /\ n \in Roots(r, count) => n = x
       /\ \A m \in Roots(root, count) : m # n /\ usage[m] => m \in Roots(r, count) /\ m # x
       /\ \A m \in Node : m # x => h.size[m] = l.size[m]
       /\ \A m \in Node \ Roots(root, count) : h.right[m] = l.right[m]
  BY <1>3, <1>4, <1>7, <1>12 DEF AfterLeft, AfterRight
<1> QED BY <1>9, <1>12, <1>13, <1>14, <1>15 DEF AfterFree

-----------------------------------------------------------------------------
(* The invariant.                                                          *)
Waiting == {pending[i] : i \in DOMAIN pending}
Holding == live \cup Waiting

(* The chunks in use, or freed and waiting for the barrier to end, and the *)
(* used nodes of the list belong to each other.                            *)
Chunks(root) ==
  /\ Holding \subseteq 1 .. nallocs
  /\ live \cap Waiting = {}
  /\ \A i, j \in DOMAIN pending : pending[i] = pending[j] => i = j
  /\ \A a \in Holding : /\ nodeOf[a] \in Roots(root, count)
                        /\ usage[nodeOf[a]]
                        /\ sizeOf[a] = size[nodeOf[a]]
  /\ \A a, b \in Holding : nodeOf[a] = nodeOf[b] => a = b
  /\ \A n \in Roots(root, count) : usage[n] => \E a \in Holding : nodeOf[a] = n

Times ==
  /\ barrier # "ending" => busy = Holding
  /\ barrier = "off" => pending = <<>>
  /\ nallocs > 0 => count > 0
  /\ \A p \in together : p \subseteq 1 .. nallocs
  /\ total > 0 => Holding = {} /\ LifetimesDisjoint

(* The nodes that are not made yet. *)
Blank == \A m \in Node : m > count => right[m] = Nil /\ ~ usage[m]

Layout(root, pos, ord, dep, end) ==
  /\ Plan(List, root, pos, ord, dep, end)
  /\ total = 0 => Offsets(List, pos)
  /\ Kept(List, root, usage)
  /\ Chunks(root)

PlanInv ==
  /\ TypeOK /\ Times /\ Blank
  /\ \E root \in [Node -> Node], pos, ord, dep \in Ghosts, end \in Nat :
       Layout(root, pos, ord, dep, end)

LEMMA ListFields ==
  ASSUME TypeOK
  PROVE  /\ List \in Lists
         /\ List.head = head /\ List.tail = tail /\ List.left = left /\ List.right = right
         /\ List.size = size /\ List.offset = offset /\ List.children = children
         /\ List.free = freeList
BY DEF List, Lists, TypeOK

(* The invariant implies what the runs check. *)
LEMMA RootsListed ==
  ASSUME TypeOK, NEW l, l = List, NEW root, NEW dep, Trees(l, count, root, dep)
  PROVE  Listed = Roots(root, count)
<1>1. l.children = children BY ListFields
<1>2. \A n \in 1 .. count : n \in Node BY DeferAssumption DEF Node, TypeOK
<1>3. \A n \in Node : n \in Listed <=> n \in 1 .. count /\ \A m \in Node : n \notin children[m]
  BY DEF Listed, Node, TypeOK
<1>4. \A n \in 1 .. count : root[n] = n <=> \A m \in Node : n \notin children[m]
  BY <1>1, <1>2 DEF Trees
<1> QED BY <1>2, <1>3, <1>4 DEF Listed, Roots

(* A plan that is kept is a well-formed list.                               *)
LEMMA PlanWellFormed == PlanInv => ListWellFormed
<1> SUFFICES ASSUME PlanInv PROVE ListWellFormed OBVIOUS
<1>1. TypeOK BY DEF PlanInv
<1>2. PICK root \in [Node -> Node], pos \in Ghosts, ord \in Ghosts, dep \in Ghosts, end \in Nat :
        Layout(root, pos, ord, dep, end)
  BY DEF PlanInv
<1>3. PICK l \in Lists :
        /\ l = List
        /\ l.head = head /\ l.tail = tail /\ l.left = left /\ l.right = right
        /\ l.free = freeList
  BY <1>1, ListFields
<1>4. /\ Trees(l, count, root, dep) /\ Chain(l, count, root, pos, ord, end)
      /\ Kept(l, root, usage)
  BY <1>2, <1>3 DEF Layout, Plan
<1>5. Listed = Roots(root, count) BY <1>1, <1>3, <1>4, RootsListed
<1>6. \A n \in Roots(root, count) : n \in 1 .. count BY DEF Roots
<1>7. head = Nil <=> Roots(root, count) = {}
  <2>1. count \in Nat BY <1>1 DEF TypeOK
  <2>2. CASE count = 0 BY <2>2, <1>3, <1>4, <1>6 DEF Chain
  <2>3. CASE count # 0
    <3>1. head \in Roots(root, count) BY <2>3, <1>3, <1>4 DEF Chain
    <3> QED BY <3>1, <1>6 DEF Nil
  <2> QED BY <2>2, <2>3
<1>8. head # Nil => head \in Roots(root, count) /\ tail \in Roots(root, count)
  BY <1>3, <1>4 DEF Chain
<1>9. \A n \in Roots(root, count) :
       /\ right[n] = Nil <=> n = tail
       /\ left[n] = Nil <=> n = head
       /\ right[n] # Nil => right[n] \in Roots(root, count) /\ left[right[n]] = n
       /\ left[n] # Nil => left[n] \in Roots(root, count) /\ right[left[n]] = n
  BY <1>3, <1>4 DEF Chain
<1>10. /\ freeList \subseteq Roots(root, count)
       /\ \A n \in Roots(root, count) :
            /\ ~ usage[n] <=> n \in freeList
            /\ ~ usage[n] /\ right[n] # Nil => usage[right[n]]
  BY <1>3, <1>4 DEF Kept
<1> QED BY <1>5, <1>7, <1>8, <1>9, <1>10 DEF ListWellFormed

(* Once everything is free, one node is left.                               *)
LEMMA PlanComputes == PlanInv => AllFreeComputes
<1> SUFFICES ASSUME PlanInv, nallocs > 0, live = {}, pending = <<>>
             PROVE  ComputeAccepts
  BY DEF AllFreeComputes
<1>1. ListWellFormed BY PlanWellFormed
<1>2. PICK root \in [Node -> Node], pos \in Ghosts, ord \in Ghosts, dep \in Ghosts, end \in Nat :
        Layout(root, pos, ord, dep, end)
  BY DEF PlanInv
<1>3. Trees(List, count, root, dep) /\ Chunks(root) /\ Chain(List, count, root, pos, ord, end)
  BY <1>2 DEF Layout, Plan
<1>4. TypeOK /\ Times BY DEF PlanInv
<1>5. Listed = Roots(root, count) BY <1>3, <1>4, RootsListed
<1>6. Holding = {} BY DEF Holding, Waiting
<1>7. \A n \in Listed : ~ usage[n] BY <1>3, <1>5, <1>6 DEF Chunks
<1>8. \A n \in Listed : n = tail /\ n = head
  <2> TAKE n \in Listed
  <2>1. right[n] # Nil => usage[right[n]] /\ right[n] \in Listed
    BY <1>1, <1>7 DEF ListWellFormed
  <2>2. right[n] = Nil BY <2>1, <1>7
  <2>3. n = tail BY <2>2, <1>1 DEF ListWellFormed
  <2>4. left[n] # Nil => left[n] \in Listed /\ right[left[n]] = n /\ n # Nil
    BY <1>1, NotNil DEF ListWellFormed, Listed
  <2>5. left[n] # Nil => right[left[n]] = Nil
    <3>1. \A m \in Listed : right[m] # Nil => usage[right[m]] /\ right[m] \in Listed
      BY <1>1, <1>7 DEF ListWellFormed
    <3> QED BY <3>1, <2>4, <1>7
  <2>6. n = head BY <2>4, <2>5, <1>1 DEF ListWellFormed
  <2> QED BY <2>3, <2>6
<1>9. count > 0 /\ count \in Nat /\ nallocs \in Nat BY <1>4 DEF Times, TypeOK
<1>10. head \in Listed
  <2>1. List.head = head BY <1>4, ListFields
  <2> QED BY <2>1, <1>3, <1>5, <1>9 DEF Chain
<1>11. freeList = {head}
  <2>1. freeList = Listed BY <1>1, <1>7 DEF ListWellFormed
  <2> QED BY <2>1, <1>8, <1>10
<1>12. Cardinality(freeList) = 1 BY <1>11, FS_Singleton
<1> QED BY <1>8, <1>10, <1>12 DEF ComputeAccepts

-----------------------------------------------------------------------------
(* Freeing a chunk.                                                        *)
ListTypes ==
  /\ count \in 0 .. MaxNodes
  /\ head \in Node \cup {Nil} /\ tail \in Node \cup {Nil}
  /\ left \in [Node -> Node \cup {Nil}] /\ right \in [Node -> Node \cup {Nil}]
  /\ size \in [Node -> Nat] /\ offset \in [Node -> Nat]
  /\ usage \in [Node -> BOOLEAN]
  /\ children \in [Node -> SUBSET Node]
  /\ freeList \subseteq Node

PendingOnce ==
  /\ live \cap Waiting = {}
  /\ \A i, j \in DOMAIN pending : pending[i] = pending[j] => i = j

LEMMA FreeLayout ==
  ASSUME PlanInv, total = 0, NEW a \in Holding, FreeNow(a), UNCHANGED <<total, allocVars>>,
         Holding' = Holding \ {a}, PendingOnce'
  PROVE  /\ ListTypes' /\ Blank'
         /\ \E root \in [Node -> Node], pos, ord, dep \in Ghosts, end \in Nat :
              Layout(root, pos, ord, dep, end)'
<1>1. TypeOK /\ Blank BY DEF PlanInv
<1>2. PICK root \in [Node -> Node], pos \in Ghosts, ord \in Ghosts, dep \in Ghosts, end \in Nat :
        Layout(root, pos, ord, dep, end)
  BY DEF PlanInv
<1>3. PICK l \in Lists : l = List BY <1>1, ListFields
<1>4. l.size = size /\ l.right = right BY <1>1, <1>3, ListFields
<1>5. PICK n : n = nodeOf[a] OBVIOUS
<1>6. n \in Roots(root, count) /\ usage[n] BY <1>2, <1>5 DEF Layout, Chunks
<1>7. PICK f : f = FreeNode(l, n) OBVIOUS
<1>8. /\ Plan(l, root, pos, ord, dep, end) /\ Offsets(l, pos) /\ Kept(l, root, usage)
  BY <1>2, <1>3 DEF Layout
<1>9. PICK r \in [Node -> Node], d \in Ghosts : AfterFree(l, f, n, root, pos, ord, end, r, d)
  BY <1>1, <1>6, <1>7, <1>8, FreeStep
<1>10. PICK k, x : k = f.list /\ x = f.node OBVIOUS
<1>11. /\ k \in Lists /\ x \in Roots(r, count)
       /\ Plan(k, r, pos, ord, d, end) /\ Offsets(k, pos)
       /\ Roots(r, count) \subseteq Roots(root, count)
       /\ n \in Roots(r, count) => n = x
       /\ \A m \in Roots(root, count) : m # n /\ usage[m] => m \in Roots(r, count) /\ m # x
       /\ \A m \in Node : m # x => k.size[m] = size[m]
       /\ \A m \in Node \ Roots(root, count) : k.right[m] = right[m]
       /\ Kept(k, r, [usage EXCEPT ![x] = FALSE])
  BY <1>4, <1>9, <1>10 DEF AfterFree
<1>12. /\ head' = k.head /\ tail' = k.tail /\ left' = k.left /\ right' = k.right
       /\ size' = k.size /\ offset' = k.offset /\ children' = k.children
       /\ freeList' = k.free
       /\ usage' = [usage EXCEPT ![x] = FALSE]
       /\ count' = count
  <2>1. k = FreeNode(List, nodeOf[a]).list /\ x = FreeNode(List, nodeOf[a]).node
    BY <1>3, <1>5, <1>7, <1>10
  <2>2. Become(k) /\ usage' = [usage EXCEPT ![x] = FALSE] /\ count' = count
    BY <2>1 DEF FreeNow
  <2> QED BY <2>2 DEF Become
<1>13. List' = k BY <1>11, <1>12 DEF List, Lists
<1>14. x \in Node /\ \A m \in Roots(root, count) : m \in Node /\ m <= count
  <2>1. x \in Roots(root, count) BY <1>11
  <2>2. \A m \in Roots(root, count) : m \in 1 .. count BY DEF Roots
  <2>3. \A m \in 1 .. count : m \in Node /\ m <= count
    BY <1>1, DeferAssumption DEF Node, TypeOK
  <2> QED BY <2>1, <2>2, <2>3
<1>15. \A m \in Node : usage'[m] = IF m = x THEN FALSE ELSE usage[m]
  BY <1>1, <1>12, <1>14 DEF TypeOK
<1>16. ListTypes'
  <2>1. usage' \in [Node -> BOOLEAN] BY <1>1, <1>12 DEF TypeOK
  <2>2. /\ k.head \in Node \cup {Nil} /\ k.tail \in Node \cup {Nil}
        /\ k.left \in [Node -> Node \cup {Nil}] /\ k.right \in [Node -> Node \cup {Nil}]
        /\ k.size \in [Node -> Nat] /\ k.offset \in [Node -> Nat]
        /\ k.children \in [Node -> SUBSET Node] /\ k.free \subseteq Node
    BY <1>11 DEF Lists
  <2>3. count' \in 0 .. MaxNodes BY <1>1, <1>12 DEF TypeOK
  <2> QED BY <2>1, <2>2, <2>3, <1>12 DEF ListTypes
<1>17. Blank'
  <2> SUFFICES ASSUME NEW m \in Node, m > count PROVE right'[m] = Nil /\ ~ usage'[m]
    BY <1>12 DEF Blank
  <2>1. count \in Nat /\ m \in Nat BY <1>1 DEF TypeOK, Node
  <2>2. m \notin Roots(root, count) BY <2>1, <1>14
  <2> QED BY <2>2, <1>1, <1>11, <1>12, <1>15 DEF Blank
<1>18. /\ nodeOf' = nodeOf /\ sizeOf' = sizeOf /\ nallocs' = nallocs /\ together' = together
       /\ total' = total
  BY DEF allocVars
<1>19. Spread(r, pos, ord, end)'
  <2>1. Spread(r, pos, ord, end) BY <1>11 DEF Plan
  <2> QED BY <2>1, <1>12, <1>18 DEF Spread, Met
<1>20. Plan(List, r, pos, ord, d, end)'
  BY <1>11, <1>12, <1>13, <1>19 DEF Plan
<1>21. Kept(List, r, usage)' BY <1>11, <1>12, <1>13 DEF Kept
<1>22. Chunks(r)'
  <2>1. Chunks(root) BY <1>2 DEF Layout
  <2>2. Holding' \subseteq 1 .. nallocs' BY <2>1, <1>18 DEF Chunks
  <2>3. ASSUME NEW c \in Holding'
        PROVE  /\ nodeOf'[c] \in Roots(r, count')
               /\ usage'[nodeOf'[c]]
               /\ sizeOf'[c] = size'[nodeOf'[c]]
    <3>1. c \in Holding /\ c # a OBVIOUS
    <3>2. /\ nodeOf[c] \in Roots(root, count) /\ usage[nodeOf[c]]
          /\ sizeOf[c] = size[nodeOf[c]] /\ nodeOf[c] # n
      BY <2>1, <3>1, <1>5 DEF Chunks
    <3>3. nodeOf[c] \in Roots(r, count) /\ nodeOf[c] # x /\ nodeOf[c] \in Node
      BY <3>2, <1>11, <1>14
    <3> QED BY <3>2, <3>3, <1>11, <1>12, <1>15, <1>18
  <2>4. \A c, e \in Holding' : nodeOf'[c] = nodeOf'[e] => c = e
    BY <2>1, <1>18 DEF Chunks
  <2>5. ASSUME NEW m \in Roots(r, count'), usage'[m]
        PROVE  \E c \in Holding' : nodeOf'[c] = m
    <3>1. m \in Roots(root, count) /\ m \in Node BY <1>11, <1>12, <1>14
    <3>2. m # x /\ usage[m] BY <3>1, <2>5, <1>15
    <3>3. m # n BY <3>2, <1>11, <1>12
    <3>4. PICK c \in Holding : nodeOf[c] = m BY <2>1, <3>1, <3>2 DEF Chunks
    <3>5. c # a BY <3>3, <3>4, <1>5
    <3> QED BY <3>4, <3>5, <1>18
  <2> QED BY <2>2, <2>3, <2>4, <2>5 DEF Chunks, PendingOnce
<1>23. Layout(r, pos, ord, d, end)'
  BY <1>11, <1>13, <1>20, <1>21, <1>22 DEF Layout
<1> QED BY <1>16, <1>17, <1>23

LEMMA PlanSame ==
  ASSUME PlanInv, UNCHANGED listVars, UNCHANGED allocVars, UNCHANGED total,
         Holding' = Holding, PendingOnce'
  PROVE  /\ ListTypes' /\ Blank'
         /\ \E root \in [Node -> Node], pos, ord, dep \in Ghosts, end \in Nat :
              Layout(root, pos, ord, dep, end)'
<1>1. TypeOK /\ Blank BY DEF PlanInv
<1>2. PICK root \in [Node -> Node], pos \in Ghosts, ord \in Ghosts, dep \in Ghosts, end \in Nat :
        Layout(root, pos, ord, dep, end)
  BY DEF PlanInv
<1>3. ListTypes' BY <1>1 DEF TypeOK, ListTypes, listVars
<1>4. Blank' BY <1>1 DEF Blank, listVars
<1>5. List' = List BY DEF List, listVars
<1>6. Spread(root, pos, ord, end)' = Spread(root, pos, ord, end)
  BY DEF Spread, Met, listVars, allocVars
<1>7. Plan(List, root, pos, ord, dep, end)'
  BY <1>2, <1>5, <1>6 DEF Layout, Plan, listVars
<1>8. Kept(List, root, usage)' BY <1>2, <1>5 DEF Layout, Kept, listVars
<1>9. Chunks(root)'
  BY <1>2 DEF Layout, Chunks, PendingOnce, listVars, allocVars
<1>10. Layout(root, pos, ord, dep, end)'
  BY <1>2, <1>5, <1>7, <1>8, <1>9 DEF Layout
<1> QED BY <1>3, <1>4, <1>10

LEMMA TypeFromParts ==
  ASSUME ListTypes', barrier' \in {"off", "on", "ending"}, pending' \in Seq(Alloc),
         total' \in Nat, nallocs' \in 0 .. MaxAllocs,
         nodeOf' \in [Alloc -> Node \cup {Nil}], sizeOf' \in [Alloc -> Nat],
         live' \subseteq busy', busy' \subseteq Alloc, together' \subseteq SUBSET Alloc
  PROVE  TypeOK'
BY DEF TypeOK, ListTypes

LEMMA AppendWaiting ==
  ASSUME TypeOK, NEW a \in Alloc, a \notin Waiting, pending' = Append(pending, a),
         \A i, j \in DOMAIN pending : pending[i] = pending[j] => i = j
  PROVE  /\ Waiting' = Waiting \cup {a}
         /\ \A i, j \in DOMAIN pending' : pending'[i] = pending'[j] => i = j
         /\ pending' \in Seq(Alloc)
<1>1. pending \in Seq(Alloc) BY DEF TypeOK
<1>2. /\ DOMAIN pending = 1 .. Len(pending) /\ Len(pending) \in Nat
      /\ DOMAIN pending' = 1 .. Len(pending) + 1
      /\ pending'[Len(pending) + 1] = a
      /\ \A i \in 1 .. Len(pending) : pending'[i] = pending[i]
      /\ pending' \in Seq(Alloc)
  BY <1>1
<1>3. \A i \in DOMAIN pending' : i \in DOMAIN pending \/ i = Len(pending) + 1
  BY <1>2
<1>4. \A i \in DOMAIN pending : pending[i] # a BY DEF Waiting
<1>5. Waiting' = Waiting \cup {a} BY <1>2, <1>3 DEF Waiting
<1>6. ASSUME NEW i \in DOMAIN pending', NEW j \in DOMAIN pending', pending'[i] = pending'[j]
      PROVE  i = j
  BY <1>2, <1>3, <1>4, <1>6
<1> QED BY <1>2, <1>5, <1>6

LEMMA TailWaiting ==
  ASSUME TypeOK, pending # <<>>, pending' = Tail(pending),
         \A i, j \in DOMAIN pending : pending[i] = pending[j] => i = j
  PROVE  /\ Head(pending) \in Waiting
         /\ Waiting' = Waiting \ {Head(pending)}
         /\ \A i, j \in DOMAIN pending' : pending'[i] = pending'[j] => i = j
         /\ pending' \in Seq(Alloc)
<1>1. pending \in Seq(Alloc) BY DEF TypeOK
<1>2. /\ DOMAIN pending = 1 .. Len(pending) /\ Len(pending) \in Nat /\ Len(pending) >= 1
      /\ DOMAIN pending' = 1 .. Len(pending) - 1
      /\ Head(pending) = pending[1]
      /\ \A i \in 1 .. Len(pending) - 1 : pending'[i] = pending[i + 1]
      /\ pending' \in Seq(Alloc)
  BY <1>1
<1>3. Head(pending) \in Waiting BY <1>2 DEF Waiting
<1>4. \A i \in DOMAIN pending' : i + 1 \in DOMAIN pending /\ i + 1 # 1 BY <1>2
<1>5. \A i \in DOMAIN pending : i # 1 => i - 1 \in DOMAIN pending' /\ pending'[i - 1] = pending[i]
  BY <1>2
<1>6. Waiting' = Waiting \ {Head(pending)}
  <2>1. ASSUME NEW b \in Waiting' PROVE b \in Waiting \ {Head(pending)}
    <3>1. PICK i \in DOMAIN pending' : b = pending'[i] BY DEF Waiting
    <3>2. b = pending[i + 1] /\ i + 1 \in DOMAIN pending /\ i + 1 # 1 BY <3>1, <1>2, <1>4
    <3>3. 1 \in DOMAIN pending BY <1>2
    <3> QED BY <3>2, <3>3, <1>2 DEF Waiting
  <2>2. ASSUME NEW b \in Waiting, b # Head(pending) PROVE b \in Waiting'
    <3>1. PICK i \in DOMAIN pending : b = pending[i] BY DEF Waiting
    <3>2. i # 1 BY <3>1, <2>2, <1>2
    <3> QED BY <3>1, <3>2, <1>5 DEF Waiting
  <2> QED BY <2>1, <2>2
<1>7. ASSUME NEW i \in DOMAIN pending', NEW j \in DOMAIN pending', pending'[i] = pending'[j]
      PROVE  i = j
  <2>1. i + 1 \in DOMAIN pending /\ j + 1 \in DOMAIN pending BY <1>4
  <2>2. pending[i + 1] = pending[j + 1] BY <1>2, <1>7
  <2>3. i + 1 = j + 1 BY <2>1, <2>2
  <2> QED BY <2>3, <1>2
<1> QED BY <1>2, <1>3, <1>6, <1>7

LEMMA PlanFree ==
  ASSUME PlanInv, NEW a \in Alloc, Free(a)
  PROVE  PlanInv'
<1>1. TypeOK /\ Times BY DEF PlanInv
<1>2. \E root : Chunks(root) BY DEF PlanInv, Layout
<1>3. /\ total = 0 /\ barrier # "ending" /\ a \in live /\ live' = live \ {a}
      /\ busy' = IF barrier = "on" THEN busy ELSE live'
      /\ barrier' = barrier /\ total' = total
      /\ UNCHANGED allocVars
      /\ nallocs' = nallocs /\ nodeOf' = nodeOf /\ sizeOf' = sizeOf /\ together' = together
  BY DEF Free, allocVars
<1>4. /\ a \in Holding /\ a \notin Waiting /\ PendingOnce
  BY <1>2, <1>3 DEF Chunks, Holding, PendingOnce
<1>5. /\ ListTypes' /\ Blank'
      /\ \E root \in [Node -> Node], pos, ord, dep \in Ghosts, end \in Nat :
           Layout(root, pos, ord, dep, end)'
      /\ count' \in Nat /\ (count > 0 => count' > 0)
      /\ pending' \in Seq(Alloc) /\ busy' = Holding'
      /\ barrier = "off" => pending' = <<>>
  <2>1. CASE barrier = "on"
    <3>1. pending' = Append(pending, a) /\ UNCHANGED listVars BY <2>1 DEF Free
    <3>2. /\ Waiting' = Waiting \cup {a} /\ pending' \in Seq(Alloc)
          /\ \A i, j \in DOMAIN pending' : pending'[i] = pending'[j] => i = j
      BY <1>1, <1>4, <3>1, AppendWaiting DEF PendingOnce
    <3>3. Holding' = Holding BY <1>3, <1>4, <3>2 DEF Holding
    <3>4. PendingOnce' BY <1>3, <1>4, <3>2 DEF PendingOnce
    <3>5. busy' = Holding' BY <1>1, <1>3, <2>1, <3>3 DEF Times
    <3>6. count' = count /\ count \in Nat BY <1>1, <3>1 DEF listVars, TypeOK
    <3> QED BY <1>3, <2>1, <3>1, <3>2, <3>3, <3>4, <3>5, <3>6, PlanSame
  <2>2. CASE barrier # "on"
    <3>1. FreeNow(a) /\ pending' = pending BY <2>2 DEF Free
    <3>2. barrier = "off" /\ pending = <<>> BY <1>1, <1>3, <2>2 DEF TypeOK, Times
    <3>3. Waiting = {} /\ Waiting' = {} BY <3>1, <3>2 DEF Waiting
    <3>4. Holding = live /\ Holding' = Holding \ {a} BY <1>3, <3>3 DEF Holding
    <3>5. PendingOnce' BY <3>1, <3>2, <3>3 DEF PendingOnce
    <3>6. busy' = Holding' BY <1>3, <2>2, <3>3 DEF Holding
    <3>7. count' = count /\ count \in Nat BY <1>1, <3>1 DEF FreeNow, TypeOK
    <3>8. pending' \in Seq(Alloc) BY <1>1, <3>1 DEF TypeOK
    <3> QED BY <1>3, <1>4, <3>1, <3>2, <3>4, <3>5, <3>6, <3>7, <3>8, FreeLayout
  <2> QED BY <2>1, <2>2
<1>6. busy' \subseteq Alloc /\ live' \subseteq busy'
  BY <1>1, <1>3, <1>5 DEF TypeOK, Holding
<1>7. TypeOK' BY <1>1, <1>3, <1>5, <1>6, TypeFromParts DEF TypeOK
<1>8. Times'
  BY <1>1, <1>3, <1>5 DEF Times, TypeOK
<1> QED BY <1>5, <1>7, <1>8 DEF PlanInv

LEMMA PlanFreeDeferred ==
  ASSUME PlanInv, FreeDeferred PROVE PlanInv'
<1>1. TypeOK /\ Times BY DEF PlanInv
<1>2. \E root : Chunks(root) BY DEF PlanInv, Layout
<1>3. /\ barrier = "ending"
      /\ total' = total /\ live' = live
      /\ UNCHANGED allocVars /\ UNCHANGED total
      /\ nallocs' = nallocs /\ nodeOf' = nodeOf /\ sizeOf' = sizeOf /\ together' = together
  BY DEF FreeDeferred, allocVars
<1>4. PendingOnce /\ live \subseteq busy /\ busy \subseteq Alloc
  BY <1>1, <1>2 DEF Chunks, PendingOnce, TypeOK
<1>5. CASE pending = <<>>
  <2>1. barrier' = "off" /\ busy' = live /\ pending' = pending /\ UNCHANGED listVars
    BY <1>5 DEF FreeDeferred
  <2>2. Waiting = {} /\ Waiting' = {} BY <1>5, <2>1 DEF Waiting
  <2>3. Holding' = Holding /\ Holding = live BY <1>3, <2>2 DEF Holding
  <2>4. PendingOnce' BY <1>3, <2>1, <2>2, <1>5 DEF PendingOnce
  <2>5. /\ ListTypes' /\ Blank'
        /\ \E root \in [Node -> Node], pos, ord, dep \in Ghosts, end \in Nat :
             Layout(root, pos, ord, dep, end)'
    BY <1>3, <2>1, <2>3, <2>4, PlanSame
  <2>6. TypeOK'
    BY <1>1, <1>3, <1>4, <2>1, <2>5, TypeFromParts DEF TypeOK
  <2>7. LifetimesDisjoint' = LifetimesDisjoint
    BY <1>3, <2>1 DEF LifetimesDisjoint, Disjoint, listVars
  <2>8. Times'
    BY <1>1, <1>3, <1>5, <2>1, <2>3, <2>7 DEF Times, listVars
  <2> QED BY <2>5, <2>6, <2>8 DEF PlanInv
<1>6. CASE pending # <<>>
  <2>1. /\ FreeNow(Head(pending)) /\ pending' = Tail(pending)
        /\ barrier' = barrier /\ busy' = busy
    BY <1>6 DEF FreeDeferred
  <2>2. /\ Head(pending) \in Waiting
        /\ Waiting' = Waiting \ {Head(pending)}
        /\ \A i, j \in DOMAIN pending' : pending'[i] = pending'[j] => i = j
        /\ pending' \in Seq(Alloc)
    BY <1>1, <1>4, <1>6, <2>1, TailWaiting DEF PendingOnce
  <2>3. Holding' = Holding \ {Head(pending)} /\ Head(pending) \in Holding
    BY <1>3, <1>4, <2>2 DEF Holding, PendingOnce
  <2>4. PendingOnce' BY <1>3, <1>4, <2>2 DEF PendingOnce
  <2>5. total = 0 BY <1>1, <2>3 DEF Times, TypeOK
  <2>6. /\ ListTypes' /\ Blank'
        /\ \E root \in [Node -> Node], pos, ord, dep \in Ghosts, end \in Nat :
             Layout(root, pos, ord, dep, end)'
    BY <1>3, <2>1, <2>3, <2>4, <2>5, FreeLayout
  <2>7. TypeOK'
    BY <1>1, <1>3, <1>4, <2>1, <2>2, <2>6, TypeFromParts DEF TypeOK
  <2>8. count' = count BY <2>1 DEF FreeNow
  <2>9. Times'
    BY <1>1, <1>3, <2>1, <2>5, <2>8 DEF Times
  <2> QED BY <2>6, <2>7, <2>9 DEF PlanInv
<1> QED BY <1>5, <1>6

LEMMA PlanBarrier ==
  ASSUME PlanInv, BarrierBegin \/ BarrierEnd \/ UNCHANGED vars PROVE PlanInv'
<1>1. TypeOK /\ Times BY DEF PlanInv
<1>2. \E root : Chunks(root) BY DEF PlanInv, Layout
<1>3. /\ UNCHANGED listVars /\ UNCHANGED allocVars /\ UNCHANGED total
      /\ pending' = pending /\ live' = live /\ busy' = busy
      /\ nallocs' = nallocs /\ nodeOf' = nodeOf /\ sizeOf' = sizeOf /\ together' = together
      /\ count' = count /\ offset' = offset /\ total' = total
      /\ \/ barrier = "off" /\ barrier' = "on"
         \/ barrier = "on" /\ barrier' = "ending"
         \/ barrier' = barrier
  BY DEF BarrierBegin, BarrierEnd, vars, listVars, allocVars
<1>4. Holding' = Holding /\ Waiting' = Waiting BY <1>3 DEF Holding, Waiting
<1>5. PendingOnce' BY <1>2, <1>3, <1>4 DEF Chunks, PendingOnce
<1>6. /\ ListTypes' /\ Blank'
      /\ \E root \in [Node -> Node], pos, ord, dep \in Ghosts, end \in Nat :
           Layout(root, pos, ord, dep, end)'
  BY <1>3, <1>4, <1>5, PlanSame
<1>7. TypeOK' BY <1>1, <1>3, <1>6, TypeFromParts DEF TypeOK
<1>8. LifetimesDisjoint' = LifetimesDisjoint
  BY <1>3 DEF LifetimesDisjoint, Disjoint
<1>9. Times' BY <1>1, <1>3, <1>4, <1>8 DEF Times
<1> QED BY <1>6, <1>7, <1>9 DEF PlanInv

(* The empty list, at the beginning and after a reset. *)
LEMMA PlanEmpty == Empty => PlanInv
<1> SUFFICES ASSUME Empty PROVE PlanInv OBVIOUS
<1>1. TypeOK BY DeferAssumption DEF Empty, TypeOK, None, Nil, Alloc
<1>2. Waiting = {} /\ Holding = {} BY DEF Empty, Waiting, Holding
<1>3. Times BY <1>2 DEF Empty, Times
<1>4. Blank BY DEF Empty, None, Blank
<1>5. PICK root \in [Node -> Node] : root = [n \in Node |-> n] OBVIOUS
<1>6. PICK zero \in Ghosts : zero = [n \in Node |-> 0] BY DEF Ghosts
<1>7. PICK l \in Lists :
        /\ l = List /\ l.children = children /\ l.free = freeList
        /\ l.head = head /\ l.tail = tail
  BY <1>1, ListFields
<1>8. Roots(root, count) = {} BY DEF Roots, Empty
<1>9. \A n, m \in Node : n \notin l.children[m] BY <1>7 DEF Empty
<1>10. Trees(l, count, root, zero) BY <1>9 DEF Trees, Empty
<1>11. Chain(l, count, root, zero, zero, 0) BY <1>7, <1>8 DEF Chain, Empty
<1>12. Within(count, root, zero, 0) /\ Spread(root, zero, zero, 0)
  BY DEF Within, Spread, Empty
<1>13. Offsets(l, zero) BY <1>9 DEF Offsets
<1>14. Kept(l, root, usage) BY <1>7, <1>8 DEF Kept, Empty
<1>15. Chunks(root) BY <1>2, <1>8 DEF Chunks, Empty
<1>16. Layout(root, zero, zero, zero, 0)
  BY <1>7, <1>10, <1>11, <1>12, <1>13, <1>14, <1>15 DEF Layout, Plan
<1> QED BY <1>1, <1>3, <1>4, <1>16 DEF PlanInv

LEMMA PlanEmptied == Empty' => PlanInv'
BY PlanEmpty, PTL

LEMMA PlanReset == Reset => PlanInv'
BY PlanEmptied DEF Reset, Empty

-----------------------------------------------------------------------------
(* Allocations.  The chunks do not lose what they had when a new one is    *)
(* recorded at n, a node that nobody uses.                                 *)
Recorded(n, s) ==
  /\ total = 0 /\ barrier # "ending" /\ nallocs < MaxAllocs
  /\ n \in Node /\ s \in Nat
  /\ Record(n, s)
  /\ UNCHANGED <<barrier, pending, total>>

LEMMA MetRecorded ==
  ASSUME TypeOK, Times, NEW n, NEW s, Recorded(n, s), NEW a, NEW b, Met(a, b)'
  PROVE  \/ Met(a, b)
         \/ a = nallocs + 1 /\ b \in busy
         \/ b = nallocs + 1 /\ a \in busy
<1>1. together' = together \cup {{nallocs + 1, c} : c \in busy}
  BY DEF Recorded, Record
<1>2. {a, b} \in together' /\ a # b BY DEF Met
<1>3. CASE {a, b} \in together BY <1>2, <1>3 DEF Met
<1>4. CASE \E c \in busy : {a, b} = {nallocs + 1, c} BY <1>2, <1>4
<1> QED BY <1>1, <1>2, <1>3, <1>4

(* What allocations have in common: root tells the trees, before and after *)
(* it, and n is a node that was not in use before.                         *)
Taking(root, after, n, s) ==
  /\ n \in Roots(after, count') /\ usage'[n] /\ size'[n] = s
  /\ n \in Roots(root, count) => ~ usage[n]
  /\ \A m \in Roots(root, count) : m # n =>
       /\ m \in Roots(after, count')
       /\ usage'[m] = usage[m]
       /\ usage[m] => size'[m] = size[m]
  /\ \A m \in Roots(after, count') : m # n /\ usage'[m] => m \in Roots(root, count)

LEMMA ChunksRecorded ==
  ASSUME TypeOK, Times, NEW root, NEW after, NEW n, NEW s,
         Recorded(n, s), Taking(root, after, n, s), Chunks(root)
  PROVE  Chunks(after)' /\ busy' = Holding'
<1> DEFINE a == nallocs + 1
<1>1. /\ nallocs' = a /\ a \in Alloc /\ nallocs \in Nat
      /\ nodeOf' = [nodeOf EXCEPT ![a] = n] /\ sizeOf' = [sizeOf EXCEPT ![a] = s]
      /\ live' = live \cup {a} /\ busy' = busy \cup {a} /\ pending' = pending
      /\ busy = Holding
  BY DeferAssumption DEF Recorded, Record, TypeOK, Times, Alloc
<1>2. Waiting' = Waiting /\ Holding' = Holding \cup {a} BY <1>1 DEF Waiting, Holding
<1>3. Holding \subseteq 1 .. nallocs /\ Waiting \subseteq Holding BY DEF Chunks, Holding
<1>4. a \notin Holding /\ a \notin Waiting BY <1>1, <1>3
<1>5. /\ nodeOf'[a] = n /\ sizeOf'[a] = s
      /\ \A b \in Holding : nodeOf'[b] = nodeOf[b] /\ sizeOf'[b] = sizeOf[b]
  BY <1>1, <1>3, <1>4 DEF TypeOK, Alloc
<1> HIDE DEF a
<1>6. Holding' \subseteq 1 .. nallocs'
  <2>1. 1 .. nallocs \subseteq 1 .. a /\ a \in 1 .. a BY <1>1 DEF a
  <2> QED BY <2>1, <1>1, <1>2, <1>3
<1>7. (live \cap Waiting = {})' BY <1>1, <1>2, <1>4 DEF Chunks
<1>8. (\A i, j \in DOMAIN pending : pending[i] = pending[j] => i = j)'
  BY <1>1 DEF Chunks
<1>9. \A b \in Holding : /\ nodeOf[b] \in Roots(root, count) /\ usage[nodeOf[b]]
                         /\ sizeOf[b] = size[nodeOf[b]] /\ nodeOf[b] # n
  BY DEF Chunks, Taking
<1>10. \A b \in Holding' : /\ nodeOf'[b] \in Roots(after, count')
                           /\ usage'[nodeOf'[b]]
                           /\ sizeOf'[b] = size'[nodeOf'[b]]
  <2> TAKE b \in Holding'
  <2>1. CASE b = a BY <2>1, <1>5 DEF Taking
  <2>2. CASE b \in Holding BY <2>2, <1>5, <1>9 DEF Taking
  <2> QED BY <2>1, <2>2, <1>2
<1>11. \A b, c \in Holding' : nodeOf'[b] = nodeOf'[c] => b = c
  BY <1>2, <1>5, <1>9 DEF Chunks
<1>12. \A m \in Roots(after, count') : usage'[m] => \E b \in Holding' : nodeOf'[b] = m
  <2> SUFFICES ASSUME NEW m \in Roots(after, count'), usage'[m]
               PROVE  \E b \in Holding' : nodeOf'[b] = m
    OBVIOUS
  <2>1. CASE m = n BY <2>1, <1>2, <1>5
  <2>2. CASE m # n
    <3>1. m \in Roots(root, count) /\ usage[m] BY <2>2 DEF Taking
    <3>2. PICK b \in Holding : nodeOf[b] = m BY <3>1 DEF Chunks
    <3> QED BY <3>2, <1>2, <1>5
  <2> QED BY <2>1, <2>2
<1>13. Chunks(after)' BY <1>6, <1>7, <1>8, <1>10, <1>11, <1>12 DEF Chunks
<1> QED BY <1>1, <1>2, <1>13

LEMMA SpreadRecorded ==
  ASSUME TypeOK, Times, NEW root \in [Node -> Node],
         NEW pos \in Ghosts, NEW ord \in Ghosts, NEW end \in Nat,
         NEW n, NEW s, Recorded(n, s), NEW l \in Lists, l.size = size',
         count' \in 0 .. MaxNodes, count <= count',
         Chunks(root)', busy' = Holding', nodeOf'[nallocs + 1] = n,
         Chain(l, count', root, pos, ord, end), Spread(root, pos, ord, end)
  PROVE  Spread(root, pos, ord, end)'
<1> DEFINE a == nallocs + 1
           R == Roots(root, count')
<1>1. /\ nallocs' = a /\ nallocs \in Nat /\ a \in Alloc
      /\ nodeOf' = [nodeOf EXCEPT ![a] = n] /\ sizeOf' = [sizeOf EXCEPT ![a] = s]
      /\ busy' = busy \cup {a} /\ busy = Holding /\ a \in Holding'
  BY DeferAssumption DEF Recorded, Record, TypeOK, Times, Alloc
<1>2. /\ nodeOf'[a] = n /\ sizeOf'[a] = s
      /\ \A b \in 1 .. nallocs : nodeOf'[b] = nodeOf[b] /\ sizeOf'[b] = sizeOf[b]
  BY <1>1 DEF TypeOK, Alloc
<1>3. \A m \in R : m \in Node /\ m \in 1 .. count' /\ root[m] = m
  BY DeferAssumption DEF Roots, Node
<1>4. \A m \in Node : pos[m] \in Nat /\ ord[m] \in Nat /\ l.size[m] \in Nat
  BY DEF Ghosts, Lists
<1>5. \A b \in Holding' : /\ nodeOf'[b] \in R
                          /\ sizeOf'[b] = l.size[nodeOf'[b]]
  BY DEF Chunks
<1>6. \A b, c \in Holding' : nodeOf'[b] = nodeOf'[c] => b = c BY DEF Chunks
<1>7. \A b \in 1 .. nallocs' : b = a \/ b \in 1 .. nallocs BY <1>1
<1>8. ASSUME NEW x \in R, NEW y \in R, ord[x] < ord[y]
      PROVE  pos[x] + l.size[x] <= pos[y]
  BY <1>8 DEF Chain
<1>9. \A x \in R : pos[x] + l.size[x] <= end
  <2> TAKE x \in R
  <2>1. count' # 0 BY <1>3
  <2>2. l.tail \in R /\ end = pos[l.tail] + l.size[l.tail] BY <2>1 DEF Chain
  <2>3. ~ ord[l.tail] < ord[x] BY <2>2 DEF Chain
  <2>4. CASE x = l.tail BY <2>2, <2>4, <1>3, <1>4
  <2>5. CASE x # l.tail
    <3>1. ord[x] # ord[l.tail] BY <2>2, <2>5 DEF Chain
    <3>2. ord[x] < ord[l.tail] BY <3>1, <2>2, <2>3, <1>3, <1>4
    <3>3. pos[x] + l.size[x] <= pos[l.tail] BY <3>2, <2>2, <1>8
    <3> QED BY <3>3, <2>2, <1>3, <1>4
  <2> QED BY <2>4, <2>5
<1> HIDE DEF a, R
<1>10. ASSUME NEW b \in 1 .. nallocs'
       PROVE  nodeOf'[b] \in 1 .. count' /\ pos[nodeOf'[b]] + sizeOf'[b] <= end
  <2>1. CASE b = a BY <2>1, <1>1, <1>3, <1>5, <1>9
  <2>2. CASE b \in 1 .. nallocs
    <3>1. nodeOf[b] \in 1 .. count /\ pos[nodeOf[b]] + sizeOf[b] <= end
      BY <2>2 DEF Spread
    <3>2. 1 .. count \subseteq 1 .. count' BY DEF TypeOK
    <3> QED BY <3>1, <3>2, <2>2, <1>2
  <2> QED BY <2>1, <2>2, <1>7
<1>11. ASSUME NEW b \in 1 .. nallocs', NEW c \in 1 .. nallocs', Met(b, c)'
       PROVE  /\ ord[root[nodeOf'[b]]] < ord[root[nodeOf'[c]]] =>
                   pos[nodeOf'[b]] + sizeOf'[b] <= pos[nodeOf'[c]]
              /\ root[nodeOf'[b]] = root[nodeOf'[c]] =>
                   \/ pos[nodeOf'[b]] + sizeOf'[b] <= pos[nodeOf'[c]]
                   \/ pos[nodeOf'[c]] + sizeOf'[c] <= pos[nodeOf'[b]]
  <2>1. CASE b \in Holding' /\ c \in Holding'
    <3>1. PICK x \in R, y \in R : x = nodeOf'[b] /\ y = nodeOf'[c] BY <2>1, <1>5
    <3>2. b # c BY <1>11 DEF Met
    <3>3. x # y BY <3>1, <3>2, <2>1, <1>6
    <3>4. sizeOf'[b] = l.size[x] /\ sizeOf'[c] = l.size[y] BY <3>1, <2>1, <1>5
    <3>5. root[x] = x /\ root[y] = y BY <1>3
    <3> QED BY <3>1, <3>3, <3>4, <3>5, <1>8
  <2>2. CASE b \in 1 .. nallocs /\ c \in 1 .. nallocs /\ Met(b, c)
    <3>1. /\ ord[root[nodeOf[b]]] < ord[root[nodeOf[c]]] =>
               pos[nodeOf[b]] + sizeOf[b] <= pos[nodeOf[c]]
          /\ root[nodeOf[b]] = root[nodeOf[c]] =>
               \/ pos[nodeOf[b]] + sizeOf[b] <= pos[nodeOf[c]]
               \/ pos[nodeOf[c]] + sizeOf[c] <= pos[nodeOf[b]]
      BY <2>2 DEF Spread
    <3> QED BY <3>1, <2>2, <1>2
  <2>3. \/ Met(b, c)
        \/ b = nallocs + 1 /\ c \in busy
        \/ c = nallocs + 1 /\ b \in busy
    BY <1>11, MetRecorded
  <2>4. CASE Met(b, c)
    <3>1. {b, c} \subseteq 1 .. nallocs BY <2>4 DEF Met, Times
    <3> QED BY <3>1, <2>2, <2>4
  <2>5. busy \subseteq Holding' BY <1>1
  <2> QED BY <2>1, <2>3, <2>4, <2>5, <1>1 DEF a
<1> QED BY <1>10, <1>11 DEF Spread

(* The plan with the chunk that alloc has just handed out and recorded.     *)
LEMMA PlanRecorded ==
  ASSUME TypeOK, Times, NEW root, Chunks(root),
         NEW after \in [Node -> Node], NEW dep \in Ghosts,
         NEW pos \in Ghosts, NEW ord \in Ghosts, NEW end \in Nat,
         NEW n, NEW s, Recorded(n, s), Taking(root, after, n, s),
         NEW l \in Lists, l = List', ListTypes', Blank', count' > 0, count <= count',
         Trees(l, count', after, dep), Chain(l, count', after, pos, ord, end),
         Within(count', after, pos, end), Offsets(l, pos),
         Spread(after, pos, ord, end), Kept(l, after, usage)'
  PROVE  PlanInv'
<1>1. Chunks(after)' /\ busy' = Holding' BY ChunksRecorded
<1>2. /\ nallocs' = nallocs + 1 /\ nallocs' \in 0 .. MaxAllocs /\ nallocs' \in Alloc
      /\ nodeOf' = [nodeOf EXCEPT ![nallocs + 1] = n]
      /\ sizeOf' = [sizeOf EXCEPT ![nallocs + 1] = s]
      /\ live' = live \cup {nallocs + 1} /\ busy' = busy \cup {nallocs + 1}
      /\ together' = together \cup {{nallocs + 1, b} : b \in busy}
      /\ barrier' = barrier /\ pending' = pending /\ total' = total
      /\ total = 0 /\ nallocs \in Nat /\ n \in Node /\ s \in Nat /\ busy = Holding
  BY DeferAssumption DEF Recorded, Record, TypeOK, Times, Alloc
<1>3. nodeOf'[nallocs + 1] = n BY <1>2 DEF TypeOK, Alloc
<1>4. l.size = size' /\ count' \in 0 .. MaxNodes BY DEF List, ListTypes
<1>5. Spread(after, pos, ord, end)' BY <1>1, <1>3, <1>4, SpreadRecorded
<1>6. Plan(List, after, pos, ord, dep, end)' BY <1>5 DEF Plan
<1>7. Layout(after, pos, ord, dep, end)' BY <1>1, <1>6 DEF Layout
<1>8. together' \subseteq SUBSET Alloc
  <2>1. busy \subseteq Alloc /\ together \subseteq SUBSET Alloc /\ nallocs + 1 \in Alloc
    BY <1>2 DEF TypeOK
  <2>2. \A b \in busy : {nallocs + 1, b} \subseteq Alloc BY <2>1
  <2>3. ASSUME NEW q \in together' PROVE q \subseteq Alloc
    <3>1. q \in together \/ \E b \in busy : q = {nallocs + 1, b} BY <1>2
    <3> QED BY <3>1, <2>1, <2>2
  <2> QED BY <2>3
<1>9. /\ nodeOf' \in [Alloc -> Node \cup {Nil}] /\ sizeOf' \in [Alloc -> Nat]
      /\ live' \subseteq busy' /\ busy' \subseteq Alloc
      /\ barrier' \in {"off", "on", "ending"} /\ pending' \in Seq(Alloc)
  BY <1>2 DEF TypeOK
<1>10. TypeOK' BY <1>2, <1>8, <1>9, TypeFromParts
<1>11. \A p \in together' : p \subseteq 1 .. nallocs'
  <2>1. busy \subseteq 1 .. nallocs BY <1>2 DEF Chunks
  <2>2. 1 .. nallocs \subseteq 1 .. nallocs' /\ nallocs + 1 \in 1 .. nallocs' BY <1>2
  <2>3. \A b \in busy : {nallocs + 1, b} \subseteq 1 .. nallocs' BY <2>1, <2>2
  <2>4. \A q \in together : q \subseteq 1 .. nallocs' BY <2>2 DEF Times
  <2>5. ASSUME NEW q \in together' PROVE q \subseteq 1 .. nallocs'
    <3>1. q \in together \/ \E b \in busy : q = {nallocs + 1, b} BY <1>2
    <3> QED BY <3>1, <2>3, <2>4
  <2> QED BY <2>5
<1>12. Times'
  <2>1. barrier' # "ending" => busy' = Holding' BY <1>1
  <2>2. barrier' = "off" => pending' = <<>> BY <1>2 DEF Times
  <2>3. nallocs' > 0 => count' > 0 OBVIOUS
  <2>4. total' > 0 => Holding' = {} /\ LifetimesDisjoint' BY <1>2
  <2> QED BY <2>1, <2>2, <2>3, <2>4, <1>11 DEF Times
<1> QED BY <1>7, <1>10, <1>12 DEF PlanInv

LEMMA PlanNew ==
  ASSUME PlanInv, NEW s \in Nat, AllocNew(s),
         total = 0, barrier # "ending", nallocs < MaxAllocs, UNCHANGED <<barrier, pending, total>>
  PROVE  PlanInv'
<1>1. TypeOK /\ Times /\ Blank BY DEF PlanInv
<1>2. PICK root \in [Node -> Node], pos \in Ghosts, ord \in Ghosts, dep \in Ghosts, end \in Nat :
        Layout(root, pos, ord, dep, end)
  BY DEF PlanInv
<1>3. PICK l \in Lists :
        /\ l = List
        /\ l.head = head /\ l.tail = tail /\ l.left = left /\ l.right = right
        /\ l.size = size /\ l.offset = offset /\ l.children = children
        /\ l.free = freeList
  BY <1>1, ListFields
<1>4. /\ Trees(l, count, root, dep) /\ Chain(l, count, root, pos, ord, end)
      /\ Within(count, root, pos, end) /\ Spread(root, pos, ord, end)
      /\ Offsets(l, pos) /\ Kept(l, root, usage) /\ Chunks(root)
  BY <1>2, <1>3 DEF Layout, Plan
<1>5. PICK n \in Node : n = count + 1
  BY <1>1, DeferAssumption DEF AllocNew, TypeOK, Node
<1>6. /\ count' = n /\ count \in Nat /\ n \in Nat
      /\ left' = [left EXCEPT ![n] = tail]
      /\ right' = Link(right, tail, n)
      /\ tail' = n
      /\ head' = IF tail = Nil THEN n ELSE head
      /\ size' = [size EXCEPT ![n] = s]
      /\ usage' = [usage EXCEPT ![n] = TRUE]
      /\ offset' = offset /\ children' = children /\ freeList' = freeList
      /\ Recorded(n, s)
  BY <1>1, <1>5 DEF AllocNew, TypeOK, Recorded
<1>7. ListTypes'
  <2>1. right' \in [Node -> Node \cup {Nil}] BY <1>1, <1>5, <1>6 DEF TypeOK, Link
  <2>2. left' \in [Node -> Node \cup {Nil}] BY <1>1, <1>5, <1>6 DEF TypeOK
  <2>3. size' \in [Node -> Nat] /\ usage' \in [Node -> BOOLEAN] BY <1>1, <1>5, <1>6 DEF TypeOK
  <2>4. count' \in 0 .. MaxNodes BY <1>5, <1>6, DeferAssumption DEF Node
  <2>5. head' \in Node \cup {Nil} /\ tail' \in Node \cup {Nil} BY <1>1, <1>5, <1>6 DEF TypeOK
  <2> QED BY <2>1, <2>2, <2>3, <2>4, <2>5, <1>1, <1>6 DEF ListTypes, TypeOK
<1>8. /\ \A m \in Node : left'[m] = IF m = n THEN tail ELSE left[m]
      /\ \A m \in Node : right'[m] = IF m = tail THEN n ELSE right[m]
      /\ \A m \in Node : size'[m] = IF m = n THEN s ELSE size[m]
      /\ \A m \in Node : usage'[m] = IF m = n THEN TRUE ELSE usage[m]
  <2>1. \A m \in Node : left'[m] = IF m = n THEN tail ELSE left[m] BY <1>1, <1>6 DEF TypeOK
  <2>2. \A m \in Node : right'[m] = IF m = tail THEN n ELSE right[m]
    BY <1>1, <1>6, NotNil DEF TypeOK, Link
  <2> QED BY <2>1, <2>2, <1>1, <1>6 DEF TypeOK
<1>9. PICK k \in Lists :
        /\ k = List'
        /\ k.head = head' /\ k.tail = n /\ k.left = left' /\ k.right = right'
        /\ k.size = size' /\ k.offset = offset /\ k.children = children
        /\ k.free = freeList
  <2>1. List' \in Lists BY <1>7 DEF List, Lists, ListTypes
  <2>2. /\ List'.head = head' /\ List'.tail = tail' /\ List'.left = left'
        /\ List'.right = right' /\ List'.size = size' /\ List'.offset = offset'
        /\ List'.children = children' /\ List'.free = freeList'
    BY DEF List
  <2> QED BY <2>1, <2>2, <1>6
<1> DEFINE r == [root EXCEPT ![n] = n]
           p == [pos EXCEPT ![n] = end]
           o == [ord EXCEPT ![n] = IF tail = Nil THEN 0 ELSE ord[tail] + 1]
           R == Roots(root, count)
<1>10. /\ \A m \in Node : pos[m] \in Nat /\ ord[m] \in Nat /\ dep[m] \in Nat /\ size[m] \in Nat
       /\ tail # Nil => tail \in Node
  BY <1>1 DEF Ghosts, TypeOK
<1>11. r \in [Node -> Node] /\ p \in Ghosts /\ o \in Ghosts /\ end + s \in Nat
  <2>1. r \in [Node -> Node] BY <1>5
  <2>2. p \in Ghosts BY <1>5 DEF Ghosts
  <2>3. PICK z \in Nat : z = IF tail = Nil THEN 0 ELSE ord[tail] + 1 BY <1>10
  <2>4. o \in Ghosts BY <2>3, <1>5 DEF Ghosts
  <2>5. end + s \in Nat OBVIOUS
  <2> QED BY <2>1, <2>2, <2>4, <2>5
<1>12. \A m \in Node : /\ r[m] = IF m = n THEN n ELSE root[m]
                       /\ p[m] = IF m = n THEN end ELSE pos[m]
                       /\ o[m] = IF m = n THEN (IF tail = Nil THEN 0 ELSE ord[tail] + 1)
                                 ELSE ord[m]
  BY <1>10 DEF Ghosts
<1> HIDE DEF r, p, o
<1>13. \A m \in 1 .. count' : m = n \/ m \in 1 .. count BY <1>5, <1>6
<1>14. \A m \in 1 .. count : m \in Node /\ m # n /\ m \in 1 .. count'
  BY <1>1, <1>5, <1>6, DeferAssumption DEF Node, TypeOK
<1>15. Roots(r, count') = R \cup {n} /\ n \notin R
  BY <1>5, <1>6, <1>12, <1>13, <1>14 DEF Roots
<1>16. \A m \in R : m \in Node /\ m # n /\ m # Nil /\ m \in 1 .. count
  BY <1>14, NotNil DEF Roots
<1>17. Trees(k, count', r, dep)
  <2>1. \A m \in 1 .. count' : r[m] \in 1 .. count' /\ r[r[m]] = r[m]
    BY <1>4, <1>6, <1>12, <1>13, <1>14 DEF Trees
  <2>2. \A m \in 1 .. count' : r[m] # m => \E q \in Node : m \in k.children[q]
    BY <1>3, <1>4, <1>9, <1>12, <1>13, <1>14 DEF Trees
  <2>3. \A m, q \in Node : m \in k.children[q] =>
          /\ m \in 1 .. count' /\ q \in 1 .. count'
          /\ r[m] = r[q] /\ r[m] # m /\ dep[q] < dep[m]
    BY <1>3, <1>4, <1>9, <1>12, <1>14 DEF Trees
  <2>4. \A m, q, h \in Node : m \in k.children[q] /\ m \in k.children[h] => q = h
    BY <1>3, <1>4, <1>9 DEF Trees
  <2> QED BY <2>1, <2>2, <2>3, <2>4 DEF Trees
<1>18. /\ count = 0 => tail = Nil /\ head = Nil /\ R = {}
       /\ count # 0 => tail \in R /\ head \in R /\ end = pos[tail] + size[tail] /\ tail # Nil
  <2>1. count = 0 => R = {} BY <1>16
  <2> QED BY <2>1, <1>3, <1>4, <1>16 DEF Chain
<1>19. \A m \in R : ord[m] <= ord[tail] /\ pos[m] + size[m] <= end /\ tail # Nil /\ tail \in R
  <2> TAKE m \in R
  <2>1. tail \in R /\ tail # Nil /\ end = pos[tail] + size[tail] BY <1>16, <1>18
  <2>2. ~ ord[tail] < ord[m] BY <2>1, <1>3, <1>4 DEF Chain
  <2>3. ord[m] < ord[tail] => pos[m] + size[m] <= pos[tail]
    BY <2>1, <1>3, <1>4 DEF Chain
  <2>4. m # tail => ord[m] # ord[tail] BY <2>1, <1>4 DEF Chain
  <2> QED BY <2>1, <2>2, <2>3, <2>4, <1>10, <1>16
<1>20. Chain(k, count', r, p, o, end + s)
  <2>1. ASSUME NEW m \in R \cup {n}
        PROVE  /\ right'[m] = Nil <=> m = n
               /\ left'[m] = Nil <=> m = head'
               /\ right'[m] # Nil => /\ right'[m] \in R \cup {n} /\ left'[right'[m]] = m
                                     /\ o[m] < o[right'[m]]
                                     /\ p[right'[m]] = p[m] + size'[m]
               /\ left'[m] # Nil => left'[m] \in R \cup {n} /\ right'[left'[m]] = m
    <3>1. CASE m = n
      <4>1. right[n] = Nil BY <1>1, <1>5, <1>6 DEF Blank
      <4>2. right'[n] = Nil /\ left'[n] = tail BY <4>1, <1>8, <1>15, <1>18
      <4>3. head' = n <=> tail = Nil BY <1>6, <1>15, <1>18
      <4>4. tail # Nil => tail \in R /\ right'[tail] = n BY <1>8, <1>10, <1>18
      <4> QED BY <4>2, <4>3, <4>4, <3>1
    <3>2. CASE m \in R
      <4>1. /\ right[m] = Nil <=> m = tail
            /\ left[m] = Nil <=> m = head
            /\ right[m] # Nil => /\ right[m] \in R /\ left[right[m]] = m
                                 /\ ord[m] < ord[right[m]]
                                 /\ pos[right[m]] = pos[m] + size[m]
            /\ left[m] # Nil => left[m] \in R /\ right[left[m]] = m
        BY <3>2, <1>3, <1>4 DEF Chain
      <4>2. /\ left'[m] = left[m] /\ head' = head /\ size'[m] = size[m]
            /\ p[m] = pos[m] /\ o[m] = ord[m] /\ m \in Node /\ m # n
        BY <3>2, <1>6, <1>8, <1>12, <1>16, <1>19
      <4>3. left[m] # tail BY <4>1, <3>2, <1>16, <1>19, <1>3, <1>4 DEF Chain
      <4>4. left[m] # Nil => right'[left[m]] = m BY <4>1, <4>3, <1>8, <1>16
      <4>5. CASE m = tail
        <5>1. right'[m] = n /\ left'[n] = m /\ o[n] = ord[m] + 1 /\ p[n] = pos[m] + size[m]
          BY <4>2, <4>5, <1>8, <1>12, <1>16, <1>18, <1>19, <3>2
        <5> QED BY <5>1, <4>1, <4>2, <4>4, <1>10, <1>5, NotNil
      <4>6. CASE m # tail
        <5>1. right'[m] = right[m] /\ right[m] \in R BY <4>1, <4>2, <4>6, <1>8
        <5>2. left'[right[m]] = m /\ o[right[m]] = ord[right[m]] /\ p[right[m]] = pos[right[m]]
          BY <5>1, <4>1, <1>8, <1>12, <1>16
        <5> QED BY <5>1, <5>2, <4>1, <4>2, <4>4, <1>16
      <4> QED BY <4>5, <4>6
    <3> QED BY <3>1, <3>2
  <2>2. ASSUME NEW m \in R \cup {n}, NEW q \in R \cup {n}
        PROVE  /\ m # q => o[m] # o[q]
               /\ o[m] < o[q] => /\ right'[m] # Nil
                                 /\ o[right'[m]] <= o[q]
                                 /\ p[m] + size'[m] <= p[q]
    <3>1. CASE m \in R /\ q \in R
      <4>1. /\ m # q => ord[m] # ord[q]
            /\ ord[m] < ord[q] => /\ right[m] # Nil
                                  /\ ord[right[m]] <= ord[q]
                                  /\ pos[m] + size[m] <= pos[q]
        BY <3>1, <1>3, <1>4 DEF Chain
      <4>2. /\ o[m] = ord[m] /\ o[q] = ord[q] /\ p[m] = pos[m] /\ p[q] = pos[q]
            /\ size'[m] = size[m]
        BY <3>1, <1>8, <1>12, <1>16
      <4>3. ord[m] < ord[q] => m # tail BY <3>1, <1>10, <1>16, <1>19
      <4>4. m # tail => right'[m] = right[m] BY <3>1, <1>8, <1>16
      <4>5. right[m] # Nil => right[m] \in R BY <3>1, <1>3, <1>4 DEF Chain
      <4>6. right[m] # Nil => o[right[m]] = ord[right[m]] BY <4>5, <1>12, <1>16
      <4> QED BY <4>1, <4>2, <4>3, <4>4, <4>6
    <3>2. CASE m = n /\ q \in R
      <4>1. o[n] = ord[tail] + 1 /\ o[q] = ord[q] /\ ord[q] <= ord[tail]
        BY <3>2, <1>12, <1>16, <1>19
      <4> QED BY <4>1, <3>2, <1>10, <1>16, <1>19
    <3>3. CASE m \in R /\ q = n
      <4>1. /\ o[n] = ord[tail] + 1 /\ o[m] = ord[m] /\ ord[m] <= ord[tail]
            /\ p[n] = end /\ p[m] = pos[m] /\ size'[m] = size[m]
            /\ pos[m] + size[m] <= end
        BY <3>3, <1>8, <1>12, <1>16, <1>19
      <4>2. right'[m] # Nil /\ (right'[m] = n \/ right'[m] = right[m])
        BY <2>1, <3>3, <1>8, <1>16
      <4>3. right'[m] # n => right[m] \in R
        BY <2>1, <4>2, <3>3
      <4>4. o[right'[m]] <= o[n]
        BY <4>1, <4>2, <4>3, <1>10, <1>12, <1>16, <1>19
      <4> QED BY <4>1, <4>2, <4>4, <3>3, <1>10, <1>16, <1>19
    <3>4. CASE m = n /\ q = n BY <3>4, <1>11, <1>5 DEF Ghosts
    <3> QED BY <3>1, <3>2, <3>3, <3>4
  <2>3. head' \in R \cup {n} BY <1>6, <1>18
  <2>4. count' # 0 /\ end + s = p[n] + size'[n] BY <1>5, <1>6, <1>8, <1>12
  <2>5. ASSUME NEW m \in R \cup {n}
        PROVE  /\ k.right[m] = Nil <=> m = k.tail
               /\ k.left[m] = Nil <=> m = k.head
               /\ k.right[m] # Nil => /\ k.right[m] \in R \cup {n} /\ k.left[k.right[m]] = m
                                      /\ o[m] < o[k.right[m]]
                                      /\ p[k.right[m]] = p[m] + k.size[m]
               /\ k.left[m] # Nil => k.left[m] \in R \cup {n} /\ k.right[k.left[m]] = m
    BY <2>1, <1>9
  <2>6. \A m \in R \cup {n} : o[head'] <= o[m]
    <3>1. CASE tail = Nil
      <4>1. head' = n /\ R = {} BY <3>1, <1>6, <1>18
      <4> QED BY <4>1, <1>11, <1>5 DEF Ghosts
    <3>2. CASE tail # Nil
      <4>1. head' = head /\ head \in R /\ \A m \in R : ord[head] <= ord[m]
        BY <3>2, <1>3, <1>4, <1>6, <1>18 DEF Chain
      <4>2. o[head] = ord[head] /\ o[n] = ord[tail] + 1 /\ \A m \in R : o[m] = ord[m]
        BY <3>2, <4>1, <1>12, <1>16
      <4> QED BY <4>1, <4>2, <1>10, <1>16, <1>19
    <3> QED BY <3>1, <3>2
  <2> QED BY <2>2, <2>3, <2>4, <2>5, <2>6, <1>9, <1>15 DEF Chain
<1>21. Within(count', r, p, end + s)
  <2> SUFFICES ASSUME NEW x \in 1 .. count'
               PROVE  p[r[x]] <= p[x] /\ p[x] <= end + s
    BY DEF Within
  <2>1. CASE x = n BY <2>1, <1>12
  <2>2. CASE x \in 1 .. count
    <3>1. pos[root[x]] <= pos[x] /\ pos[x] <= end BY <2>2, <1>4 DEF Within
    <3>2. root[x] \in 1 .. count BY <2>2, <1>4 DEF Trees
    <3>3. x \in Node /\ x # n /\ root[x] \in Node /\ root[x] # n BY <2>2, <3>2, <1>14
    <3>4. r[x] = root[x] /\ p[x] = pos[x] /\ p[root[x]] = pos[root[x]] BY <3>3, <1>12
    <3> QED BY <3>1, <3>3, <3>4, <1>10
  <2> QED BY <2>1, <2>2, <1>13
<1>22. Offsets(k, p)
  <2> SUFFICES ASSUME NEW x \in Node, NEW y \in Node, x \in children[y]
               PROVE  p[x] = p[y] + offset[x]
    BY <1>9 DEF Offsets
  <2>1. pos[x] = pos[y] + offset[x] /\ x \in 1 .. count /\ y \in 1 .. count
    BY <1>3, <1>4 DEF Offsets, Trees
  <2> QED BY <2>1, <1>12, <1>14
<1>23. Spread(r, p, o, end + s)
  <2>1. ASSUME NEW a \in 1 .. nallocs
        PROVE  /\ nodeOf[a] \in 1 .. count /\ pos[nodeOf[a]] + sizeOf[a] <= end
               /\ sizeOf[a] \in Nat /\ nodeOf[a] \in Node
               /\ p[nodeOf[a]] = pos[nodeOf[a]] /\ r[nodeOf[a]] = root[nodeOf[a]]
               /\ o[root[nodeOf[a]]] = ord[root[nodeOf[a]]]
    <3>1. nodeOf[a] \in 1 .. count /\ pos[nodeOf[a]] + sizeOf[a] <= end BY <1>4 DEF Spread
    <3>2. root[nodeOf[a]] \in 1 .. count BY <3>1, <1>4 DEF Trees
    <3>3. a \in Alloc BY <1>1, DeferAssumption DEF Alloc, TypeOK
    <3>4. sizeOf[a] \in Nat BY <3>3, <1>1 DEF TypeOK
    <3> QED BY <3>1, <3>2, <3>4, <1>12, <1>14
  <2>2. \A a \in 1 .. nallocs : nodeOf[a] \in 1 .. count /\ p[nodeOf[a]] + sizeOf[a] <= end + s
    BY <2>1, <1>10
  <2> QED BY <2>1, <2>2, <1>4 DEF Spread
<1>24. Kept(k, r, usage)'
  <2>1. freeList \subseteq R BY <1>3, <1>4 DEF Kept
  <2>2. ASSUME NEW m \in R \cup {n}
        PROVE  /\ ~ usage'[m] <=> m \in freeList
               /\ ~ usage'[m] /\ right'[m] # Nil => usage'[right'[m]]
    <3>1. CASE m = n BY <3>1, <2>1, <1>8, <1>15
    <3>2. CASE m \in R
      <4>1. /\ ~ usage[m] <=> m \in freeList
            /\ ~ usage[m] /\ right[m] # Nil => usage[right[m]]
        BY <3>2, <1>3, <1>4 DEF Kept
      <4>2. right[m] # Nil => right[m] \in R BY <3>2, <1>3, <1>4 DEF Chain
      <4> QED BY <4>1, <4>2, <3>2, <1>8, <1>16
    <3> QED BY <3>1, <3>2
  <2> QED BY <2>1, <2>2, <1>9, <1>15 DEF Kept
<1>25. Blank'
  <2> SUFFICES ASSUME NEW m \in Node, m > count'
               PROVE  right'[m] = Nil /\ ~ usage'[m]
    BY DEF Blank
  <2>1. m \in Nat /\ m > count /\ m # n BY <1>5, <1>6 DEF Node
  <2>2. m # tail
    <3>1. tail = Nil \/ tail \in 1 .. count BY <1>16, <1>18
    <3> QED BY <3>1, <2>1, <1>6, NotNil
  <2> QED BY <2>1, <2>2, <1>1, <1>8 DEF Blank
<1>26. Taking(root, r, n, s)
  BY <1>5, <1>8, <1>15, <1>16 DEF Taking
<1>27. count' > 0 /\ count <= count' BY <1>5, <1>6
<1> QED
  BY <1>1, <1>4, <1>6, <1>7, <1>9, <1>11, <1>17, <1>20, <1>21, <1>22, <1>23, <1>24, <1>25,
     <1>26, <1>27, PlanRecorded

LEMMA PlanSplit ==
  ASSUME PlanInv, NEW n \in freeList, NEW s \in Nat, s < size[n], AllocSplit(n, s), Record(n, s),
         total = 0, barrier # "ending", nallocs < MaxAllocs, UNCHANGED <<barrier, pending, total>>
  PROVE  PlanInv'
<1>1. TypeOK /\ Times /\ Blank BY DEF PlanInv
<1>2. PICK root \in [Node -> Node], pos \in Ghosts, ord \in Ghosts, dep \in Ghosts, end \in Nat :
        Layout(root, pos, ord, dep, end)
  BY DEF PlanInv
<1>3. PICK l \in Lists :
        /\ l = List
        /\ l.head = head /\ l.tail = tail /\ l.left = left /\ l.right = right
        /\ l.size = size /\ l.offset = offset /\ l.children = children
        /\ l.free = freeList
  BY <1>1, ListFields
<1>4. /\ Trees(l, count, root, dep) /\ Chain(l, count, root, pos, ord, end)
      /\ Within(count, root, pos, end) /\ Spread(root, pos, ord, end)
      /\ Offsets(l, pos) /\ Kept(l, root, usage) /\ Chunks(root)
  BY <1>2, <1>3 DEF Layout, Plan
<1>5. PICK q \in Node : q = count + 1
  BY <1>1, DeferAssumption DEF AllocSplit, TypeOK, Node
<1>6. PICK c : c = right[n] OBVIOUS
<1> DEFINE R == Roots(root, count)
<1>7. n \in R /\ ~ usage[n] /\ n \in Node BY <1>1, <1>3, <1>4 DEF Kept, TypeOK
<1>8. /\ count' = q /\ count \in Nat /\ q \in Nat
      /\ right' = [right EXCEPT ![q] = c, ![n] = q]
      /\ left' = [Link(left, c, q) EXCEPT ![q] = n]
      /\ tail' = IF tail = n THEN q ELSE tail
      /\ size' = [size EXCEPT ![q] = size[n] - s, ![n] = s]
      /\ usage' = [usage EXCEPT ![n] = TRUE]
      /\ freeList' = (freeList \ {n}) \cup {q}
      /\ head' = head /\ offset' = offset /\ children' = children
      /\ Recorded(n, s)
  BY <1>1, <1>5, <1>6, <1>7 DEF AllocSplit, TypeOK, Recorded
<1>9. /\ \A m \in Node : pos[m] \in Nat /\ ord[m] \in Nat /\ dep[m] \in Nat /\ size[m] \in Nat
      /\ size[n] - s \in Nat /\ size[n] - s > 0
  <2>1. \A m \in Node : pos[m] \in Nat /\ ord[m] \in Nat /\ dep[m] \in Nat /\ size[m] \in Nat
    BY <1>1 DEF Ghosts, TypeOK
  <2> QED BY <2>1, <1>7
<1>10. \A m \in 1 .. count : m \in Node /\ m # q /\ m \in 1 .. count'
  BY <1>1, <1>5, <1>8, DeferAssumption DEF Node, TypeOK
<1>11. \A m \in R : m \in Node /\ m # q /\ m # Nil /\ m \in 1 .. count
  BY <1>10, NotNil DEF Roots
<1>12. \A m \in 1 .. count' : m = q \/ m \in 1 .. count BY <1>5, <1>8
<1>13. q # n /\ c \in Node \cup {Nil} /\ (c # Nil => c \in R /\ left[c] = n /\ c # n /\ c # q)
  <2>1. c # Nil => c \in R /\ left[c] = n /\ ord[n] < ord[c]
    BY <1>3, <1>4, <1>6, <1>7 DEF Chain
  <2> QED BY <2>1, <1>7, <1>9, <1>11
<1>14. /\ \A m \in Node : left'[m] = IF m = q THEN n ELSE IF m = c THEN q ELSE left[m]
       /\ \A m \in Node : right'[m] = IF m = n THEN q ELSE IF m = q THEN c ELSE right[m]
       /\ \A m \in Node : size'[m] = IF m = n THEN s ELSE IF m = q THEN size[n] - s ELSE size[m]
       /\ \A m \in Node : usage'[m] = IF m = n THEN TRUE ELSE usage[m]
  <2>1. \A m \in Node : left'[m] = IF m = q THEN n ELSE IF m = c THEN q ELSE left[m]
    BY <1>1, <1>8, <1>13, NotNil DEF TypeOK, Link
  <2>2. \A m \in Node : right'[m] = IF m = n THEN q ELSE IF m = q THEN c ELSE right[m]
    BY <1>1, <1>8, <1>13 DEF TypeOK
  <2>3. \A m \in Node : size'[m] = IF m = n THEN s ELSE IF m = q THEN size[n] - s ELSE size[m]
    BY <1>1, <1>8, <1>13 DEF TypeOK
  <2> QED BY <2>1, <2>2, <2>3, <1>1, <1>8 DEF TypeOK
<1>15. ListTypes'
  <2>1. right' \in [Node -> Node \cup {Nil}] BY <1>1, <1>5, <1>8, <1>13 DEF TypeOK
  <2>2. left' \in [Node -> Node \cup {Nil}] BY <1>1, <1>5, <1>7, <1>8, <1>13 DEF TypeOK, Link
  <2>3. size' \in [Node -> Nat] /\ usage' \in [Node -> BOOLEAN]
    BY <1>1, <1>8, <1>9 DEF TypeOK
  <2>4. count' \in 0 .. MaxNodes BY <1>5, <1>8, DeferAssumption DEF Node
  <2>5. head' \in Node \cup {Nil} /\ tail' \in Node \cup {Nil} /\ freeList' \subseteq Node
    BY <1>1, <1>5, <1>8 DEF TypeOK
  <2> QED BY <2>1, <2>2, <2>3, <2>4, <2>5, <1>1, <1>8 DEF ListTypes, TypeOK
<1>16. PICK k \in Lists :
        /\ k = List'
        /\ k.head = head /\ k.tail = tail' /\ k.left = left' /\ k.right = right'
        /\ k.size = size' /\ k.offset = offset /\ k.children = children
        /\ k.free = freeList'
  <2>1. List' \in Lists BY <1>15 DEF List, Lists, ListTypes
  <2>2. /\ List'.head = head' /\ List'.tail = tail' /\ List'.left = left'
        /\ List'.right = right' /\ List'.size = size' /\ List'.offset = offset'
        /\ List'.children = children' /\ List'.free = freeList'
    BY DEF List
  <2> QED BY <2>1, <2>2, <1>8
<1> DEFINE r == [root EXCEPT ![q] = q]
           p == [pos EXCEPT ![q] = pos[n] + s]
           o == [m \in Node |-> IF m = q THEN ord[n] + 1
                                ELSE IF ord[n] < ord[m] THEN ord[m] + 1 ELSE ord[m]]
<1>17. r \in [Node -> Node] /\ p \in Ghosts /\ o \in Ghosts
  <2>1. r \in [Node -> Node] BY <1>5
  <2>2. p \in Ghosts BY <1>7, <1>9 DEF Ghosts
  <2>3. o \in Ghosts BY <1>7, <1>9 DEF Ghosts
  <2> QED BY <2>1, <2>2, <2>3
<1>18. \A m \in Node : /\ r[m] = IF m = q THEN q ELSE root[m]
                       /\ p[m] = IF m = q THEN pos[n] + s ELSE pos[m]
                       /\ o[m] = IF m = q THEN ord[n] + 1
                                 ELSE IF ord[n] < ord[m] THEN ord[m] + 1 ELSE ord[m]
  BY DEF Ghosts
<1> HIDE DEF r, p, o
<1>19. Roots(r, count') = R \cup {q}
  BY <1>5, <1>8, <1>10, <1>12, <1>18 DEF Roots
<1>20. Trees(k, count', r, dep)
  <2>1. \A m \in 1 .. count' : r[m] \in 1 .. count' /\ r[r[m]] = r[m]
    BY <1>4, <1>5, <1>8, <1>10, <1>12, <1>18 DEF Trees
  <2>2. \A m \in 1 .. count' : r[m] # m => \E x \in Node : m \in k.children[x]
    BY <1>3, <1>4, <1>10, <1>12, <1>16, <1>18 DEF Trees
  <2>3. \A m, x \in Node : m \in k.children[x] =>
          /\ m \in 1 .. count' /\ x \in 1 .. count'
          /\ r[m] = r[x] /\ r[m] # m /\ dep[x] < dep[m]
    BY <1>3, <1>4, <1>10, <1>16, <1>18 DEF Trees
  <2>4. \A m, x, h \in Node : m \in k.children[x] /\ m \in k.children[h] => x = h
    BY <1>3, <1>4, <1>16 DEF Trees
  <2> QED BY <2>1, <2>2, <2>3, <2>4 DEF Trees
<1>21. \A m \in R : /\ right[m] = Nil <=> m = tail
                    /\ left[m] = Nil <=> m = head
                    /\ right[m] # Nil => /\ right[m] \in R /\ left[right[m]] = m
                                         /\ ord[m] < ord[right[m]]
                                         /\ pos[right[m]] = pos[m] + size[m]
                    /\ left[m] # Nil => left[m] \in R /\ right[left[m]] = m
  BY <1>3, <1>4 DEF Chain
<1>22. \A m, x \in R : /\ m # x => ord[m] # ord[x]
                       /\ ord[m] < ord[x] => /\ right[m] # Nil
                                             /\ ord[right[m]] <= ord[x]
                                             /\ pos[m] + size[m] <= pos[x]
  BY <1>3, <1>4 DEF Chain
<1>23. head \in R /\ tail \in R /\ end = pos[tail] + size[tail]
  <2>1. count # 0 BY <1>7, <1>11
  <2> QED BY <2>1, <1>3, <1>4 DEF Chain
<1>24. Chain(k, count', r, p, o, end)
  <2>1. ASSUME NEW m \in R \cup {q}
        PROVE  /\ right'[m] = Nil <=> m = tail'
               /\ left'[m] = Nil <=> m = head
               /\ right'[m] # Nil => /\ right'[m] \in R \cup {q} /\ left'[right'[m]] = m
                                     /\ o[m] < o[right'[m]]
                                     /\ p[right'[m]] = p[m] + size'[m]
               /\ left'[m] # Nil => left'[m] \in R \cup {q} /\ right'[left'[m]] = m
    <3>1. CASE m = q
      <4>1. right'[q] = c /\ left'[q] = n /\ right'[n] = q /\ size'[q] = size[n] - s
        BY <1>7, <1>13, <1>14
      <4>2. c = Nil <=> q = tail' BY <1>6, <1>7, <1>8, <1>11, <1>21, <1>23
      <4>3. q # head /\ n # Nil BY <1>7, <1>11, <1>23
      <4>4. o[q] = ord[n] + 1 /\ p[q] = pos[n] + s BY <1>18
      <4>5. c # Nil => /\ c \in R /\ left'[c] = q
                       /\ o[c] = ord[c] + 1 /\ p[c] = pos[c]
                       /\ ord[n] < ord[c] /\ pos[c] = pos[n] + size[n]
        BY <1>6, <1>7, <1>11, <1>13, <1>14, <1>18, <1>21
      <4>6. c # Nil => o[q] < o[c] /\ p[c] = p[q] + size'[q]
        BY <4>1, <4>4, <4>5, <1>7, <1>9, <1>11
      <4> QED BY <3>1, <4>1, <4>2, <4>3, <4>5, <4>6, <1>7
    <3>2. CASE m = n
      <4>1. right'[n] = q /\ left'[q] = n /\ size'[n] = s /\ o[n] = ord[n] /\ p[n] = pos[n]
        BY <1>7, <1>9, <1>13, <1>14, <1>18
      <4>2. q # Nil /\ n # tail' BY <1>8, <1>13, NotNil
      <4>3. o[q] = ord[n] + 1 /\ p[q] = pos[n] + s BY <1>18
      <4>4. left[n] # c \/ c = Nil
        BY <1>6, <1>7, <1>9, <1>11, <1>13, <1>21
      <4>5. left[n] # Nil => left[n] # n BY <1>7, <1>9, <1>11, <1>21
      <4>6. left'[n] = left[n] BY <4>4, <1>7, <1>13, <1>14, NotNil
      <4>7. left[n] # Nil => left[n] \in R /\ right'[left[n]] = n
        BY <4>5, <1>7, <1>11, <1>14, <1>21
      <4> QED BY <3>2, <4>1, <4>2, <4>3, <4>6, <4>7, <1>7, <1>9, <1>21
    <3>3. CASE m \in R /\ m # n
      <4>1. /\ right'[m] = right[m] /\ size'[m] = size[m] /\ p[m] = pos[m]
            /\ m \in Node /\ m # q
        BY <3>3, <1>11, <1>14, <1>18
      <4>2. right[m] = Nil <=> m = tail' BY <3>3, <4>1, <1>8, <1>21
      <4>3. right[m] # Nil => right[m] # c
        BY <3>3, <1>13, <1>21
      <4>4. right[m] # Nil => left'[right[m]] = m /\ p[right[m]] = pos[right[m]]
        BY <4>3, <3>3, <1>11, <1>14, <1>18, <1>21
      <4>5. right[m] # Nil => o[m] < o[right[m]]
        <5>1. SUFFICES ASSUME right[m] # Nil PROVE o[m] < o[right[m]] OBVIOUS
        <5>2. ord[m] < ord[right[m]] /\ right[m] \in R BY <5>1, <3>3, <1>21
        <5>3. /\ o[m] = IF ord[n] < ord[m] THEN ord[m] + 1 ELSE ord[m]
              /\ o[right[m]] = IF ord[n] < ord[right[m]] THEN ord[right[m]] + 1
                               ELSE ord[right[m]]
          BY <5>2, <4>1, <1>11, <1>18
        <5>4. ord[m] \in Nat /\ ord[right[m]] \in Nat /\ ord[n] \in Nat
          BY <5>2, <4>1, <1>7, <1>9, <1>11
        <5> QED BY <5>2, <5>3, <5>4
      <4>6. left'[m] = IF m = c THEN q ELSE left[m] BY <4>1, <1>14
      <4>7. m = c => left[m] = n /\ m # head BY <3>3, <1>7, <1>11, <1>13, <1>21
      <4>8. left'[m] = Nil <=> m = head BY <4>6, <4>7, <3>3, <1>5, <1>21, NotNil
      <4>9. m # c /\ left[m] # Nil => left[m] \in R /\ left[m] # n /\ right'[left[m]] = m
        BY <3>3, <1>6, <1>11, <1>14, <1>21
      <4>10. m = c => right'[q] = m BY <1>13, <1>14
      <4> QED BY <3>3, <4>1, <4>2, <4>4, <4>5, <4>6, <4>8, <4>9, <4>10, <1>21
    <3> QED BY <3>1, <3>2, <3>3
  <2>2. ASSUME NEW m \in R \cup {q}, NEW x \in R \cup {q}
        PROVE  /\ m # x => o[m] # o[x]
               /\ o[m] < o[x] => /\ right'[m] # Nil
                                 /\ o[right'[m]] <= o[x]
                                 /\ p[m] + size'[m] <= p[x]
    <3>1. CASE m = q /\ x = q BY <3>1, <1>17, <1>5 DEF Ghosts
    <3>2. CASE m = q /\ x \in R
      <4>1. /\ o[q] = ord[n] + 1 /\ p[q] = pos[n] + s /\ p[x] = pos[x]
            /\ o[x] = IF ord[n] < ord[x] THEN ord[x] + 1 ELSE ord[x]
            /\ right'[q] = c /\ size'[q] = size[n] - s
        BY <3>2, <1>11, <1>13, <1>14, <1>18
      <4>2. ord[n] < ord[x] =>
              c # Nil /\ ord[c] <= ord[x] /\ pos[n] + size[n] <= pos[x]
        BY <3>2, <1>6, <1>7, <1>22
      <4>3. c # Nil => o[c] = ord[c] + 1 BY <1>6, <1>7, <1>11, <1>13, <1>18, <1>21
      <4>4. ord[x] \in Nat /\ ord[n] \in Nat /\ (c # Nil => ord[c] \in Nat)
            /\ pos[n] \in Nat /\ pos[x] \in Nat /\ size[n] \in Nat
        BY <3>2, <1>7, <1>9, <1>11, <1>13
      <4> QED BY <3>2, <4>1, <4>2, <4>3, <4>4
    <3>3. CASE m \in R /\ x = q
      <4>1. /\ o[q] = ord[n] + 1 /\ p[q] = pos[n] + s /\ p[m] = pos[m]
            /\ o[m] = IF ord[n] < ord[m] THEN ord[m] + 1 ELSE ord[m]
        BY <3>3, <1>11, <1>18
      <4>2. ord[m] \in Nat /\ ord[n] \in Nat /\ pos[m] \in Nat /\ pos[n] \in Nat
            /\ size[m] \in Nat /\ m \in Node
        BY <3>3, <1>7, <1>9, <1>11
      <4>3. o[m] # o[q] BY <4>1, <4>2
      <4>4. CASE m = n
        <5>1. right'[m] = q /\ size'[m] = s BY <4>4, <1>7, <1>14
        <5> QED BY <5>1, <3>3, <4>1, <4>2, <4>3, <4>4, <1>5, NotNil
      <4>5. CASE m # n
        <5>1. o[m] < o[q] => ord[m] < ord[n]
          <6>1. ord[m] # ord[n] BY <3>3, <4>5, <1>7, <1>22
          <6> QED BY <6>1, <4>1, <4>2
        <5>2. ord[m] < ord[n] => /\ right[m] # Nil /\ right[m] \in R
                                 /\ ord[right[m]] <= ord[n]
                                 /\ pos[m] + size[m] <= pos[n]
          BY <3>3, <1>7, <1>21, <1>22
        <5>3. right'[m] = right[m] /\ size'[m] = size[m] BY <3>3, <4>2, <4>5, <1>11, <1>14
        <5>4. ord[m] < ord[n] => o[right[m]] = ord[right[m]] /\ ord[right[m]] \in Nat
          <6>1. SUFFICES ASSUME ord[m] < ord[n]
                         PROVE  o[right[m]] = ord[right[m]] /\ ord[right[m]] \in Nat
            OBVIOUS
          <6>2. right[m] \in Node /\ right[m] # q /\ ord[right[m]] \in Nat
            BY <5>2, <6>1, <1>9, <1>11
          <6>3. ~ ord[n] < ord[right[m]] BY <5>2, <6>1, <6>2, <4>2
          <6> QED BY <6>2, <6>3, <1>18
        <5> QED BY <3>3, <4>1, <4>2, <4>3, <5>1, <5>2, <5>3, <5>4
      <4> QED BY <4>4, <4>5
    <3>4. CASE m \in R /\ x \in R
      <4>1. /\ p[m] = pos[m] /\ p[x] = pos[x]
            /\ o[m] = IF ord[n] < ord[m] THEN ord[m] + 1 ELSE ord[m]
            /\ o[x] = IF ord[n] < ord[x] THEN ord[x] + 1 ELSE ord[x]
        BY <3>4, <1>11, <1>18
      <4>2. ord[m] \in Nat /\ ord[x] \in Nat /\ ord[n] \in Nat /\ pos[m] \in Nat /\ pos[x] \in Nat
            /\ size[m] \in Nat /\ m \in Node
        BY <3>4, <1>7, <1>9, <1>11
      <4>3. /\ m # x => ord[m] # ord[x]
            /\ ord[m] < ord[x] => /\ right[m] # Nil /\ right[m] \in R
                                  /\ ord[right[m]] <= ord[x]
                                  /\ pos[m] + size[m] <= pos[x]
        BY <3>4, <1>21, <1>22
      <4>4. o[m] < o[x] => ord[m] < ord[x] BY <4>1, <4>2
      <4>5. m # x => o[m] # o[x]
        <5>1. SUFFICES ASSUME ord[m] # ord[x] PROVE o[m] # o[x] BY <4>3
        <5>2. CASE ord[m] < ord[x] BY <5>2, <4>1, <4>2
        <5>3. CASE ord[x] < ord[m] BY <5>3, <4>1, <4>2
        <5> QED BY <5>1, <5>2, <5>3, <4>2
      <4>6. CASE m = n
        <5>1. right'[m] = q /\ size'[m] = s /\ o[q] = ord[n] + 1 /\ q # Nil
          BY <4>6, <1>5, <1>7, <1>14, <1>18, NotNil
        <5> QED BY <5>1, <4>1, <4>2, <4>3, <4>4, <4>5, <4>6
      <4>7. CASE m # n
        <5>1. right'[m] = right[m] /\ size'[m] = size[m] BY <3>4, <4>2, <4>7, <1>11, <1>14
        <5>2. ord[m] < ord[x] => o[right[m]] <= o[x]
          <6>1. SUFFICES ASSUME ord[m] < ord[x] PROVE o[right[m]] <= o[x] OBVIOUS
          <6>2. right[m] \in Node /\ right[m] # q /\ ord[right[m]] \in Nat
            BY <4>3, <6>1, <1>9, <1>11
          <6>3. o[right[m]] = IF ord[n] < ord[right[m]] THEN ord[right[m]] + 1
                              ELSE ord[right[m]]
            BY <6>2, <1>18
          <6> QED BY <6>1, <6>2, <6>3, <4>1, <4>2, <4>3
        <5> QED BY <5>1, <5>2, <4>1, <4>2, <4>3, <4>4, <4>5
      <4> QED BY <4>6, <4>7
    <3> QED BY <3>1, <3>2, <3>3, <3>4
  <2>3. head \in R \cup {q} /\ tail' \in R \cup {q} BY <1>8, <1>23
  <2>4. count' # 0 BY <1>5, <1>8
  <2>5. end = p[tail'] + size'[tail']
    <3>1. CASE tail = n
      <4>1. tail' = q /\ size'[q] = size[n] - s /\ p[q] = pos[n] + s
        BY <3>1, <1>8, <1>13, <1>14, <1>18
      <4>2. pos[n] \in Nat /\ size[n] \in Nat BY <1>7, <1>9
      <4> QED BY <3>1, <4>1, <4>2, <1>23
    <3>2. CASE tail # n BY <3>2, <1>8, <1>11, <1>14, <1>18, <1>23
    <3> QED BY <3>1, <3>2
  <2>6. ASSUME NEW m \in R \cup {q}
        PROVE  /\ k.right[m] = Nil <=> m = k.tail
               /\ k.left[m] = Nil <=> m = k.head
               /\ k.right[m] # Nil => /\ k.right[m] \in R \cup {q} /\ k.left[k.right[m]] = m
                                      /\ o[m] < o[k.right[m]]
                                      /\ p[k.right[m]] = p[m] + k.size[m]
               /\ k.left[m] # Nil => k.left[m] \in R \cup {q} /\ k.right[k.left[m]] = m
    BY <2>1, <1>16
  <2>7. ASSUME NEW m \in R \cup {q} PROVE o[head] <= o[m]
    <3>1. /\ \A x \in R : ord[head] <= ord[x]
          /\ ord[head] \in Nat /\ ord[n] \in Nat /\ (m \in R => ord[m] \in Nat)
          /\ o[head] = IF ord[n] < ord[head] THEN ord[head] + 1 ELSE ord[head]
      <4>1. \A x \in R : ord[head] <= ord[x]
        <5>1. count # 0 BY <1>7, <1>11
        <5> QED BY <5>1, <1>3, <1>4 DEF Chain
      <4>2. ord[head] \in Nat /\ ord[n] \in Nat /\ (m \in R => ord[m] \in Nat)
        BY <1>7, <1>9, <1>11, <1>23
      <4>3. o[head] = IF ord[n] < ord[head] THEN ord[head] + 1 ELSE ord[head]
        BY <1>11, <1>18, <1>23
      <4> QED BY <4>1, <4>2, <4>3
    <3>2. CASE m = q
      <4>1. o[q] = ord[n] + 1 BY <1>18
      <4> QED BY <3>1, <3>2, <4>1, <1>7
    <3>3. CASE m \in R
      <4>1. o[m] = IF ord[n] < ord[m] THEN ord[m] + 1 ELSE ord[m] BY <3>3, <1>11, <1>18
      <4> QED BY <3>1, <3>3, <4>1
    <3> QED BY <3>2, <3>3
  <2> QED BY <2>2, <2>3, <2>4, <2>5, <2>6, <2>7, <1>16, <1>19 DEF Chain
<1>25. pos[n] + s <= end
  <2>1. ~ ord[tail] < ord[n] BY <1>7, <1>21, <1>22, <1>23
  <2>2. n = tail \/ ord[n] < ord[tail] BY <2>1, <1>7, <1>9, <1>11, <1>22, <1>23
  <2>3. CASE n = tail BY <2>3, <1>7, <1>9, <1>23
  <2>4. CASE ord[n] < ord[tail]
    <3>1. pos[n] + size[n] <= pos[tail] BY <2>4, <1>7, <1>22, <1>23
    <3> QED BY <3>1, <1>7, <1>9, <1>11, <1>23
  <2> QED BY <2>2, <2>3, <2>4
<1>26. Within(count', r, p, end)
  <2> SUFFICES ASSUME NEW x \in 1 .. count' PROVE p[r[x]] <= p[x] /\ p[x] <= end
    BY DEF Within
  <2>1. CASE x = q BY <2>1, <1>7, <1>9, <1>18, <1>25
  <2>2. CASE x \in 1 .. count
    <3>1. pos[root[x]] <= pos[x] /\ pos[x] <= end BY <2>2, <1>4 DEF Within
    <3>2. root[x] \in 1 .. count BY <2>2, <1>4 DEF Trees
    <3>3. x \in Node /\ x # q /\ root[x] \in Node /\ root[x] # q BY <2>2, <3>2, <1>10
    <3>4. r[x] = root[x] /\ p[x] = pos[x] /\ p[root[x]] = pos[root[x]] BY <3>3, <1>18
    <3> QED BY <3>1, <3>4
  <2> QED BY <2>1, <2>2, <1>12
<1>27. Offsets(k, p)
  <2> SUFFICES ASSUME NEW x \in Node, NEW y \in Node, x \in children[y]
               PROVE  p[x] = p[y] + offset[x]
    BY <1>16 DEF Offsets
  <2>1. pos[x] = pos[y] + offset[x] /\ x \in 1 .. count /\ y \in 1 .. count
    BY <1>3, <1>4 DEF Offsets, Trees
  <2> QED BY <2>1, <1>10, <1>18
<1>28. Spread(r, p, o, end)
  <2>1. \A x, y \in 1 .. count : o[root[x]] < o[root[y]] => ord[root[x]] < ord[root[y]]
    <3> TAKE x, y \in 1 .. count
    <3>1. root[x] \in 1 .. count /\ root[y] \in 1 .. count BY <1>4 DEF Trees
    <3>2. /\ o[root[x]] = IF ord[n] < ord[root[x]] THEN ord[root[x]] + 1 ELSE ord[root[x]]
          /\ o[root[y]] = IF ord[n] < ord[root[y]] THEN ord[root[y]] + 1 ELSE ord[root[y]]
          /\ ord[root[x]] \in Nat /\ ord[root[y]] \in Nat /\ ord[n] \in Nat
      BY <3>1, <1>7, <1>9, <1>10, <1>18
    <3> QED BY <3>2
  <2>2. \A x \in 1 .. count : p[x] = pos[x] /\ r[x] = root[x] BY <1>10, <1>18
  <2>3. \A a \in 1 .. nallocs : nodeOf[a] \in 1 .. count BY <1>4 DEF Spread
  <2> QED BY <2>1, <2>2, <2>3, <1>4 DEF Spread
<1>29. Kept(k, r, usage)'
  <2>1. freeList \subseteq R BY <1>3, <1>4 DEF Kept
  <2>2. ~ usage[q] BY <1>1, <1>5, <1>8 DEF Blank
  <2>3. c # Nil => usage[c] BY <1>3, <1>4, <1>6, <1>7 DEF Kept
  <2>4. ASSUME NEW m \in R \cup {q}
        PROVE  /\ ~ usage'[m] <=> m \in freeList'
               /\ ~ usage'[m] /\ right'[m] # Nil => usage'[right'[m]]
    <3>1. CASE m = q
      <4>1. right'[q] = c /\ ~ usage'[q] /\ q \in freeList'
        BY <2>2, <1>5, <1>8, <1>13, <1>14
      <4> QED BY <3>1, <4>1, <2>3, <1>13, <1>14, <1>11
    <3>2. CASE m = n
      <4>1. usage'[n] /\ n \notin freeList' BY <1>7, <1>8, <1>13, <1>14
      <4> QED BY <3>2, <4>1
    <3>3. CASE m \in R /\ m # n
      <4>1. /\ ~ usage[m] <=> m \in freeList
            /\ ~ usage[m] /\ right[m] # Nil => usage[right[m]] /\ right[m] \in R
        BY <3>3, <1>3, <1>4, <1>21 DEF Kept
      <4>2. m # q /\ m \in Node /\ right'[m] = right[m] /\ (usage'[m] <=> usage[m])
        BY <3>3, <1>11, <1>14
      <4>3. ~ usage[m] /\ right[m] # Nil => usage'[right[m]]
        BY <4>1, <1>11, <1>14
      <4>4. m \in freeList' <=> m \in freeList BY <3>3, <4>2, <1>8
      <4> QED BY <4>1, <4>2, <4>3, <4>4
    <3> QED BY <3>1, <3>2, <3>3
  <2>5. freeList' \subseteq R \cup {q} BY <2>1, <1>8
  <2> QED BY <2>4, <2>5, <1>16, <1>19 DEF Kept
<1>30. Blank'
  <2> SUFFICES ASSUME NEW m \in Node, m > count'
               PROVE  right'[m] = Nil /\ ~ usage'[m]
    BY DEF Blank
  <2>1. m \in Nat /\ m > count /\ m # q BY <1>5, <1>8 DEF Node
  <2>2. m # n BY <2>1, <1>7, <1>8, <1>11
  <2> QED BY <2>1, <2>2, <1>1, <1>14 DEF Blank
<1>31. Taking(root, r, n, s)
  <2>1. \A m \in R : m # n => usage'[m] = usage[m] /\ size'[m] = size[m]
    BY <1>11, <1>14
  <2>2. ~ usage'[q] BY <1>1, <1>5, <1>8, <1>13, <1>14 DEF Blank
  <2> QED BY <2>1, <2>2, <1>7, <1>14, <1>19 DEF Taking
<1>32. count' > 0 /\ count <= count' BY <1>5, <1>8
<1> QED
  BY <1>1, <1>4, <1>8, <1>15, <1>16, <1>17, <1>20, <1>24, <1>26, <1>27, <1>28, <1>29, <1>30,
     <1>31, <1>32, PlanRecorded

LEMMA PlanWhole ==
  ASSUME PlanInv, NEW n \in freeList, NEW s \in Nat, size[n] <= s, AllocWhole(n, s), Record(n, s),
         total = 0, barrier # "ending", nallocs < MaxAllocs, UNCHANGED <<barrier, pending, total>>
  PROVE  PlanInv'
<1>1. TypeOK /\ Times /\ Blank BY DEF PlanInv
<1>2. PICK root \in [Node -> Node], pos \in Ghosts, ord \in Ghosts, dep \in Ghosts, end \in Nat :
        Layout(root, pos, ord, dep, end)
  BY DEF PlanInv
<1>3. PICK l \in Lists :
        /\ l = List
        /\ l.head = head /\ l.tail = tail /\ l.left = left /\ l.right = right
        /\ l.size = size /\ l.offset = offset /\ l.children = children
        /\ l.free = freeList
  BY <1>1, ListFields
<1>4. /\ Trees(l, count, root, dep) /\ Chain(l, count, root, pos, ord, end)
      /\ Within(count, root, pos, end) /\ Spread(root, pos, ord, end)
      /\ Offsets(l, pos) /\ Kept(l, root, usage) /\ Chunks(root)
  BY <1>2, <1>3 DEF Layout, Plan
<1> DEFINE R == Roots(root, count)
<1>5. n \in R /\ ~ usage[n] /\ n \in Node BY <1>1, <1>3, <1>4 DEF Kept, TypeOK
<1>6. /\ size' = [size EXCEPT ![n] = s]
      /\ usage' = [usage EXCEPT ![n] = TRUE]
      /\ freeList' = freeList \ {n}
      /\ count' = count /\ head' = head /\ tail' = tail /\ left' = left /\ right' = right
      /\ offset' = offset /\ children' = children
      /\ count \in Nat
      /\ Recorded(n, s)
  BY <1>1, <1>5 DEF AllocWhole, TypeOK, Recorded
<1>0. \A m \in 1 .. count : m \in Node BY <1>1, DeferAssumption DEF Node, TypeOK
<1>7. \A m \in Node : pos[m] \in Nat /\ ord[m] \in Nat /\ size[m] \in Nat /\ root[m] \in Node
  BY <1>1 DEF Ghosts, TypeOK
<1>8. PICK d \in Nat : s = size[n] + d
  <2>1. s - size[n] \in Nat /\ s = size[n] + (s - size[n]) BY <1>5, <1>7
  <2> QED BY <2>1
<1>9. \A m \in R : m \in Node /\ m # Nil /\ m \in 1 .. count /\ root[m] = m
  BY <1>1, NotNil, DeferAssumption DEF Roots, Node, TypeOK
<1>10. /\ \A m \in Node : size'[m] = IF m = n THEN size[n] + d ELSE size[m]
       /\ \A m \in Node : usage'[m] = IF m = n THEN TRUE ELSE usage[m]
  BY <1>1, <1>6, <1>8 DEF TypeOK
<1>11. ListTypes' BY <1>1, <1>6 DEF ListTypes, TypeOK
<1>12. PICK k \in Lists :
        /\ k = List'
        /\ k.head = head /\ k.tail = tail /\ k.left = left /\ k.right = right
        /\ k.size = size' /\ k.offset = offset /\ k.children = children
        /\ k.free = freeList'
  <2>1. List' \in Lists BY <1>11 DEF List, Lists, ListTypes
  <2>2. /\ List'.head = head' /\ List'.tail = tail' /\ List'.left = left'
        /\ List'.right = right' /\ List'.size = size' /\ List'.offset = offset'
        /\ List'.children = children' /\ List'.free = freeList'
    BY DEF List
  <2> QED BY <2>1, <2>2, <1>6
<1> DEFINE p == [m \in Node |-> IF ord[n] < ord[root[m]] THEN pos[m] + d ELSE pos[m]]
<1>13. p \in Ghosts BY <1>7 DEF Ghosts
<1>14. \A m \in Node : p[m] = IF ord[n] < ord[root[m]] THEN pos[m] + d ELSE pos[m]
  OBVIOUS
<1>15. \A m \in R : p[m] = IF ord[n] < ord[m] THEN pos[m] + d ELSE pos[m]
  BY <1>9, <1>14
<1> HIDE DEF p
<1>16. Trees(k, count, root, dep) BY <1>3, <1>4, <1>12 DEF Trees
<1>17. \A m \in R : /\ right[m] = Nil <=> m = tail
                    /\ left[m] = Nil <=> m = head
                    /\ right[m] # Nil => /\ right[m] \in R /\ left[right[m]] = m
                                         /\ ord[m] < ord[right[m]]
                                         /\ pos[right[m]] = pos[m] + size[m]
                    /\ left[m] # Nil => left[m] \in R /\ right[left[m]] = m
  BY <1>3, <1>4 DEF Chain
<1>18. \A m, x \in R : /\ m # x => ord[m] # ord[x]
                       /\ ord[m] < ord[x] => /\ right[m] # Nil
                                             /\ ord[right[m]] <= ord[x]
                                             /\ pos[m] + size[m] <= pos[x]
  BY <1>3, <1>4 DEF Chain
<1>19. /\ head \in R /\ tail \in R /\ end = pos[tail] + size[tail] /\ count # 0
       /\ \A m \in R : ord[head] <= ord[m]
  <2>1. count # 0 BY <1>5, <1>9
  <2> QED BY <2>1, <1>3, <1>4 DEF Chain
<1>20. Chain(k, count, root, p, ord, end + d)
  <2>1. ASSUME NEW m \in R, right[m] # Nil
        PROVE  p[right[m]] = p[m] + size'[m]
    <3>1. /\ right[m] \in R /\ ord[m] < ord[right[m]] /\ pos[right[m]] = pos[m] + size[m]
          /\ ord[n] < ord[right[m]] => right[n] # Nil /\ ord[right[n]] <= ord[right[m]]
      BY <2>1, <1>5, <1>17, <1>18
    <3>2. /\ p[m] = IF ord[n] < ord[m] THEN pos[m] + d ELSE pos[m]
          /\ p[right[m]] = IF ord[n] < ord[right[m]] THEN pos[right[m]] + d ELSE pos[right[m]]
      BY <3>1, <1>15
    <3>3. /\ ord[m] \in Nat /\ ord[n] \in Nat /\ ord[right[m]] \in Nat
          /\ pos[m] \in Nat /\ size[m] \in Nat /\ m \in Node
      BY <3>1, <1>5, <1>7, <1>9
    <3>4. CASE m = n BY <3>1, <3>2, <3>3, <3>4, <1>10
    <3>5. CASE m # n
      <4>1. size'[m] = size[m] BY <3>3, <3>5, <1>10
      <4>2. ord[m] # ord[n] BY <3>5, <1>5, <1>18
      <4>3. ord[m] < ord[n] => ord[right[m]] <= ord[n] BY <1>5, <1>18
      <4> QED BY <4>1, <4>2, <4>3, <3>1, <3>2, <3>3
    <3> QED BY <3>4, <3>5
  <2>2. ASSUME NEW m \in R, NEW x \in R, ord[m] < ord[x]
        PROVE  p[m] + size'[m] <= p[x]
    <3>1. pos[m] + size[m] <= pos[x] BY <2>2, <1>18
    <3>2. /\ p[m] = IF ord[n] < ord[m] THEN pos[m] + d ELSE pos[m]
          /\ p[x] = IF ord[n] < ord[x] THEN pos[x] + d ELSE pos[x]
      BY <1>15
    <3>3. /\ ord[m] \in Nat /\ ord[n] \in Nat /\ ord[x] \in Nat
          /\ pos[m] \in Nat /\ pos[x] \in Nat /\ size[m] \in Nat /\ m \in Node
      BY <1>5, <1>7, <1>9
    <3>4. CASE m = n
      <4>1. size'[m] = size[m] + d BY <3>4, <1>5, <1>10
      <4> QED BY <4>1, <2>2, <3>1, <3>2, <3>3, <3>4
    <3>5. CASE m # n
      <4>1. size'[m] = size[m] BY <3>3, <3>5, <1>10
      <4> QED BY <4>1, <2>2, <3>1, <3>2, <3>3
    <3> QED BY <3>4, <3>5
  <2>3. end + d = p[tail] + size'[tail]
    <3>1. ~ ord[tail] < ord[n] BY <1>5, <1>17, <1>18, <1>19
    <3>2. p[tail] = IF ord[n] < ord[tail] THEN pos[tail] + d ELSE pos[tail] BY <1>15, <1>19
    <3>3. /\ ord[tail] \in Nat /\ ord[n] \in Nat /\ pos[tail] \in Nat /\ size[tail] \in Nat
          /\ tail \in Node
      BY <1>5, <1>7, <1>9, <1>19
    <3>4. CASE tail = n
      <4>1. size'[tail] = size[tail] + d BY <3>4, <1>5, <1>10
      <4> QED BY <4>1, <3>2, <3>3, <3>4, <1>19
    <3>5. CASE tail # n
      <4>1. size'[tail] = size[tail] BY <3>3, <3>5, <1>10
      <4>2. ord[tail] # ord[n] BY <3>5, <1>5, <1>18, <1>19
      <4> QED BY <4>1, <4>2, <3>1, <3>2, <3>3, <1>19
    <3> QED BY <3>4, <3>5
  <2> QED BY <2>1, <2>2, <2>3, <1>12, <1>17, <1>18, <1>19 DEF Chain
<1>21. Within(count, root, p, end + d)
  <2> SUFFICES ASSUME NEW x \in 1 .. count PROVE p[root[x]] <= p[x] /\ p[x] <= end + d
    BY DEF Within
  <2>1. pos[root[x]] <= pos[x] /\ pos[x] <= end BY <1>4 DEF Within
  <2>2. root[x] \in R /\ x \in Node
    BY <1>0, <1>4 DEF Trees, Roots
  <2>3. /\ p[x] = IF ord[n] < ord[root[x]] THEN pos[x] + d ELSE pos[x]
        /\ p[root[x]] = IF ord[n] < ord[root[x]] THEN pos[root[x]] + d ELSE pos[root[x]]
    BY <2>2, <1>14, <1>15
  <2>4. pos[x] \in Nat /\ pos[root[x]] \in Nat /\ ord[n] \in Nat /\ ord[root[x]] \in Nat
    BY <2>2, <1>5, <1>7
  <2> QED BY <2>1, <2>3, <2>4
<1>22. Offsets(k, p)
  <2> SUFFICES ASSUME NEW x \in Node, NEW y \in Node, x \in children[y]
               PROVE  p[x] = p[y] + offset[x]
    BY <1>12 DEF Offsets
  <2>1. pos[x] = pos[y] + offset[x] /\ root[x] = root[y]
    BY <1>3, <1>4 DEF Offsets, Trees
  <2>2. offset[x] \in Nat BY <1>1 DEF TypeOK
  <2> QED BY <2>1, <2>2, <1>7, <1>14
<1>23. Spread(root, p, ord, end + d)
  <2>1. ASSUME NEW a \in 1 .. nallocs
        PROVE  /\ nodeOf[a] \in 1 .. count /\ pos[nodeOf[a]] + sizeOf[a] <= end
               /\ sizeOf[a] \in Nat /\ pos[nodeOf[a]] \in Nat /\ ord[root[nodeOf[a]]] \in Nat
               /\ p[nodeOf[a]] = IF ord[n] < ord[root[nodeOf[a]]] THEN pos[nodeOf[a]] + d
                                 ELSE pos[nodeOf[a]]
    <3>1. nodeOf[a] \in 1 .. count /\ pos[nodeOf[a]] + sizeOf[a] <= end BY <1>4 DEF Spread
    <3>2. nodeOf[a] \in Node BY <3>1, <1>0
    <3>3. a \in Alloc BY <1>1, DeferAssumption DEF Alloc, TypeOK
    <3>4. sizeOf[a] \in Nat BY <3>3, <1>1 DEF TypeOK
    <3> QED BY <3>1, <3>2, <3>4, <1>7, <1>14
  <2>2. \A a \in 1 .. nallocs : nodeOf[a] \in 1 .. count /\ p[nodeOf[a]] + sizeOf[a] <= end + d
    <3> TAKE a \in 1 .. nallocs
    <3> QED BY <2>1
  <2>3. ord[n] \in Nat BY <1>5, <1>7
  <2>4. ASSUME NEW a \in 1 .. nallocs, NEW b \in 1 .. nallocs, Met(a, b)
        PROVE  /\ ord[root[nodeOf[a]]] < ord[root[nodeOf[b]]] =>
                    p[nodeOf[a]] + sizeOf[a] <= p[nodeOf[b]]
               /\ root[nodeOf[a]] = root[nodeOf[b]] =>
                    \/ p[nodeOf[a]] + sizeOf[a] <= p[nodeOf[b]]
                    \/ p[nodeOf[b]] + sizeOf[b] <= p[nodeOf[a]]
    <3>1. /\ ord[root[nodeOf[a]]] < ord[root[nodeOf[b]]] =>
               pos[nodeOf[a]] + sizeOf[a] <= pos[nodeOf[b]]
          /\ root[nodeOf[a]] = root[nodeOf[b]] =>
               \/ pos[nodeOf[a]] + sizeOf[a] <= pos[nodeOf[b]]
               \/ pos[nodeOf[b]] + sizeOf[b] <= pos[nodeOf[a]]
      BY <2>4, <1>4 DEF Spread
    <3> QED BY <3>1, <2>1, <2>3
  <2> QED BY <2>2, <2>4 DEF Spread
<1>24. Kept(k, root, usage)'
  <2>1. freeList \subseteq R BY <1>3, <1>4 DEF Kept
  <2>2. ASSUME NEW m \in R
        PROVE  /\ ~ usage'[m] <=> m \in freeList'
               /\ ~ usage'[m] /\ right[m] # Nil => usage'[right[m]]
    <3>1. /\ ~ usage[m] <=> m \in freeList
          /\ ~ usage[m] /\ right[m] # Nil => usage[right[m]] /\ right[m] \in Node
      BY <1>3, <1>4, <1>9, <1>17 DEF Kept
    <3> QED BY <3>1, <1>6, <1>9, <1>10
  <2> QED BY <2>1, <2>2, <1>6, <1>12 DEF Kept
<1>25. Blank'
  <2> SUFFICES ASSUME NEW m \in Node, m > count PROVE right[m] = Nil /\ ~ usage'[m]
    BY <1>6 DEF Blank
  <2>1. m # n BY <1>5, <1>6, <1>9 DEF Node
  <2> QED BY <2>1, <1>1, <1>10 DEF Blank
<1>26. Taking(root, root, n, s) BY <1>5, <1>6, <1>8, <1>9, <1>10 DEF Taking
<1>27. count' > 0 /\ count <= count' BY <1>6, <1>19
<1>28. end + d \in Nat OBVIOUS
<1> QED
  BY <1>1, <1>4, <1>6, <1>11, <1>12, <1>13, <1>16, <1>20, <1>21, <1>22, <1>23, <1>24, <1>25,
     <1>26, <1>27, <1>28, PlanRecorded

-----------------------------------------------------------------------------
(* compute.                                                                *)
LEMMA SmallestNat ==
  ASSUME NEW S \in SUBSET Nat, S # {} PROVE \E x \in S : \A y \in S : x <= y
<1>1. PICK R : R = {p \in Nat \X Nat : p[1] < p[2]} OBVIOUS
<1>2. R = OpToRel(<, Nat) BY <1>1 DEF OpToRel
<1>3. IsWellFoundedOn(R, Nat) BY <1>2, NatLessThanWellFounded
<1>4. \E x \in S : \A y \in S : ~ (<<y, x>> \in R) BY <1>3, WFMin
<1>5. \A x, y \in S : ~ (<<y, x>> \in R) => x <= y BY <1>1
<1> QED BY <1>4, <1>5

(* The recursion of visiChildren adds up to the distance from the root.    *)
LEMMA AbsoluteIs ==
  ASSUME TypeOK, NEW l, l = List, NEW root \in [Node -> Node],
         NEW dep \in Ghosts, NEW pos \in Ghosts, NEW end,
         Trees(l, count, root, dep), Offsets(l, pos), Within(count, root, pos, end)
  PROVE  \A n \in 1 .. count : Absolute[n] = pos[n] - pos[root[n]]
<1> DEFINE Up(n) == CHOOSE m \in Node : n \in children[m]
           Fused(n) == \E m \in Node : n \in children[m]
           Eq(f) == f = [n \in Node |-> IF Fused(n) THEN offset[n] + f[Up(n)] ELSE 0]
<1>1. PICK g : g = [n \in Node |-> IF n \in 1 .. count THEN pos[n] - pos[root[n]] ELSE 0]
  OBVIOUS
<1>2. l.children = children /\ l.offset = offset BY ListFields
<1>3. ASSUME NEW n \in Node, Fused(n)
      PROVE  /\ Up(n) \in Node /\ n \in children[Up(n)]
             /\ n \in 1 .. count /\ Up(n) \in 1 .. count
             /\ root[n] = root[Up(n)] /\ dep[Up(n)] < dep[n]
             /\ pos[n] = pos[Up(n)] + offset[n]
  <2>1. Up(n) \in Node /\ n \in children[Up(n)] BY <1>3
  <2> HIDE DEF Up
  <2> QED BY <2>1, <1>2 DEF Trees, Offsets
<1>4. \A n \in 1 .. count : ~ Fused(n) => root[n] = n BY <1>2 DEF Trees
<1>5. \A n \in Node : pos[n] \in Nat /\ dep[n] \in Nat /\ offset[n] \in Nat
  BY DEF Ghosts, TypeOK
<1> HIDE DEF Up, Fused
<1>6. ASSUME NEW n \in Node
      PROVE  g[n] = IF Fused(n) THEN offset[n] + g[Up(n)] ELSE 0
  <2>1. CASE Fused(n)
    <3>1. g[n] = pos[n] - pos[root[n]] /\ g[Up(n)] = pos[Up(n)] - pos[root[Up(n)]]
      BY <1>1, <1>3, <2>1
    <3>2. pos[root[n]] \in Nat /\ pos[Up(n)] \in Nat /\ offset[n] \in Nat
      BY <1>3, <1>5, <2>1
    <3> QED BY <3>1, <3>2, <1>3, <2>1
  <2>2. CASE ~ Fused(n) BY <2>2, <1>1, <1>4, <1>5
  <2> QED BY <2>1, <2>2
<1>7. Eq(g) BY <1>1, <1>6
<1>8. Absolute = CHOOSE f : Eq(f) BY DEF Absolute, Up, Fused
<1> HIDE DEF Eq
<1>9. Eq(Absolute) BY <1>7, <1>8
<1>10. \A n \in Node : Absolute[n] = IF Fused(n) THEN offset[n] + Absolute[Up(n)] ELSE 0
  BY <1>9 DEF Eq
<1>11. \A n \in Node : Absolute[n] = g[n]
  <2> DEFINE S == {n \in Node : Absolute[n] # g[n]}
             D == {dep[n] : n \in S}
  <2>1. SUFFICES ASSUME S # {} PROVE FALSE OBVIOUS
  <2>2. D \in SUBSET Nat /\ D # {} BY <2>1, <1>5
  <2>3. PICK x \in D : \A y \in D : x <= y BY <2>2, SmallestNat
  <2>4. PICK n \in S : x = dep[n] BY <2>3
  <2>5. CASE Fused(n)
    <3>1. Up(n) \in Node /\ dep[Up(n)] < dep[n] BY <2>5, <1>3
    <3>2. Up(n) \notin S
      <4>1. SUFFICES ASSUME Up(n) \in S PROVE FALSE OBVIOUS
      <4>2. dep[Up(n)] \in D BY <4>1
      <4>3. dep[n] <= dep[Up(n)] BY <4>2, <2>3, <2>4
      <4> QED BY <4>3, <3>1, <1>5
    <3>3. Absolute[Up(n)] = g[Up(n)] BY <3>1, <3>2
    <3> QED BY <3>3, <2>5, <1>6, <1>10
  <2>6. CASE ~ Fused(n) BY <2>6, <1>6, <1>10
  <2> QED BY <2>5, <2>6
<1>12. \A n \in 1 .. count : n \in Node BY DeferAssumption DEF Node, TypeOK
<1> QED BY <1>1, <1>11, <1>12

(* compute gives the places of the layout.                                  *)
LEMMA PlanCompute ==
  ASSUME PlanInv, Compute PROVE PlanInv'
<1>1. TypeOK /\ Times /\ Blank BY DEF PlanInv
<1>2. PICK root \in [Node -> Node], pos \in Ghosts, ord \in Ghosts, dep \in Ghosts, end \in Nat :
        Layout(root, pos, ord, dep, end)
  BY DEF PlanInv
<1>3. PICK l \in Lists :
        /\ l = List
        /\ l.head = head /\ l.tail = tail /\ l.left = left /\ l.right = right
        /\ l.size = size /\ l.offset = offset /\ l.children = children
        /\ l.free = freeList
  BY <1>1, ListFields
<1>4. /\ total = 0 /\ barrier # "ending" /\ freeList # {} /\ head = tail
      /\ offset' = [n \in Node |-> IF n <= count THEN Absolute[n] ELSE 0]
      /\ total' = size[head]
      /\ count' = count /\ head' = head /\ tail' = tail /\ left' = left /\ right' = right
      /\ size' = size /\ usage' = usage /\ children' = children /\ freeList' = freeList
      /\ barrier' = barrier /\ pending' = pending /\ live' = live /\ busy' = busy
      /\ nallocs' = nallocs /\ nodeOf' = nodeOf /\ sizeOf' = sizeOf /\ together' = together
  BY DEF Compute, ComputeAccepts, allocVars
<1>5. /\ Trees(l, count, root, dep) /\ Chain(l, count, root, pos, ord, end)
      /\ Within(count, root, pos, end) /\ Spread(root, pos, ord, end)
      /\ Offsets(l, pos) /\ Kept(l, root, usage) /\ Chunks(root)
  BY <1>2, <1>3, <1>4 DEF Layout, Plan
<1> DEFINE R == Roots(root, count)
<1>6. \A m \in Node : pos[m] \in Nat /\ ord[m] \in Nat /\ size[m] \in Nat /\ offset[m] \in Nat
  BY <1>1 DEF Ghosts, TypeOK
<1>7. \A m \in 1 .. count : m \in Node BY <1>1, DeferAssumption DEF Node, TypeOK
<1>8. \A m \in R : m \in Node /\ m # Nil /\ m \in 1 .. count
  BY <1>7, NotNil DEF Roots
<1>9. freeList \subseteq R /\ \A m \in R : ~ usage[m] <=> m \in freeList
  BY <1>3, <1>5 DEF Kept
<1>10. count # 0 /\ head \in R /\ end = pos[head] + size[head]
  <2>1. count # 0 BY <1>4, <1>8, <1>9
  <2> QED BY <2>1, <1>3, <1>4, <1>5 DEF Chain
<1>11. R = {head}
  <2> SUFFICES ASSUME NEW m \in R, m # head PROVE FALSE BY <1>10
  <2>1. ord[head] <= ord[m] /\ ord[m] # ord[head] BY <1>3, <1>5, <1>10 DEF Chain
  <2>2. ord[head] < ord[m] BY <2>1, <1>6, <1>8, <1>10
  <2>3. right[head] # Nil BY <2>2, <1>3, <1>5, <1>10 DEF Chain
  <2>4. right[head] = Nil BY <1>3, <1>4, <1>5, <1>10 DEF Chain
  <2> QED BY <2>3, <2>4
<1>12. ~ usage[head] BY <1>4, <1>9, <1>11
<1>13. Holding = {} /\ Holding' = {}
  <2>1. Holding = {} BY <1>5, <1>11, <1>12 DEF Chunks
  <2> QED BY <2>1, <1>4 DEF Holding, Waiting
<1>14. \A m \in 1 .. count : root[m] = head
  <2> TAKE m \in 1 .. count
  <2>1. root[m] \in R BY <1>5 DEF Trees, Roots
  <2> QED BY <2>1, <1>11
<1>15. \A m \in 1 .. count : /\ Absolute[m] = pos[m] - pos[head]
                             /\ pos[head] <= pos[m] /\ pos[m] <= end
  <2>1. \A m \in 1 .. count : Absolute[m] = pos[m] - pos[root[m]]
    BY <1>1, <1>3, <1>5, AbsoluteIs
  <2>2. \A m \in 1 .. count : pos[root[m]] <= pos[m] /\ pos[m] <= end
    BY <1>5 DEF Within
  <2> QED BY <2>1, <2>2, <1>14
<1>16. \A m \in 1 .. count : offset'[m] = pos[m] - pos[head] /\ offset'[m] \in Nat
  BY <1>4, <1>6, <1>7, <1>8, <1>10, <1>15
<1>17. offset' \in [Node -> Nat]
  <2>1. \A m \in Node : m <= count => m \in 1 .. count BY <1>1 DEF Node, TypeOK
  <2> QED BY <2>1, <1>4, <1>16
<1>18. TypeOK'
  <2>1. total' \in Nat BY <1>4, <1>6, <1>8, <1>10
  <2> QED BY <2>1, <1>1, <1>4, <1>17 DEF TypeOK
<1>19. LifetimesDisjoint'
  <2>1. ASSUME NEW a \in 1 .. nallocs
        PROVE  /\ nodeOf[a] \in 1 .. count /\ pos[nodeOf[a]] + sizeOf[a] <= end
               /\ offset'[nodeOf[a]] = pos[nodeOf[a]] - pos[head]
               /\ pos[nodeOf[a]] \in Nat /\ sizeOf[a] \in Nat
    <3>1. nodeOf[a] \in 1 .. count /\ pos[nodeOf[a]] + sizeOf[a] <= end BY <1>5 DEF Spread
    <3>2. a \in Alloc BY <1>1, DeferAssumption DEF Alloc, TypeOK
    <3>3. sizeOf[a] \in Nat BY <3>2, <1>1 DEF TypeOK
    <3> QED BY <3>1, <3>3, <1>6, <1>7, <1>16
  <2>2. pos[head] \in Nat /\ size[head] \in Nat BY <1>6, <1>8, <1>10
  <2>3. ASSUME NEW a \in 1 .. nallocs, NEW b \in 1 .. nallocs, {a, b} \in together, a # b
        PROVE  \/ offset'[nodeOf[a]] + sizeOf[a] <= offset'[nodeOf[b]]
               \/ offset'[nodeOf[b]] + sizeOf[b] <= offset'[nodeOf[a]]
    <3>1. Met(a, b) BY <2>3 DEF Met
    <3>2. root[nodeOf[a]] = root[nodeOf[b]] BY <2>1, <1>14
    <3>3. \/ pos[nodeOf[a]] + sizeOf[a] <= pos[nodeOf[b]]
          \/ pos[nodeOf[b]] + sizeOf[b] <= pos[nodeOf[a]]
      BY <3>1, <3>2, <1>5 DEF Spread
    <3> QED BY <3>3, <2>1, <2>2
  <2>4. ASSUME NEW a \in 1 .. nallocs
        PROVE  offset'[nodeOf[a]] + sizeOf[a] <= total'
    <3>1. /\ pos[nodeOf[a]] + sizeOf[a] <= end
          /\ offset'[nodeOf[a]] = pos[nodeOf[a]] - pos[head]
          /\ pos[nodeOf[a]] \in Nat /\ sizeOf[a] \in Nat
      BY <2>1
    <3>2. total' = size[head] BY <1>4
    <3>3. end = pos[head] + size[head] BY <1>10
    <3> QED BY <3>1, <3>2, <3>3, <2>2
  <2> QED BY <2>3, <2>4, <1>4 DEF LifetimesDisjoint, Disjoint
<1>20. Times' BY <1>1, <1>4, <1>13, <1>19 DEF Times
<1>21. Blank' BY <1>1, <1>4 DEF Blank
<1>22. PICK k \in Lists :
         /\ k = List'
         /\ k.head = head /\ k.tail = tail /\ k.left = left /\ k.right = right
         /\ k.size = size /\ k.offset = offset' /\ k.children = children
         /\ k.free = freeList
  <2>1. List' \in Lists BY <1>18 DEF List, Lists, TypeOK
  <2>2. /\ List'.head = head' /\ List'.tail = tail' /\ List'.left = left'
        /\ List'.right = right' /\ List'.size = size' /\ List'.offset = offset'
        /\ List'.children = children' /\ List'.free = freeList'
    BY DEF List
  <2> QED BY <2>1, <2>2, <1>4
<1>23. Trees(k, count, root, dep) BY <1>3, <1>5, <1>22 DEF Trees
<1>24. Chain(k, count, root, pos, ord, end) BY <1>3, <1>5, <1>22 DEF Chain
<1>25. Spread(root, pos, ord, end)' BY <1>4, <1>5 DEF Spread, Met
<1>26. Plan(List, root, pos, ord, dep, end)'
  BY <1>4, <1>5, <1>22, <1>23, <1>24, <1>25 DEF Plan
<1>27. total' = 0 => Offsets(k, pos)
  <2> SUFFICES ASSUME size[head] = 0, NEW x \in Node, NEW y \in Node, x \in children[y]
               PROVE  pos[x] = pos[y] + offset'[x]
    BY <1>4, <1>22 DEF Offsets
  <2>1. x \in 1 .. count /\ y \in 1 .. count BY <1>3, <1>5 DEF Trees
  <2>2. end = pos[head] /\ pos[head] \in Nat BY <1>6, <1>8, <1>10
  <2>3. pos[x] = pos[head] /\ pos[y] = pos[head] BY <2>1, <2>2, <1>6, <1>7, <1>15
  <2> QED BY <2>1, <2>2, <2>3, <1>16
<1>28. Kept(List, root, usage)' BY <1>3, <1>4, <1>5, <1>22 DEF Kept
<1>29. Chunks(root)' BY <1>4, <1>5, <1>13 DEF Chunks, Holding, Waiting
<1>30. Layout(root, pos, ord, dep, end)'
  BY <1>22, <1>26, <1>27, <1>28, <1>29 DEF Layout
<1> QED BY <1>18, <1>20, <1>21, <1>30 DEF PlanInv

-----------------------------------------------------------------------------
(* Each way out of alloc keeps the plan.                                    *)
LEMMA PlanAlloc ==
  ASSUME PlanInv, NEW s \in Sizes, NEW separate \in BOOLEAN, DoAlloc(s, separate)
  PROVE  PlanInv'
<1>1. TypeOK BY DEF PlanInv
<1>2. s \in Nat BY DeferAssumption
<1>3. /\ total = 0 /\ barrier # "ending" /\ nallocs < MaxAllocs
      /\ UNCHANGED <<barrier, pending, total>>
  BY DEF DoAlloc
<1>4. CASE AllocNew(s) BY <1>2, <1>3, <1>4, PlanNew
<1>5. CASE AllocReuse(s)
  <2>1. PICK n \in freeList : /\ IF size[n] > s THEN AllocSplit(n, s) ELSE AllocWhole(n, s)
                              /\ Record(n, s)
    BY <1>5 DEF AllocReuse
  <2>2. size[n] \in Nat BY <1>1 DEF TypeOK
  <2>3. CASE size[n] > s
    <3>1. s < size[n] /\ AllocSplit(n, s) BY <2>1, <2>3
    <3> QED BY <3>1, <2>1, <1>2, <1>3, PlanSplit
  <2>4. CASE ~ size[n] > s
    <3>1. size[n] <= s /\ AllocWhole(n, s) BY <2>1, <2>2, <2>4, <1>2
    <3> QED BY <3>1, <2>1, <1>2, <1>3, PlanWhole
  <2> QED BY <2>3, <2>4
<1> QED BY <1>4, <1>5 DEF DoAlloc

(* The planner keeps an assignment of places for the chunks at all times,  *)
(* although the code computes offsets only at the end.                     *)
THEOREM PlanInvariant == Spec => []PlanInv
<1>1. Init => PlanInv BY PlanEmpty DEF Init
<1>2. PlanInv /\ [Next]_vars => PlanInv'
  <2> SUFFICES ASSUME PlanInv, [Next]_vars PROVE PlanInv' OBVIOUS
  <2>1. ASSUME NEW s \in Sizes, NEW separate \in BOOLEAN, DoAlloc(s, separate) PROVE PlanInv'
    BY <2>1, PlanAlloc
  <2>2. ASSUME NEW a \in Alloc, Free(a) PROVE PlanInv' BY <2>2, PlanFree
  <2>3. CASE BarrierBegin \/ BarrierEnd \/ UNCHANGED vars BY <2>3, PlanBarrier
  <2>4. CASE FreeDeferred BY <2>4, PlanFreeDeferred
  <2>5. CASE Compute BY <2>5, PlanCompute
  <2>6. CASE Reset BY <2>6, PlanReset
  <2> QED BY <2>1, <2>2, <2>3, <2>4, <2>5, <2>6 DEF Next
<1> QED BY <1>1, <1>2, PTL DEF Spec

(* Every variable has its type: DeferBufferAllocator never links a node    *)
(* that it has not made and never assigns an offset below zero.            *)
THEOREM TypeCorrect == Spec => []TypeOK
<1>1. PlanInv => TypeOK BY DEF PlanInv
<1> QED BY <1>1, PlanInvariant, PTL

(* The list of nodes stays a list, with no two unused neighbours, through  *)
(* every order of alloc, free, fuse_to_left, erase_node and barriers.      *)
THEOREM ListAlwaysWellFormed == Spec => []ListWellFormed
BY PlanWellFormed, PlanInvariant, PTL

(* Once every chunk was freed, compute's assertions hold: one free node    *)
(* is left, and it is the whole list.                                      *)
THEOREM FreedAlwaysComputes == Spec => []AllFreeComputes
BY PlanComputes, PlanInvariant, PTL

(* The offsets that compute assigns keep apart all chunks that were in use *)
(* at the same time, and all of them inside of the buffer.                 *)
THEOREM LifetimesAlwaysDisjoint == Spec => []LifetimesDisjoint
<1>1. PlanInv => LifetimesDisjoint
  <2>1. CASE total > 0 BY <2>1 DEF PlanInv, Times
  <2>2. CASE ~ total > 0 BY <2>2 DEF LifetimesDisjoint
  <2> QED BY <2>1, <2>2
<1> QED BY <1>1, PlanInvariant, PTL
=============================================================================

----------------------- MODULE EagerAllocator_proofs ------------------------
(***************************************************************************)
(* Theorems about EagerAllocator, for any blocks, sizes and alignments.    *)
(***************************************************************************)
EXTENDS EagerAllocator, FiniteSetTheorems, WellFoundedInduction, TLAPS

(* Rounding up adds less than a unit.                                       *)
LEMMA RoundUpIs ==
  ASSUME NEW n \in Nat, NEW unit \in Nat \ {0}
  PROVE  RoundUp(n, unit) \in Nat /\ n <= RoundUp(n, unit) /\ RoundUp(n, unit) < n + unit
<1>1. PICK a \in Nat : a = n + unit - 1 OBVIOUS
<1>2. a = (unit * (a \div unit)) + (a % unit) BY <1>1
<1>3. (a % unit) \in 0 .. unit - 1 BY <1>1
<1>4. PICK q \in Int : q = a \div unit BY <1>1
<1>5. PICK r \in 0 .. unit - 1 : r = a % unit BY <1>3
<1>6. PICK x \in Int : x = q * unit /\ x = unit * q BY <1>4
<1>7. RoundUp(n, unit) = x BY <1>1, <1>4, <1>6 DEF RoundUp
<1>8. a = x + r BY <1>2, <1>4, <1>5, <1>6
<1> QED BY <1>1, <1>5, <1>7, <1>8

(* There is a smallest element in every set of natural numbers. *)
LEMMA SmallestNat ==
  ASSUME NEW S \in SUBSET Nat, S # {} PROVE \E x \in S : \A y \in S : x <= y
<1>1. PICK R : R = {p \in Nat \X Nat : p[1] < p[2]} OBVIOUS
<1>2. R = OpToRel(<, Nat) BY <1>1 DEF OpToRel
<1>3. IsWellFoundedOn(R, Nat) BY <1>2, NatLessThanWellFounded
<1>4. \E x \in S : \A y \in S : ~ (<<y, x>> \in R) BY <1>3, WFMin
<1>5. \A x, y \in S : ~ (<<y, x>> \in R) => x <= y BY <1>1
<1> QED BY <1>4, <1>5

(* Induction over the numbers, for a set.                                   *)
LEMMA NatInduct ==
  ASSUME NEW Q \in SUBSET Nat, 0 \in Q, \A n \in Nat : n \in Q => n + 1 \in Q
  PROVE  Q = Nat
<1>1. SUFFICES ASSUME Nat \ Q # {} PROVE FALSE OBVIOUS
<1>2. PICK n \in Nat \ Q : \A m \in Nat \ Q : n <= m BY <1>1, SmallestNat
<1>3. n # 0 BY <1>2
<1>4. n - 1 \in Nat /\ n - 1 \in Q /\ (n - 1) + 1 = n BY <1>2, <1>3
<1> QED BY <1>2, <1>4

-----------------------------------------------------------------------------
(* Folds over finite sets. *)

Choice(X) == CHOOSE x \in X : TRUE

(* Choice is the element that a fold takes out of a set.                    *)
LEMMA Chosen == ASSUME NEW X, X # {} PROVE Choice(X) \in X
BY DEF Choice

(* f folds F over the subsets of S, from base. *)
Folds(f, F, base, S) ==
  \A X \in SUBSET S :
    f[X] = IF X = {} THEN base ELSE F[<<Choice(X), f[X \ {Choice(X)}]>>]

(* Without one of its elements a finite set is smaller.                     *)
LEMMA Smaller ==
  ASSUME NEW X, IsFiniteSet(X), NEW x \in X
  PROVE  /\ IsFiniteSet(X \ {x}) /\ Cardinality(X) \in Nat
         /\ Cardinality(X \ {x}) = Cardinality(X) - 1
         /\ Cardinality(X \ {x}) \in Nat
BY FS_RemoveElement, FS_CardinalityType

(* Induction over the subsets that a fold goes through. *)
LEMMA SetInduct ==
  ASSUME NEW S, IsFiniteSet(S), NEW Q \in SUBSET SUBSET S, {} \in Q,
         \A X \in SUBSET S : X # {} /\ X \ {Choice(X)} \in Q => X \in Q
  PROVE  Q = SUBSET S
<1> DEFINE N == {n \in Nat : \A X \in SUBSET S : Cardinality(X) = n => X \in Q}
<1>1. \A X \in SUBSET S : IsFiniteSet(X) /\ Cardinality(X) \in Nat
  BY FS_Subset, FS_CardinalityType
<1>2. 0 \in N BY <1>1, FS_EmptySet
<1>3. ASSUME NEW n \in Nat, n \in N PROVE n + 1 \in N
  <2>1. ASSUME NEW X \in SUBSET S, Cardinality(X) = n + 1 PROVE X \in Q
    <3>1. X # {} BY <2>1, FS_EmptySet
    <3>2. PICK x : x = Choice(X) OBVIOUS
    <3>3. x \in X BY <3>1, <3>2, Chosen
    <3>4. Cardinality(X \ {x}) = n BY <1>1, <2>1, <3>3, Smaller
    <3>5. X \ {x} \in Q BY <3>4, <1>3
    <3> QED BY <3>1, <3>2, <3>5
  <2> QED BY <2>1
<1>4. N \in SUBSET Nat OBVIOUS
<1>5. N = Nat
  <2> HIDE DEF N
  <2> QED BY <1>2, <1>3, <1>4, NatInduct
<1> QED BY <1>1, <1>5

(* A fold over a finite set is defined on all its subsets.                  *)
LEMMA FoldExists ==
  ASSUME NEW S, IsFiniteSet(S), NEW V, NEW base \in V, NEW F \in [S \X V -> V]
  PROVE  \E f \in [SUBSET S -> V] : Folds(f, F, base, S)
<1> DEFINE Step(f, X) == IF X = {} THEN base ELSE F[<<Choice(X), f[X \ {Choice(X)}]>>]
           Upto(f, n) == \A X \in SUBSET S : Cardinality(X) <= n => f[X] = Step(f, X)
           Good == {n \in Nat : \E f \in [SUBSET S -> V] : Upto(f, n)}
<1>1. \A X \in SUBSET S : IsFiniteSet(X) /\ Cardinality(X) \in Nat
  BY FS_Subset, FS_CardinalityType
<1>2. \A X \in SUBSET S : Cardinality(X) <= Cardinality(S) /\ Cardinality(S) \in Nat
  BY FS_Subset, FS_CardinalityType
<1>3. ASSUME NEW f \in [SUBSET S -> V], NEW X \in SUBSET S PROVE Step(f, X) \in V
  <2>1. CASE X = {} BY <2>1
  <2>2. CASE X # {}
    <3>1. Choice(X) \in S /\ X \ {Choice(X)} \in SUBSET S BY <2>2, Chosen
    <3>2. f[X \ {Choice(X)}] \in V BY <3>1
    <3>3. <<Choice(X), f[X \ {Choice(X)}]>> \in S \X V BY <3>1, <3>2
    <3> QED BY <2>2, <3>3
  <2> QED BY <2>1, <2>2
<1>4. 0 \in Good
  <2> DEFINE f == [X \in SUBSET S |-> base]
  <2>1. f \in [SUBSET S -> V] OBVIOUS
  <2>2. ASSUME NEW X \in SUBSET S, Cardinality(X) <= 0 PROVE f[X] = Step(f, X)
    <3>1. X = {} BY <2>2, <1>1, FS_EmptySet
    <3> QED BY <3>1
  <2> HIDE DEF f
  <2>3. Upto(f, 0) BY <2>2
  <2> QED BY <2>1, <2>3
<1>5. ASSUME NEW n \in Nat, n \in Good PROVE n + 1 \in Good
  <2>1. PICK f \in [SUBSET S -> V] : Upto(f, n) BY <1>5
  <2> DEFINE g == [X \in SUBSET S |-> Step(f, X)]
  <2>2. g \in [SUBSET S -> V] BY <1>3
  <2>3. ASSUME NEW X \in SUBSET S, Cardinality(X) <= n + 1 PROVE g[X] = Step(g, X)
    <3>1. g[X] = Step(f, X) OBVIOUS
    <3>2. CASE X = {} BY <3>1, <3>2
    <3>3. CASE X # {}
      <4>1. PICK x, Y : x = Choice(X) /\ Y = X \ {x} OBVIOUS
      <4>2. x \in X BY <4>1, <3>3, Chosen
      <4>3. Cardinality(Y) <= n BY <4>1, <4>2, <1>1, <2>3, Smaller
      <4>4. Y \in SUBSET S BY <4>1
      <4>5. g[Y] = Step(f, Y) /\ f[Y] = Step(f, Y) BY <4>3, <4>4, <2>1
      <4> QED BY <3>1, <3>3, <4>1, <4>5
    <3> QED BY <3>2, <3>3
  <2> HIDE DEF g
  <2>4. Upto(g, n + 1) BY <2>3
  <2> HIDE DEF Upto
  <2>5. \E h \in [SUBSET S -> V] : Upto(h, n + 1) BY <2>2, <2>4
  <2> QED BY <2>5
<1>6. Good = Nat
  <2>1. Good \in SUBSET Nat OBVIOUS
  <2> HIDE DEF Good
  <2> QED BY <2>1, <1>4, <1>5, NatInduct
<1>7. PICK f \in [SUBSET S -> V] : Upto(f, Cardinality(S)) BY <1>2, <1>6
<1>8. Folds(f, F, base, S) BY <1>2, <1>7 DEF Folds
<1> QED BY <1>8

-----------------------------------------------------------------------------
(* Sums of sizes. *)

Sized == [root : Root, level : Nat, off : Nat, size : Nat \ {0}]

(* What Bytes unfolds to: a function over the subsets.                      *)
LEMMA BytesFold ==
  ASSUME NEW S \in SUBSET Sized, IsFiniteSet(S)
  PROVE  \E f \in [SUBSET S -> Nat] :
           /\ Bytes(S) = f[S]
           /\ \A X \in SUBSET S :
                f[X] = IF X = {} THEN 0 ELSE Choice(X).size + f[X \ {Choice(X)}]
<1> DEFINE F == [p \in S \X Nat |-> p[1].size + p[2]]
           Eq(f) == f = [X \in SUBSET S |-> IF X = {} THEN 0
                                            ELSE Choice(X).size + f[X \ {Choice(X)}]]
<1>1. F \in [S \X Nat -> Nat]
  <2>1. \A x \in S : x.size \in Nat BY DEF Sized
  <2> QED BY <2>1
<1>2. \A x \in S, v \in Nat : F[<<x, v>>] = x.size + v OBVIOUS
<1> HIDE DEF F
<1>3. PICK f \in [SUBSET S -> Nat] : Folds(f, F, 0, S) BY <1>1, FoldExists
<1>4. Eq(f)
  <2>1. ASSUME NEW X \in SUBSET S
        PROVE  f[X] = IF X = {} THEN 0 ELSE Choice(X).size + f[X \ {Choice(X)}]
    <3>1. CASE X = {} BY <3>1, <1>3 DEF Folds
    <3>2. CASE X # {}
      <4>1. Choice(X) \in S BY <3>2, Chosen
      <4>2. f[X \ {Choice(X)}] \in Nat OBVIOUS
      <4>3. f[X] = F[<<Choice(X), f[X \ {Choice(X)}]>>] BY <3>2, <1>3 DEF Folds
      <4> QED BY <3>2, <4>1, <4>2, <4>3, <1>2
    <3> QED BY <3>1, <3>2
  <2> QED BY <2>1
<1>5. PICK g : g = CHOOSE h : Eq(h) OBVIOUS
<1>6. Eq(g) BY <1>4, <1>5
<1>7. Bytes(S) = g[S]
  BY <1>5 DEF Bytes, MapThenSumSet, MapThenFoldSet, Choice
<1> DEFINE Q == {X \in SUBSET S : g[X] = f[X]}
<1>8. Q = SUBSET S
  <2>1. {} \in Q BY <1>4, <1>6
  <2>2. ASSUME NEW X \in SUBSET S, X # {}, X \ {Choice(X)} \in Q PROVE X \in Q
    <3>1. g[X] = Choice(X).size + g[X \ {Choice(X)}] BY <2>2, <1>6
    <3>2. f[X] = Choice(X).size + f[X \ {Choice(X)}] BY <2>2, <1>4
    <3> QED BY <2>2, <3>1, <3>2
  <2>3. Q \in SUBSET SUBSET S OBVIOUS
  <2> HIDE DEF Q
  <2> QED BY <2>1, <2>2, <2>3, SetInduct
<1>9. g[S] = f[S] BY <1>8
<1> QED BY <1>4, <1>7, <1>9

(* Bytes is a sum, whatever the order in which it is added up. *)
LEMMA BytesAdds ==
  ASSUME NEW S \in SUBSET Sized, IsFiniteSet(S)
  PROVE  /\ Bytes(S) \in Nat
         /\ S = {} => Bytes(S) = 0
         /\ S # {} => Bytes(S) = Choice(S).size + Bytes(S \ {Choice(S)})
<1>1. PICK f \in [SUBSET S -> Nat] :
         /\ Bytes(S) = f[S]
         /\ \A X \in SUBSET S :
              f[X] = IF X = {} THEN 0 ELSE Choice(X).size + f[X \ {Choice(X)}]
  BY BytesFold
<1>2. CASE S = {} BY <1>1, <1>2
<1>3. CASE S # {}
  <2>1. PICK x, T : x = Choice(S) /\ T = S \ {x} OBVIOUS
  <2>2. T \in SUBSET S /\ T \in SUBSET Sized /\ IsFiniteSet(T) BY <2>1, FS_Subset
  <2>3. PICK g \in [SUBSET T -> Nat] :
           /\ Bytes(T) = g[T]
           /\ \A X \in SUBSET T :
                g[X] = IF X = {} THEN 0 ELSE Choice(X).size + g[X \ {Choice(X)}]
    BY <2>2, BytesFold
  <2> DEFINE Q == {X \in SUBSET T : g[X] = f[X]}
  <2>4. Q = SUBSET T
    <3>1. {} \in Q BY <1>1, <2>3
    <3>2. ASSUME NEW X \in SUBSET T, X # {}, X \ {Choice(X)} \in Q PROVE X \in Q
      <4>1. g[X] = Choice(X).size + g[X \ {Choice(X)}] BY <3>2, <2>3
      <4>2. f[X] = Choice(X).size + f[X \ {Choice(X)}] BY <3>2, <1>1, <2>2
      <4> QED BY <3>2, <4>1, <4>2
    <3>3. Q \in SUBSET SUBSET T OBVIOUS
    <3>4. IsFiniteSet(T) BY <2>2
    <3> HIDE DEF Q
    <3>5. \A X \in SUBSET T : X # {} /\ X \ {Choice(X)} \in Q => X \in Q BY <3>2
    <3> QED BY <3>1, <3>3, <3>4, <3>5, SetInduct
  <2>5. g[T] = f[T] BY <2>4
  <2>6. f[S] = x.size + f[T] BY <1>1, <1>3, <2>1
  <2> QED BY <1>1, <1>3, <2>1, <2>3, <2>5, <2>6
<1> QED BY <1>1, <1>2, <1>3

(* Any node may be taken out of a sum first.                                *)
LEMMA BytesRemove ==
  ASSUME NEW S \in SUBSET Sized, IsFiniteSet(S), NEW z \in S
  PROVE  Bytes(S) = z.size + Bytes(S \ {z})
<1> DEFINE Q == {X \in SUBSET S : \A x \in X : Bytes(X) = x.size + Bytes(X \ {x})}
           N == {n \in Nat : \A X \in SUBSET S : Cardinality(X) = n => X \in Q}
<1>1. \A X \in SUBSET S : X \in SUBSET Sized /\ IsFiniteSet(X) /\ Cardinality(X) \in Nat
  BY FS_Subset, FS_CardinalityType
<1>2. 0 \in N
  <2>1. \A X \in SUBSET S : Cardinality(X) = 0 => X = {} BY <1>1, FS_EmptySet
  <2> QED BY <2>1
<1>3. ASSUME NEW n \in Nat, n \in N PROVE n + 1 \in N
  <2>1. ASSUME NEW X \in SUBSET S, Cardinality(X) = n + 1, NEW x \in X
        PROVE  Bytes(X) = x.size + Bytes(X \ {x})
    <3>1. PICK c : c = Choice(X) OBVIOUS
    <3>2. c \in X BY <3>1, Chosen
    <3>3. Bytes(X) = c.size + Bytes(X \ {c}) BY <1>1, <3>1, <2>1, BytesAdds
    <3>4. CASE x = c BY <3>3, <3>4
    <3>5. CASE x # c
      <4>1. /\ X \ {c} \in SUBSET S /\ X \ {x} \in SUBSET S
            /\ (X \ {c}) \ {x} \in SUBSET S
            /\ (X \ {x}) \ {c} = (X \ {c}) \ {x}
        OBVIOUS
      <4>2. Cardinality(X \ {c}) = n /\ Cardinality(X \ {x}) = n
        BY <1>1, <2>1, <3>2, Smaller
      <4>3. X \ {c} \in Q /\ X \ {x} \in Q BY <4>1, <4>2, <1>3
      <4>4. Bytes(X \ {c}) = x.size + Bytes((X \ {c}) \ {x}) BY <4>3, <3>5
      <4>5. Bytes(X \ {x}) = c.size + Bytes((X \ {c}) \ {x}) BY <4>1, <4>3, <3>2, <3>5
      <4>6. Bytes((X \ {c}) \ {x}) \in Nat BY <4>1, <1>1, BytesAdds
      <4>7. x.size \in Nat /\ c.size \in Nat BY <3>2 DEF Sized
      <4> QED BY <3>3, <4>4, <4>5, <4>6, <4>7
    <3> QED BY <3>4, <3>5
  <2> QED BY <2>1
<1>4. N = Nat
  <2>1. N \in SUBSET Nat OBVIOUS
  <2> HIDE DEF N
  <2> QED BY <2>1, <1>2, <1>3, NatInduct
<1>5. S \in Q BY <1>1, <1>4
<1> QED BY <1>5

(* Sums of disjoint sets add up.                                            *)
LEMMA BytesUnion ==
  ASSUME NEW S \in SUBSET Sized, IsFiniteSet(S), NEW T \in SUBSET Sized, IsFiniteSet(T),
         S \cap T = {}
  PROVE  Bytes(S \cup T) = Bytes(S) + Bytes(T)
<1> DEFINE Q == {X \in SUBSET S : Bytes(X \cup T) = Bytes(X) + Bytes(T)}
<1>1. \A X \in SUBSET S : /\ X \in SUBSET Sized /\ IsFiniteSet(X)
                           /\ X \cup T \in SUBSET Sized /\ IsFiniteSet(X \cup T)
  BY FS_Subset, FS_Union
<1>2. {} \in Q
  <2>1. Bytes({}) = 0 /\ Bytes(T) \in Nat BY <1>1, BytesAdds
  <2>2. {} \cup T = T OBVIOUS
  <2> QED BY <2>1, <2>2
<1>3. ASSUME NEW X \in SUBSET S, X # {}, X \ {Choice(X)} \in Q PROVE X \in Q
  <2>1. PICK x, Y : x = Choice(X) /\ Y = X \ {x} OBVIOUS
  <2>2. x \in X /\ Y \in Q BY <2>1, <1>3, Chosen
  <2>3. Bytes(X) = x.size + Bytes(Y) BY <1>1, <2>1, <2>2, BytesRemove
  <2>4. (X \cup T) \ {x} = Y \cup T BY <2>1, <2>2
  <2>5. Bytes(X \cup T) = x.size + Bytes(Y \cup T) BY <1>1, <2>2, <2>4, BytesRemove
  <2>6. Bytes(Y \cup T) = Bytes(Y) + Bytes(T) BY <2>2
  <2>7. Bytes(Y) \in Nat /\ Bytes(T) \in Nat /\ x.size \in Nat
    <3>1. Y \in SUBSET S BY <2>1
    <3>2. x \in Sized BY <2>2
    <3> QED BY <1>1, <3>1, <3>2, BytesAdds DEF Sized
  <2>8. Bytes(X \cup T) = Bytes(X) + Bytes(T) BY <2>3, <2>5, <2>6, <2>7
  <2> QED BY <2>8
<1>4. Q \in SUBSET SUBSET S OBVIOUS
<1>5. Q = SUBSET S
  <2> HIDE DEF Q
  <2> QED BY <1>2, <1>3, <1>4, SetInduct
<1> QED BY <1>5

-----------------------------------------------------------------------------
(* Where nodes lie. *)

Inside(n, m) == n.root = m.root /\ m.off <= n.off /\ n.off + n.size <= m.off + m.size
Below(n, m)  == Inside(n, m) /\ m.level < n.level /\ n.size < m.size

LEMMA SizedIs ==
  ASSUME NEW n \in Sized
  PROVE  /\ n.root \in Root /\ n.level \in Nat /\ n.off \in Nat
         /\ n.size \in Nat /\ n.size > 0
BY DEF Sized

LEMMA InsideSelf == \A n \in Sized : Inside(n, n)
BY SizedIs DEF Inside

LEMMA InsideTrans ==
  ASSUME NEW n \in Sized, NEW m \in Sized, NEW k \in Sized, Inside(n, m), Inside(m, k)
  PROVE  Inside(n, k)
BY SizedIs DEF Inside

LEMMA InsideSize ==
  ASSUME NEW n \in Sized, NEW m \in Sized, Inside(n, m) PROVE n.size <= m.size
BY SizedIs DEF Inside

LEMMA BelowStrict ==
  ASSUME NEW n \in Sized, NEW m \in Sized, Below(n, m)
  PROVE  Inside(n, m) /\ ~ Inside(m, n) /\ n # m
BY SizedIs DEF Below, Inside

LEMMA ApartNotBoth ==
  ASSUME NEW x \in Sized, NEW n \in Sized, NEW m \in Sized, Inside(x, n), Inside(x, m)
  PROVE  ~ NodesApart(n, m)
BY SizedIs DEF Inside, NodesApart, Apart

LEMMA ApartSame ==
  ASSUME NEW n \in Sized, NEW m \in Sized, NodesApart(n, m) PROVE NodesApart(m, n)
BY SizedIs DEF NodesApart, Apart

LEMMA ApartWithin ==
  ASSUME NEW x \in Sized, NEW n \in Sized, NEW m \in Sized, Inside(x, n), NodesApart(n, m)
  PROVE  NodesApart(x, m)
BY SizedIs DEF Inside, NodesApart, Apart

-----------------------------------------------------------------------------
(* The tree of splits: D are its nodes, up[n] is the node that n is a part *)
(* of.  A node that was split has two parts, f and s.                      *)
Parts(D, up, p, f, s) ==
  /\ f # s /\ up[f] = p /\ up[s] = p
  /\ \A n \in D : up[n] = p => n = f \/ n = s
  /\ Inside(f, p) /\ Inside(s, p)
  /\ f.off = p.off /\ s.off = f.off + f.size /\ f.size + s.size = p.size

Shape(D, up) ==
  /\ D \in SUBSET Sized /\ IsFiniteSet(D) /\ up \in [D -> D \cup {Nil}]
  /\ \A n \in D : up[n] = Nil => n.level = 0 /\ n.off = 0
  /\ \A n \in D : up[n] # Nil => Below(n, up[n]) /\ n.level = up[n].level + 1
  /\ \A n, m \in D : n # m => NodesApart(n, m) \/ Below(n, m) \/ Below(m, n)
  /\ \A n \in D : up[n] # Nil => \E f, s \in D : Parts(D, up, up[n], f, s)

(* Nodes of a tree are apart or one lies below the other.                   *)
LEMMA Nested ==
  ASSUME NEW D, NEW up, Shape(D, up), NEW n \in D, NEW m \in D, Inside(n, m)
  PROVE  n = m \/ Below(n, m)
<1>1. n \in Sized /\ m \in Sized BY DEF Shape
<1>2. ~ NodesApart(n, m) BY <1>1, InsideSelf, ApartNotBoth
<1>3. ~ Below(m, n) BY <1>1, BelowStrict
<1> QED BY <1>2, <1>3 DEF Shape

(* Between a node and any that it lies in is the one it is a part of.       *)
LEMMA Closest ==
  ASSUME NEW D, NEW up, Shape(D, up), NEW n \in D, NEW m \in D, n # m, Inside(n, m)
  PROVE  up[n] # Nil /\ up[n] \in D /\ Inside(n, up[n]) /\ Inside(up[n], m)
<1>1. n \in Sized /\ m \in Sized BY DEF Shape
<1>2. Below(n, m) BY Nested
<1>3. m.level < n.level /\ m.level \in Nat /\ n.level \in Nat BY <1>1, <1>2, SizedIs DEF Below
<1>4. up[n] # Nil BY <1>3 DEF Shape
<1>5. PICK p \in D : p = up[n] /\ Below(n, p) /\ n.level = p.level + 1 BY <1>4 DEF Shape
<1>6. p \in Sized BY DEF Shape
<1>7. Inside(n, p) BY <1>1, <1>5, <1>6, BelowStrict
<1>8. p = m \/ Below(p, m) \/ Below(m, p)
  <2>1. ~ NodesApart(p, m) BY <1>1, <1>6, <1>7, ApartNotBoth
  <2> QED BY <2>1 DEF Shape
<1>9. ~ Below(m, p) BY <1>3, <1>5, <1>6, SizedIs DEF Below
<1>10. Inside(p, m) BY <1>1, <1>6, <1>8, <1>9, InsideSelf, BelowStrict
<1> QED BY <1>4, <1>5, <1>7, <1>10

(* What lies in a node that was split lies in one of the parts.             *)
LEMMA InPart ==
  ASSUME NEW D, NEW up, Shape(D, up), NEW p \in D, NEW f \in D, NEW s \in D,
         Parts(D, up, p, f, s), NEW x \in D, x # p, Inside(x, p)
  PROVE  Inside(x, f) \/ Inside(x, s)
<1>1. x \in Sized /\ p \in Sized /\ f \in Sized /\ s \in Sized BY DEF Shape
<1>2. SUFFICES ASSUME ~ Inside(x, f), ~ Inside(x, s) PROVE FALSE OBVIOUS
<1>3. ASSUME NEW k \in {f, s} PROVE NodesApart(x, k)
  <2>1. x # k /\ k \in D BY <1>1, <1>2, <1>3, InsideSelf
  <2>2. ~ Below(x, k) BY <1>2, <1>3 DEF Below
  <2>3. ~ Below(k, x)
    <3>1. SUFFICES ASSUME Below(k, x) PROVE FALSE OBVIOUS
    <3>2. Inside(k, x) /\ k # x BY <3>1, <2>1 DEF Below
    <3>3. up[k] = p BY <1>3 DEF Parts
    <3>4. Inside(p, x) BY <2>1, <3>2, <3>3, Closest
    <3>5. Below(x, p) BY Nested
    <3> QED BY <1>1, <3>4, <3>5, BelowStrict
  <2> QED BY <2>1, <2>2, <2>3 DEF Shape
<1>4. NodesApart(x, f) /\ NodesApart(x, s) BY <1>3
<1> QED BY <1>1, <1>4, SizedIs DEF Parts, NodesApart, Apart, Inside

(* The parts are smaller than the node and apart.                           *)
LEMMA PartsBelow ==
  ASSUME NEW D, NEW up, Shape(D, up), NEW p \in D, NEW f \in D, NEW s \in D,
         Parts(D, up, p, f, s)
  PROVE  Below(f, p) /\ Below(s, p) /\ NodesApart(f, s) /\ NodesApart(s, f)
<1>1. p \in Sized /\ f \in Sized /\ s \in Sized BY DEF Shape
<1>2. f.size < p.size /\ s.size < p.size BY <1>1, SizedIs DEF Parts
<1>3. f # p /\ s # p BY <1>2, <1>1, SizedIs
<1>4. Below(f, p) /\ Below(s, p) BY <1>3, Nested DEF Parts
<1>5. NodesApart(f, s) /\ NodesApart(s, f) BY <1>1, SizedIs DEF Parts, NodesApart, Apart
<1> QED BY <1>4, <1>5

(* The maps that the records of a tree t hold. *)
Up(t)  == [n \in DOMAIN t |-> t[n].parent]
Use(t) == [n \in DOMAIN t |-> t[n].uses]

(* Above collects the nodes around n. *)
Around(D, n) == {m \in D : m # n /\ Inside(n, m)}

(* The nodes above one are those that it lies in.                           *)
LEMMA AboveIs ==
  ASSUME Nil \notin Sized, NEW t, Shape(DOMAIN t, Up(t)), NEW n \in DOMAIN t
  PROVE  Above(t)[n] = Around(DOMAIN t, n)
<1>1. PICK D, up : D = DOMAIN t /\ up = Up(t) /\ Shape(D, up) OBVIOUS
<1>2. \A x \in D : up[x] = t[x].parent BY <1>1 DEF Up
<1>3. \A x \in D : x \in Sized /\ x # Nil BY <1>1 DEF Shape
<1> DEFINE Eq(f) == f = [x \in D |-> IF up[x] = Nil THEN {} ELSE {up[x]} \cup f[up[x]]]
           g == [x \in D |-> Around(D, x)]
<1>4. ASSUME NEW x \in D PROVE g[x] = IF up[x] = Nil THEN {} ELSE {up[x]} \cup g[up[x]]
  <2>1. CASE up[x] = Nil
    <3>1. \A m \in D : m # x => ~ Inside(x, m) BY <1>1, <2>1, Closest
    <3> QED BY <2>1, <3>1 DEF Around
  <2>2. CASE up[x] # Nil
    <3>1. PICK p \in D : p = up[x] /\ Below(x, p) BY <1>1, <2>2 DEF Shape
    <3>2. Inside(x, p) /\ p # x BY <3>1, <1>3, BelowStrict
    <3>3. ASSUME NEW m \in D PROVE m \in Around(D, x) <=> m = p \/ m \in Around(D, p)
      <4>1. ASSUME m # x, Inside(x, m) PROVE m = p \/ (m # p /\ Inside(p, m))
        BY <1>1, <3>1, <4>1, Closest
      <4>2. ASSUME m # p, Inside(p, m) PROVE m # x /\ Inside(x, m)
        <5>1. Inside(x, m) BY <3>2, <4>2, <1>3, InsideTrans
        <5>2. m # x
          <6>1. SUFFICES ASSUME Inside(p, x) PROVE FALSE BY <4>2
          <6> QED BY <6>1, <3>1, <1>3, BelowStrict
        <5> QED BY <5>1, <5>2
      <4> QED BY <3>2, <4>1, <4>2 DEF Around
    <3>4. Around(D, x) = {p} \cup Around(D, p) BY <3>3 DEF Around
    <3>5. g[x] = Around(D, x) /\ g[p] = Around(D, p) OBVIOUS
    <3> HIDE DEF g
    <3> QED BY <2>2, <3>1, <3>4, <3>5
  <2> QED BY <2>1, <2>2
<1>5. Eq(g) BY <1>4
<1>6. PICK f : f = CHOOSE h : Eq(h) OBVIOUS
<1>7. Eq(f)
  <2> HIDE DEF Eq, g
  <2> QED BY <1>5, <1>6
<1>8. Above(t) = f
  <2>1. Above(t) = CHOOSE h : h = [x \in DOMAIN t |-> IF t[x].parent = Nil THEN {}
                                     ELSE {t[x].parent} \cup h[t[x].parent]]
    BY DEF Above
  <2>2. ASSUME NEW h
        PROVE  Eq(h) <=> h = [x \in DOMAIN t |-> IF t[x].parent = Nil THEN {}
                                ELSE {t[x].parent} \cup h[t[x].parent]]
    BY <1>1, <1>2
  <2> QED BY <2>1, <2>2, <1>6
<1>9. \A x \in D : f[x] = g[x]
  <2> DEFINE N == {k \in Nat : \A x \in D : x.level = k => f[x] = g[x]}
  <2>1. 0 \in N
    <3>1. ASSUME NEW x \in D, x.level = 0 PROVE up[x] = Nil
      <4>1. SUFFICES ASSUME up[x] # Nil PROVE FALSE OBVIOUS
      <4>2. up[x] \in D /\ x.level = up[x].level + 1 BY <4>1, <1>1 DEF Shape
      <4> QED BY <4>2, <3>1, <1>3, SizedIs
    <3>2. \A x \in D : x.level = 0 => f[x] = g[x]
      <4> HIDE DEF g
      <4> QED BY <3>1, <1>5, <1>7
    <3> QED BY <3>2
  <2>2. ASSUME NEW k \in Nat, k \in N PROVE k + 1 \in N
    <3>1. ASSUME NEW x \in D, x.level = k + 1 PROVE f[x] = g[x]
      <4>1. up[x] # Nil BY <1>1, <3>1 DEF Shape
      <4>2. PICK p \in D : p = up[x] /\ x.level = p.level + 1 BY <1>1, <4>1 DEF Shape
      <4>3. p.level = k BY <3>1, <4>2, <1>3, SizedIs
      <4>4. f[p] = g[p] BY <2>2, <4>3
      <4> HIDE DEF g
      <4> HIDE DEF Eq
      <4>5. g[x] = {p} \cup g[p] BY <1>4, <4>1, <4>2
      <4>6. f[x] = {p} \cup f[p] BY <1>7, <4>1, <4>2 DEF Eq
      <4> QED BY <4>4, <4>5, <4>6
    <3> QED BY <3>1
  <2>3. N = Nat
    <3>1. N \in SUBSET Nat OBVIOUS
    <3> HIDE DEF N
    <3> QED BY <3>1, <2>1, <2>2, NatInduct
  <2> QED BY <2>3, <1>3, SizedIs
<1>10. n \in D BY <1>1
<1> QED BY <1>1, <1>8, <1>9, <1>10

-----------------------------------------------------------------------------
(* What the free list and the counts say of the tree: L are the nodes on   *)
(* the free list, B the ones that are not (in use, or on the list of a     *)
(* group); every other node that is still needed was split, and its count  *)
(* is that of its parts that are not on the free list.                     *)
Alive(n, E) == \E l \in E : Inside(l, n)

Uses(f, s, L) == (IF f \in L THEN 0 ELSE 1) + (IF s \in L THEN 0 ELSE 1)

Split(D, up, use, L, B, p) ==
  \E f, s \in D : /\ Parts(D, up, p, f, s)
                  /\ Alive(f, L \cup B) /\ Alive(s, L \cup B)
                  /\ use[p] = Uses(f, s, L) /\ use[p] # 0

Counts(D, up, use, L, B) ==
  /\ use \in [D -> Nat] /\ L \cup B \subseteq D /\ L \cap B = {}
  /\ \A l, m \in L \cup B : l # m => NodesApart(l, m)
  /\ \A l \in L \cup B : use[l] = 0
  /\ \A p \in D \ (L \cup B) : Alive(p, L \cup B) => Split(D, up, use, L, B, p)

(* The leaves do not overlap. *)
LEMMA LeafAlone ==
  ASSUME NEW D, NEW up, NEW use, NEW L, NEW B, Shape(D, up), Counts(D, up, use, L, B),
         NEW l \in L \cup B, NEW m \in L \cup B, NEW x \in D, Inside(x, l), Inside(x, m)
  PROVE  l = m
<1>1. x \in Sized /\ l \in Sized /\ m \in Sized BY DEF Shape, Counts
<1> QED BY <1>1, ApartNotBoth DEF Counts

(* The nodes around a leaf were split. *)
LEMMA AroundSplit ==
  ASSUME NEW D, NEW up, NEW use, NEW L, NEW B, Shape(D, up), Counts(D, up, use, L, B),
         NEW n \in L \cup B, NEW q \in Around(D, n)
  PROVE  q \in D /\ q \notin L \cup B /\ Below(n, q) /\ Split(D, up, use, L, B, q)
<1>1. q \in D /\ q # n /\ Inside(n, q) /\ n \in D BY DEF Around, Counts
<1>2. n \in Sized BY <1>1 DEF Shape
<1>3. q \notin L \cup B
  <2>1. Inside(n, n) BY <1>2, InsideSelf
  <2> QED BY <1>1, <2>1, LeafAlone
<1>4. Alive(q, L \cup B) BY <1>1 DEF Alive
<1>5. Below(n, q) BY <1>1, Nested
<1> QED BY <1>1, <1>3, <1>4, <1>5 DEF Counts

(* The nodes around n are nested in each other, so that returnMemory goes  *)
(* up to the first of them, T, that does not become whole.                 *)
Last(A, use, p) == \A q \in A : q.size < p.size => use[q] = 1
Whole(A, use) == {p \in A : Last(A, use, p) /\ use[p] = 1}

Top(D, up, use, L, B, n, T) ==
  LET A == Around(D, n) W == Whole(A, use) IN
  /\ T \in D /\ Inside(n, T)
  /\ up[T] # Nil => use[up[T]] = 2
  /\ \A q \in A : q \in W <=> Inside(q, T)
  /\ \A q \in A : Last(A, use, q) <=> Inside(q, T) \/ q = up[T]
  /\ T # n => T \in W
  /\ \A l \in L \cup B : Inside(l, T) => l = n \/ l \in L
  /\ {m \in L \cup {n} \cup W : up[m] \notin W} = {l \in L : ~ Inside(l, T)} \cup {T}

(* How far up returnMemory goes: T is the largest node around n that        *)
(* becomes whole when n is returned.                                        *)
LEMMA ReturnTop ==
  ASSUME Nil \notin Sized, NEW D, NEW up, NEW use, NEW L, NEW B,
         Shape(D, up), Counts(D, up, use, L, B), NEW n \in B
  PROVE  \E T \in D : Top(D, up, use, L, B, n, T)
<1> DEFINE A == Around(D, n)
           W == Whole(A, use)
<1>1. n \in D /\ n \in Sized /\ n \in L \cup B /\ n \notin L BY DEF Counts, Shape
<1>2. \A q \in D : q \in Sized /\ q # Nil BY DEF Shape
<1>3. ASSUME NEW q \in A
      PROVE  /\ q \in D /\ q # n /\ Inside(n, q) /\ Below(n, q) /\ q \notin L \cup B
             /\ Split(D, up, use, L, B, q)
  BY <1>1, AroundSplit DEF Around
<1>4. ASSUME NEW q \in D, NEW r \in D, Inside(n, q), Inside(n, r)
      PROVE  q = r \/ Below(q, r) \/ Below(r, q)
  <2>1. ~ NodesApart(q, r) BY <1>1, <1>2, <1>4, ApartNotBoth
  <2> QED BY <2>1 DEF Shape
<1>5. ASSUME NEW p \in W, NEW q \in A, q.size <= p.size PROVE q \in W
  <2>1. p \in A /\ Last(A, use, p) /\ use[p] = 1 BY DEF Whole
  <2>2. CASE q = p BY <2>2
  <2>3. CASE q # p
    <3>1. q.size \in Nat /\ p.size \in Nat BY <1>2, <1>3, <2>1, SizedIs
    <3>2. Below(q, p) \/ Below(p, q) BY <1>3, <1>4, <2>1, <2>3
    <3>3. q.size < p.size BY <1>5, <3>1, <3>2 DEF Below
    <3>4. use[q] = 1 BY <2>1, <3>3 DEF Last
    <3>5. ASSUME NEW r \in A, r.size < q.size PROVE use[r] = 1
      <4>1. r.size \in Nat BY <1>2, <1>3, SizedIs
      <4>2. r.size < p.size BY <3>1, <3>3, <3>5, <4>1
      <4> QED BY <2>1, <4>2 DEF Last
    <3> QED BY <3>4, <3>5 DEF Whole, Last
  <2> QED BY <2>2, <2>3
<1>6. W \in SUBSET A BY DEF Whole
<1> HIDE DEF A, W
<1>7. PICK T \in {n} \cup W : \A x \in {n} \cup W : T.level <= x.level
  <2> DEFINE N == {x.level : x \in {n} \cup W}
  <2>1. N \in SUBSET Nat BY <1>1, <1>2, <1>3, <1>6, SizedIs
  <2>2. N # {} OBVIOUS
  <2>3. PICK k \in N : \A j \in N : k <= j BY <2>1, <2>2, SmallestNat
  <2>4. PICK x \in {n} \cup W : k = x.level BY <2>3
  <2> QED BY <2>3, <2>4
<1>8. T \in D /\ Inside(n, T) /\ T \in Sized
  BY <1>1, <1>2, <1>3, <1>6, <1>7, InsideSelf
<1>9. \A q \in A : q.level \in Nat /\ T.level \in Nat /\ q.size \in Nat /\ T.size \in Nat
  BY <1>2, <1>3, <1>8, SizedIs
<1>10. ASSUME NEW q \in A PROVE q \in W <=> Inside(q, T)
  <2>1. ASSUME q \in W PROVE Inside(q, T)
    <3>1. ~ Below(T, q) BY <1>7, <1>9, <2>1 DEF Below
    <3>2. q = T \/ Below(q, T) BY <1>3, <1>4, <1>8, <3>1
    <3> QED BY <1>2, <1>8, <3>2, InsideSelf DEF Below
  <2>2. ASSUME Inside(q, T) PROVE q \in W
    <3>1. CASE T = n BY <1>2, <1>3, <1>8, <2>2, <3>1, BelowStrict
    <3>2. CASE T \in W
      <4>1. q.size <= T.size BY <1>2, <1>3, <1>8, <2>2, InsideSize
      <4> QED BY <1>5, <3>2, <4>1
    <3> QED BY <1>7, <3>1, <3>2
  <2> QED BY <2>1, <2>2
<1>11. up[T] # Nil => up[T] \in D /\ Below(T, up[T]) /\ T.level = up[T].level + 1
  BY <1>8 DEF Shape
<1>12. up[T] # Nil => up[T] \in A
  <2>1. SUFFICES ASSUME up[T] # Nil PROVE up[T] \in A OBVIOUS
  <2>2. PICK p \in D : p = up[T] /\ Below(T, p) BY <1>11, <2>1
  <2>3. Inside(T, p) /\ ~ Inside(p, T) BY <1>2, <1>8, <2>2, BelowStrict
  <2>4. Inside(n, p) BY <1>1, <1>2, <1>8, <2>3, InsideTrans
  <2>5. p # n BY <1>8, <2>3
  <2> QED BY <2>2, <2>4, <2>5 DEF A, Around
<1>13. ASSUME NEW q \in A, ~ Inside(q, T) PROVE up[T] # Nil /\ Inside(up[T], q)
  <2>1. q # T /\ ~ Below(q, T) BY <1>8, <1>13, InsideSelf DEF Below
  <2>2. Below(T, q) BY <1>3, <1>4, <1>8, <2>1
  <2>3. Inside(T, q) BY <2>2 DEF Below
  <2> QED BY <1>3, <1>8, <2>1, <2>3, Closest
<1>14. up[T] # Nil => Last(A, use, up[T])
  <2>1. SUFFICES ASSUME up[T] # Nil, NEW q \in A, q.size < up[T].size PROVE use[q] = 1
    BY DEF Last
  <2>2. CASE Inside(q, T) BY <1>10, <2>2 DEF W, Whole
  <2>3. CASE ~ Inside(q, T)
    <3>1. PICK p \in D : p = up[T] /\ p \in A BY <1>11, <1>12, <2>1
    <3>2. p.size <= q.size BY <1>2, <1>3, <1>13, <2>3, <3>1, InsideSize
    <3> QED BY <1>9, <2>1, <3>1, <3>2
  <2> QED BY <2>2, <2>3
<1>15. up[T] # Nil => use[up[T]] = 2
  <2>1. SUFFICES ASSUME up[T] # Nil PROVE use[up[T]] = 2 OBVIOUS
  <2>2. PICK p \in A : p = up[T] BY <1>12, <2>1
  <2>3. p \notin W
    <3>1. SUFFICES ASSUME p \in W PROVE FALSE OBVIOUS
    <3>2. T.level <= p.level BY <1>7, <3>1
    <3> QED BY <1>9, <1>11, <2>1, <2>2, <3>2
  <2>4. use[p] # 1 BY <1>14, <2>1, <2>2, <2>3 DEF W, Whole
  <2>5. Split(D, up, use, L, B, p) BY <1>3
  <2> QED BY <2>2, <2>4, <2>5 DEF Split, Uses
<1>16. ASSUME NEW q \in A PROVE Last(A, use, q) <=> Inside(q, T) \/ q = up[T]
  <2>1. ASSUME Inside(q, T) PROVE Last(A, use, q) BY <1>10, <2>1 DEF W, Whole
  <2>2. ASSUME q = up[T] PROVE Last(A, use, q) BY <1>2, <1>3, <1>14, <2>2
  <2>3. ASSUME Last(A, use, q), ~ Inside(q, T), q # up[T] PROVE FALSE
    <3>1. up[T] # Nil /\ Inside(up[T], q) BY <1>13, <2>3
    <3>2. PICK p \in A : p = up[T] BY <1>12, <3>1
    <3>3. Below(p, q) BY <1>3, <2>3, <3>1, <3>2, Nested
    <3>4. use[p] = 1 BY <2>3, <3>3 DEF Last, Below
    <3> QED BY <1>15, <3>1, <3>2, <3>4
  <2> QED BY <2>1, <2>2, <2>3

<1>17. ASSUME NEW l \in L \cup B, Inside(l, T), l # n PROVE l \in L /\ up[l] \in W
  <2>0. l \in D /\ l \in Sized BY <1>2 DEF Counts
  <2>1. T \in W
    <3>1. T # n BY <1>1, <1>17, <2>0, InsideSelf, LeafAlone
    <3> QED BY <1>7, <3>1
  <2> DEFINE N == {q.size : q \in {r \in W : Inside(l, r)}}
  <2>2. N \in SUBSET Nat BY <1>6, <1>9
  <2>3. N # {} BY <2>1, <1>17
  <2>4. PICK k \in N : \A j \in N : k <= j BY <2>2, <2>3, SmallestNat
  <2>5. PICK q \in W : Inside(l, q) /\ k = q.size BY <2>4
  <2>6. \A r \in W : Inside(l, r) => q.size <= r.size BY <2>4, <2>5
  <2> HIDE DEF N
  <2>7. q \in A /\ use[q] = 1 BY DEF W, Whole
  <2>8. q \in D /\ q # n /\ Inside(n, q) /\ q \notin L \cup B BY <1>3, <2>7
  <2>9. PICK f \in D, s \in D : Parts(D, up, q, f, s) /\ use[q] = Uses(f, s, L)
    BY <1>3, <2>7 DEF Split
  <2>10. Inside(n, f) \/ Inside(n, s) BY <1>1, <2>8, <2>9, InPart
  <2>11. PICK c \in D, o \in D : /\ {c, o} = {f, s} /\ Inside(n, c)
                                 /\ (c = f /\ o = s) \/ (c = s /\ o = f)
    BY <2>9, <2>10
  <2>12. c \notin L
    <3>1. SUFFICES ASSUME c \in L PROVE FALSE OBVIOUS
    <3>2. c = n BY <1>1, <2>11, <3>1, InsideSelf, LeafAlone
    <3> QED BY <1>1, <3>1, <3>2
  <2>13. o \in L BY <2>7, <2>9, <2>11, <2>12 DEF Uses
  <2>14. up[c] = q /\ up[o] = q /\ Below(c, q) BY <2>8, <2>9, <2>11, PartsBelow DEF Parts
  <2>15. Inside(l, c) \/ Inside(l, o)
    <3>1. l # q BY <2>8
    <3> QED BY <2>0, <2>5, <2>8, <2>9, <2>11, <3>1, InPart
  <2>16. ~ Inside(l, c)
    <3>1. SUFFICES ASSUME Inside(l, c) PROVE FALSE OBVIOUS
    <3>2. c # n BY <1>1, <1>17, <2>0, <3>1, InsideSelf, LeafAlone
    <3>3. c \in A BY <2>11, <3>2 DEF A, Around
    <3>4. c.size < q.size /\ c.size \in Nat /\ q.size \in Nat
      BY <1>9, <2>7, <2>14, <3>3 DEF Below
    <3>5. c \in W BY <1>5, <3>3, <3>4
    <3> QED BY <2>6, <3>1, <3>4, <3>5
  <2>17. l = o BY <2>0, <2>13, <2>15, <2>16, InsideSelf, LeafAlone
  <2> QED BY <2>13, <2>14, <2>17
<1>18. ASSUME NEW q \in A, Inside(q, T) PROVE q \in W BY <1>10, <1>18
<1>19. ASSUME NEW m \in L \cup {n} \cup W
       PROVE  up[m] \notin W <=> (m \in L /\ ~ Inside(m, T)) \/ m = T
  <2>0. m \in D /\ m \in Sized BY <1>1, <1>2, <1>3, <1>6 DEF Counts
  <2>1. ASSUME up[m] \notin W, m # T PROVE m \in L /\ ~ Inside(m, T)
    <3>1. ~ (Inside(m, T) /\ Inside(n, m))
      <4>1. SUFFICES ASSUME Inside(m, T), Inside(n, m) PROVE FALSE OBVIOUS
      <4>2. up[m] \in D /\ Inside(m, up[m]) /\ Inside(up[m], T) /\ up[m] # Nil
        BY <1>8, <2>0, <2>1, <4>1, Closest
      <4>3. PICK p \in D : p = up[m] BY <4>2
      <4>4. Below(m, p) BY <2>0, <4>2, <4>3 DEF Shape
      <4>5. Inside(n, p) BY <1>1, <1>2, <2>0, <4>1, <4>2, <4>3, InsideTrans
      <4>6. p # n BY <1>2, <2>0, <4>1, <4>3, <4>4, BelowStrict
      <4>7. p \in A BY <4>5, <4>6 DEF A, Around
      <4> QED BY <1>18, <2>1, <4>2, <4>3, <4>7
    <3>2. m # n BY <1>1, <1>8, <3>1, InsideSelf
    <3>3. m \notin W BY <1>3, <1>6, <1>10, <3>1
    <3>4. m \in L BY <3>2, <3>3
    <3> QED BY <1>17, <2>1, <3>2, <3>4
  <2>2. ASSUME m \in L, ~ Inside(m, T), up[m] \in W PROVE FALSE
    <3>1. PICK p \in A : p = up[m] /\ p \in D /\ p \in Sized BY <1>2, <1>3, <1>6, <2>2
    <3>2. Inside(m, p) BY <1>2, <2>0, <3>1 DEF Shape, Below
    <3>3. Inside(p, T) BY <1>10, <2>2, <3>1
    <3> QED BY <1>8, <2>0, <2>2, <3>1, <3>2, <3>3, InsideTrans
  <2>3. ASSUME m = T, up[T] \in W PROVE FALSE
    <3>1. PICK p \in A : p = up[T] /\ p \in D /\ p \in Sized BY <1>2, <1>3, <1>6, <2>3
    <3>2. Below(T, p) BY <1>2, <1>11, <3>1
    <3>3. Inside(p, T) BY <1>10, <2>3, <3>1
    <3> QED BY <1>8, <3>1, <3>2, <3>3, BelowStrict
  <2> QED BY <2>1, <2>2, <2>3
<1>20. {m \in L \cup {n} \cup W : up[m] \notin W} = {l \in L : ~ Inside(l, T)} \cup {T}
  BY <1>7, <1>19
<1>21. T # n => T \in W BY <1>7
<1> QED BY <1>8, <1>10, <1>15, <1>16, <1>17, <1>20, <1>21 DEF Top, A, W

CountsDown(D, use, L, n, T, v, M) ==
  /\ v \in [D -> Nat]
  /\ \A m \in D : v[m] = IF m \in Around(D, n) /\ Last(Around(D, n), use, m)
                         THEN use[m] - 1 ELSE use[m]
  /\ M = {l \in L : ~ Inside(l, T)} \cup {T}

(* After returnMemory T is on the free list, instead of what lies in it. *)
LEMMA ReturnCounts ==
  ASSUME Nil \notin Sized, NEW D, NEW up, NEW use, NEW L, NEW B,
         Shape(D, up), Counts(D, up, use, L, B), NEW n \in B, NEW T,
         Top(D, up, use, L, B, n, T),
         NEW v, NEW M, CountsDown(D, use, L, n, T, v, M)
  PROVE  /\ Counts(D, up, v, M, B \ {n})
         /\ \A x \in D : up[x] = Nil /\ Alive(x, L \cup B) => Alive(x, M \cup (B \ {n}))
<1> DEFINE A == Around(D, n)
           E == L \cup B
           E2 == M \cup (B \ {n})
<1>0. /\ v \in [D -> Nat]
      /\ \A m \in D : v[m] = IF m \in A /\ Last(A, use, m) THEN use[m] - 1 ELSE use[m]
      /\ M = {l \in L : ~ Inside(l, T)} \cup {T}
  BY DEF CountsDown
<1>1. n \in D /\ n \in E /\ n \notin L BY DEF Counts
<1>2. \A q \in D : q \in Sized /\ q # Nil BY DEF Shape
<1>3. T \in D /\ Inside(n, T) /\ (up[T] # Nil => use[up[T]] = 2)
  BY DEF Top
<1>4. \A l \in E : Inside(l, T) => l = n \/ l \in L BY DEF Top
<1>5. E2 = {l \in E : ~ Inside(l, T)} \cup {T}
  <2>1. L \cap B = {} BY DEF Counts
  <2>2. \A l \in B : Inside(l, T) <=> l = n BY <1>3, <1>4, <2>1
  <2> QED BY <1>0, <2>1, <2>2
<1>6. \A l \in E : l \in D BY DEF Counts
<1>7. \A q \in A : q \in D /\ q \notin E /\ Below(n, q) /\ Split(D, up, use, L, B, q)
  BY <1>1, AroundSplit
<1>8. T # n => T \in A /\ use[T] = 1 BY DEF Top, Whole
<1>9. T \notin E \/ T = n BY <1>7, <1>8
<1>10. \A m \in D : v[m] = IF m \in A /\ (Inside(m, T) \/ m = up[T])
                           THEN use[m] - 1 ELSE use[m]
  BY <1>0 DEF Top
<1> HIDE DEF A, E, E2
<1>11. up[T] # Nil => up[T] \in D /\ Below(T, up[T]) /\ ~ Inside(up[T], T) /\ up[T] \in A
  <2>1. SUFFICES ASSUME up[T] # Nil
                 PROVE  up[T] \in D /\ Below(T, up[T]) /\ ~ Inside(up[T], T) /\ up[T] \in A
    OBVIOUS
  <2>2. PICK p \in D : p = up[T] /\ Below(T, p) BY <1>3, <2>1 DEF Shape
  <2>3. Inside(T, p) /\ ~ Inside(p, T) BY <1>2, <1>3, <2>2, BelowStrict
  <2>4. Inside(n, p) /\ p # n BY <1>1, <1>2, <1>3, <2>3, InsideTrans
  <2> QED BY <2>2, <2>3, <2>4 DEF A, Around
<1>12. ASSUME NEW l \in E, ~ Inside(l, T) PROVE NodesApart(l, T) /\ NodesApart(T, l)
  <2>1. l \in D /\ l # T BY <1>2, <1>3, <1>6, <1>12, InsideSelf
  <2>2. ~ Inside(T, l)
    <3>1. SUFFICES ASSUME Inside(T, l) PROVE FALSE OBVIOUS
    <3>2. Inside(n, l) BY <1>1, <1>2, <1>3, <2>1, <3>1, InsideTrans
    <3>3. l = n BY <1>1, <1>2, <2>1, <3>2, InsideSelf, LeafAlone DEF E
    <3> QED BY <1>3, <1>12, <3>3
  <2>3. NodesApart(l, T) BY <1>3, <1>12, <2>1, <2>2 DEF Shape, Below
  <2> QED BY <1>2, <1>3, <2>1, <2>3, ApartSame
<1>13. \A l, m \in E2 : l # m => NodesApart(l, m)
  <2>1. \A l, m \in E : l # m => NodesApart(l, m) BY DEF Counts, E
  <2> QED BY <1>5, <1>12, <2>1
<1>14. \A l \in E2 : v[l] = 0
  <2>1. ASSUME NEW l \in E, ~ Inside(l, T) PROVE v[l] = 0
    <3>1. use[l] = 0 BY DEF Counts, E
    <3>2. l \notin A /\ l \in D BY <1>6, <1>7
    <3> QED BY <1>10, <3>1, <3>2
  <2>2. v[T] = 0
    <3>1. CASE T = n
      <4>1. n \notin A BY DEF A, Around
      <4>2. use[n] = 0 BY <1>1 DEF Counts, E
      <4> QED BY <1>1, <1>10, <3>1, <4>1, <4>2
    <3>2. CASE T # n
      <4>1. Inside(T, T) BY <1>2, <1>3, InsideSelf
      <4> QED BY <1>3, <1>8, <1>10, <3>2, <4>1
    <3> QED BY <3>1, <3>2
  <2> QED BY <1>5, <2>1, <2>2
<1>15. M \cup (B \ {n}) = E2 /\ E2 \subseteq D /\ M \cap (B \ {n}) = {}
  <2>1. E2 \subseteq D BY <1>3, <1>5, <1>6
  <2>2. T \notin B \ {n} BY <1>9 DEF E
  <2>3. L \cap B = {} BY DEF Counts
  <2> QED BY <1>0, <2>1, <2>2, <2>3 DEF E2
<1>16. ASSUME NEW f \in D, Alive(f, E), ~ (f # T /\ Inside(f, T)) PROVE Alive(f, E2)
  <2>1. PICK l \in E : Inside(l, f) BY <1>16 DEF Alive
  <2>2. CASE ~ Inside(l, T) BY <1>5, <2>1, <2>2 DEF Alive
  <2>3. CASE Inside(l, T)
    <3>1. ~ NodesApart(f, T) BY <1>2, <1>3, <1>6, <2>1, <2>3, ApartNotBoth
    <3>2. f = T \/ Below(T, f) BY <1>3, <1>16, <3>1 DEF Shape, Below
    <3>3. Inside(T, f) BY <1>2, <1>3, <3>2, InsideSelf DEF Below
    <3> QED BY <1>5, <3>3 DEF Alive
  <2> QED BY <2>2, <2>3
<1>17. ASSUME NEW p \in D, p \notin E2, Alive(p, E2) PROVE Split(D, up, v, M, B \ {n}, p)
  <2>1. PICK l \in E2 : Inside(l, p) BY <1>17 DEF Alive
  <2>2. l \in D BY <1>15
  <2>3. ~ Inside(p, T)
    <3>1. SUFFICES ASSUME Inside(p, T) PROVE FALSE OBVIOUS
    <3>2. Inside(l, T) BY <1>2, <1>3, <2>1, <2>2, <3>1, InsideTrans
    <3>3. l = T BY <1>5, <3>2
    <3>4. Inside(T, p) /\ p # T BY <1>5, <1>17, <2>1, <3>3
    <3>5. Below(T, p) /\ Below(p, T) BY <1>3, <3>1, <3>4, Nested
    <3> QED BY <1>2, <1>3, <3>5, BelowStrict
  <2>4. Alive(p, E)
    <3>1. CASE l \in E BY <2>1, <3>1 DEF Alive
    <3>2. CASE l = T
      <4>1. Inside(n, p) BY <1>1, <1>2, <1>3, <2>1, <3>2, InsideTrans
      <4> QED BY <1>1, <4>1 DEF Alive
    <3> QED BY <1>5, <3>1, <3>2
  <2>5. p \notin E BY <1>5, <1>17, <2>3
  <2>6. Split(D, up, use, L, B, p) BY <2>4, <2>5 DEF Counts, E
  <2>7. PICK f \in D, s \in D : /\ Parts(D, up, p, f, s)
                                /\ Alive(f, E) /\ Alive(s, E)
                                /\ use[p] = Uses(f, s, L) /\ use[p] # 0
    BY <2>6 DEF Split, E
  <2>8. ASSUME NEW k \in {f, s}
        PROVE  /\ k \in D /\ up[k] = p /\ ~ (k # T /\ Inside(k, T))
               /\ k # T => (k \in M <=> k \in L)
    <3>0. M = {x \in L : ~ Inside(x, T)} \cup {T} BY <1>0
    <3>1. k \in D /\ up[k] = p BY <2>7 DEF Parts
    <3>2. ~ (k # T /\ Inside(k, T)) BY <1>3, <2>3, <3>1, Closest
    <3> QED BY <3>0, <3>1, <3>2
  <2>9. Alive(f, E2) /\ Alive(s, E2) BY <1>16, <2>7, <2>8
  <2>10. v[p] = Uses(f, s, M) /\ v[p] # 0
    <3>1. CASE p = up[T]
      <4>1. T \in {f, s} /\ f # s BY <1>3, <2>7, <3>1 DEF Parts
      <4>2. T \notin L /\ T \in M BY <1>0, <1>1, <1>9 DEF E
      <4>3. p # Nil /\ p \in A /\ use[p] = 2 BY <1>2, <1>3, <1>11, <3>1
      <4>4. v[p] = 1 BY <1>10, <3>1, <4>3
      <4>5. Uses(f, s, L) = 2 BY <2>7, <4>3
      <4>6. f \notin L /\ s \notin L BY <4>5 DEF Uses
      <4>7. Uses(f, s, M) = 1 BY <2>8, <4>1, <4>2, <4>6 DEF Uses
      <4> QED BY <4>4, <4>7
    <3>2. CASE p # up[T]
      <4>1. f # T /\ s # T BY <2>8, <3>2
      <4>2. v[p] = use[p] BY <1>10, <2>3, <3>2
      <4>3. Uses(f, s, M) = Uses(f, s, L) BY <2>8, <4>1 DEF Uses
      <4> QED BY <2>7, <4>2, <4>3
    <3> QED BY <3>1, <3>2
  <2> QED BY <1>15, <2>7, <2>9, <2>10 DEF Split
<1>18. Counts(D, up, v, M, B \ {n})
  BY <1>0, <1>13, <1>14, <1>15, <1>17 DEF Counts
<1>19. ASSUME NEW x \in D, up[x] = Nil, Alive(x, E) PROVE Alive(x, E2)
  <2>1. ~ (x # T /\ Inside(x, T)) BY <1>3, <1>19, Closest
  <2> QED BY <1>16, <1>19, <2>1
<1> QED BY <1>15, <1>18, <1>19 DEF E

-----------------------------------------------------------------------------
(* The operations on trees. *)
Tree(t) == t \in [DOMAIN t -> [parent : DOMAIN t \cup {Nil}, uses : Nat]]

Good(t, L, B) ==
  /\ Tree(t) /\ Shape(DOMAIN t, Up(t))
  /\ Counts(DOMAIN t, Up(t), Use(t), L, B)

LEMMA TreeFields ==
  ASSUME NEW t, Tree(t), NEW n \in DOMAIN t
  PROVE  /\ t[n] \in [parent : DOMAIN t \cup {Nil}, uses : Nat]
         /\ t[n] = [parent |-> t[n].parent, uses |-> t[n].uses]
         /\ t[n].parent \in DOMAIN t \cup {Nil} /\ t[n].uses \in Nat
         /\ Up(t)[n] = t[n].parent /\ Use(t)[n] = t[n].uses
<1>1. t[n] \in [parent : DOMAIN t \cup {Nil}, uses : Nat] BY DEF Tree
<1> QED BY <1>1 DEF Up, Use

(* Two trees with the same nodes, in the same places. *)
Same(t, u) == DOMAIN u = DOMAIN t /\ Up(u) = Up(t)

(* The blocks that hold something still do. *)
RootsKept(t, E, E2) ==
  \A x \in DOMAIN t : Up(t)[x] = Nil /\ Alive(x, E) => Alive(x, E2)

(* returnMemory keeps the shape and the counts of the tree.                 *)
LEMMA ReturnedGood ==
  ASSUME Nil \notin Sized, NEW t, NEW L, NEW B, Good(t, L, B), NEW n \in B,
         NEW a, a.tree = t, a.list = L, NEW r, r = Returned(a, n)
  PROVE  /\ Same(t, r.tree) /\ Good(r.tree, r.list, B \ {n})
         /\ RootsKept(t, L \cup B, r.list \cup (B \ {n}))
         /\ r = [tree |-> r.tree, list |-> r.list]
<1>1. PICK D, up, use : /\ D = DOMAIN t /\ up = Up(t) /\ use = Use(t)
                        /\ Shape(D, up) /\ Counts(D, up, use, L, B)
  BY DEF Good
<1>2. n \in D BY <1>1 DEF Counts
<1>3. \A m \in D : /\ t[m] \in [parent : D \cup {Nil}, uses : Nat]
                   /\ up[m] = t[m].parent /\ use[m] = t[m].uses /\ use[m] \in Nat
  BY <1>1, TreeFields DEF Good
<1>4. PICK A : A = Around(D, n) /\ A = Above(t)[n] BY <1>1, <1>2, AboveIs
<1>5. PICK W : W = Whole(A, use) OBVIOUS
<1>6. \A q \in A : q \in D /\ use[q] # 0
  <2>1. n \in L \cup B OBVIOUS
  <2>2. \A q \in A : q \in D /\ Split(D, up, use, L, B, q) BY <1>1, <1>4, <2>1, AroundSplit
  <2> QED BY <2>2 DEF Split
<1>7. PICK T : Top(D, up, use, L, B, n, T) BY <1>1, ReturnTop
<1>8. \A p \in A : Last(A, use, p) <=> \A q \in A : q.size < p.size => t[q].uses = 1
  BY <1>3, <1>6 DEF Last
<1>9. W = {p \in A : (\A q \in A : q.size < p.size => t[q].uses = 1) /\ t[p].uses = 1}
  BY <1>3, <1>5, <1>6, <1>8 DEF Whole
<1>10. r = [tree |-> [m \in D |->
                        IF m \in A /\ (\A q \in A : q.size < m.size => t[q].uses = 1)
                        THEN [t[m] EXCEPT !.uses = @ - 1] ELSE t[m]],
            list |-> {m \in L \cup {n} \cup W : t[m].parent \notin W}]
  BY <1>1, <1>4, <1>9 DEF Returned
<1>11. PICK u : u = r.tree OBVIOUS
<1>12. u = [m \in D |-> IF m \in A /\ Last(A, use, m) THEN [t[m] EXCEPT !.uses = @ - 1]
                        ELSE t[m]]
  <2>1. u = [m \in D |-> IF m \in A /\ (\A q \in A : q.size < m.size => t[q].uses = 1)
                         THEN [t[m] EXCEPT !.uses = @ - 1] ELSE t[m]]
    BY <1>10, <1>11
  <2> QED BY <2>1, <1>8
<1>13. ASSUME NEW m \in D
       PROVE  /\ u[m] \in [parent : D \cup {Nil}, uses : Nat] /\ u[m].parent = up[m]
              /\ u[m].uses = IF m \in A /\ Last(A, use, m) THEN use[m] - 1 ELSE use[m]
  <2>1. CASE m \in A /\ Last(A, use, m)
    <3>1. use[m] - 1 \in Nat BY <1>3, <1>6, <2>1
    <3>2. u[m] = [t[m] EXCEPT !.uses = use[m] - 1] BY <1>3, <1>12, <2>1
    <3> QED BY <1>3, <2>1, <3>1, <3>2
  <2>2. CASE ~ (m \in A /\ Last(A, use, m)) BY <1>3, <1>12, <2>2
  <2> QED BY <2>1, <2>2
<1>14. DOMAIN u = D BY <1>12
<1>15. u \in [D -> [parent : D \cup {Nil}, uses : Nat]] BY <1>12, <1>13
<1>16. Up(u) = up
  <2>1. up = [m \in D |-> t[m].parent] BY <1>1 DEF Up
  <2>2. Up(u) = [m \in D |-> u[m].parent] BY <1>14 DEF Up
  <2> QED BY <2>1, <2>2, <1>3, <1>13
<1>17. PICK v : v = Use(u) OBVIOUS
<1>18. /\ v \in [D -> Nat]
       /\ \A m \in D : v[m] = IF m \in A /\ Last(A, use, m) THEN use[m] - 1 ELSE use[m]
  BY <1>13, <1>14, <1>17 DEF Use
<1>19. r.list = {l \in L : ~ Inside(l, T)} \cup {T}
  <2>1. r.list = {m \in L \cup {n} \cup W : t[m].parent \notin W} BY <1>10
  <2>2. \A m \in L \cup {n} \cup W : m \in D BY <1>1, <1>2, <1>5, <1>6 DEF Whole, Counts
  <2>3. r.list = {m \in L \cup {n} \cup W : up[m] \notin W} BY <2>1, <2>2, <1>3
  <2>4. {m \in L \cup {n} \cup W : up[m] \notin W} = {l \in L : ~ Inside(l, T)} \cup {T}
    BY <1>4, <1>5, <1>7 DEF Top
  <2> QED BY <2>3, <2>4
<1>20. PICK M : M = r.list OBVIOUS
<1>21. /\ Counts(D, up, v, M, B \ {n})
       /\ \A x \in D : up[x] = Nil /\ Alive(x, L \cup B) => Alive(x, M \cup (B \ {n}))
  <2>1. \A m \in D : v[m] = IF m \in Around(D, n) /\ Last(Around(D, n), use, m)
                             THEN use[m] - 1 ELSE use[m]
    BY <1>4, <1>18
  <2>2. M = {l \in L : ~ Inside(l, T)} \cup {T} /\ v \in [D -> Nat] BY <1>18, <1>19, <1>20
  <2>3. Shape(D, up) /\ Counts(D, up, use, L, B) BY <1>1
  <2>4. Top(D, up, use, L, B, n, T) BY <1>7
  <2>5. v \in [D -> Nat] BY <2>2
  <2>6. M = {l \in L : ~ Inside(l, T)} \cup {T} BY <2>2
  <2>7. CountsDown(D, use, L, n, T, v, M) BY <2>1, <2>5, <2>6 DEF CountsDown
  <2> QED BY <2>3, <2>4, <2>7, ReturnCounts
<1>22. Good(u, M, B \ {n}) BY <1>1, <1>14, <1>15, <1>16, <1>17, <1>21 DEF Good, Tree
<1>23. r = [tree |-> r.tree, list |-> r.list] BY <1>10
<1> QED BY <1>1, <1>11, <1>14, <1>16, <1>20, <1>21, <1>22, <1>23 DEF Same, RootsKept

(* barrierEnd returns the nodes of the groups one after the other. *)
LEMMA FoldGood ==
  ASSUME Nil \notin Sized, NEW t, NEW L, NEW B, Good(t, L, B), NEW S \in SUBSET B,
         NEW r, r = FoldSet(LAMBDA n, acc : Returned(acc, n), [tree |-> t, list |-> L], S)
  PROVE  /\ Same(t, r.tree) /\ Good(r.tree, r.list, B \ S)
         /\ RootsKept(t, L \cup B, r.list \cup (B \ S))
<1>1. PICK D : D = DOMAIN t /\ IsFiniteSet(D) /\ B \subseteq D /\ L \subseteq D
  BY DEF Good, Shape, Counts
<1>2. IsFiniteSet(S) BY <1>1, FS_Subset
<1>3. PICK base : base = [tree |-> t, list |-> L] OBVIOUS
<1> DEFINE V == [tree : [D -> [parent : D \cup {Nil}, uses : Nat]], list : SUBSET D]
           F == [p \in S \X V |-> IF Returned(p[2], p[1]) \in V THEN Returned(p[2], p[1])
                                  ELSE p[2]]
           Fine(a, X) == /\ a = [tree |-> a.tree, list |-> a.list] /\ Same(t, a.tree)
                         /\ Good(a.tree, a.list, B \ X)
                         /\ RootsKept(t, L \cup B, a.list \cup (B \ X))
           Eq(f) == f = [X \in SUBSET S |-> IF X = {} THEN base
                                            ELSE Returned(f[X \ {Choice(X)}], Choice(X))]
<1>4. base \in V BY <1>1, <1>3 DEF Good, Tree
<1>5. \A x \in S, a \in V : F[<<x, a>>] = IF Returned(a, x) \in V THEN Returned(a, x) ELSE a
  OBVIOUS
<1>6. F \in [S \X V -> V] OBVIOUS
<1>7. ASSUME NEW a, NEW X, Fine(a, X) PROVE a \in V
  BY <1>1, <1>7 DEF Good, Tree, Counts, Same
<1> HIDE DEF F
<1>8. PICK f \in [SUBSET S -> V] : Folds(f, F, base, S)
  <2> HIDE DEF V
  <2> QED BY <1>2, <1>4, <1>6, FoldExists
<1>9. Fine(base, {})
  <2>1. Same(t, t) BY DEF Same
  <2>2. RootsKept(t, L \cup B, L \cup B) BY DEF RootsKept
  <2>3. B \ {} = B OBVIOUS
  <2> QED BY <1>3, <2>1, <2>2, <2>3
<1>10. ASSUME NEW a, NEW X \in SUBSET S, NEW x \in S, x \notin X, Fine(a, X)
       PROVE  Fine(Returned(a, x), X \cup {x})
  <2>1. PICK u, M, C, b : u = a.tree /\ M = a.list /\ C = B \ X /\ b = Returned(a, x)
    OBVIOUS
  <2>2. Good(u, M, C) /\ x \in C BY <1>10, <2>1
  <2>3. /\ Same(u, b.tree) /\ Good(b.tree, b.list, C \ {x})
        /\ RootsKept(u, M \cup C, b.list \cup (C \ {x}))
        /\ b = [tree |-> b.tree, list |-> b.list]
    <3>1. a.tree = u /\ a.list = M /\ b = Returned(a, x) BY <2>1
    <3> HIDE DEF V, Fine, Eq
    <3> QED BY <2>2, <3>1, ReturnedGood
  <2>4. C \ {x} = B \ (X \cup {x}) BY <2>1
  <2>5. Same(t, b.tree) BY <1>10, <2>1, <2>3 DEF Same
  <2>6. RootsKept(t, L \cup B, b.list \cup (B \ (X \cup {x})))
    <3>1. DOMAIN u = DOMAIN t /\ Up(u) = Up(t) BY <1>10, <2>1 DEF Same
    <3>2. RootsKept(t, L \cup B, M \cup C) BY <1>10, <2>1
    <3> QED BY <2>3, <2>4, <3>1, <3>2 DEF RootsKept
  <2> QED BY <2>1, <2>3, <2>4, <2>5, <2>6
<1> DEFINE Q == {X \in SUBSET S : Fine(f[X], X)}
<1>11. ASSUME NEW X \in SUBSET S, X # {}, X \ {Choice(X)} \in Q
       PROVE  X \in Q /\ f[X] = Returned(f[X \ {Choice(X)}], Choice(X))
  <2>1. PICK x, Y : x = Choice(X) /\ Y = X \ {x} OBVIOUS
  <2>2. x \in X /\ x \in S /\ x \notin Y /\ Y \in SUBSET S /\ Y \cup {x} = X
    <3>1. x \in X
      <4> HIDE DEF Q
      <4> QED BY <1>11, <2>1, Chosen, Zenon
    <3> HIDE DEF V, Fine, Q
    <3> QED BY <2>1, <3>1
  <2>3. Fine(f[Y], Y) /\ f[Y] \in V
    <3> HIDE DEF V, Fine
    <3>1. Y \in Q BY <1>11, <2>1
    <3> QED BY <1>8, <2>2, <3>1
  <2>4. PICK b : b = Returned(f[Y], x) OBVIOUS
  <2>5. Fine(b, X)
    <3> HIDE DEF Fine
    <3> QED BY <1>10, <2>2, <2>3, <2>4
  <2>6. b \in V
    <3> HIDE DEF Fine
    <3> QED BY <1>7, <2>5
  <2>7. f[X] = F[<<x, f[Y]>>] BY <1>8, <1>11, <2>1 DEF Folds
  <2>8. f[X] = b
    <3> HIDE DEF V, Fine
    <3> QED BY <1>5, <2>2, <2>3, <2>4, <2>6, <2>7
  <2> HIDE DEF Fine, V
  <2> QED BY <2>1, <2>4, <2>5, <2>8
<1>12. {} \in Q
  <2>1. f[{}] = base BY <1>8 DEF Folds
  <2> HIDE DEF Fine
  <2> QED BY <1>9, <2>1
<1>13. Q = SUBSET S
  <2>1. Q \in SUBSET SUBSET S OBVIOUS
  <2> HIDE DEF Q
  <2>2. \A X \in SUBSET S : X # {} /\ X \ {Choice(X)} \in Q => X \in Q BY <1>11
  <2> QED BY <1>2, <1>12, <2>1, <2>2, SetInduct
<1>14. Eq(f)
  <2>1. ASSUME NEW X \in SUBSET S
        PROVE  f[X] = IF X = {} THEN base ELSE Returned(f[X \ {Choice(X)}], Choice(X))
    <3>1. CASE X = {} BY <3>1, <1>8 DEF Folds
    <3>2. CASE X # {}
      <4>1. X \ {Choice(X)} \in Q BY <1>13
      <4> HIDE DEF Q
      <4> QED BY <1>11, <3>2, <4>1
    <3> QED BY <3>1, <3>2
  <2> HIDE DEF V
  <2> QED BY <2>1
<1>15. PICK g : g = CHOOSE h : Eq(h) OBVIOUS
<1>16. Eq(g)
  <2> HIDE DEF Eq
  <2> QED BY <1>14, <1>15
<1>17. r = g[S] BY <1>3, <1>15 DEF FoldSet, MapThenFoldSet, Choice
<1>18. g[S] = f[S]
  <2> DEFINE P == {X \in SUBSET S : g[X] = f[X]}
  <2>1. {} \in P BY <1>14, <1>16
  <2>2. ASSUME NEW X \in SUBSET S, X # {}, X \ {Choice(X)} \in P PROVE X \in P
    <3>1. g[X] = Returned(g[X \ {Choice(X)}], Choice(X)) BY <2>2, <1>16
    <3>2. f[X] = Returned(f[X \ {Choice(X)}], Choice(X)) BY <2>2, <1>14
    <3> QED BY <2>2, <3>1, <3>2
  <2>3. P \in SUBSET SUBSET S OBVIOUS
  <2>4. P = SUBSET S
    <3> HIDE DEF P
    <3>1. \A X \in SUBSET S : X # {} /\ X \ {Choice(X)} \in P => X \in P BY <2>2
    <3> QED BY <1>2, <2>1, <2>3, <3>1, SetInduct
  <2> QED BY <2>4
<1>19. Fine(f[S], S) BY <1>13
<1> QED BY <1>17, <1>18, <1>19

(* The nodes with a leaf in them are a tree too. *)
Kept(D, up, use, E, D2, up2, use2) ==
  /\ D2 = {x \in D : Alive(x, E)}
  /\ up2 = [x \in D2 |-> up[x]] /\ use2 = [x \in D2 |-> use[x]]

(* Nodes that nothing refers to any more can be left out.                   *)
LEMMA KeepCounts ==
  ASSUME Nil \notin Sized, NEW D, NEW up, NEW use, NEW L, NEW B,
         Shape(D, up), Counts(D, up, use, L, B),
         NEW D2, NEW up2, NEW use2, Kept(D, up, use, L \cup B, D2, up2, use2)
  PROVE  Shape(D2, up2) /\ Counts(D2, up2, use2, L, B)
<1> DEFINE E == L \cup B
<1>0. /\ D2 = {x \in D : Alive(x, E)}
      /\ up2 = [x \in D2 |-> up[x]] /\ use2 = [x \in D2 |-> use[x]]
  BY DEF Kept
<1>1. \A q \in D : q \in Sized /\ q # Nil BY DEF Shape
<1>2. \A l \in E : l \in D2
  <2>1. ASSUME NEW l \in E PROVE l \in D /\ Inside(l, l) BY <1>1, InsideSelf DEF Counts
  <2> QED BY <1>0, <2>1 DEF Alive
<1>3. D2 \subseteq D BY <1>0
<1>4. ASSUME NEW n \in D2, up[n] # Nil
      PROVE  /\ up[n] \in D2 /\ up[n] \notin E /\ Below(n, up[n])
             /\ n.level = up[n].level + 1
  <2>1. PICK p \in D : p = up[n] /\ Below(n, p) /\ n.level = p.level + 1
    BY <1>3, <1>4 DEF Shape
  <2>2. PICK l \in E : Inside(l, n) BY <1>0 DEF Alive
  <2>3. Inside(n, p) /\ ~ Inside(p, n) BY <1>1, <1>3, <2>1, BelowStrict
  <2>4. Inside(l, p) BY <1>1, <1>2, <1>3, <2>2, <2>3, InsideTrans
  <2>5. p \in D2 BY <1>0, <2>4 DEF Alive
  <2>6. p \notin E
    <3>1. SUFFICES ASSUME p \in E PROVE FALSE OBVIOUS
    <3>2. l \in D /\ Inside(l, l) BY <1>1, <1>2, <1>3, InsideSelf
    <3>3. l = p BY <2>4, <3>1, <3>2, LeafAlone
    <3> QED BY <2>2, <2>3, <3>3
  <2> QED BY <2>1, <2>5, <2>6
<1>5. ASSUME NEW p \in D2, p \notin E
      PROVE  \E f, s \in D2 : /\ Parts(D2, up2, p, f, s)
                              /\ use[p] = Uses(f, s, L) /\ use[p] # 0
  <2>1. Split(D, up, use, L, B, p) BY <1>0, <1>5 DEF Counts
  <2>2. PICK f \in D, s \in D : /\ Parts(D, up, p, f, s)
                                /\ Alive(f, E) /\ Alive(s, E)
                                /\ use[p] = Uses(f, s, L) /\ use[p] # 0
    BY <2>1 DEF Split
  <2>3. f \in D2 /\ s \in D2 BY <1>0, <2>2
  <2>4. Parts(D2, up2, p, f, s) BY <1>0, <1>3, <2>2, <2>3 DEF Parts
  <2> QED BY <2>2, <2>3, <2>4
<1> HIDE DEF E
<1>6. Shape(D2, up2)
  <2>1. D2 \in SUBSET Sized /\ IsFiniteSet(D2) BY <1>3, FS_Subset DEF Shape
  <2>2. up2 \in [D2 -> D2 \cup {Nil}] BY <1>0, <1>4
  <2>3. \A n \in D2 : up2[n] = Nil => n.level = 0 /\ n.off = 0 BY <1>0, <1>3 DEF Shape
  <2>4. \A n \in D2 : up2[n] # Nil => Below(n, up2[n]) /\ n.level = up2[n].level + 1
    BY <1>0, <1>4
  <2>5. \A n, m \in D2 : n # m => NodesApart(n, m) \/ Below(n, m) \/ Below(m, n)
    BY <1>3 DEF Shape
  <2>6. \A n \in D2 : up2[n] # Nil => \E f, s \in D2 : Parts(D2, up2, up2[n], f, s)
    BY <1>0, <1>4, <1>5
  <2> QED BY <2>1, <2>2, <2>3, <2>4, <2>5, <2>6 DEF Shape
<1>7. Counts(D2, up2, use2, L, B)
  <2>1. use2 \in [D2 -> Nat] BY <1>0, <1>3 DEF Counts
  <2>2. L \cup B \subseteq D2 BY <1>2 DEF E
  <2>3. \A p \in D2 \ (L \cup B) : Split(D2, up2, use2, L, B, p)
    BY <1>0, <1>5 DEF Split, E
  <2>4. \A l \in L \cup B : use2[l] = 0 BY <1>0, <2>2 DEF Counts
  <2>5. L \cap B = {} /\ \A l, m \in L \cup B : l # m => NodesApart(l, m) BY DEF Counts
  <2> QED BY <2>1, <2>2, <2>3, <2>4, <2>5 DEF Counts
<1> QED BY <1>6, <1>7

(* Every node has a leaf in it: what no chunk and no list needs is gone. *)
Full(t, L, B) == Good(t, L, B) /\ \A x \in DOMAIN t : Alive(x, L \cup B)

LeftOf(t, E, r) ==
  DOMAIN r = {x \in DOMAIN t : Alive(x, E)} /\ \A x \in DOMAIN r : r[x] = t[x]

(* After the destructors of what is not referred to, each node is referred  *)
(* to.                                                                      *)
LEMMA ReferredFull ==
  ASSUME Nil \notin Sized, NEW t, NEW L, NEW B, Good(t, L, B),
         NEW r, r = Referred(t, L \cup B)
  PROVE  Full(r, L, B) /\ LeftOf(t, L \cup B, r)
<1>1. PICK D, up, use : /\ D = DOMAIN t /\ up = Up(t) /\ use = Use(t)
                        /\ Shape(D, up) /\ Counts(D, up, use, L, B)
  BY DEF Good
<1>2. PICK E : E = L \cup B /\ E \subseteq D BY <1>1 DEF Counts
<1>3. \A q \in D : q \in Sized /\ Inside(q, q) BY <1>1, InsideSelf DEF Shape
<1>4. \A n \in E : Above(t)[n] = Around(D, n) BY <1>1, <1>2, AboveIs
<1>5. r = Restrict(t, E \cup UNION {Above(t)[n] : n \in E}) BY <1>2 DEF Referred
<1>6. UNION {Above(t)[n] : n \in E} = UNION {Around(D, n) : n \in E} BY <1>4
<1>7. PICK D2 : D2 = {x \in D : Alive(x, E)} OBVIOUS
<1>8. (E \cup UNION {Around(D, n) : n \in E}) = D2
  BY <1>2, <1>3, <1>7 DEF Around, Alive
<1>9. r = [x \in D2 |-> t[x]] BY <1>1, <1>5, <1>6, <1>7, <1>8 DEF Restrict
<1>10. PICK up2, use2 : up2 = Up(r) /\ use2 = Use(r) OBVIOUS
<1>11. up2 = [x \in D2 |-> up[x]] /\ use2 = [x \in D2 |-> use[x]]
  BY <1>1, <1>7, <1>9, <1>10 DEF Up, Use
<1>12. Shape(D2, up2) /\ Counts(D2, up2, use2, L, B)
  <2>1. Kept(D, up, use, L \cup B, D2, up2, use2) BY <1>2, <1>7, <1>11 DEF Kept
  <2> QED BY <1>1, <2>1, KeepCounts
<1>13. Tree(r)
  <2>1. ASSUME NEW x \in D2 PROVE t[x] \in [parent : D2 \cup {Nil}, uses : Nat]
    <3>1. /\ t[x] = [parent |-> t[x].parent, uses |-> t[x].uses]
          /\ t[x].uses \in Nat /\ up[x] = t[x].parent
      BY <1>1, <1>7, TreeFields DEF Good
    <3>2. up2[x] = up[x] BY <1>11
    <3>3. up2[x] \in D2 \cup {Nil} BY <1>12 DEF Shape
    <3> QED BY <3>1, <3>2, <3>3
  <2> QED BY <1>9, <2>1 DEF Tree
<1>14. Good(r, L, B) BY <1>9, <1>10, <1>12, <1>13 DEF Good
<1> QED BY <1>1, <1>2, <1>7, <1>9, <1>14 DEF Full, LeftOf

-----------------------------------------------------------------------------
(* Blocks on the free list are given back. *)
LEMMA DropGood ==
  ASSUME Nil \notin Sized, NEW t, NEW L, NEW B, Good(t, L, B),
         NEW X \in SUBSET L, \A x \in X : t[x].parent = Nil
  PROVE  /\ Good(t, L \ X, B)
         /\ \A x \in DOMAIN t : t[x].parent = Nil /\ Alive(x, L \cup B) =>
              (Alive(x, (L \ X) \cup B) <=> x \notin X)
<1>1. PICK D, up, use : /\ D = DOMAIN t /\ up = Up(t) /\ use = Use(t)
                        /\ Shape(D, up) /\ Counts(D, up, use, L, B)
  BY DEF Good
<1>2. PICK E, E2 : E = L \cup B /\ E2 = (L \ X) \cup B OBVIOUS
<1>3. E \subseteq D /\ L \cap B = {} BY <1>1, <1>2 DEF Counts
<1>4. E2 = E \ X BY <1>2, <1>3
<1>5. \A q \in D : q \in Sized /\ q # Nil /\ Inside(q, q) /\ up[q] = t[q].parent
  BY <1>1, InsideSelf DEF Shape, Up
<1>6. \A x \in X : x \in D /\ x \in E /\ up[x] = Nil BY <1>2, <1>3, <1>5
<1>7. ASSUME NEW p \in D, Alive(p, E), p \notin X PROVE Alive(p, E2)
  <2>1. PICK l \in E : Inside(l, p) BY <1>7 DEF Alive
  <2>2. l \notin X
    <3>1. SUFFICES ASSUME l \in X PROVE FALSE OBVIOUS
    <3>2. l # p /\ l \in D BY <1>6, <1>7, <3>1
    <3>3. up[l] # Nil BY <1>1, <2>1, <3>2, Closest
    <3> QED BY <1>6, <3>1, <3>3
  <2> QED BY <1>4, <2>1, <2>2 DEF Alive
<1>8. ASSUME NEW p \in X, Alive(p, E2) PROVE FALSE
  <2>1. PICK l \in E : l \notin X /\ Inside(l, p) BY <1>4, <1>8 DEF Alive
  <2>2. l \in D /\ Inside(l, l) /\ p \in E BY <1>3, <1>5, <1>6, <2>1
  <2>3. l = p BY <1>1, <1>2, <2>1, <2>2, LeafAlone
  <2> QED BY <1>8, <2>1, <2>3
<1>9. ASSUME NEW p \in D, p \notin E2, Alive(p, E2) PROVE Split(D, up, use, L \ X, B, p)
  <2>1. p \notin X BY <1>8, <1>9
  <2>2. p \notin E /\ Alive(p, E) BY <1>4, <1>9, <2>1 DEF Alive
  <2>3. Split(D, up, use, L, B, p) BY <1>1, <1>2, <2>2 DEF Counts
  <2>4. PICK f \in D, s \in D : /\ Parts(D, up, p, f, s)
                                /\ Alive(f, E) /\ Alive(s, E)
                                /\ use[p] = Uses(f, s, L) /\ use[p] # 0
    BY <1>2, <2>3 DEF Split
  <2>5. f \notin X /\ s \notin X
    <3>1. up[f] = p /\ up[s] = p /\ p # Nil BY <1>5, <2>4 DEF Parts
    <3> QED BY <1>6, <3>1
  <2>6. Alive(f, E2) /\ Alive(s, E2) BY <1>7, <2>4, <2>5
  <2>7. Uses(f, s, L \ X) = Uses(f, s, L) BY <2>5 DEF Uses
  <2> QED BY <1>2, <2>4, <2>6, <2>7 DEF Split
<1>10. Counts(D, up, use, L \ X, B)
  <2>1. /\ use \in [D -> Nat] /\ E2 \subseteq E /\ E \subseteq D
        /\ \A l, m \in E : l # m => NodesApart(l, m)
        /\ \A l \in E : use[l] = 0
    BY <1>1, <1>2 DEF Counts
  <2> QED BY <1>2, <1>3, <1>9, <2>1 DEF Counts
<1>11. Good(t, L \ X, B) BY <1>1, <1>10 DEF Good
<1> QED BY <1>1, <1>2, <1>5, <1>7, <1>8, <1>11

(* getFromFreeList takes a leaf as it is. *)
LEMMA TakeCounts ==
  ASSUME Nil \notin Sized, NEW D, NEW up, NEW use, NEW L, NEW B,
         Shape(D, up), Counts(D, up, use, L, B), NEW n \in L,
         NEW v, v = [m \in D |-> IF m = up[n] THEN use[m] + 1 ELSE use[m]]
  PROVE  Counts(D, up, v, L \ {n}, B \cup {n})
<1>0. PICK M, C, E : M = L \ {n} /\ C = B \cup {n} /\ E = L \cup B OBVIOUS
<1>1. M = L \ {n} /\ C = B \cup {n} /\ E = L \cup B /\ E = M \cup C BY <1>0
<1>2. /\ use \in [D -> Nat] /\ E \subseteq D /\ L \cap B = {}
      /\ \A l, m \in E : l # m => NodesApart(l, m)
      /\ \A l \in E : use[l] = 0
      /\ \A p \in D \ E : Alive(p, E) => Split(D, up, use, L, B, p)
  BY <1>1 DEF Counts
<1>3. n \in D /\ n \in E BY <1>1, <1>2
<1>4. \A q \in D : q \in Sized /\ q # Nil BY DEF Shape
<1>5. up[n] \notin E
  <2>1. SUFFICES ASSUME up[n] \in E PROVE FALSE OBVIOUS
  <2>2. PICK p \in D : p = up[n] /\ Below(n, p) BY <1>2, <1>3, <1>4, <2>1 DEF Shape
  <2>3. Inside(n, p) /\ Inside(n, n) /\ n # p BY <1>3, <1>4, <2>2, BelowStrict, InsideSelf
  <2> QED BY <1>1, <1>3, <2>1, <2>2, <2>3, LeafAlone
<1>6. v \in [D -> Nat]
  <2>1. \A m \in D : (IF m = up[n] THEN use[m] + 1 ELSE use[m]) \in Nat BY <1>2
  <2> QED BY <2>1
<1>7. ASSUME NEW p \in D, p \notin E, Alive(p, E) PROVE Split(D, up, v, M, C, p)
  <2>1. Split(D, up, use, L, B, p) BY <1>2, <1>7
  <2>2. PICK f \in D, s \in D : /\ Parts(D, up, p, f, s)
                                /\ Alive(f, E) /\ Alive(s, E)
                                /\ use[p] = Uses(f, s, L) /\ use[p] # 0
    BY <1>1, <2>1 DEF Split
  <2>3. v[p] = Uses(f, s, M) /\ v[p] # 0
    <3>1. CASE p = up[n]
      <4>1. n \in {f, s} /\ f # s BY <1>3, <2>2, <3>1 DEF Parts
      <4>2. v[p] = use[p] + 1 BY <3>1
      <4>3. Uses(f, s, M) = Uses(f, s, L) + 1 BY <1>1, <4>1 DEF Uses
      <4>4. use[p] \in Nat BY <1>2
      <4> QED BY <2>2, <4>2, <4>3, <4>4
    <3>2. CASE p # up[n]
      <4>1. f # n /\ s # n BY <2>2, <3>2 DEF Parts
      <4>2. v[p] = use[p] BY <3>2
      <4>3. Uses(f, s, M) = Uses(f, s, L) BY <1>1, <4>1 DEF Uses
      <4> QED BY <2>2, <4>2, <4>3
    <3> QED BY <3>1, <3>2
  <2> QED BY <1>1, <2>2, <2>3 DEF Split
<1>8. M \cap C = {} BY <1>1, <1>2
<1>9. \A l \in E : v[l] = 0 BY <1>2, <1>5
<1>10. M \cup C = E BY <1>1
<1>11. Counts(D, up, v, M, C) BY <1>2, <1>6, <1>7, <1>8, <1>9, <1>10 DEF Counts
<1> QED BY <1>1, <1>11

(* What useCount++ changes.                                                 *)
LEMMA CountedIs ==
  ASSUME Nil \notin Sized, NEW t, Tree(t), DOMAIN t \subseteq Sized,
         NEW n \in DOMAIN t \cup {Nil}, NEW u, u = Counted(t, n, 1)
  PROVE  /\ Tree(u) /\ DOMAIN u = DOMAIN t /\ Up(u) = Up(t)
         /\ Use(u) = [m \in DOMAIN t |-> IF m = n THEN Use(t)[m] + 1 ELSE Use(t)[m]]
<1>1. \A m \in DOMAIN t : m # Nil /\ t[m] \in [parent : DOMAIN t \cup {Nil}, uses : Nat]
  BY TreeFields
<1>2. CASE n = Nil
  <2>1. u = t BY <1>2 DEF Counted
  <2>2. \A m \in DOMAIN t : m # n BY <1>1, <1>2
  <2>3. Use(t) = [m \in DOMAIN t |-> Use(t)[m]] BY DEF Use
  <2> QED BY <2>1, <2>2, <2>3
<1>3. CASE n # Nil
  <2>1. n \in DOMAIN t BY <1>3
  <2>2. u = [t EXCEPT ![n].uses = t[n].uses + 1] BY <1>3 DEF Counted
  <2>3. DOMAIN u = DOMAIN t BY <2>2
  <2>4. t[n] \in [parent : DOMAIN t \cup {Nil}, uses : Nat] BY <1>1, <2>1
  <2>5. u[n] = [parent |-> t[n].parent, uses |-> t[n].uses + 1]
    <3>1. u[n] = [t[n] EXCEPT !.uses = t[n].uses + 1] BY <2>1, <2>2
    <3> QED BY <2>4, <3>1
  <2>6. \A m \in DOMAIN t : m # n => u[m] = t[m] BY <2>2
  <2>7. ASSUME NEW m \in DOMAIN t
        PROVE  /\ u[m] \in [parent : DOMAIN t \cup {Nil}, uses : Nat]
               /\ u[m].parent = t[m].parent
               /\ u[m].uses = IF m = n THEN t[m].uses + 1 ELSE t[m].uses
    <3>1. CASE m = n BY <2>4, <2>5, <3>1
    <3>2. CASE m # n BY <1>1, <2>6, <3>2
    <3> QED BY <3>1, <3>2
  <2>8. u = [m \in DOMAIN t |-> u[m]] BY <2>2
  <2>9. Tree(u) BY <2>3, <2>7, <2>8 DEF Tree
  <2>10. Up(u) = Up(t) BY <2>3, <2>7 DEF Up
  <2>11. Use(u) = [m \in DOMAIN t |-> IF m = n THEN Use(t)[m] + 1 ELSE Use(t)[m]]
    BY <2>3, <2>7 DEF Use
  <2> QED BY <2>3, <2>9, <2>10, <2>11
<1> QED BY <1>2, <1>3

Roots(t) == {x \in DOMAIN t : t[x].parent = Nil}

Taking(t, n, u) == u = Counted(t, t[n].parent, 1)

(* getFromFreeList without a split keeps the invariant of the tree.         *)
LEMMA TakeGood ==
  ASSUME Nil \notin Sized, NEW t, NEW L, NEW B, Full(t, L, B), NEW n \in L,
         NEW u, Taking(t, n, u)
  PROVE  /\ Full(u, L \ {n}, B \cup {n}) /\ DOMAIN u = DOMAIN t /\ Roots(u) = Roots(t)
<1>1. PICK D, up, use : /\ D = DOMAIN t /\ up = Up(t) /\ use = Use(t) /\ Tree(t)
                        /\ Shape(D, up) /\ Counts(D, up, use, L, B)
  BY DEF Full, Good
<1>2. n \in D BY <1>1 DEF Counts
<1>3. PICK p \in D \cup {Nil} : p = t[n].parent /\ up[n] = p BY <1>1, <1>2, TreeFields
<1>4. D \subseteq Sized BY <1>1 DEF Shape
<1>5. PICK v : v = [m \in D |-> IF m = p THEN use[m] + 1 ELSE use[m]] OBVIOUS
<1>6. Tree(u) /\ DOMAIN u = D /\ Up(u) = up /\ Use(u) = v
  <2>1. u = Counted(t, p, 1) BY <1>3 DEF Taking
  <2> QED BY <1>1, <1>3, <1>4, <1>5, <2>1, CountedIs, SMTT(30)
<1>7. Counts(D, up, v, L \ {n}, B \cup {n}) BY <1>1, <1>3, <1>5, TakeCounts
<1>8. Good(u, L \ {n}, B \cup {n}) BY <1>1, <1>6, <1>7 DEF Good
<1>9. (L \ {n}) \cup (B \cup {n}) = L \cup B OBVIOUS
<1>10. \A m \in D : u[m].parent = t[m].parent
  <2>1. \A m \in D : Up(u)[m] = u[m].parent /\ Up(t)[m] = t[m].parent
    BY <1>1, <1>6, TreeFields
  <2> QED BY <1>1, <1>6, <2>1
<1> QED BY <1>1, <1>6, <1>8, <1>9, <1>10 DEF Full, Roots

-----------------------------------------------------------------------------
(* A leaf that is not on the free list is split in two. *)
Halves(n, f, s) ==
  /\ f \in Sized /\ s \in Sized /\ Inside(f, n) /\ Inside(s, n)
  /\ f.level = n.level + 1 /\ s.level = n.level + 1
  /\ f.off = n.off /\ s.off = f.off + f.size /\ f.size + s.size = n.size

(* The two parts of a split.                                                *)
LEMMA HalvesFacts ==
  ASSUME NEW n \in Sized, NEW f, NEW s, Halves(n, f, s)
  PROVE  /\ Below(f, n) /\ Below(s, n) /\ f # s /\ f # n /\ s # n
         /\ NodesApart(f, s) /\ NodesApart(s, f)
<1>1. n \in Sized /\ f \in Sized /\ s \in Sized BY DEF Halves
<1>2. f.size < n.size /\ s.size < n.size BY <1>1, SizedIs DEF Halves
<1>3. Below(f, n) /\ Below(s, n) BY <1>1, <1>2, SizedIs DEF Halves, Below
<1>4. NodesApart(f, s) /\ NodesApart(s, f) BY <1>1, SizedIs DEF Halves, NodesApart, Apart
<1>5. f # n /\ s # n BY <1>1, <1>3, BelowStrict
<1>6. f # s BY <1>1, <1>4, InsideSelf, ApartNotBoth
<1> QED BY <1>3, <1>4, <1>5, <1>6

SplitCounts(D, up, use, L, B, n, f, s, D2, up2, use2) ==
  /\ D2 = D \cup {f, s}
  /\ up2 = [x \in D2 |-> IF x \in {f, s} THEN n ELSE up[x]]
  /\ use2 = [x \in D2 |-> IF x \in {f, s} THEN 0 ELSE IF x = n THEN use[x] + 1 ELSE use[x]]

(* A split keeps the shape of the tree.                                     *)
LEMMA SplitShape ==
  ASSUME Nil \notin Sized, NEW D, NEW up, NEW use, NEW L, NEW B,
         Shape(D, up), Counts(D, up, use, L, B), \A x \in D : Alive(x, L \cup B),
         NEW n \in B, NEW f, NEW s, Halves(n, f, s), NEW D2, NEW up2, NEW use2,
         SplitCounts(D, up, use, L, B, n, f, s, D2, up2, use2)
  PROVE  /\ Shape(D2, up2) /\ Parts(D2, up2, n, f, s) /\ f \notin D /\ s \notin D
         /\ \A x \in D : Inside(x, n) => x = n
<1>1. /\ D \in SUBSET Sized /\ IsFiniteSet(D) /\ up \in [D -> D \cup {Nil}]
      /\ \A x \in D : x \in Sized /\ x # Nil
      /\ n \in D /\ n \in Sized /\ f \in Sized /\ s \in Sized
  BY DEF Shape, Counts, Halves
<1>2. /\ Below(f, n) /\ Below(s, n) /\ f # s /\ f # n /\ s # n
      /\ NodesApart(f, s) /\ NodesApart(s, f)
  BY <1>1, HalvesFacts
<1>3. ASSUME NEW x \in D, Inside(x, n) PROVE x = n
  <2>1. PICK l \in L \cup B : Inside(l, x) BY DEF Alive
  <2>2. l \in D /\ Inside(l, l) BY <1>1, InsideSelf DEF Counts
  <2>3. Inside(l, n) BY <1>1, <1>3, <2>1, <2>2, InsideTrans
  <2>4. l = n BY <2>2, <2>3, LeafAlone
  <2>5. x = n \/ Below(x, n) BY <1>1, <1>3, Nested
  <2>6. ~ Below(x, n) BY <1>1, <2>1, <2>4, BelowStrict
  <2> QED BY <2>5, <2>6
<1>4. f \notin D /\ s \notin D BY <1>2, <1>3 DEF Below
<1>5. ASSUME NEW x \in D PROVE up[x] # n
  <2>1. SUFFICES ASSUME up[x] = n PROVE FALSE OBVIOUS
  <2>2. Below(x, n) BY <1>1, <2>1 DEF Shape
  <2>3. x = n BY <1>3, <2>2 DEF Below
  <2> QED BY <1>1, <2>2, <2>3, BelowStrict
<1>6. /\ D2 = D \cup {f, s} /\ up2 \in [D2 -> D2 \cup {Nil}]
      /\ up2[f] = n /\ up2[s] = n /\ \A x \in D : up2[x] = up[x]
  <2>1. D2 = D \cup {f, s} /\ up2 = [x \in D2 |-> IF x \in {f, s} THEN n ELSE up[x]]
    BY DEF SplitCounts
  <2>2. \A x \in D2 : (IF x \in {f, s} THEN n ELSE up[x]) \in D2 \cup {Nil} BY <1>1, <2>1
  <2> QED BY <1>4, <2>1, <2>2
<1>7. Parts(D2, up2, n, f, s)
  <2>1. \A x \in D2 : up2[x] = n => x = f \/ x = s BY <1>5, <1>6
  <2> QED BY <1>2, <1>6, <2>1 DEF Parts, Halves
<1>8. Shape(D2, up2)
  <2>1. D2 \in SUBSET Sized BY <1>1, <1>6
  <2>2. IsFiniteSet(D2)
    <3>1. IsFiniteSet(D \cup {f}) BY <1>1, FS_AddElement
    <3>2. IsFiniteSet((D \cup {f}) \cup {s}) BY <3>1, FS_AddElement
    <3>3. (D \cup {f}) \cup {s} = D2 BY <1>6
    <3> QED BY <3>2, <3>3
  <2>3. ASSUME NEW x \in D2, up2[x] = Nil PROVE x.level = 0 /\ x.off = 0
    <3>1. x \in D BY <1>1, <1>6, <2>3
    <3> QED BY <1>6, <2>3, <3>1 DEF Shape
  <2>4. ASSUME NEW x \in D2, up2[x] # Nil
        PROVE  Below(x, up2[x]) /\ x.level = up2[x].level + 1
    <3>1. CASE x \in D BY <1>6, <2>4, <3>1 DEF Shape
    <3>2. CASE x \in {f, s} BY <1>2, <1>6, <3>2 DEF Halves
    <3> QED BY <1>6, <3>1, <3>2
  <2>5. ASSUME NEW x \in D, NEW k \in {f, s}
        PROVE  /\ NodesApart(x, k) \/ Below(k, x)
               /\ NodesApart(k, x) \/ Below(k, x)
    <3>1. Below(k, n) /\ k \in Sized /\ Inside(k, n) BY <1>1, <1>2 DEF Below
    <3>2. CASE x = n BY <3>1, <3>2
    <3>3. CASE x # n
      <4>1. NodesApart(x, n) \/ Below(n, x) BY <1>1, <1>3, <3>3 DEF Shape, Below
      <4>2. CASE NodesApart(x, n)
        <5>1. NodesApart(n, x) BY <1>1, <4>2, ApartSame
        <5>2. NodesApart(k, x) BY <1>1, <3>1, <5>1, ApartWithin
        <5> QED BY <1>1, <3>1, <5>2, ApartSame
      <4>3. CASE Below(n, x)
        <5>1. Inside(k, x) BY <1>1, <3>1, <4>3, InsideTrans DEF Below
        <5>2. k.level > n.level /\ n.level > x.level /\ k.size < n.size /\ n.size < x.size
          BY <3>1, <4>3, <1>1, SizedIs DEF Below
        <5>3. Below(k, x) BY <1>1, <3>1, <5>1, <5>2, SizedIs DEF Below
        <5> QED BY <5>3
      <4> QED BY <4>1, <4>2, <4>3
    <3> QED BY <3>2, <3>3
  <2>6. ASSUME NEW x \in D2, NEW y \in D2, x # y
        PROVE  NodesApart(x, y) \/ Below(x, y) \/ Below(y, x)
    <3>1. CASE x \in D /\ y \in D BY <2>6, <3>1 DEF Shape
    <3>2. CASE x \in D /\ y \in {f, s} BY <2>5, <3>2
    <3>3. CASE x \in {f, s} /\ y \in D BY <2>5, <3>3
    <3>4. CASE x \in {f, s} /\ y \in {f, s} BY <1>2, <2>6, <3>4
    <3> QED BY <1>6, <3>1, <3>2, <3>3, <3>4
  <2>7. ASSUME NEW x \in D2, up2[x] # Nil
        PROVE  \E g, h \in D2 : Parts(D2, up2, up2[x], g, h)
    <3>1. CASE x \in {f, s} BY <1>6, <1>7, <3>1
    <3>2. CASE x \in D
      <4>1. PICK p \in D : p = up[x] /\ up2[x] = p BY <1>1, <1>6, <2>7, <3>2
      <4>2. PICK g \in D, h \in D : Parts(D, up, p, g, h)
        BY <1>6, <2>7, <3>2, <4>1 DEF Shape
      <4>3. p # n BY <1>5, <3>2, <4>1
      <4>4. Parts(D2, up2, p, g, h) BY <1>6, <4>2, <4>3 DEF Parts
      <4> QED BY <1>6, <4>1, <4>4
    <3> QED BY <1>6, <3>1, <3>2
  <2> QED BY <1>6, <2>1, <2>2, <2>3, <2>4, <2>6, <2>7 DEF Shape
<1> QED BY <1>3, <1>4, <1>7, <1>8

(* A split keeps the counts: the new part on the free list is not counted.  *)
LEMMA SplitCounted ==
  ASSUME Nil \notin Sized, NEW D, NEW up, NEW use, NEW L, NEW B,
         Shape(D, up), Counts(D, up, use, L, B), \A x \in D : Alive(x, L \cup B),
         NEW n \in B, NEW f, NEW s, Halves(n, f, s), NEW D2, NEW up2, NEW use2,
         SplitCounts(D, up, use, L, B, n, f, s, D2, up2, use2)
  PROVE  /\ Counts(D2, up2, use2, L \cup {s}, (B \ {n}) \cup {f})
         /\ \A x \in D2 : Alive(x, (L \cup {s}) \cup ((B \ {n}) \cup {f}))
<1>0. PICK E, E2 : E = L \cup B /\ E2 = (E \ {n}) \cup {f, s} OBVIOUS
<1>1. /\ \A x \in D : x \in Sized /\ x # Nil
      /\ n \in D /\ n \in Sized /\ n \in E /\ n \notin L
      /\ f \in Sized /\ s \in Sized
  BY <1>0 DEF Shape, Counts, Halves
<1>2. /\ use \in [D -> Nat] /\ E \subseteq D /\ L \cap B = {}
      /\ \A l, m \in E : l # m => NodesApart(l, m)
      /\ \A l \in E : use[l] = 0
      /\ \A p \in D \ E : Split(D, up, use, L, B, p)
  BY <1>0 DEF Counts
<1>3. /\ Below(f, n) /\ Below(s, n) /\ f # s /\ f # n /\ s # n
      /\ NodesApart(f, s) /\ NodesApart(s, f) /\ Inside(f, n) /\ Inside(s, n)
  BY <1>1, HalvesFacts DEF Below
<1>4. /\ Parts(D2, up2, n, f, s) /\ f \notin D /\ s \notin D
      /\ \A x \in D : Inside(x, n) => x = n
  BY SplitShape
<1>5. /\ D2 = D \cup {f, s} /\ use2 \in [D2 -> Nat] /\ use2[n] = 1
      /\ use2[f] = 0 /\ use2[s] = 0 /\ \A x \in D : x # n => use2[x] = use[x]
  <2>1. /\ D2 = D \cup {f, s}
        /\ use2 = [x \in D2 |-> IF x \in {f, s} THEN 0
                                ELSE IF x = n THEN use[x] + 1 ELSE use[x]]
    BY DEF SplitCounts
  <2>2. \A x \in D2 : (IF x \in {f, s} THEN 0 ELSE IF x = n THEN use[x] + 1 ELSE use[x]) \in Nat
    BY <1>2, <2>1
  <2>3. use[n] = 0 BY <1>1, <1>2
  <2> QED BY <1>1, <1>4, <2>1, <2>2, <2>3
<1>6. /\ E2 = (L \cup {s}) \cup ((B \ {n}) \cup {f})
      /\ (L \cup {s}) \cap ((B \ {n}) \cup {f}) = {}
      /\ E2 \subseteq D2
  BY <1>0, <1>1, <1>2, <1>3, <1>4, <1>5
<1>7. ASSUME NEW x \in D2 PROVE Alive(x, E2)
  <2>1. CASE x \in D
    <3>1. PICK l \in E : Inside(l, x) BY <1>0, <2>1 DEF Alive
    <3>2. CASE l = n
      <4>1. Inside(f, x) BY <1>1, <1>3, <2>1, <3>1, <3>2, InsideTrans
      <4> QED BY <1>0, <4>1 DEF Alive
    <3>3. CASE l # n BY <1>0, <3>1, <3>3 DEF Alive
    <3> QED BY <3>2, <3>3
  <2>2. CASE x \in {f, s}
    <3>1. Inside(x, x) BY <1>1, <2>2, InsideSelf
    <3> QED BY <1>0, <2>2, <3>1 DEF Alive
  <2> QED BY <1>5, <2>1, <2>2
<1>8. ASSUME NEW l \in E \ {n}, NEW k \in {f, s} PROVE NodesApart(l, k) /\ NodesApart(k, l)
  <2>1. NodesApart(n, l) /\ l \in Sized BY <1>1, <1>2
  <2>2. NodesApart(k, l) BY <1>1, <1>3, <2>1, ApartWithin
  <2> QED BY <1>1, <2>1, <2>2, ApartSame
<1>9. ASSUME NEW l \in E2, NEW m \in E2, l # m PROVE NodesApart(l, m)
  <2>1. CASE l \in E \ {n} /\ m \in E \ {n} BY <1>2, <1>9, <2>1
  <2>2. CASE l \in {f, s} /\ m \in {f, s} BY <1>3, <1>9, <2>2
  <2> QED BY <1>0, <1>8, <2>1, <2>2
<1>10. ASSUME NEW l \in E2 PROVE use2[l] = 0
  <2>1. CASE l \in E \ {n} BY <1>2, <1>5, <2>1
  <2> QED BY <1>0, <1>5, <2>1
<1>11. ASSUME NEW p \in D2, p \notin E2
       PROVE  Split(D2, up2, use2, L \cup {s}, (B \ {n}) \cup {f}, p)
  <2>1. p \in D BY <1>0, <1>5, <1>11
  <2>2. CASE p = n
    <3>1. f \notin L \cup {s} BY <1>2, <1>3, <1>4, <1>0
    <3>2. Uses(f, s, L \cup {s}) = 1 BY <3>1 DEF Uses
    <3> QED BY <1>4, <1>5, <1>6, <1>7, <2>2, <3>2 DEF Split
  <2>3. CASE p # n
    <3>1. p \notin E BY <1>0, <1>11, <2>3
    <3>2. PICK g \in D, h \in D : /\ Parts(D, up, p, g, h)
                                  /\ use[p] = Uses(g, h, L) /\ use[p] # 0
      BY <1>2, <2>1, <3>1 DEF Split
    <3>3. g # s /\ h # s BY <1>4
    <3>4. Uses(g, h, L \cup {s}) = Uses(g, h, L) BY <3>3 DEF Uses
    <3>5. Parts(D2, up2, p, g, h)
      <4>1. \A x \in D : up2[x] = up[x] BY <1>4, <1>5 DEF SplitCounts
      <4>2. up2[f] = n /\ up2[s] = n BY <1>4 DEF Parts
      <4> QED BY <1>5, <2>3, <3>2, <4>1, <4>2 DEF Parts
    <3>6. use2[p] = use[p] BY <1>5, <2>1, <2>3
    <3> QED BY <1>5, <1>6, <1>7, <3>2, <3>4, <3>5, <3>6 DEF Split
  <2> QED BY <2>2, <2>3
<1> QED BY <1>5, <1>6, <1>7, <1>9, <1>10, <1>11 DEF Counts

(* getFromFreeList with a split keeps the invariant of the tree.            *)
LEMMA PartGood ==
  ASSUME Nil \notin Sized, NEW t, NEW L, NEW B, Full(t, L, B), NEW n \in B,
         NEW f, NEW s, Halves(n, f, s), NEW u, u = WithParts(Counted(t, n, 1), {f, s}, n)
  PROVE  /\ Full(u, L \cup {s}, (B \ {n}) \cup {f}) /\ Roots(u) = Roots(t)
         /\ f \notin DOMAIN t /\ s \notin DOMAIN t
<1>1. PICK D, up, use : /\ D = DOMAIN t /\ up = Up(t) /\ use = Use(t) /\ Tree(t)
                        /\ Shape(D, up) /\ Counts(D, up, use, L, B)
                        /\ \A x \in D : Alive(x, L \cup B)
  BY DEF Full, Good
<1>2. n \in D /\ D \subseteq Sized /\ n # Nil BY <1>1 DEF Counts, Shape
<1>3. PICK c : c = Counted(t, n, 1) OBVIOUS
<1>4. /\ Tree(c) /\ DOMAIN c = D /\ Up(c) = up
      /\ Use(c) = [m \in D |-> IF m = n THEN use[m] + 1 ELSE use[m]]
  BY <1>1, <1>2, <1>3, CountedIs
<1>5. PICK D2 : D2 = D \cup {f, s} OBVIOUS
<1>6. PICK up2 : up2 = [x \in D2 |-> IF x \in {f, s} THEN n ELSE up[x]] OBVIOUS
<1>7. PICK use2 : use2 = [x \in D2 |-> IF x \in {f, s} THEN 0
                                        ELSE IF x = n THEN use[x] + 1 ELSE use[x]]
  OBVIOUS
<1>8. SplitCounts(D, up, use, L, B, n, f, s, D2, up2, use2)
  BY <1>5, <1>6, <1>7 DEF SplitCounts
<1>9. /\ Shape(D2, up2) /\ Counts(D2, up2, use2, L \cup {s}, (B \ {n}) \cup {f})
      /\ \A x \in D2 : Alive(x, (L \cup {s}) \cup ((B \ {n}) \cup {f}))
      /\ f \notin D /\ s \notin D
  BY <1>1, <1>8, SplitShape, SplitCounted
<1>10. u = [x \in D2 |-> IF x \in {f, s} THEN [parent |-> n, uses |-> 0] ELSE c[x]]
  <2>1. D \cup {f, s} = DOMAIN c \cup {f, s} BY <1>4
  <2> QED BY <1>3, <1>4, <1>5, <2>1 DEF WithParts
<1>11. ASSUME NEW x \in D
       PROVE  /\ c[x] \in [parent : D \cup {Nil}, uses : Nat]
              /\ c[x] = [parent |-> c[x].parent, uses |-> c[x].uses]
              /\ c[x].parent \in D \cup {Nil} /\ c[x].uses \in Nat
              /\ c[x].parent = up[x] /\ t[x].parent = up[x]
              /\ c[x].uses = IF x = n THEN use[x] + 1 ELSE use[x]
  <2>1. /\ c[x] \in [parent : D \cup {Nil}, uses : Nat]
        /\ c[x] = [parent |-> c[x].parent, uses |-> c[x].uses]
        /\ c[x].parent \in D \cup {Nil} /\ c[x].uses \in Nat
        /\ Up(c)[x] = c[x].parent /\ Use(c)[x] = c[x].uses
    BY <1>4, TreeFields
  <2>2. Up(t)[x] = t[x].parent BY <1>1, TreeFields
  <2> QED BY <1>1, <1>4, <2>1, <2>2
<1>12. ASSUME NEW x \in D2
       PROVE  /\ u[x] \in [parent : D2 \cup {Nil}, uses : Nat]
              /\ u[x].parent = up2[x] /\ u[x].uses = use2[x]
  <2>1. CASE x \in {f, s}
    <3>1. u[x] = [parent |-> n, uses |-> 0] BY <1>5, <1>10, <2>1
    <3>2. up2[x] = n /\ use2[x] = 0 BY <1>5, <1>6, <1>7, <2>1
    <3>3. n \in D2 BY <1>2, <1>5
    <3> QED BY <3>1, <3>2, <3>3
  <2>2. CASE x \notin {f, s}
    <3>1. x \in D /\ u[x] = c[x] BY <1>5, <1>10, <2>2
    <3>2. up2[x] = up[x] /\ use2[x] = IF x = n THEN use[x] + 1 ELSE use[x]
      BY <1>6, <1>7, <2>2
    <3>3. c[x].parent \in D2 \cup {Nil} BY <1>5, <1>11, <3>1
    <3> QED BY <1>11, <3>1, <3>2, <3>3
  <2> QED BY <2>1, <2>2
<1>13. DOMAIN u = D2 BY <1>10
<1>14. Tree(u) BY <1>10, <1>12, <1>13 DEF Tree
<1>15. Up(u) = up2 BY <1>6, <1>12, <1>13 DEF Up
<1>16. Use(u) = use2 BY <1>7, <1>12, <1>13 DEF Use
<1>17. Full(u, L \cup {s}, (B \ {n}) \cup {f})
  BY <1>9, <1>13, <1>14, <1>15, <1>16 DEF Full, Good
<1>18. Roots(u) = Roots(t)
  <2>1. ASSUME NEW x \in D2 PROVE u[x].parent = Nil <=> x \in D /\ t[x].parent = Nil
    <3>1. u[x].parent = IF x \in {f, s} THEN n ELSE up[x] BY <1>6, <1>12
    <3>2. CASE x \in {f, s} BY <1>2, <1>9, <3>1, <3>2
    <3>3. CASE x \notin {f, s} BY <1>5, <1>11, <3>1, <3>3
    <3> QED BY <3>2, <3>3
  <2> QED BY <1>1, <1>5, <1>13, <2>1 DEF Roots
<1> QED BY <1>1, <1>9, <1>17, <1>18

(* The parent allocator gives a block that is apart from the others. *)
NewBlock(t, b) ==
  b \in Sized /\ b.level = 0 /\ b.off = 0 /\ \A x \in DOMAIN t : x.root # b.root

Added(t, b, u) ==
  b \notin DOMAIN t /\ DOMAIN u = DOMAIN t \cup {b} /\ Roots(u) = Roots(t) \cup {b}

(* A block of the parent allocator becomes a tree of its own.               *)
LEMMA BlockGood ==
  ASSUME Nil \notin Sized, NEW t, NEW L, NEW B, Full(t, L, B), NEW b, NewBlock(t, b),
         NEW u, u = WithParts(t, {b}, Nil)
  PROVE  Full(u, L, B \cup {b}) /\ Added(t, b, u)
<1>1. PICK D, up, use : /\ D = DOMAIN t /\ up = Up(t) /\ use = Use(t) /\ Tree(t)
                        /\ Shape(D, up) /\ Counts(D, up, use, L, B)
                        /\ \A x \in D : Alive(x, L \cup B)
  BY DEF Full, Good
<1>0. b \in Sized /\ b.level = 0 /\ b.off = 0 /\ \A x \in D : x.root # b.root
  BY <1>1 DEF NewBlock
<1>2. D \subseteq Sized /\ b # Nil /\ b \notin D /\ \A x \in D : x # Nil
  BY <1>0, <1>1 DEF Shape
<1>3. PICK D2 : D2 = D \cup {b} OBVIOUS
<1>4. u = [x \in D2 |-> IF x \in {b} THEN [parent |-> Nil, uses |-> 0] ELSE t[x]]
  BY <1>1, <1>3 DEF WithParts
<1>5. DOMAIN u = D2 BY <1>4
<1>6. u[b] = [parent |-> Nil, uses |-> 0] /\ \A x \in D : u[x] = t[x]
  BY <1>2, <1>3, <1>4
<1>7. ASSUME NEW x \in D
      PROVE  /\ t[x] = [parent |-> t[x].parent, uses |-> t[x].uses]
             /\ t[x].parent \in D \cup {Nil} /\ t[x].uses \in Nat
             /\ t[x].parent = up[x] /\ t[x].uses = use[x]
  BY <1>1, TreeFields
<1>8. PICK up2, use2 : up2 = Up(u) /\ use2 = Use(u) OBVIOUS
<1>9. /\ up2 \in [D2 -> D2 \cup {Nil}] /\ up2[b] = Nil /\ \A x \in D : up2[x] = up[x]
      /\ use2 \in [D2 -> Nat] /\ use2[b] = 0 /\ \A x \in D : use2[x] = use[x]
  <2>1. up2 = [x \in D2 |-> u[x].parent] /\ use2 = [x \in D2 |-> u[x].uses]
    BY <1>5, <1>8 DEF Up, Use
  <2>2. \A x \in D : u[x].parent = up[x] /\ u[x].uses = use[x] BY <1>6, <1>7
  <2>3. u[b].parent = Nil /\ u[b].uses = 0 BY <1>6
  <2>4. ASSUME NEW x \in D2 PROVE u[x].parent \in D2 \cup {Nil} /\ u[x].uses \in Nat
    <3>1. CASE x = b BY <2>3, <3>1
    <3>2. CASE x # b
      <4>1. x \in D /\ u[x] = t[x] BY <1>3, <1>6, <3>2
      <4> QED BY <1>3, <1>7, <4>1
    <3> QED BY <3>1, <3>2
  <2> QED BY <1>3, <2>1, <2>2, <2>3, <2>4
<1>10. Tree(u)
  <2>1. \A x \in D2 : u[x] \in [parent : D2 \cup {Nil}, uses : Nat]
    <3>1. ASSUME NEW x \in D PROVE u[x] \in [parent : D2 \cup {Nil}, uses : Nat]
      <4>1. t[x].parent \in D2 \cup {Nil} /\ t[x].uses \in Nat BY <1>3, <1>7
      <4>2. u[x] = [parent |-> t[x].parent, uses |-> t[x].uses] BY <1>6, <1>7
      <4> QED BY <4>1, <4>2
    <3>2. [parent |-> Nil, uses |-> 0] \in [parent : D2 \cup {Nil}, uses : Nat] OBVIOUS
    <3>3. u[b] \in [parent : D2 \cup {Nil}, uses : Nat] BY <1>6, <3>2
    <3> QED BY <1>3, <3>1, <3>3
  <2> QED BY <1>4, <1>5, <2>1 DEF Tree
<1>11. \A x \in D : NodesApart(x, b) /\ NodesApart(b, x) /\ ~ Inside(b, x)
  BY <1>0, <1>1 DEF NodesApart, Apart, Inside
<1>12. ASSUME NEW p \in D, NEW f \in D, NEW s \in D, Parts(D, up, p, f, s)
       PROVE  Parts(D2, up2, p, f, s)
  BY <1>2, <1>3, <1>9, <1>12 DEF Parts
<1>13. Shape(D2, up2)
  <2>1. D2 \in SUBSET Sized /\ IsFiniteSet(D2) BY <1>0, <1>1, <1>3, FS_AddElement DEF Shape
  <2>2. ASSUME NEW x \in D2, up2[x] = Nil PROVE x.level = 0 /\ x.off = 0
    BY <1>0, <1>1, <1>3, <1>9, <2>2 DEF Shape
  <2>3. ASSUME NEW x \in D2, up2[x] # Nil
        PROVE  /\ Below(x, up2[x]) /\ x.level = up2[x].level + 1
               /\ \E f, s \in D2 : Parts(D2, up2, up2[x], f, s)
    <3>1. x \in D BY <1>3, <1>9, <2>3
    <3>2. PICK p \in D : p = up[x] /\ p = up2[x] BY <1>1, <1>9, <2>3, <3>1 DEF Shape
    <3>3. PICK f \in D, s \in D : Parts(D, up, p, f, s)
      BY <1>1, <1>9, <2>3, <3>1, <3>2 DEF Shape
    <3>4. Below(x, p) /\ x.level = p.level + 1 BY <1>1, <1>9, <2>3, <3>1, <3>2 DEF Shape
    <3>5. Parts(D2, up2, p, f, s) BY <1>12, <3>3
    <3> QED BY <1>3, <3>2, <3>3, <3>4, <3>5
  <2>4. \A x, y \in D2 : x # y => NodesApart(x, y) \/ Below(x, y) \/ Below(y, x)
    BY <1>1, <1>3, <1>11 DEF Shape
  <2> QED BY <1>9, <2>1, <2>2, <2>3, <2>4 DEF Shape
<1>14. PICK E : E = L \cup B /\ E \subseteq D BY <1>1 DEF Counts
<1>15. \A x \in D2 : Alive(x, L \cup (B \cup {b}))
  <2>1. \A x \in D : Alive(x, L \cup (B \cup {b})) BY <1>1 DEF Alive
  <2>2. Alive(b, L \cup (B \cup {b})) BY <1>0, InsideSelf DEF Alive
  <2> QED BY <1>3, <2>1, <2>2
<1>16. Counts(D2, up2, use2, L, B \cup {b})
  <2>1. L \cup (B \cup {b}) \subseteq D2 /\ L \cap (B \cup {b}) = {}
    BY <1>1, <1>2, <1>3 DEF Counts
  <2>2. \A l, m \in L \cup (B \cup {b}) : l # m => NodesApart(l, m)
    BY <1>1, <1>11, <1>14 DEF Counts
  <2>3. \A l \in L \cup (B \cup {b}) : use2[l] = 0 BY <1>1, <1>9, <1>14 DEF Counts
  <2>4. ASSUME NEW p \in D2 \ (L \cup (B \cup {b}))
        PROVE  Split(D2, up2, use2, L, B \cup {b}, p)
    <3>1. p \in D \ (L \cup B) BY <1>3, <2>4
    <3>2. Split(D, up, use, L, B, p) BY <1>1, <3>1 DEF Counts
    <3>3. PICK f \in D, s \in D : /\ Parts(D, up, p, f, s)
                                  /\ use[p] = Uses(f, s, L) /\ use[p] # 0
      BY <3>2 DEF Split
    <3>4. p \in D /\ use2[p] = use[p] BY <1>9, <3>1
    <3> QED BY <1>3, <1>12, <1>15, <3>3, <3>4 DEF Split
  <2> QED BY <1>9, <2>1, <2>2, <2>3, <2>4 DEF Counts
<1>17. Full(u, L, B \cup {b})
  BY <1>5, <1>8, <1>10, <1>13, <1>15, <1>16 DEF Full, Good
<1>18. Roots(u) = Roots(t) \cup {b}
  <2>1. u[b].parent = Nil BY <1>6
  <2> QED BY <1>1, <1>3, <1>5, <1>6, <2>1 DEF Roots
<1> QED BY <1>1, <1>2, <1>3, <1>5, <1>17, <1>18 DEF Added

-----------------------------------------------------------------------------
(* What a full tree says. *)
LEMMA EmptyFull == Full(<<>>, {}, {}) /\ Roots(<<>>) = {}
<1>1. PICK t : t = <<>> OBVIOUS
<1>2. DOMAIN t = {} /\ t = [x \in {} |-> 0] BY <1>1
<1>3. Tree(t) BY <1>2 DEF Tree
<1>4. Shape({}, Up(t)) BY <1>2, FS_EmptySet DEF Shape, Up
<1>5. Counts({}, Up(t), Use(t), {}, {}) BY <1>2 DEF Counts, Use
<1> QED BY <1>1, <1>2, <1>3, <1>4, <1>5 DEF Full, Good, Roots

(* Each node lies in a block.                                               *)
LEMMA InRoot ==
  ASSUME NEW D, NEW up, Shape(D, up), NEW x \in D
  PROVE  \E r \in D : up[r] = Nil /\ Inside(x, r)
<1> DEFINE Bad == {y \in D : \A r \in D : up[r] = Nil => ~ Inside(y, r)}
           N == {y.level : y \in Bad}
<1>1. \A y \in D : y \in Sized /\ Inside(y, y) BY InsideSelf DEF Shape
<1>2. SUFFICES ASSUME Bad # {} PROVE FALSE OBVIOUS
<1>3. N \in SUBSET Nat /\ N # {} BY <1>1, <1>2, SizedIs
<1>4. PICK k \in N : \A j \in N : k <= j
  <2> HIDE DEF N
  <2> QED BY <1>3, SmallestNat
<1>5. PICK y \in Bad : y.level = k BY <1>4
<1>6. up[y] # Nil BY <1>1, <1>5
<1>7. PICK p \in D : p = up[y] /\ Below(y, p) /\ y.level = p.level + 1 BY <1>5, <1>6 DEF Shape
<1>8. p \notin Bad
  <2>1. SUFFICES ASSUME p \in Bad PROVE FALSE OBVIOUS
  <2>2. k <= p.level BY <1>4, <2>1
  <2> QED BY <1>1, <1>5, <1>7, <2>2, SizedIs
<1>9. PICK r \in D : up[r] = Nil /\ Inside(p, r) BY <1>8
<1>10. Inside(y, r) BY <1>1, <1>5, <1>7, <1>9, InsideTrans DEF Below
<1> QED BY <1>5, <1>9, <1>10

(* The leaves in a node are as large as it is. *)
LEMMA LeavesSize ==
  ASSUME Nil \notin Sized, NEW D, NEW up, NEW use, NEW L, NEW B,
         Shape(D, up), Counts(D, up, use, L, B), NEW E, E = L \cup B,
         \A x \in D : Alive(x, E), NEW n \in D
  PROVE  Bytes({l \in E : Inside(l, n)}) = n.size
<1> DEFINE In(p) == {l \in E : Inside(l, p)}
           Bad == {p \in D : Bytes(In(p)) # p.size}
           N == {p.size : p \in Bad}
<1>1. \A x \in D : x \in Sized /\ x # Nil /\ Inside(x, x) BY InsideSelf DEF Shape
<1>2. E \subseteq D /\ E \in SUBSET Sized /\ IsFiniteSet(E)
  BY FS_Subset DEF Counts, Shape
<1>3. \A p : In(p) \in SUBSET Sized /\ IsFiniteSet(In(p)) BY <1>2, FS_Subset
<1> SUFFICES ASSUME Bad # {} PROVE FALSE OBVIOUS
<1>4. N \in SUBSET Nat /\ N # {} BY <1>1, SizedIs
<1>5. PICK k \in N : \A j \in N : k <= j
  <2> HIDE DEF N
  <2> QED BY <1>4, SmallestNat
<1>6. PICK p \in Bad : p.size = k BY <1>5
<1>7. ASSUME NEW q \in D, q.size < p.size PROVE Bytes(In(q)) = q.size
  <2>1. SUFFICES ASSUME q \in Bad PROVE FALSE OBVIOUS
  <2>2. k <= q.size BY <1>5, <2>1
  <2> QED BY <1>1, <1>6, <1>7, <2>2, SizedIs
<1>8. CASE p \in E
  <2>1. \A l \in E : Inside(l, p) => l = p BY <1>1, <1>2, <1>8, LeafAlone
  <2>2. In(p) = {p} BY <1>1, <1>8, <2>1
  <2>3. p \in Sized /\ {p} \in SUBSET Sized /\ IsFiniteSet({p}) BY <1>1, FS_Singleton
  <2>4. Bytes({p}) = p.size + Bytes({p} \ {p}) BY <2>3, BytesRemove
  <2>5. {p} \ {p} = {} OBVIOUS
  <2>6. Bytes({}) = 0 BY BytesAdds, FS_EmptySet
  <2>7. p.size \in Nat BY <2>3, SizedIs
  <2>8. Bytes(In(p)) = p.size BY <2>2, <2>4, <2>5, <2>6, <2>7
  <2> QED BY <1>6, <2>8
<1>9. CASE p \notin E
  <2>1. Split(D, up, use, L, B, p) BY <1>9 DEF Counts
  <2>2. PICK f \in D, s \in D : Parts(D, up, p, f, s) BY <2>1 DEF Split
  <2>3. Below(f, p) /\ Below(s, p) /\ NodesApart(f, s) BY <1>6, <2>2, PartsBelow
  <2>4. \A l \in E : Inside(l, p) <=> Inside(l, f) \/ Inside(l, s)
    <3>1. ASSUME NEW l \in E, Inside(l, p) PROVE Inside(l, f) \/ Inside(l, s)
      <4>1. l # p /\ l \in D BY <1>2, <1>9
      <4> QED BY <1>6, <2>2, <3>1, <4>1, InPart
    <3>2. ASSUME NEW l \in E, NEW c \in {f, s}, Inside(l, c) PROVE Inside(l, p)
      BY <1>1, <1>2, <1>6, <2>3, <3>2, InsideTrans DEF Below
    <3> QED BY <3>1, <3>2
  <2>5. In(p) = In(f) \cup In(s) BY <2>4
  <2>6. In(f) \cap In(s) = {}
    <3>1. \A l \in E : ~ (Inside(l, f) /\ Inside(l, s)) BY <1>1, <1>2, <2>3, ApartNotBoth
    <3> QED BY <3>1
  <2>7. Bytes(In(f)) = f.size /\ Bytes(In(s)) = s.size BY <1>7, <2>3 DEF Below
  <2>8. Bytes(In(p)) = f.size + s.size
    <3> HIDE DEF In
    <3>1. Bytes(In(f) \cup In(s)) = Bytes(In(f)) + Bytes(In(s)) BY <1>3, <2>6, BytesUnion
    <3> QED BY <2>5, <2>7, <3>1
  <2> QED BY <1>6, <2>2, <2>8 DEF Parts
<1> QED BY <1>8, <1>9

(* No memory is lost. *)
LEMMA FullConserves ==
  ASSUME Nil \notin Sized, NEW t, NEW L, NEW B, Full(t, L, B)
  PROVE  Bytes(L \cup B) = Bytes(Roots(t))
<1>1. PICK D, up, use, E : /\ D = DOMAIN t /\ up = Up(t) /\ use = Use(t)
                           /\ Shape(D, up) /\ Counts(D, up, use, L, B)
                           /\ E = L \cup B /\ \A x \in D : Alive(x, E)
  BY DEF Full, Good
<1>2. \A x \in D : x \in Sized /\ x # Nil /\ Inside(x, x) BY <1>1, InsideSelf DEF Shape
<1>3. E \subseteq D /\ E \in SUBSET Sized /\ IsFiniteSet(E)
  BY <1>1, FS_Subset DEF Counts, Shape
<1>4. PICK R : R = {x \in D : up[x] = Nil} OBVIOUS
<1>5. R = Roots(t) BY <1>1, <1>4 DEF Roots, Up
<1>6. R \in SUBSET D /\ R \in SUBSET Sized /\ IsFiniteSet(R)
  BY <1>1, <1>4, FS_Subset DEF Shape
<1> DEFINE In(X) == {l \in E : \E r \in X : Inside(l, r)}
           Q == {X \in SUBSET R : Bytes(In(X)) = Bytes(X)}
<1>7. \A X : In(X) \in SUBSET Sized /\ IsFiniteSet(In(X)) BY <1>3, FS_Subset
<1>8. {} \in Q
  <2>1. In({}) = {} OBVIOUS
  <2> QED BY <2>1
<1>9. ASSUME NEW X \in SUBSET R, X # {}, X \ {Choice(X)} \in Q PROVE X \in Q
  <2>1. PICK x, Y : x = Choice(X) /\ Y = X \ {x} OBVIOUS
  <2>2. x \in X /\ x \in D /\ x \in Sized /\ Y \in Q BY <1>2, <1>6, <1>9, <2>1, Chosen
  <2>3. In(X) = In(Y) \cup In({x}) BY <2>1, <2>2
  <2>4. In(Y) \cap In({x}) = {}
    <3>1. SUFFICES ASSUME NEW l \in E, NEW r \in Y, Inside(l, r), Inside(l, x) PROVE FALSE
      OBVIOUS
    <3>2. r \in D /\ up[r] = Nil /\ up[x] = Nil /\ r # x BY <1>4, <2>1, <2>2
    <3>3. ~ Inside(r, x) /\ ~ Inside(x, r) BY <1>1, <2>2, <3>2, Closest
    <3>4. NodesApart(r, x) BY <1>1, <2>2, <3>2, <3>3 DEF Shape, Below
    <3> QED BY <1>2, <1>3, <2>2, <3>1, <3>2, <3>4, ApartNotBoth
  <2>5. Bytes(In({x})) = x.size
    <3>1. In({x}) = {l \in E : Inside(l, x)} OBVIOUS
    <3>2. Bytes({l \in E : Inside(l, x)}) = x.size BY <1>1, <2>2, LeavesSize
    <3> QED BY <3>1, <3>2
  <2>6. Bytes(In(Y)) = Bytes(Y) BY <2>2
  <2>7. Bytes(X) = x.size + Bytes(Y)
    <3>1. X \in SUBSET Sized /\ IsFiniteSet(X) BY <1>6, FS_Subset
    <3> QED BY <2>1, <2>2, <3>1, BytesRemove
  <2>8. Bytes(In(X)) = Bytes(In(Y)) + Bytes(In({x}))
    <3> HIDE DEF In
    <3> QED BY <1>7, <2>3, <2>4, BytesUnion
  <2>9. Bytes(Y) \in Nat /\ x.size \in Nat
    <3>1. Y \in SUBSET Sized /\ IsFiniteSet(Y) BY <1>6, <2>1, FS_Subset
    <3> QED BY <2>2, <3>1, BytesAdds, SizedIs
  <2>10. Bytes(In(X)) = Bytes(X)
    <3> HIDE DEF In
    <3> QED BY <2>5, <2>6, <2>7, <2>8, <2>9
  <2> HIDE DEF In
  <2> QED BY <2>10
<1>10. Q = SUBSET R
  <2>1. Q \in SUBSET SUBSET R OBVIOUS
  <2> HIDE DEF Q
  <2>2. \A X \in SUBSET R : X # {} /\ X \ {Choice(X)} \in Q => X \in Q BY <1>9
  <2> QED BY <1>6, <1>8, <2>1, <2>2, SetInduct
<1>11. In(R) = E
  <2>1. ASSUME NEW l \in E PROVE \E r \in R : Inside(l, r)
    <3>1. l \in D BY <1>3
    <3> QED BY <1>1, <1>4, <3>1, InRoot
  <2> QED BY <2>1
<1>12. Bytes(In(R)) = Bytes(R) BY <1>10
<1> QED BY <1>1, <1>5, <1>11, <1>12

(* When nothing but the free list is left, every split has been undone. *)
LEMMA FullWhole ==
  ASSUME Nil \notin Sized, NEW t, NEW L, Full(t, L, {}) PROVE L = Roots(t)
<1>1. PICK D, up, use : /\ D = DOMAIN t /\ up = Up(t) /\ use = Use(t)
                        /\ Shape(D, up) /\ Counts(D, up, use, L, {})
                        /\ \A x \in D : Alive(x, L)
  <2>1. L \cup {} = L OBVIOUS
  <2> QED BY <2>1 DEF Full, Good
<1>2. \A x \in D : x \in Sized /\ x # Nil /\ Inside(x, x) BY <1>1, InsideSelf DEF Shape
<1>3. L \subseteq D BY <1>1 DEF Counts
<1> DEFINE Bad == D \ L
           N == {p.size : p \in Bad}
<1>4. Bad = {}
  <2>1. SUFFICES ASSUME Bad # {} PROVE FALSE OBVIOUS
  <2>2. N \in SUBSET Nat /\ N # {} BY <1>2, <2>1, SizedIs
  <2>3. PICK k \in N : \A j \in N : k <= j
    <3> HIDE DEF N
    <3> QED BY <2>2, SmallestNat
  <2>4. PICK p \in Bad : p.size = k BY <2>3
  <2>5. Split(D, up, use, L, {}, p)
    <3>1. Alive(p, L \cup {}) /\ p \in D \ (L \cup {}) BY <1>1, <2>4
    <3> QED BY <1>1, <3>1 DEF Counts
  <2>6. PICK f \in D, s \in D : /\ Parts(D, up, p, f, s)
                                /\ use[p] = Uses(f, s, L) /\ use[p] # 0
    BY <2>5 DEF Split
  <2>7. ASSUME NEW c \in {f, s} PROVE c \in L
    <3>1. SUFFICES ASSUME c \in Bad PROVE FALSE BY <2>6, <2>7
    <3>2. c.size < p.size BY <1>1, <2>4, <2>6, <2>7, PartsBelow DEF Below
    <3>3. k <= c.size BY <2>3, <3>1
    <3>4. c.size \in Nat /\ p.size \in Nat BY <1>2, <2>4, <3>1, SizedIs
    <3> QED BY <2>4, <3>2, <3>3, <3>4
  <2> QED BY <2>6, <2>7 DEF Uses
<1>5. \A x \in D : up[x] = Nil
  <2>1. SUFFICES ASSUME NEW x \in D, up[x] # Nil PROVE FALSE OBVIOUS
  <2>2. PICK p \in D : p = up[x] /\ Below(x, p) BY <1>1, <2>1 DEF Shape
  <2>3. x \in L \cup {} /\ p \in L \cup {} /\ Inside(x, x) /\ Inside(x, p)
    BY <1>2, <1>4, <2>1, <2>2 DEF Below
  <2>4. x = p BY <1>1, <2>1, <2>3, LeafAlone
  <2> QED BY <1>2, <2>2, <2>4, BelowStrict
<1>6. D = L BY <1>3, <1>4
<1> QED BY <1>1, <1>5, <1>6 DEF Roots, Up

-----------------------------------------------------------------------------
(* The invariant of the specification. *)
Chunk == [node : Sized, at : Nat, size : Nat \ {0}, group : Nat]

Lists ==
  /\ minAlloc \in MinAllocs
  /\ groups \in Seq(SUBSET Sized) /\ cur \in 0 .. Len(groups)
  /\ groups # <<>> => minAlloc = 0
  /\ \A i, j \in DOMAIN groups : i # j => groups[i] \cap groups[j] = {}
  /\ used \in SUBSET Chunk
  /\ \A c \in used : /\ c.group <= Len(groups)
                     /\ c.node.off <= c.at /\ c.at + c.size <= c.node.off + c.node.size
  /\ \A c, d \in used : c # d => c.node # d.node
  /\ Held \cap InGroups = {}

(* The memory that a group was given is still in its chunks or on its list. *)
Mine(i) == groups[i] \cup {c.node : c \in {d \in used : d.group = i}}
Cells(n) == {<<n.root, byte>> : byte \in n.off .. n.off + n.size - 1}

Owners ==
  /\ owned \in Seq(SUBSET (Root \X Nat)) /\ Len(owned) = Len(groups)
  /\ \A i \in DOMAIN owned : \A x \in owned[i] : \E n \in Mine(i) : x \in Cells(n)

Trees ==
  /\ total \in Nat /\ Full(tree, free, Held \cup InGroups)
  /\ Bytes(Roots(tree)) = total

EagerInv == Lists /\ Owners /\ Trees

LEMMA InGroupsIs ==
  ASSUME groups \in Seq(SUBSET Sized)
  PROVE  /\ \A n : n \in InGroups <=> \E i \in DOMAIN groups : n \in groups[i]
         /\ DOMAIN groups = 1 .. Len(groups) /\ Len(groups) \in Nat
BY DEF InGroups, Range

LEMMA NilSized == ASSUME EagerAssumption PROVE Nil \notin Sized
BY DEF EagerAssumption, Sized

LEMMA InitInv == ASSUME EagerAssumption, Init PROVE EagerInv
<1>1. Held = {} /\ InGroups = {} BY DEF Init, Held, InGroups, Range
<1>2. Lists BY <1>1 DEF Init, Lists
<1>3. Owners BY DEF Init, Owners
<1>4. Full(tree, free, Held \cup InGroups) /\ Roots(tree) = {}
  <2>1. Held \cup InGroups = {} BY <1>1
  <2>2. tree = <<>> /\ free = {} BY DEF Init
  <2> QED BY <2>1, <2>2, EmptyFull
<1>5. Bytes({}) = 0 BY BytesAdds, FS_EmptySet
<1>6. Trees BY <1>4, <1>5 DEF Trees, Init
<1> QED BY <1>2, <1>3, <1>6 DEF EagerInv

(* A chunk is handed out in a node that no chunk has, of the group's list  *)
(* or of none.                                                             *)
HandedFrom(n) ==
  \/ UNCHANGED groups /\ n \notin InGroups
  \/ cur # 0 /\ n \in groups[cur] /\ groups' = [groups EXCEPT ![cur] = @ \ {n}]

(* Handing out a node keeps what is known of the lists.                     *)
LEMMA HandLists ==
  ASSUME Lists, Owners, NEW n \in Sized, NEW at \in Nat, NEW size \in Nat \ {0},
         Hand(n, at, size), n.off <= at, at + size <= n.off + n.size,
         n \notin Held, HandedFrom(n), UNCHANGED <<minAlloc, cur>>
  PROVE  Lists' /\ Owners' /\ (Held \cup InGroups)' = Held \cup InGroups \cup {n}
<1>1. PICK chunk : chunk = [node |-> n, at |-> at, size |-> size, group |-> cur] OBVIOUS
<1>2. /\ used' = used \cup {chunk}
      /\ owned' = IF cur = 0 THEN owned ELSE [owned EXCEPT ![cur] = @ \cup Memory(chunk)]
  BY <1>1 DEF Hand
<1>3. /\ groups \in Seq(SUBSET Sized) /\ cur \in 0 .. Len(groups) /\ Len(groups) \in Nat
      /\ DOMAIN groups = 1 .. Len(groups)
      /\ \A m : m \in InGroups <=> \E i \in DOMAIN groups : m \in groups[i]
  BY InGroupsIs DEF Lists
<1>4. /\ groups' \in Seq(SUBSET Sized) /\ DOMAIN groups' = DOMAIN groups
      /\ Len(groups') = Len(groups)
      /\ \A i \in DOMAIN groups : groups'[i] \subseteq groups[i]
      /\ \A i \in DOMAIN groups : i # cur => groups'[i] = groups[i]
      /\ \A i \in DOMAIN groups : n \notin groups'[i]
      /\ \A m : m \in InGroups' <=> m \in InGroups /\ m # n
  <2>1. CASE UNCHANGED groups /\ n \notin InGroups
    <3>1. InGroups' = InGroups BY <2>1 DEF InGroups
    <3> QED BY <1>3, <2>1, <3>1
  <2>2. CASE cur # 0 /\ n \in groups[cur] /\ groups' = [groups EXCEPT ![cur] = @ \ {n}]
    <3>1. cur \in DOMAIN groups BY <1>3, <2>2
    <3>2. groups[cur] \ {n} \in SUBSET Sized BY <1>3, <3>1
    <3>3. /\ groups' \in Seq(SUBSET Sized) /\ DOMAIN groups' = DOMAIN groups
          /\ Len(groups') = Len(groups)
      BY <1>3, <2>2, <3>1, <3>2
    <3>4. groups'[cur] = groups[cur] \ {n} /\ \A i \in DOMAIN groups : i # cur => groups'[i] = groups[i]
      BY <1>3, <2>2, <3>1
    <3>5. \A i \in DOMAIN groups : i # cur => n \notin groups[i]
      BY <2>2, <3>1 DEF Lists
    <3>6. \A m : m \in InGroups' <=> \E i \in DOMAIN groups' : m \in groups'[i]
      BY <3>3 DEF InGroups, Range
    <3>7. ASSUME NEW m PROVE m \in InGroups' <=> m \in InGroups /\ m # n
      BY <1>3, <3>1, <3>3, <3>4, <3>5, <3>6
    <3> QED BY <3>3, <3>4, <3>5, <3>7
  <2> QED BY <2>1, <2>2 DEF HandedFrom
<1>5. Held' = Held \cup {n}
  <2>1. chunk.node = n BY <1>1
  <2> QED BY <1>2, <2>1 DEF Held
<1>6. (Held \cup InGroups)' = Held \cup InGroups \cup {n} BY <1>4, <1>5
<1>7. chunk \in Chunk BY <1>1, <1>3 DEF Chunk
<1>8. Lists'
  <2>1. minAlloc' \in MinAllocs /\ (groups' # <<>> => minAlloc' = 0)
    <3>1. groups' # <<>> => groups # <<>> BY <1>3, <1>4
    <3> QED BY <3>1 DEF Lists
  <2>2. \A i, j \in DOMAIN groups' : i # j => groups'[i] \cap groups'[j] = {}
    <3>1. \A i, j \in DOMAIN groups : i # j => groups[i] \cap groups[j] = {} BY DEF Lists
    <3> QED BY <1>4, <3>1
  <2>3. used' \in SUBSET Chunk BY <1>2, <1>7 DEF Lists
  <2>4. ASSUME NEW c \in used'
        PROVE  /\ c.group <= Len(groups')
               /\ c.node.off <= c.at /\ c.at + c.size <= c.node.off + c.node.size
    <3>1. CASE c \in used BY <1>4, <3>1 DEF Lists
    <3>2. CASE c = chunk BY <1>1, <1>3, <1>4, <3>2
    <3> QED BY <1>2, <3>1, <3>2
  <2>5. ASSUME NEW c \in used', NEW d \in used', c # d PROVE c.node # d.node
    <3>1. chunk.node = n /\ \A e \in used : e.node # n BY <1>1 DEF Held
    <3>2. \A e, g \in used : e # g => e.node # g.node BY DEF Lists
    <3> QED BY <1>2, <2>5, <3>1, <3>2
  <2>6. Held' \cap InGroups' = {} BY <1>4, <1>5 DEF Lists
  <2>7. groups' \in Seq(SUBSET Sized) /\ cur' \in 0 .. Len(groups') BY <1>3, <1>4
  <2> QED BY <2>1, <2>2, <2>3, <2>4, <2>5, <2>6, <2>7 DEF Lists
<1>9. Owners'
  <2>1. /\ owned \in Seq(SUBSET (Root \X Nat)) /\ Len(owned) = Len(groups)
        /\ DOMAIN owned = DOMAIN groups
        /\ \A i \in DOMAIN owned : \A x \in owned[i] : \E m \in Mine(i) : x \in Cells(m)
    BY <1>3 DEF Owners
  <2>2. ASSUME NEW i \in DOMAIN groups PROVE Mine(i) \subseteq Mine(i)'
    <3>1. Mine(i) = groups[i] \cup {c.node : c \in {d \in used : d.group = i}} BY DEF Mine
    <3>2. Mine(i)' = groups'[i] \cup {c.node : c \in {d \in used' : d.group = i}}
      BY DEF Mine
    <3>3. \A m \in groups[i] : m \in Mine(i)'
      <4>1. CASE i # cur BY <1>4, <3>2, <4>1
      <4>2. CASE i = cur
        <5>1. chunk \in {d \in used' : d.group = i} /\ chunk.node = n BY <1>1, <1>2, <4>2
        <5>2. n \in Mine(i)' BY <3>2, <5>1
        <5>3. \A m \in groups[i] : m # n => m \in groups'[i]
          BY <4>2, <2>2 DEF HandedFrom
        <5> QED BY <3>2, <5>2, <5>3
      <4> QED BY <4>1, <4>2
    <3> QED BY <1>2, <3>1, <3>2, <3>3
  <2>3. CASE cur = 0
    <3>1. owned' = owned BY <1>2, <2>3
    <3>2. \A i \in DOMAIN owned : \A x \in owned[i] : \E m \in Mine(i)' : x \in Cells(m)
      BY <2>1, <2>2
    <3> QED BY <1>4, <2>1, <3>1, <3>2 DEF Owners, Cells
  <2>4. CASE cur # 0
    <3>1. cur \in DOMAIN owned BY <1>3, <2>1, <2>4
    <3>2. Memory(chunk) \in SUBSET (Root \X Nat) /\ Memory(chunk) \subseteq Cells(n)
      <4>1. Memory(chunk) = {<<n.root, byte>> : byte \in at .. at + size - 1}
        BY <1>1 DEF Memory
      <4>2. n.root \in Root /\ n.off \in Nat /\ n.size \in Nat BY SizedIs
      <4>3. \A byte \in at .. at + size - 1 :
              byte \in Nat /\ byte \in n.off .. n.off + n.size - 1
        BY <4>2
      <4> QED BY <4>1, <4>2, <4>3 DEF Cells
    <3>3. owned' = [owned EXCEPT ![cur] = owned[cur] \cup Memory(chunk)] BY <1>2, <2>4
    <3>4. owned[cur] \cup Memory(chunk) \in SUBSET (Root \X Nat) BY <2>1, <3>1, <3>2
    <3>5. owned' \in Seq(SUBSET (Root \X Nat)) /\ Len(owned') = Len(owned)
          /\ DOMAIN owned' = DOMAIN owned
      <4> HIDE DEF Memory
      <4> QED BY <2>1, <3>1, <3>3, <3>4
    <3>6. ASSUME NEW i \in DOMAIN owned, NEW x \in owned'[i]
          PROVE  \E m \in Mine(i)' : x \in Cells(m)
      <4>1. CASE x \in owned[i]
        <5>1. PICK m \in Mine(i) : x \in Cells(m) BY <2>1, <4>1
        <5> QED BY <2>1, <2>2, <5>1
      <4>2. CASE x \notin owned[i]
        <5>1. i = cur /\ x \in Memory(chunk) BY <2>1, <3>1, <3>3, <3>6, <4>2
        <5>2. chunk \in {d \in used' : d.group = i} /\ chunk.node = n
          BY <1>1, <1>2, <5>1
        <5>3. n \in Mine(i)' BY <5>2 DEF Mine
        <5> QED BY <3>2, <5>1, <5>3
      <4> QED BY <4>1, <4>2
    <3> QED BY <1>4, <2>1, <3>5, <3>6 DEF Owners, Cells
  <2> QED BY <2>3, <2>4
<1> QED BY <1>6, <1>8, <1>9

(* A chunk fits in the node that lower_bound finds, and in the part that   *)
(* is split off for it.                                                    *)
LEMMA Fits ==
  ASSUME EagerAssumption, NEW list \in SUBSET Sized, NEW size \in Sizes,
         NEW align \in Aligns, NEW n \in Best(list, Need(size, align)),
         NEW at, at = At(n, align), NEW taken, taken = Taken(n, at, size)
  PROVE  /\ n \in list /\ at \in Nat /\ n.off <= at /\ at + size <= n.off + n.size
         /\ taken \in Nat /\ at + size <= n.off + taken
<1>1. /\ Unit \in Nat \ {0} /\ align \in Nat \ {0} /\ size \in Nat \ {0}
      /\ n \in list /\ n.size >= Need(size, align)
  BY DEF EagerAssumption, Best
<1>2. n.off \in Nat /\ n.size \in Nat BY <1>1, SizedIs
<1>3. at \in Nat /\ n.off <= at /\ at + size <= n.off + n.size
  <2>1. CASE Unit % align = 0
    <3>1. at = n.off /\ Need(size, align) = size BY <2>1 DEF At, Need
    <3> QED BY <1>1, <1>2, <3>1
  <2>2. CASE Unit % align # 0
    <3>1. at = RoundUp(n.off, align) /\ Need(size, align) = size + align - 1
      BY <2>2 DEF At, Need
    <3>2. at \in Nat /\ n.off <= at /\ at < n.off + align BY <1>1, <1>2, <3>1, RoundUpIs
    <3> QED BY <1>1, <1>2, <3>1, <3>2
  <2> QED BY <2>1, <2>2
<1>4. PICK k : k = size + at - n.off OBVIOUS
<1>5. k \in Nat /\ at + size = n.off + k BY <1>1, <1>2, <1>3, <1>4
<1>6. taken = RoundUp(k, Unit) BY <1>4 DEF Taken
<1>7. taken \in Nat /\ k <= taken BY <1>1, <1>5, <1>6, RoundUpIs
<1> QED BY <1>1, <1>2, <1>3, <1>5, <1>7

LEMMA TreesIs ==
  ASSUME Trees
  PROVE  /\ free \cap (Held \cup InGroups) = {}
         /\ free \cup Held \cup InGroups \subseteq DOMAIN tree
         /\ DOMAIN tree \in SUBSET Sized /\ IsFiniteSet(DOMAIN tree) /\ Tree(tree)
BY DEF Trees, Full, Good, Counts, Shape

(* Trees with the same nodes and parents have the same blocks.              *)
LEMMA RootsUp ==
  ASSUME NEW t, Tree(t), NEW u, Tree(u), Same(t, u) PROVE Roots(u) = Roots(t)
<1>1. \A x \in DOMAIN t : Up(t)[x] = t[x].parent /\ Up(u)[x] = u[x].parent
  BY TreeFields DEF Same
<1> QED BY <1>1 DEF Roots, Same

LEMMA ReuseInGroupInv ==
  ASSUME EagerAssumption, EagerInv, NEW size \in Sizes, NEW align \in Aligns, cur # 0,
         ReuseInGroup(size, align)
  PROVE  EagerInv'
<1>1. /\ groups \in Seq(SUBSET Sized) /\ DOMAIN groups = 1 .. Len(groups)
      /\ cur \in DOMAIN groups /\ groups[cur] \in SUBSET Sized
      /\ \A n \in groups[cur] : n \in InGroups
  <2>1. groups \in Seq(SUBSET Sized) /\ cur \in 0 .. Len(groups) BY DEF EagerInv, Lists
  <2>2. DOMAIN groups = 1 .. Len(groups) /\ Len(groups) \in Nat BY <2>1, InGroupsIs
  <2>3. cur \in DOMAIN groups BY <2>1, <2>2
  <2> QED BY <2>1, <2>2, <2>3, InGroupsIs
<1>2. PICK n \in Best(groups[cur], Need(size, align)) :
         /\ Hand(n, At(n, align), size)
         /\ groups' = [groups EXCEPT ![cur] = @ \ {n}]
         /\ UNCHANGED <<minAlloc, tree, free, cur, total>>
  BY DEF ReuseInGroup
<1>3. PICK at, taken : at = At(n, align) /\ taken = Taken(n, at, size) OBVIOUS
<1>4. n \in groups[cur] /\ at \in Nat /\ n.off <= at /\ at + size <= n.off + n.size
  BY <1>1, <1>3, Fits
<1>5. n \in Sized /\ n \in InGroups /\ n \notin Held BY <1>1, <1>4 DEF EagerInv, Lists
<1>6. HandedFrom(n) BY <1>2, <1>4 DEF HandedFrom
<1>7. Hand(n, at, size) /\ UNCHANGED <<minAlloc, cur>> BY <1>2, <1>3
<1>8. size \in Nat \ {0} BY DEF EagerAssumption
<1>9. Lists /\ Owners /\ Trees BY DEF EagerInv
<1>10. Lists' /\ Owners' /\ (Held \cup InGroups)' = Held \cup InGroups \cup {n}
  BY <1>4, <1>5, <1>6, <1>7, <1>8, <1>9, HandLists
<1>11. Trees'
  <2>1. (Held \cup InGroups)' = Held \cup InGroups BY <1>5, <1>10
  <2>2. tree' = tree /\ free' = free /\ total' = total BY <1>2
  <2> QED BY <1>9, <2>1, <2>2 DEF Trees
<1> QED BY <1>10, <1>11 DEF EagerInv

LEMMA ReuseInv ==
  ASSUME EagerAssumption, EagerInv, NEW size \in Sizes, NEW align \in Aligns,
         Reuse(size, align)
  PROVE  EagerInv'
<1>1. Lists /\ Owners /\ Trees /\ Nil \notin Sized BY NilSized DEF EagerInv
<1>2. PICK B : B = Held \cup InGroups OBVIOUS
<1>3. /\ free \subseteq DOMAIN tree /\ B \subseteq DOMAIN tree /\ free \cap B = {}
      /\ DOMAIN tree \in SUBSET Sized /\ Full(tree, free, B) /\ Bytes(Roots(tree)) = total
  BY <1>1, <1>2, TreesIs DEF Trees
<1>4. PICK n, at, taken, counted, first, second :
         /\ n \in Best(free, Need(size, align))
         /\ at = At(n, align) /\ taken = Taken(n, at, size)
         /\ counted = Counted(tree, tree[n].parent, 1)
         /\ first = Part(n, n.off, taken)
         /\ second = Part(n, n.off + taken, n.size - taken)
         /\ IF taken >= n.size
            THEN /\ Hand(n, at, size)
                 /\ tree' = counted
                 /\ free' = free \ {n}
            ELSE /\ Hand(first, at, size)
                 /\ tree' = WithParts(Counted(counted, n, 1), {first, second}, n)
                 /\ free' = (free \ {n}) \cup {second}
         /\ UNCHANGED <<minAlloc, groups, cur, total>>
  BY DEF Reuse
<1>5. /\ n \in free /\ at \in Nat /\ n.off <= at /\ at + size <= n.off + n.size
      /\ taken \in Nat /\ at + size <= n.off + taken
  <2>1. free \in SUBSET Sized BY <1>3
  <2> QED BY <1>4, <2>1, Fits
<1>6. n \in Sized /\ n \in DOMAIN tree /\ n \notin B BY <1>3, <1>5
<1>7. size \in Nat \ {0} BY DEF EagerAssumption
<1>8. /\ Full(counted, free \ {n}, B \cup {n}) /\ DOMAIN counted = DOMAIN tree
      /\ Roots(counted) = Roots(tree)
  <2>1. PICK t, L : t = tree /\ L = free OBVIOUS
  <2>2. Full(t, L, B) /\ n \in L /\ Taking(t, n, counted)
    BY <1>3, <1>4, <1>5, <2>1 DEF Taking
  <2>3. Nil \notin Sized BY <1>1
  <2> QED BY <2>1, <2>2, <2>3, TakeGood
<1>9. UNCHANGED <<minAlloc, groups, cur, total>> BY <1>4
<1>10. CASE taken >= n.size
  <2>1. Hand(n, at, size) /\ tree' = counted /\ free' = free \ {n} BY <1>4, <1>10
  <2>2. n \notin Held /\ HandedFrom(n) BY <1>2, <1>6, <1>9 DEF HandedFrom
  <2>3. UNCHANGED <<minAlloc, cur>> BY <1>9
  <2>4. Lists' /\ Owners' /\ (Held \cup InGroups)' = Held \cup InGroups \cup {n}
    BY <1>1, <1>5, <1>6, <1>7, <2>1, <2>2, <2>3, HandLists
  <2>5. Trees' BY <1>2, <1>3, <1>8, <1>9, <2>1, <2>4, <1>1 DEF Trees
  <2> QED BY <2>4, <2>5 DEF EagerInv
<1>11. CASE taken < n.size
  <2>1. /\ Hand(first, at, size) /\ free' = (free \ {n}) \cup {second}
        /\ tree' = WithParts(Counted(counted, n, 1), {first, second}, n)
    BY <1>4, <1>5, <1>6, <1>11, SizedIs
  <2>2. /\ n.root \in Root /\ n.level \in Nat /\ n.off \in Nat /\ n.size \in Nat
        /\ n.size > 0 /\ taken > 0
    BY <1>5, <1>6, <1>7, SizedIs
  <2>3. /\ first = [root |-> n.root, level |-> n.level + 1, off |-> n.off, size |-> taken]
        /\ second = [root |-> n.root, level |-> n.level + 1, off |-> n.off + taken,
                     size |-> n.size - taken]
    BY <1>4 DEF Part, Node
  <2>4. first \in Sized /\ second \in Sized BY <1>5, <1>11, <2>2, <2>3 DEF Sized
  <2>5. Halves(n, first, second) BY <1>5, <1>11, <2>2, <2>3, <2>4 DEF Halves, Inside
  <2>6. PICK M, C : M = free \ {n} /\ C = B \cup {n} OBVIOUS
  <2>7. Full(counted, M, C) /\ n \in C BY <1>8, <2>6
  <2>8. /\ Full(tree', M \cup {second}, (C \ {n}) \cup {first})
        /\ Roots(tree') = Roots(counted) /\ first \notin DOMAIN counted
    BY <1>1, <2>1, <2>5, <2>7, PartGood
  <2>9. first \notin DOMAIN tree /\ first \notin B /\ C \ {n} = B
    BY <1>3, <1>6, <1>8, <2>6, <2>8
  <2>10. first \notin Held /\ HandedFrom(first) BY <1>2, <1>9, <2>9 DEF HandedFrom
  <2>11. first.off <= at /\ at + size <= first.off + first.size
    BY <1>5, <2>2, <2>3
  <2>12. UNCHANGED <<minAlloc, cur>> BY <1>9
  <2>13. Lists' /\ Owners' /\ (Held \cup InGroups)' = Held \cup InGroups \cup {first}
    BY <1>1, <1>5, <1>7, <2>1, <2>4, <2>10, <2>11, <2>12, HandLists
  <2>14. Full(tree', free', (Held \cup InGroups)')
    BY <1>2, <2>1, <2>6, <2>8, <2>9, <2>13
  <2>15. Trees' BY <1>1, <1>3, <1>8, <1>9, <2>8, <2>14 DEF Trees
  <2> QED BY <2>13, <2>15 DEF EagerInv
<1>12. taken >= n.size \/ taken < n.size BY <1>5, <1>6, SizedIs
<1> QED BY <1>10, <1>11, <1>12

LEMMA FreshInv ==
  ASSUME EagerAssumption, EagerInv, NEW size \in Sizes, Fresh(size)
  PROVE  EagerInv'
<1>1. Lists /\ Owners /\ Trees /\ Nil \notin Sized BY NilSized DEF EagerInv
<1>2. PICK B, t : /\ B = Held \cup InGroups /\ t = tree /\ B \subseteq DOMAIN t
                  /\ Full(t, free, B) /\ Bytes(Roots(t)) = total /\ total \in Nat
                  /\ DOMAIN t \in SUBSET Sized /\ IsFiniteSet(DOMAIN t)
  BY <1>1, TreesIs DEF Trees
<1>3. PICK root, alloc, block, whole, first, second :
         /\ root \in Root \ {n.root : n \in DOMAIN t}
         /\ alloc = IF size < minAlloc THEN minAlloc ELSE size
         /\ block = Node(root, 0, 0, alloc)
         /\ whole = WithParts(t, {block}, Nil)
         /\ first = Part(block, 0, RoundUp(size, Unit))
         /\ second = Part(block, RoundUp(size, Unit), alloc - RoundUp(size, Unit))
         /\ IF alloc = size
            THEN Hand(block, 0, size) /\ tree' = whole /\ UNCHANGED <<free, groups>>
            ELSE /\ Hand(first, 0, size)
                 /\ tree' = WithParts(Counted(whole, block, 1), {first, second}, block)
                 /\ IF cur = 0 THEN free' = free \cup {second} /\ UNCHANGED groups
                    ELSE /\ groups' = [groups EXCEPT ![cur] = @ \cup {second}]
                         /\ UNCHANGED free
         /\ total' = total + alloc
         /\ UNCHANGED <<minAlloc, cur>>
  BY <1>2 DEF Fresh
<1>4. /\ size \in Nat \ {0} /\ minAlloc \in Nat /\ Unit \in Nat \ {0}
      /\ size < minAlloc => RoundUp(size, Unit) < minAlloc
  BY <1>1 DEF EagerAssumption, Lists
<1>5. alloc \in Nat \ {0} BY <1>3, <1>4
<1>6. block = [root |-> root, level |-> 0, off |-> 0, size |-> alloc] BY <1>3 DEF Node
<1>7. block \in Sized BY <1>3, <1>5, <1>6 DEF Sized
<1>8. \A x \in DOMAIN t : x.root # block.root BY <1>3, <1>6
<1>9. /\ Full(whole, free, B \cup {block}) /\ block \notin DOMAIN t
      /\ DOMAIN whole = DOMAIN t \cup {block} /\ Roots(whole) = Roots(t) \cup {block}
  <2>1. PICK L : L = free OBVIOUS
  <2>2. Full(t, L, B) /\ NewBlock(t, block) BY <1>2, <1>6, <1>7, <1>8, <2>1 DEF NewBlock
  <2>3. whole = WithParts(t, {block}, Nil) BY <1>3
  <2>4. Nil \notin Sized BY <1>1
  <2>5. Full(whole, L, B \cup {block}) /\ Added(t, block, whole)
    BY <2>2, <2>3, <2>4, BlockGood
  <2> QED BY <2>1, <2>5 DEF Added
<1>10. Bytes(Roots(whole)) = total'
  <2>1. Roots(t) \in SUBSET DOMAIN t BY DEF Roots
  <2>2. Roots(t) \in SUBSET Sized /\ IsFiniteSet(Roots(t)) BY <1>2, <2>1, FS_Subset
  <2>3. /\ Roots(whole) \in SUBSET Sized /\ block \in Roots(whole)
        /\ Roots(whole) \ {block} = Roots(t)
    BY <1>7, <1>9, <2>1, <2>2
  <2>4. IsFiniteSet(Roots(whole)) BY <1>9, <2>2, FS_AddElement
  <2>5. Bytes(Roots(whole)) = block.size + Bytes(Roots(t)) BY <2>3, <2>4, BytesRemove
  <2>6. block.size = alloc /\ total' = total + alloc BY <1>3, <1>6
  <2> QED BY <1>2, <1>5, <2>5, <2>6
<1>11. total' \in Nat BY <1>2, <1>3, <1>5
<1>12. UNCHANGED <<minAlloc, cur>> BY <1>3
<1>13. CASE alloc = size
  <2>1. Hand(block, 0, size) /\ tree' = whole /\ UNCHANGED <<free, groups>>
    BY <1>3, <1>13
  <2>2. block \notin B BY <1>2, <1>9
  <2>3. block \notin Held /\ HandedFrom(block) BY <1>2, <2>1, <2>2 DEF HandedFrom
  <2>4. block.off <= 0 /\ 0 + size <= block.off + block.size /\ 0 \in Nat
    BY <1>4, <1>6, <1>13
  <2>5. Lists' /\ Owners' /\ (Held \cup InGroups)' = Held \cup InGroups \cup {block}
    BY <1>1, <1>4, <1>7, <1>12, <2>1, <2>3, <2>4, HandLists
  <2>6. Full(tree', free', (Held \cup InGroups)') BY <1>2, <1>9, <2>1, <2>5
  <2>7. Trees' BY <1>10, <1>11, <2>1, <2>6 DEF Trees
  <2> QED BY <2>5, <2>7 DEF EagerInv
<1>14. CASE alloc # size
  <2>1. PICK k : k = RoundUp(size, Unit) OBVIOUS
  <2>2. alloc = minAlloc /\ size < minAlloc /\ k \in Nat /\ size <= k /\ k < alloc
    BY <1>3, <1>4, <1>14, <2>1, RoundUpIs
  <2>3. cur = 0
    <3>1. groups = <<>> BY <1>1, <1>4, <2>2 DEF Lists
    <3>2. cur \in 0 .. Len(groups) BY <1>1 DEF Lists
    <3> QED BY <3>1, <3>2
  <2>4. /\ Hand(first, 0, size) /\ free' = free \cup {second} /\ UNCHANGED groups
        /\ tree' = WithParts(Counted(whole, block, 1), {first, second}, block)
    BY <1>3, <1>14, <2>3
  <2>5. /\ first = [root |-> root, level |-> 1, off |-> 0, size |-> k]
        /\ second = [root |-> root, level |-> 1, off |-> k, size |-> alloc - k]
    BY <1>3, <1>6, <2>1 DEF Part, Node
  <2>6. first \in Sized /\ second \in Sized BY <1>3, <1>4, <1>5, <2>2, <2>5 DEF Sized
  <2>7. Halves(block, first, second)
    BY <1>4, <1>5, <1>6, <2>2, <2>5, <2>6 DEF Halves, Inside
  <2>8. PICK L, C : L = free /\ C = B \cup {block} OBVIOUS
  <2>9. Full(whole, L, C) /\ block \in C BY <1>9, <2>8
  <2>10. /\ Full(tree', L \cup {second}, (C \ {block}) \cup {first})
         /\ Roots(tree') = Roots(whole) /\ first \notin DOMAIN whole
    BY <1>1, <2>4, <2>7, <2>9, PartGood
  <2>11. first \notin B /\ C \ {block} = B BY <1>2, <1>9, <2>8, <2>10
  <2>12. first \notin Held /\ HandedFrom(first) BY <1>2, <2>4, <2>11 DEF HandedFrom
  <2>13. first.off <= 0 /\ 0 + size <= first.off + first.size /\ 0 \in Nat
    BY <1>4, <2>2, <2>5
  <2>14. Lists' /\ Owners' /\ (Held \cup InGroups)' = Held \cup InGroups \cup {first}
    BY <1>1, <1>4, <1>12, <2>4, <2>6, <2>12, <2>13, HandLists
  <2>15. Full(tree', free', (Held \cup InGroups)')
    BY <1>2, <2>4, <2>8, <2>10, <2>11, <2>14
  <2>16. Trees' BY <1>10, <1>11, <2>10, <2>15 DEF Trees
  <2> QED BY <2>14, <2>16 DEF EagerInv
<1> QED BY <1>13, <1>14

-----------------------------------------------------------------------------
(* What is freed outside a group goes up the tree, and what is then needed *)
(* by no chunk and no list is gone.                                        *)
LEMMA Reclaimed ==
  ASSUME Nil \notin Sized, NEW t, NEW L0, NEW B0, Full(t, L0, B0),
         NEW u, NEW L, NEW B, Same(t, u), Good(u, L, B), RootsKept(t, L0 \cup B0, L \cup B),
         NEW E, E = L \cup B, NEW r, r = Referred(u, E)
  PROVE  Full(r, L, B) /\ Roots(r) = Roots(t)
<1>1. /\ Full(r, L, B) /\ DOMAIN r = {x \in DOMAIN u : Alive(x, E)}
      /\ \A x \in DOMAIN r : r[x] = u[x]
  <2>1. r = Referred(u, L \cup B) OBVIOUS
  <2>2. Full(r, L, B) /\ LeftOf(u, L \cup B, r) BY <2>1, ReferredFull
  <2> QED BY <2>2 DEF LeftOf
<1>2. DOMAIN u = DOMAIN t /\ Tree(t) /\ Tree(u) BY DEF Same, Full, Good
<1>3. \A x \in DOMAIN t : /\ Up(t)[x] = t[x].parent /\ Up(u)[x] = u[x].parent
                          /\ Up(u)[x] = Up(t)[x]
  BY <1>2, TreeFields DEF Same
<1>4. \A x \in DOMAIN t : t[x].parent = Nil => Alive(x, E)
  BY <1>3 DEF RootsKept, Full
<1>5. ASSUME NEW x PROVE x \in Roots(r) <=> x \in Roots(t)
  <2>1. x \in Roots(r) <=> x \in DOMAIN u /\ Alive(x, E) /\ u[x].parent = Nil
    BY <1>1 DEF Roots
  <2>2. x \in Roots(t) <=> x \in DOMAIN u /\ t[x].parent = Nil BY <1>2 DEF Roots
  <2> QED BY <1>2, <1>3, <1>4, <2>1, <2>2
<1> QED BY <1>1, <1>5

(* Without groups no list of a group has a node, nor is a chunk in one.     *)
LEMMA NoGroups ==
  ASSUME Lists, Owners, groups = <<>>
  PROVE  InGroups = {} /\ cur = 0 /\ owned = <<>> /\ \A c \in used : c.group = 0
<1>1. Len(groups) = 0 /\ DOMAIN groups = {} OBVIOUS
<1>2. InGroups = {} BY <1>1 DEF InGroups, Range
<1>3. cur = 0 BY <1>1 DEF Lists
<1>4. owned = <<>> BY <1>1 DEF Owners
<1>5. \A c \in used : c.group = 0
  <2>1. \A c \in used : c.group \in Nat /\ c.group <= Len(groups) BY DEF Lists, Chunk
  <2> QED BY <1>1, <2>1
<1> QED BY <1>2, <1>3, <1>4, <1>5

LEMMA FreeInv ==
  ASSUME EagerAssumption, EagerInv, NEW chunk \in used, Free(chunk)
  PROVE  EagerInv'
<1>1. Lists /\ Owners /\ Trees /\ Nil \notin Sized BY NilSized DEF EagerInv
<1>2. /\ groups = <<>> \/ (cur # 0 /\ chunk.group \in {0, cur})
      /\ used' = used \ {chunk}
      /\ UNCHANGED <<minAlloc, cur, total, owned>>
  BY DEF Free
<1>3. PICK n : n = chunk.node OBVIOUS
<1>4. n \in Held /\ n \in Sized /\ n \notin InGroups
  <2>1. chunk \in Chunk BY <1>1 DEF Lists
  <2>2. n \in Held BY <1>3 DEF Held
  <2> QED BY <1>1, <1>3, <2>1, <2>2 DEF Chunk, Lists
<1>5. Held' = Held \ {n}
  <2>1. \A c \in used : c.node = n <=> c = chunk BY <1>1, <1>3 DEF Lists
  <2> QED BY <1>2, <1>3, <2>1 DEF Held
<1>6. /\ used' \in SUBSET Chunk
      /\ \A c \in used' : /\ c.group <= Len(groups)
                          /\ c.node.off <= c.at /\ c.at + c.size <= c.node.off + c.node.size
      /\ \A c, d \in used' : c # d => c.node # d.node
  BY <1>1, <1>2 DEF Lists
<1>7. CASE cur # 0
  <2>1. groups' = [groups EXCEPT ![cur] = @ \cup {n}] /\ UNCHANGED <<tree, free>>
    BY <1>3, <1>7 DEF Free
  <2>2. /\ groups \in Seq(SUBSET Sized) /\ DOMAIN groups = 1 .. Len(groups)
        /\ cur \in DOMAIN groups /\ Len(groups) \in Nat
        /\ \A m : m \in InGroups <=> \E i \in DOMAIN groups : m \in groups[i]
    <3>1. groups \in Seq(SUBSET Sized) /\ cur \in 0 .. Len(groups) BY <1>1 DEF Lists
    <3>2. /\ DOMAIN groups = 1 .. Len(groups) /\ Len(groups) \in Nat
          /\ \A m : m \in InGroups <=> \E i \in DOMAIN groups : m \in groups[i]
      BY <3>1, InGroupsIs
    <3> QED BY <1>7, <3>1, <3>2
  <2>3. groups[cur] \cup {n} \in SUBSET Sized BY <1>4, <2>2
  <2>4. /\ groups' \in Seq(SUBSET Sized) /\ DOMAIN groups' = DOMAIN groups
        /\ Len(groups') = Len(groups) /\ groups'[cur] = groups[cur] \cup {n}
        /\ \A i \in DOMAIN groups : i # cur => groups'[i] = groups[i]
    BY <2>1, <2>2, <2>3
  <2>5. \A m : m \in InGroups' <=> \E i \in DOMAIN groups' : m \in groups'[i]
    BY <2>4 DEF InGroups, Range
  <2>6. \A m : m \in InGroups' <=> m \in InGroups \/ m = n
    BY <2>2, <2>4, <2>5
  <2>7. \A i, j \in DOMAIN groups' : i # j => groups'[i] \cap groups'[j] = {}
    <3>1. \A i, j \in DOMAIN groups : i # j => groups[i] \cap groups[j] = {}
      BY <1>1 DEF Lists
    <3>2. \A i \in DOMAIN groups : n \notin groups[i] BY <1>4, <2>2
    <3> QED BY <2>2, <2>4, <3>1, <3>2
  <2>8. (Held \cup InGroups)' = Held \cup InGroups BY <1>4, <1>5, <2>6
  <2>9. Lists'
    <3>1. Held' \cap InGroups' = {} BY <1>1, <1>5, <2>6 DEF Lists
    <3>2. minAlloc' \in MinAllocs /\ (groups' # <<>> => minAlloc' = 0)
      <4>1. groups # <<>> BY <2>2
      <4> QED BY <1>1, <1>2, <4>1 DEF Lists
    <3>3. cur' \in 0 .. Len(groups') BY <1>1, <1>2, <2>4 DEF Lists
    <3> QED BY <1>6, <2>4, <2>7, <3>1, <3>2, <3>3 DEF Lists
  <2>10. ASSUME NEW i \in DOMAIN groups PROVE Mine(i) \subseteq Mine(i)'
    <3>1. Mine(i) = groups[i] \cup {c.node : c \in {d \in used : d.group = i}} BY DEF Mine
    <3>2. Mine(i)' = groups'[i] \cup {c.node : c \in {d \in used' : d.group = i}}
      BY DEF Mine
    <3>3. groups[i] \subseteq groups'[i] BY <2>2, <2>4
    <3>4. ASSUME NEW c \in used, c.group = i PROVE c.node \in Mine(i)'
      <4>1. CASE c = chunk
        <5>1. i = cur /\ c.node = n
          <6>1. i # 0 /\ groups # <<>> BY <2>2
          <6> QED BY <1>2, <1>3, <3>4, <4>1, <6>1
        <5> QED BY <2>4, <3>2, <5>1
      <4>2. CASE c # chunk
        <5>1. c \in used' BY <1>2, <4>2
        <5> QED BY <3>2, <3>4, <5>1
      <4> QED BY <4>1, <4>2
    <3> QED BY <3>1, <3>2, <3>3, <3>4
  <2>11. Owners'
    <3>1. owned' = owned /\ DOMAIN owned = DOMAIN groups
      BY <1>1, <1>2, <2>2 DEF Owners
    <3>2. \A i \in DOMAIN owned : \A x \in owned[i] : \E m \in Mine(i) : x \in Cells(m)
      BY <1>1 DEF Owners
    <3>3. \A i \in DOMAIN owned : \A x \in owned[i] : \E m \in Mine(i)' : x \in Cells(m)
      BY <2>10, <3>1, <3>2
    <3> QED BY <1>1, <2>4, <3>1, <3>3 DEF Owners, Cells
  <2>12. Trees' BY <1>1, <1>2, <2>1, <2>8 DEF Trees
  <2> QED BY <2>9, <2>11, <2>12 DEF EagerInv
<1>8. CASE cur = 0
  <2>1. groups = <<>> /\ groups' = groups BY <1>2, <1>8 DEF Free
  <2>2. InGroups = {} /\ InGroups' = {} /\ owned = <<>>
    <3>1. InGroups = {} /\ owned = <<>> BY <1>1, <2>1, NoGroups
    <3> QED BY <2>1, <3>1 DEF InGroups
  <2>3. PICK s : s = Returned([tree |-> tree, list |-> free], n) OBVIOUS
  <2>4. free' = s.list /\ tree' = Referred(s.tree, s.list \cup Held')
    BY <1>2, <1>3, <1>8, <2>3 DEF Free, Held
  <2>5. PICK t, L, B, a : /\ t = tree /\ L = free /\ B = Held /\ a = [tree |-> t, list |-> L]
    OBVIOUS
  <2>6. Full(t, L, B) /\ n \in B /\ a.tree = t /\ a.list = L /\ s = Returned(a, n)
    BY <1>1, <1>4, <2>2, <2>3, <2>5 DEF Trees
  <2>7. /\ Same(t, s.tree) /\ Good(s.tree, s.list, B \ {n})
        /\ RootsKept(t, L \cup B, s.list \cup (B \ {n}))
    <3>1. Good(t, L, B) BY <2>6 DEF Full
    <3> QED BY <1>1, <2>6, <3>1, ReturnedGood
  <2>8. PICK u, M, C, E, r : /\ u = s.tree /\ M = s.list /\ C = B \ {n} /\ E = M \cup C
                             /\ r = Referred(u, E)
    OBVIOUS
  <2>9. Full(r, M, C) /\ Roots(r) = Roots(t)
    BY <1>1, <2>6, <2>7, <2>8, Reclaimed
  <2>10. tree' = r /\ free' = M /\ Held' = C BY <1>5, <2>4, <2>5, <2>8
  <2>11. Trees'
    <3>1. (Held \cup InGroups)' = C BY <2>2, <2>10
    <3> QED BY <1>1, <1>2, <2>5, <2>9, <2>10, <3>1 DEF Trees
  <2>12. Lists' BY <1>1, <1>2, <1>6, <2>1, <2>2 DEF Lists
  <2>13. Owners'
    <3>1. owned' = <<>> /\ owned' = owned /\ groups' = groups BY <1>2, <2>1, <2>2
    <3>2. DOMAIN owned' = {} BY <3>1
    <3> QED BY <1>1, <3>1, <3>2 DEF Owners
  <2> QED BY <2>11, <2>12, <2>13 DEF EagerInv
<1> QED BY <1>7, <1>8

LEMMA BeginGroupInv == ASSUME EagerInv, BeginGroup PROVE EagerInv'
<1>1. Lists /\ Owners /\ Trees BY DEF EagerInv
<1>2. /\ minAlloc = 0 /\ groups' = Append(groups, {}) /\ cur' = Len(groups')
      /\ owned' = Append(owned, {}) /\ UNCHANGED <<minAlloc, tree, used, free, total>>
  BY DEF BeginGroup
<1>3. PICK k \in Nat : k = Len(groups) /\ groups \in Seq(SUBSET Sized) /\ DOMAIN groups = 1 .. k
  BY <1>1, InGroupsIs DEF Lists
<1>4. {} \in SUBSET Sized OBVIOUS
<1>5. /\ groups' \in Seq(SUBSET Sized) /\ Len(groups') = k + 1 /\ DOMAIN groups' = 1 .. k + 1
      /\ groups'[k + 1] = {} /\ \A i \in 1 .. k : groups'[i] = groups[i]
  BY <1>2, <1>3, <1>4
<1>6. InGroups' = InGroups
  <2>1. \A n : n \in InGroups' <=> \E i \in 1 .. k + 1 : n \in groups'[i]
    BY <1>5 DEF InGroups, Range
  <2>2. \A n : n \in InGroups <=> \E i \in 1 .. k : n \in groups[i]
    BY <1>3 DEF InGroups, Range
  <2>3. \A i \in 1 .. k + 1 : i = k + 1 \/ i \in 1 .. k BY <1>3
  <2>4. \A i \in 1 .. k : i \in 1 .. k + 1 BY <1>3
  <2> QED BY <1>5, <2>1, <2>2, <2>3, <2>4
<1>7. Held' = Held BY <1>2 DEF Held
<1>8. Lists'
  <2>1. \A i, j \in DOMAIN groups' : i # j => groups'[i] \cap groups'[j] = {}
    <3>1. \A i, j \in 1 .. k : i # j => groups[i] \cap groups[j] = {}
      BY <1>1, <1>3 DEF Lists
    <3>2. \A i \in DOMAIN groups' : i = k + 1 \/ i \in 1 .. k BY <1>5
    <3> QED BY <1>5, <3>1, <3>2
  <2>2. \A c \in used' : c.group <= Len(groups')
    <3>1. \A c \in used : c.group \in Nat /\ c.group <= k BY <1>1, <1>3 DEF Lists, Chunk
    <3> QED BY <1>2, <1>5, <3>1
  <2>3. cur' \in 0 .. Len(groups') BY <1>2, <1>5
  <2> QED BY <1>1, <1>2, <1>5, <1>6, <1>7, <2>1, <2>2, <2>3 DEF Lists
<1>9. Owners'
  <2>1. /\ owned \in Seq(SUBSET (Root \X Nat)) /\ Len(owned) = k /\ DOMAIN owned = 1 .. k
        /\ \A i \in 1 .. k : \A x \in owned[i] : \E n \in Mine(i) : x \in Cells(n)
    BY <1>1, <1>3 DEF Owners
  <2>2. {} \in SUBSET (Root \X Nat) OBVIOUS
  <2>3. /\ owned' \in Seq(SUBSET (Root \X Nat)) /\ Len(owned') = k + 1
        /\ DOMAIN owned' = 1 .. k + 1
        /\ owned'[k + 1] = {} /\ \A i \in 1 .. k : owned'[i] = owned[i]
    BY <1>2, <2>1, <2>2
  <2>4. \A i \in 1 .. k : Mine(i)' = Mine(i) BY <1>2, <1>5 DEF Mine
  <2>5. ASSUME NEW i \in DOMAIN owned', NEW x \in owned'[i]
        PROVE  \E n \in Mine(i)' : x \in Cells(n)
    <3>1. i \in 1 .. k BY <2>3, <2>5
    <3> QED BY <2>1, <2>3, <2>4, <2>5, <3>1
  <2> QED BY <1>5, <2>3, <2>5 DEF Owners, Cells
<1>10. Trees' BY <1>1, <1>2, <1>6, <1>7 DEF Trees
<1> QED BY <1>8, <1>9, <1>10 DEF EagerInv

LEMMA EndGroupInv == ASSUME EagerInv, EndGroup PROVE EagerInv'
<1>1. Lists /\ Owners /\ Trees BY DEF EagerInv
<1>2. cur' = 0 /\ UNCHANGED <<minAlloc, tree, used, free, groups, total, owned>>
  BY DEF EndGroup
<1>3. InGroups' = InGroups /\ Held' = Held BY <1>2 DEF InGroups, Held
<1>4. Lists'
  <2>1. Len(groups) \in Nat /\ groups \in Seq(SUBSET Sized) BY <1>1 DEF Lists
  <2> QED BY <1>1, <1>2, <1>3, <2>1 DEF Lists
<1>5. \A i : Mine(i)' = Mine(i) BY <1>2 DEF Mine
<1>6. Owners' BY <1>1, <1>2, <1>5 DEF Owners, Cells
<1>7. Trees' BY <1>1, <1>2, <1>3 DEF Trees
<1> QED BY <1>4, <1>6, <1>7 DEF EagerInv

LEMMA BarrierEndInv == ASSUME EagerAssumption, EagerInv, BarrierEnd PROVE EagerInv'
<1>1. Lists /\ Owners /\ Trees /\ Nil \notin Sized BY NilSized DEF EagerInv
<1>2. PICK s : s = FoldSet(LAMBDA n, acc : Returned(acc, n),
                           [tree |-> tree, list |-> free], UNION Range(groups))
  OBVIOUS
<1>3. /\ cur = 0 /\ free' = s.list
      /\ tree' = Referred(s.tree, s.list \cup {c.node : c \in used})
      /\ used' = {[c EXCEPT !.group = 0] : c \in used}
      /\ groups' = <<>> /\ owned' = <<>> /\ UNCHANGED <<minAlloc, cur, total>>
  BY <1>2 DEF BarrierEnd
<1>4. ASSUME NEW c \in used
      PROVE  /\ [c EXCEPT !.group = 0] \in Chunk /\ [c EXCEPT !.group = 0].node = c.node
             /\ [c EXCEPT !.group = 0].at = c.at /\ [c EXCEPT !.group = 0].size = c.size
             /\ [c EXCEPT !.group = 0].group = 0
  <2>1. c \in Chunk BY <1>1 DEF Lists
  <2> QED BY <2>1 DEF Chunk
<1>5. Held' = Held
  <2>1. \A n : n \in Held' <=> \E c \in used : n = c.node BY <1>3, <1>4 DEF Held
  <2> QED BY <2>1 DEF Held
<1>6. InGroups' = {} /\ DOMAIN groups' = {} /\ Len(groups') = 0
  BY <1>3 DEF InGroups, Range
<1>7. PICK t, L, B, S : t = tree /\ L = free /\ B = Held \cup InGroups /\ S = InGroups
  OBVIOUS
<1>8. Full(t, L, B) /\ Good(t, L, B) /\ S \in SUBSET B /\ B \ S = Held
  BY <1>1, <1>7 DEF Trees, Full, Lists
<1>9. s = FoldSet(LAMBDA n, acc : Returned(acc, n), [tree |-> t, list |-> L], S)
  BY <1>2, <1>7 DEF InGroups
<1>10. /\ Same(t, s.tree) /\ Good(s.tree, s.list, B \ S)
       /\ RootsKept(t, L \cup B, s.list \cup (B \ S))
  BY <1>1, <1>8, <1>9, FoldGood
<1>11. PICK u, M, C, E, r : /\ u = s.tree /\ M = s.list /\ C = B \ S /\ E = M \cup C
                            /\ r = Referred(u, E)
  OBVIOUS
<1>12. Full(r, M, C) /\ Roots(r) = Roots(t) BY <1>1, <1>8, <1>10, <1>11, Reclaimed
<1>13. tree' = r /\ free' = M /\ (Held \cup InGroups)' = C
  <2>1. s.list \cup {c.node : c \in used} = E BY <1>8, <1>11 DEF Held
  <2> QED BY <1>3, <1>5, <1>6, <1>8, <1>11, <2>1
<1>14. Trees' BY <1>1, <1>3, <1>7, <1>12, <1>13 DEF Trees
<1>15. Lists'
  <2>1. minAlloc' \in MinAllocs /\ groups' = <<>> /\ cur' = 0 BY <1>1, <1>3 DEF Lists
  <2>2. groups' \in Seq(SUBSET Sized) /\ cur' \in 0 .. Len(groups') BY <1>6, <2>1
  <2>3. used' \in SUBSET Chunk BY <1>3, <1>4
  <2>4. ASSUME NEW c \in used'
        PROVE  /\ c.group <= Len(groups')
               /\ c.node.off <= c.at /\ c.at + c.size <= c.node.off + c.node.size
    <3>1. PICK e \in used : c = [e EXCEPT !.group = 0] BY <1>3
    <3>2. c.group = 0 /\ c.node = e.node /\ c.at = e.at /\ c.size = e.size BY <1>4, <3>1
    <3>3. e.node.off <= e.at /\ e.at + e.size <= e.node.off + e.node.size
      BY <1>1 DEF Lists
    <3> QED BY <1>6, <3>2, <3>3
  <2>5. ASSUME NEW c \in used', NEW d \in used', c # d PROVE c.node # d.node
    <3>1. PICK e \in used, g \in used : /\ c = [e EXCEPT !.group = 0]
                                        /\ d = [g EXCEPT !.group = 0]
      BY <1>3
    <3>2. e # g BY <2>5, <3>1
    <3>3. e.node # g.node BY <1>1, <3>2 DEF Lists
    <3> QED BY <1>4, <3>1, <3>3
  <2>6. Held' \cap InGroups' = {} BY <1>6
  <2> QED BY <1>6, <2>1, <2>2, <2>3, <2>4, <2>5, <2>6 DEF Lists
<1>16. Owners'
  <2>1. DOMAIN owned' = {} /\ Len(owned') = 0 /\ owned' \in Seq(SUBSET (Root \X Nat))
    BY <1>3
  <2> QED BY <1>6, <2>1 DEF Owners
<1> QED BY <1>14, <1>15, <1>16 DEF EagerInv

LEMMA CollectInv == ASSUME EagerAssumption, EagerInv, Collect PROVE EagerInv'
<1>1. Lists /\ Owners /\ Trees /\ Nil \notin Sized BY NilSized DEF EagerInv
<1>2. PICK X : X = {n \in free : tree[n].parent = Nil} OBVIOUS
<1>3. /\ groups = <<>> /\ free' = free \ X
      /\ tree' = Referred(tree, free' \cup {c.node : c \in used})
      /\ total' = total - Bytes(X)
      /\ UNCHANGED <<minAlloc, used, groups, cur, owned>>
  BY <1>2 DEF Collect, Bytes
<1>4. InGroups = {} /\ InGroups' = {} /\ Held' = Held
  BY <1>1, <1>3, NoGroups DEF InGroups, Held
<1>5. PICK t, L, B : t = tree /\ L = free /\ B = Held OBVIOUS
<1>6. Full(t, L, B) /\ Good(t, L, B) /\ Bytes(Roots(t)) = total /\ total \in Nat
  BY <1>1, <1>4, <1>5 DEF Trees, Full
<1>7. X \in SUBSET L /\ \A x \in X : t[x].parent = Nil BY <1>2, <1>5
<1>8. /\ Good(t, L \ X, B)
      /\ \A x \in DOMAIN t : t[x].parent = Nil /\ Alive(x, L \cup B) =>
           (Alive(x, (L \ X) \cup B) <=> x \notin X)
  BY <1>1, <1>6, <1>7, DropGood
<1>9. PICK M, E, r : M = L \ X /\ E = M \cup B /\ r = Referred(t, E) OBVIOUS
<1>10. Full(r, M, B) /\ LeftOf(t, M \cup B, r)
  <2>1. Good(t, M, B) /\ r = Referred(t, M \cup B) BY <1>8, <1>9
  <2> QED BY <1>1, <2>1, ReferredFull
<1>11. Roots(r) = Roots(t) \ X
  <2>1. \A x : x \in Roots(r) <=> x \in DOMAIN t /\ Alive(x, M \cup B) /\ t[x].parent = Nil
    BY <1>10 DEF LeftOf, Roots
  <2>2. \A x \in DOMAIN t : Alive(x, L \cup B) BY <1>6 DEF Full
  <2>3. \A x : x \in Roots(t) <=> x \in DOMAIN t /\ t[x].parent = Nil BY DEF Roots
  <2>4. ASSUME NEW x PROVE x \in Roots(r) <=> x \in Roots(t) /\ x \notin X
    BY <1>8, <1>9, <2>1, <2>2, <2>3
  <2> QED BY <2>4
<1>12. tree' = r /\ free' = M /\ (Held \cup InGroups)' = B
  <2>1. free' \cup {c.node : c \in used} = E BY <1>3, <1>5, <1>9 DEF Held
  <2> QED BY <1>3, <1>4, <1>5, <1>9, <2>1
<1>13. Bytes(Roots(r)) = total' /\ total' \in Nat
  <2>1. Roots(t) \in SUBSET Sized /\ IsFiniteSet(Roots(t)) /\ X \in SUBSET Roots(t)
    <3>1. DOMAIN t \in SUBSET Sized /\ IsFiniteSet(DOMAIN t) /\ L \subseteq DOMAIN t
      BY <1>6 DEF Good, Shape, Counts
    <3> QED BY <1>7, <3>1, FS_Subset DEF Roots
  <2>2. PICK Y : Y = Roots(t) \ X OBVIOUS
  <2>3. /\ X \in SUBSET Sized /\ IsFiniteSet(X) /\ Y \in SUBSET Sized /\ IsFiniteSet(Y)
        /\ X \cap Y = {} /\ X \cup Y = Roots(t)
    BY <2>1, <2>2, FS_Subset
  <2>4. Bytes(X \cup Y) = Bytes(X) + Bytes(Y) BY <2>3, BytesUnion
  <2>5. Bytes(X) \in Nat /\ Bytes(Y) \in Nat BY <2>3, BytesAdds
  <2>6. Bytes(Y) = total - Bytes(X)
    <3>1. Bytes(X \cup Y) = total BY <1>6, <2>3
    <3> QED BY <1>6, <2>4, <2>5, <3>1
  <2> QED BY <1>3, <1>11, <2>2, <2>5, <2>6
<1>14. Trees' BY <1>10, <1>12, <1>13 DEF Trees
<1>15. Lists' BY <1>1, <1>3, <1>4 DEF Lists
<1>16. Owners'
  <2>1. \A i : Mine(i)' = Mine(i) BY <1>3 DEF Mine
  <2> QED BY <1>1, <1>3, <2>1 DEF Owners, Cells
<1> QED BY <1>14, <1>15, <1>16 DEF EagerInv

LEMMA ReleaseAllInv == ASSUME EagerInv, ReleaseAll PROVE EagerInv'
<1>1. Lists /\ Owners /\ Trees BY DEF EagerInv
<1>2. /\ groups = <<>> /\ used' = {} /\ free' = {} /\ tree' = <<>> /\ total' = 0
      /\ UNCHANGED <<minAlloc, groups, cur, owned>>
  BY DEF ReleaseAll
<1>3. InGroups = {} /\ InGroups' = {} /\ Held' = {} /\ owned = <<>>
  BY <1>1, <1>2, NoGroups DEF InGroups, Held
<1>4. Lists' BY <1>1, <1>2, <1>3 DEF Lists
<1>5. Owners'
  <2>1. DOMAIN owned' = {} /\ owned' = owned BY <1>2, <1>3
  <2> QED BY <1>1, <1>2, <2>1 DEF Owners
<1>6. Trees'
  <2>1. Bytes({}) = 0 BY BytesAdds, FS_EmptySet
  <2>2. (Held \cup InGroups)' = {} BY <1>3
  <2> QED BY <1>2, <2>1, <2>2, EmptyFull DEF Trees
<1> QED BY <1>4, <1>5, <1>6 DEF EagerInv

LEMMA StutterInv == ASSUME EagerInv, UNCHANGED vars PROVE EagerInv'
<1>1. Lists /\ Owners /\ Trees BY DEF EagerInv
<1>2. UNCHANGED <<minAlloc, tree, used, free, groups, cur, total, owned>> BY DEF vars
<1>3. InGroups' = InGroups /\ Held' = Held /\ \A i : Mine(i)' = Mine(i)
  BY <1>2 DEF InGroups, Held, Mine
<1>4. Lists' BY <1>1, <1>2, <1>3 DEF Lists
<1>5. Owners' BY <1>1, <1>2, <1>3 DEF Owners, Cells
<1>6. Trees' BY <1>1, <1>2, <1>3 DEF Trees
<1> QED BY <1>4, <1>5, <1>6 DEF EagerInv

(* Every step keeps the invariant.                                          *)
LEMMA NextInv == ASSUME EagerAssumption, EagerInv, [Next]_vars PROVE EagerInv'
<1>1. ASSUME NEW size \in Sizes, NEW separate \in BOOLEAN, NEW align \in Aligns,
             Alloc(size, separate, align)
      PROVE  EagerInv'
  <2>1. \/ cur # 0 /\ ReuseInGroup(size, align)
        \/ Reuse(size, align)
        \/ Fresh(size)
    BY <1>1 DEF Alloc
  <2> QED BY <2>1, ReuseInGroupInv, ReuseInv, FreshInv
<1>2. ASSUME NEW chunk \in used, Free(chunk) PROVE EagerInv' BY <1>2, FreeInv
<1>3. CASE BeginGroup BY <1>3, BeginGroupInv
<1>4. CASE EndGroup BY <1>4, EndGroupInv
<1>5. CASE BarrierEnd BY <1>5, BarrierEndInv
<1>6. CASE Collect BY <1>6, CollectInv
<1>7. CASE ReleaseAll BY <1>7, ReleaseAllInv
<1>8. CASE UNCHANGED vars BY <1>8, StutterInv
<1> QED BY <1>1, <1>2, <1>3, <1>4, <1>5, <1>6, <1>7, <1>8 DEF Next

-----------------------------------------------------------------------------
(* What the invariant says. *)
LEMMA InvTypeOK == ASSUME EagerInv PROVE TypeOK
<1>1. Lists /\ Owners /\ Trees BY DEF EagerInv
<1>2. /\ free \cup Held \cup InGroups \subseteq DOMAIN tree
      /\ DOMAIN tree \in SUBSET Sized /\ Tree(tree)
  BY <1>1, TreesIs
<1>3. ASSUME NEW n \in DOMAIN tree
      PROVE  n.root \in Root /\ n.size > 0 /\ tree[n].parent \in DOMAIN tree \cup {Nil}
  BY <1>2, SizedIs, TreeFields
<1>4. Leaves \subseteq DOMAIN tree BY <1>2 DEF Leaves
<1> QED BY <1>1, <1>3, <1>4 DEF TypeOK, Lists, Owners, Trees

LEMMA InvNoOverlap == ASSUME EagerInv PROVE NoOverlap
<1>1. Lists /\ Owners /\ Trees BY DEF EagerInv
<1>2. free \cap (Held \cup InGroups) = {} BY <1>1, TreesIs
<1>3. \A n, m \in Leaves : n # m => NodesApart(n, m)
  <2>1. Counts(DOMAIN tree, Up(tree), Use(tree), free, Held \cup InGroups)
    BY <1>1 DEF Trees, Full, Good
  <2>2. Leaves = free \cup (Held \cup InGroups) BY DEF Leaves
  <2> QED BY <2>1, <2>2 DEF Counts
<1> QED BY <1>1, <1>2, <1>3 DEF NoOverlap, Lists

LEMMA InvConserved == ASSUME EagerAssumption, EagerInv PROVE Conserved
<1>1. Trees /\ Nil \notin Sized BY NilSized DEF EagerInv
<1>2. PICK t, L, B : t = tree /\ L = free /\ B = Held \cup InGroups OBVIOUS
<1>3. Full(t, L, B) /\ Bytes(Roots(t)) = total BY <1>1, <1>2 DEF Trees
<1>4. Bytes(L \cup B) = Bytes(Roots(t)) BY <1>1, <1>3, FullConserves
<1>5. Leaves = L \cup B BY <1>2 DEF Leaves
<1>6. Blocks = Roots(t) BY <1>2 DEF Blocks, Roots
<1> QED BY <1>3, <1>4, <1>5, <1>6 DEF Conserved

LEMMA InvWholeWhenIdle == ASSUME EagerAssumption, EagerInv PROVE WholeWhenIdle
<1>1. SUFFICES ASSUME used = {}, groups = <<>> PROVE free = Blocks BY DEF WholeWhenIdle
<1>2. Lists /\ Owners /\ Trees /\ Nil \notin Sized BY NilSized DEF EagerInv
<1>3. Held \cup InGroups = {} BY <1>1, <1>2, NoGroups DEF Held
<1>4. PICK t, L : t = tree /\ L = free OBVIOUS
<1>5. Full(t, L, {}) BY <1>2, <1>3, <1>4 DEF Trees
<1>6. L = Roots(t) BY <1>2, <1>5, FullWhole
<1> QED BY <1>4, <1>6 DEF Blocks, Roots

LEMMA InvGroupsApart == ASSUME EagerInv PROVE GroupsApart
<1>1. Lists /\ Owners /\ Trees BY DEF EagerInv
<1>2. PICK k \in Nat : /\ k = Len(groups) /\ DOMAIN groups = 1 .. k /\ DOMAIN owned = 1 .. k
                       /\ groups \in Seq(SUBSET Sized)
                       /\ \A n : n \in InGroups <=> \E i \in DOMAIN groups : n \in groups[i]
  <2>1. groups \in Seq(SUBSET Sized) BY <1>1 DEF Lists
  <2>2. /\ DOMAIN groups = 1 .. Len(groups) /\ Len(groups) \in Nat
        /\ \A n : n \in InGroups <=> \E i \in DOMAIN groups : n \in groups[i]
    BY <2>1, InGroupsIs
  <2>3. owned \in Seq(SUBSET (Root \X Nat)) /\ Len(owned) = Len(groups)
    BY <1>1 DEF Owners
  <2>4. DOMAIN owned = 1 .. Len(groups) BY <2>3
  <2> QED BY <2>1, <2>2, <2>4
<1>3. SUFFICES ASSUME NEW i \in 1 .. k, NEW j \in 1 .. k, i # j,
                      NEW x \in owned[i], x \in owned[j]
               PROVE  FALSE
  BY <1>2 DEF GroupsApart
<1>4. PICK n \in Mine(i), m \in Mine(j) : x \in Cells(n) /\ x \in Cells(m)
  BY <1>1, <1>2, <1>3 DEF Owners
<1>5. n \in Held \cup InGroups /\ m \in Held \cup InGroups
  BY <1>2, <1>4 DEF Mine, Held
<1>6. n # m
  <2>1. SUFFICES ASSUME n = m PROVE FALSE OBVIOUS
  <2>2. n \in groups[i] => n \in InGroups BY <1>2
  <2>3. n \in groups[j] => n \in InGroups BY <1>2
  <2>4. ~ (n \in groups[i] /\ n \in groups[j]) BY <1>1, <1>2, <1>3 DEF Lists
  <2>5. \A l : n \in {c.node : c \in {d \in used : d.group = l}} => n \in Held BY DEF Held
  <2>6. n \notin Held \/ n \notin InGroups BY <1>1 DEF Lists
  <2>7. \/ n \in groups[i] /\ n \in groups[j]
        \/ \E c, d \in used : c.group = i /\ d.group = j /\ c.node = n /\ d.node = n
    BY <1>4, <2>1, <2>2, <2>3, <2>5, <2>6 DEF Mine
  <2> QED BY <1>1, <1>3, <2>4, <2>7 DEF Lists
<1>7. n \in Sized /\ m \in Sized
  <2>1. Held \cup InGroups \subseteq DOMAIN tree /\ DOMAIN tree \in SUBSET Sized
    BY <1>1, TreesIs
  <2> QED BY <1>5, <2>1
<1>8. NodesApart(n, m)
  <2>1. Counts(DOMAIN tree, Up(tree), Use(tree), free, Held \cup InGroups)
    BY <1>1 DEF Trees, Full, Good
  <2> QED BY <1>5, <1>6, <2>1 DEF Counts
<1>9. PICK b \in n.off .. n.off + n.size - 1 : x = <<n.root, b>> BY <1>4 DEF Cells
<1>10. PICK e \in m.off .. m.off + m.size - 1 : x = <<m.root, e>> BY <1>4 DEF Cells
<1>11. n.root = m.root /\ b = e BY <1>9, <1>10
<1> QED BY <1>7, <1>8, <1>9, <1>10, <1>11, SizedIs DEF NodesApart, Apart

-----------------------------------------------------------------------------
(* For any blocks that the parent gives, any sizes and alignments asked    *)
(* for, groups or none: the tree of splits and the counts of its nodes     *)
(* always agree with the free lists and the chunks in use.                 *)
THEOREM InvariantHolds == EagerAssumption => (Spec => []EagerInv)
<1> SUFFICES ASSUME EagerAssumption PROVE Spec => []EagerInv OBVIOUS
<1>1. Init => EagerInv BY InitInv
<1>2. EagerInv /\ [Next]_vars => EagerInv' BY NextInv
<1> QED BY <1>1, <1>2, PTL DEF Spec

(* Every variable has its type. *)
THEOREM TypeCorrect == EagerAssumption => (Spec => []TypeOK)
<1> SUFFICES ASSUME EagerAssumption PROVE Spec => []TypeOK OBVIOUS
<1>1. EagerInv => TypeOK BY InvTypeOK
<1> QED BY <1>1, InvariantHolds, PTL

(* No two chunks in use share memory, and none is in memory that a free    *)
(* list would hand out again, however nodes were split and merged.         *)
THEOREM NeverOverlaps == EagerAssumption => (Spec => []NoOverlap)
<1> SUFFICES ASSUME EagerAssumption PROVE Spec => []NoOverlap OBVIOUS
<1>1. EagerInv => NoOverlap BY InvNoOverlap
<1> QED BY <1>1, InvariantHolds, PTL

(* What is in use or free always adds up to totalSize and to the blocks    *)
(* held from the parent: alloc, free, barrierEnd and release lose nothing. *)
THEOREM AlwaysConserved == EagerAssumption => (Spec => []Conserved)
<1> SUFFICES ASSUME EagerAssumption PROVE Spec => []Conserved OBVIOUS
<1>1. EagerInv => Conserved BY InvConserved
<1> QED BY <1>1, InvariantHolds, PTL

(* Whenever nothing is in use, returnMemory has undone every split, so     *)
(* that release(false) gives every block back.                             *)
THEOREM AlwaysWhole == EagerAssumption => (Spec => []WholeWhenIdle)
<1> SUFFICES ASSUME EagerAssumption PROVE Spec => []WholeWhenIdle OBVIOUS
<1>1. EagerInv => WholeWhenIdle BY InvWholeWhenIdle
<1> QED BY <1>1, InvariantHolds, PTL

(* Between barriers no memory is given to two groups, whatever they free   *)
(* and allocate meanwhile.                                                 *)
THEOREM GroupsAlwaysApart == EagerAssumption => (Spec => []GroupsApart)
<1> SUFFICES ASSUME EagerAssumption PROVE Spec => []GroupsApart OBVIOUS
<1>1. EagerInv => GroupsApart BY InvGroupsApart
<1> QED BY <1>1, InvariantHolds, PTL
=============================================================================

------------------------ MODULE PorstMultiproofProofs -----------------------
(***************************************************************************)
(* Theorems about a signature word by word, for a tree of any height,      *)
(* subsets of any size, any number of epochs and any selections: the       *)
(* frontier serves the leaf that comes next, the signature has no word     *)
(* more than it must, and the verifier accepts it and nothing else.        *)
(*                                                                         *)
(* The functions that the model defines by recursion, the rows of a tree,  *)
(* the nodes of a fold and the search of an insertion, are shown to be     *)
(* what their equations say by induction over the natural numbers, and the *)
(* walk by the invariant of its steps.                                     *)
(***************************************************************************)
EXTENDS PorstMultiproof, WellFoundedInduction, FiniteSetTheorems, TLAPS

-----------------------------------------------------------------------------
(* NUMBERS                                                                 *)

(* Induction over the natural numbers, from the well-foundedness of <.     *)
Less == {q \in Nat \X Nat : q[1] < q[2]}

LEMMA LessIsWellFounded == IsWellFoundedOn(Less, Nat)
  <1>1. OpToRel(<, Nat) = Less
    BY DEF OpToRel, Less
  <1> QED
    BY <1>1, NatLessThanWellFounded

(* A set of natural numbers that is not empty has a least element.         *)
LEMMA LeastNatural ==
  ASSUME NEW T, T \subseteq Nat, T # {}
  PROVE  \E m \in T : \A k \in T : m <= k
  <1>1. PICK m \in T : \A k \in T : ~ (<<k, m>> \in Less)
    BY LessIsWellFounded, WFMin
  <1>2. ASSUME NEW k \in T PROVE m <= k
    <2>1. k \in Nat /\ m \in Nat
      OBVIOUS
    <2>2. <<k, m>> \in Nat \X Nat /\ <<k, m>>[1] = k /\ <<k, m>>[2] = m
      BY <2>1
    <2>3. ~(k < m)
      BY <1>1, <2>2 DEF Less
    <2> QED
      BY <2>1, <2>3
  <1> QED
    BY <1>2

(* A set that has 0, and n + 1 with every n, has them all.                 *)
LEMMA Induction ==
  ASSUME NEW S, 0 \in S, \A n \in Nat : n \in S => n + 1 \in S
  PROVE  Nat \subseteq S
  <1> SUFFICES ASSUME Nat \ S # {} PROVE FALSE
    OBVIOUS
  <1>1. PICK m \in Nat \ S : \A k \in Nat \ S : m <= k
    BY LeastNatural
  <1>2. m # 0 /\ m - 1 \in Nat
    OBVIOUS
  <1>3. m - 1 \in S
    BY <1>1, <1>2
  <1> QED
    BY <1>2, <1>3

(* Powers of two, by what they count.                                      *)
LEMMA PowerNext ==
  ASSUME NEW n \in Nat
  PROVE  2 ^ (n + 1) = 2 * 2 ^ n /\ 2 ^ n \in Nat
  <1> DEFINE A == SUBSET (1 .. n)
             B == {s \cup {n + 1} : s \in A}
             g == [s \in A |-> s \cup {n + 1}]
  <1>1. /\ IsFiniteSet(1 .. n) /\ Cardinality(1 .. n) = n
        /\ IsFiniteSet(1 .. n + 1) /\ Cardinality(1 .. n + 1) = n + 1
    <2>1. /\ n + 1 \in Int /\ n \in Int /\ 1 \in Int
          /\ n - 1 + 1 = n /\ (n + 1) - 1 + 1 = n + 1
      OBVIOUS
    <2> QED BY <2>1, FS_Interval
  <1>2. /\ IsFiniteSet(A) /\ Cardinality(A) = 2 ^ n
        /\ IsFiniteSet(SUBSET (1 .. n + 1))
        /\ Cardinality(SUBSET (1 .. n + 1)) = 2 ^ (n + 1)
    BY <1>1, FS_SUBSET
  <1>3. g \in Injection(A, B)
    <2>1. g \in [A -> B]
      OBVIOUS
    <2>2. ASSUME NEW s \in A, NEW t \in A, g[s] = g[t]
          PROVE  s = t
      <3>1. n + 1 \notin s /\ n + 1 \notin t
        OBVIOUS
      <3> QED
        BY <2>2, <3>1
    <2> HIDE DEF g, A, B
    <2> QED
      BY <2>1, <2>2 DEF Injection, IsInjective
  <1>4. IsFiniteSet(B) /\ Cardinality(B) = Cardinality(A)
    <2>1. g \in [A -> B] /\ \A t \in B : \E s \in A : g[s] = t
      OBVIOUS
    <2> HIDE DEF g, A, B
    <2>2. g \in Surjection(A, B)
      BY <2>1 DEF Surjection
    <2> QED
      BY <1>2, <1>3, <2>2, FS_Surjection
  <1>5. A \cap B = {}
    <2>1. \A s \in A : n + 1 \notin s
      OBVIOUS
    <2> QED BY <2>1
  <1>6. A \cup B = SUBSET (1 .. n + 1)
    <2>1. 1 .. n + 1 = (1 .. n) \cup {n + 1}
      OBVIOUS
    <2>2. ASSUME NEW s \in SUBSET (1 .. n + 1), n + 1 \in s PROVE s \in B
      <3>1. s \ {n + 1} \in A /\ s = (s \ {n + 1}) \cup {n + 1}
        BY <2>1, <2>2
      <3> QED BY <3>1
    <2>3. ASSUME NEW s \in SUBSET (1 .. n + 1), n + 1 \notin s PROVE s \in A
      BY <2>1, <2>3
    <2>4. A \subseteq SUBSET (1 .. n + 1) /\ B \subseteq SUBSET (1 .. n + 1)
      BY <2>1
    <2> HIDE DEF A, B
    <2> QED BY <2>2, <2>3, <2>4
  <1> HIDE DEF A, B
  <1>7. Cardinality(A \cup B) = Cardinality(A) + Cardinality(B)
                               - Cardinality(A \cap B)
    BY <1>2, <1>4, FS_Union
  <1>8. Cardinality(A) \in Nat /\ Cardinality({}) = 0
    BY <1>2, FS_CardinalityType, FS_EmptySet
  <1>9. 2 ^ (n + 1) = 2 ^ n + 2 ^ n - 0
    BY <1>2, <1>4, <1>5, <1>6, <1>7, <1>8
  <1> DEFINE p == 2 ^ n
             q == 2 ^ (n + 1)
  <1>10. p \in Nat /\ q = p + p - 0
    BY <1>2, <1>8, <1>9
  <1> HIDE DEF p, q
  <1>11. q = 2 * p
    BY <1>10
  <1> QED
    BY <1>10, <1>11 DEF p, q

(* No power of two is zero, and each is twice the one before it.           *)
LEMMA PowerFacts ==
  /\ 2 ^ 0 = 1
  /\ \A n \in Nat : 2 ^ n \in Nat \ {0} /\ 2 ^ (n + 1) = 2 * 2 ^ n
  <1> DEFINE S == {n \in Nat : 2 ^ n # 0}
  <1>1. 2 ^ 0 = 1
    OBVIOUS
  <1>2. 0 \in S
    BY <1>1
  <1>3. ASSUME NEW n \in Nat, n \in S PROVE n + 1 \in S
    <2>1. 2 ^ n \in Nat /\ 2 ^ n # 0 /\ 2 ^ (n + 1) = 2 * 2 ^ n
      BY <1>3, PowerNext
    <2> QED BY <2>1
  <1>4. Nat \subseteq S
    <2> HIDE DEF S
    <2> QED BY <1>2, <1>3, Induction
  <1> QED BY <1>1, <1>4, PowerNext

(* What a quotient is.                                                     *)
LEMMA Quotient ==
  ASSUME NEW a \in Nat, NEW b \in Nat \ {0}, NEW q \in Nat, NEW r \in Nat,
         a = b * q + r, r < b
  PROVE  a \div b = q
  <1>1. a \div b \in Nat /\ a % b \in 0 .. b - 1
        /\ a = b * (a \div b) + (a % b)
    OBVIOUS
  <1> DEFINE d == a \div b
             m == a % b
  <1>2. d \in Nat /\ m \in Nat /\ m < b /\ b * d + m = b * q + r
    BY <1>1
  <1> HIDE DEF d, m
  <1>3. ASSUME d < q PROVE FALSE
    <2>1. d + 1 <= q
      BY <1>2, <1>3
    <2>2. b * (d + 1) <= b * q
      BY <1>2, <2>1
    <2>3. b * (d + 1) = b * d + b /\ b * d \in Nat /\ b * q \in Nat
      BY <1>2
    <2> QED
      BY <1>2, <2>2, <2>3
  <1>4. ASSUME q < d PROVE FALSE
    <2>1. q + 1 <= d
      BY <1>2, <1>4
    <2>2. b * (q + 1) <= b * d
      BY <1>2, <2>1
    <2>3. b * (q + 1) = b * q + b /\ b * d \in Nat /\ b * q \in Nat
      BY <1>2
    <2> QED
      BY <1>2, <2>2, <2>3
  <1>5. d = q
    BY <1>2, <1>3, <1>4
  <1> QED
    BY <1>5 DEF d

(* Going up a level halves the index.                                      *)
LEMMA PathUp ==
  ASSUME NEW i \in Nat, NEW l \in Nat
  PROVE  /\ PathAt(i, l) \in Nat
         /\ PathAt(i, l + 1) = PathAt(i, l) \div 2
  <1> DEFINE p == 2 ^ l
             d == i \div p
             m == i % p
             h == d \div 2
             b == d % 2
  <1>1. p \in Nat \ {0} /\ 2 ^ (l + 1) = 2 * p
    BY PowerFacts
  <1> HIDE DEF p
  <1>2. d \in Nat /\ m \in Nat /\ m < p /\ i = p * d + m
    BY <1>1
  <1> HIDE DEF d, m
  <1>3. h \in Nat /\ b \in 0 .. 1 /\ d = 2 * h + b
    BY <1>2
  <1> HIDE DEF h, b
  <1>4. i = (2 * p) * h + (p * b + m)
    BY <1>1, <1>2, <1>3
  <1>5. p * b + m \in Nat /\ p * b + m < 2 * p
    BY <1>1, <1>2, <1>3
  <1>6. 2 * p \in Nat \ {0}
    BY <1>1
  <1>7. i \div (2 * p) = h
    BY <1>3, <1>4, <1>5, <1>6, Quotient
  <1> QED
    BY <1>1, <1>2, <1>7 DEF d, h, p, PathAt

(* A leaf's path starts at the leaf.                                       *)
LEMMA PathStart ==
  ASSUME NEW i \in Nat
  PROVE  PathAt(i, 0) = i
  BY PowerFacts DEF PathAt

(* Paths that have met stay together.                                      *)
LEMMA Together ==
  ASSUME NEW x \in Nat, NEW y \in Nat, NEW l \in Nat, NEW m \in Nat, l <= m,
         PathAt(x, l) = PathAt(y, l)
  PROVE  PathAt(x, m) = PathAt(y, m)
  <1> DEFINE S == {n \in Nat : l <= n => PathAt(x, n) = PathAt(y, n)}
  <1>1. 0 \in S
    <2>1. l <= 0 => l = 0
      OBVIOUS
    <2> QED
      BY <2>1
  <1>2. ASSUME NEW n \in Nat, n \in S PROVE n + 1 \in S
    <2>1. CASE l <= n
      BY <1>2, <2>1, PathUp
    <2>2. CASE l = n + 1
      BY <2>2
    <2>3. l <= n + 1 => l <= n \/ l = n + 1
      OBVIOUS
    <2> QED
      BY <2>1, <2>2, <2>3
  <1> HIDE DEF S
  <1>3. m \in S
    BY <1>1, <1>2, Induction
  <1> QED
    BY <1>3 DEF S

(* Order is kept on the way up.                                            *)
LEMMA InOrder ==
  ASSUME NEW x \in Nat, NEW y \in Nat, NEW l \in Nat, x <= y
  PROVE  PathAt(x, l) <= PathAt(y, l)
  <1> DEFINE S == {n \in Nat : PathAt(x, n) <= PathAt(y, n)}
  <1>1. 0 \in S
    BY PathStart
  <1>2. ASSUME NEW n \in Nat, n \in S PROVE n + 1 \in S
    BY <1>2, PathUp
  <1> HIDE DEF S
  <1>3. l \in S
    BY <1>1, <1>2, Induction
  <1> QED
    BY <1>3 DEF S

(* A level l of a tree of height h has 2^(h - l) nodes.                    *)
LEMMA InTree ==
  ASSUME NEW h \in Nat, NEW i \in 0 .. 2 ^ h - 1, NEW l \in 0 .. h
  PROVE  PathAt(i, l) \in 0 .. 2 ^ (h - l) - 1
  <1> DEFINE S == {n \in Nat : n <= h => PathAt(i, n) \in 0 .. 2 ^ (h - n) - 1}
  <1>0. i \in Nat
    BY PowerFacts
  <1>1. 0 \in S
    BY <1>0, PathStart
  <1>2. ASSUME NEW n \in Nat, n \in S PROVE n + 1 \in S
    <2> SUFFICES ASSUME n + 1 <= h
                 PROVE  PathAt(i, n + 1) \in 0 .. 2 ^ (h - (n + 1)) - 1
      OBVIOUS
    <2> DEFINE p == 2 ^ (h - (n + 1))
    <2>1. h - (n + 1) \in Nat /\ (h - (n + 1)) + 1 = h - n /\ n <= h
      OBVIOUS
    <2>2. p \in Nat /\ 2 ^ (h - n) = 2 * p
      BY <2>1, PowerFacts
    <2>3. PathAt(i, n) \in 0 .. 2 * p - 1
      BY <1>2, <2>1, <2>2
    <2>4. PathAt(i, n + 1) = PathAt(i, n) \div 2
      BY <1>0, PathUp
    <2> HIDE DEF p
    <2>5. PathAt(i, n + 1) \in 0 .. p - 1
      BY <2>2, <2>3, <2>4
    <2> QED
      BY <2>5 DEF p
  <1> HIDE DEF S
  <1>3. l \in S
    BY <1>1, <1>2, Induction
  <1> QED
    BY <1>3 DEF S

(* At the root all paths are one.                                          *)
LEMMA PathsMeet ==
  ASSUME NEW h \in Nat, NEW i \in 0 .. 2 ^ h - 1
  PROVE  PathAt(i, h) = 0
  <1>0. h \in 0 .. h
    OBVIOUS
  <1>1. PathAt(i, h) \in 0 .. 2 ^ (h - h) - 1
    BY <1>0, InTree
  <1>2. h - h = 0 /\ 2 ^ 0 = 1
    BY PowerFacts
  <1> QED
    BY <1>1, <1>2

(* Where two paths meet, the earlier leaf's node is the left one of two    *)
(* siblings and the later leaf's the right one.                            *)
LEMMA Siblings ==
  ASSUME NEW x \in Nat, NEW y \in Nat, NEW l \in Nat, x <= y,
         PathAt(x, l) # PathAt(y, l), PathAt(x, l + 1) = PathAt(y, l + 1)
  PROVE  /\ ~IsRight(x, l) /\ IsRight(y, l)
         /\ SiblingOf(PathAt(y, l)) = PathAt(x, l)
         /\ SiblingOf(PathAt(x, l)) = PathAt(y, l)
  <1> DEFINE a == PathAt(x, l)
             b == PathAt(y, l)
  <1>1. a \in Nat /\ b \in Nat /\ a <= b /\ a # b /\ a \div 2 = b \div 2
    BY InOrder, PathUp
  <1> HIDE DEF a, b
  <1>2. a % 2 = 0 /\ b % 2 = 1 /\ b = a + 1
    BY <1>1
  <1>3. SiblingOf(b) = a /\ SiblingOf(a) = b
    BY <1>1, <1>2 DEF SiblingOf
  <1> QED
    BY <1>2, <1>3 DEF a, b, IsRight

-----------------------------------------------------------------------------
(* TREES                                                                   *)

(* The row above another one, l levels up.                                 *)
RowAbove(h, r, l) ==
  [k \in 0 .. 2 ^ (h - l) - 1 |-> Hash2(r[2 * k], r[2 * k + 1])]

(* The rows up to n.                                                       *)
AreRows(h, leaf, n, row) ==
  row = [l \in 0 .. n |-> IF l = 0 THEN leaf ELSE RowAbove(h, row[l - 1], l)]

(* There are such rows, for every height,                                  *)
LEMMA RowsExist ==
  ASSUME NEW h \in Nat, NEW leaf, NEW n \in Nat
  PROVE  \E row : AreRows(h, leaf, n, row)
  <1> DEFINE S == {m \in Nat : \E row : AreRows(h, leaf, m, row)}
  <1>1. 0 \in S
    <2>1. AreRows(h, leaf, 0, [l \in 0 .. 0 |-> leaf])
      BY DEF AreRows
    <2> QED
      BY <2>1
  <1>2. ASSUME NEW m \in Nat, m \in S PROVE m + 1 \in S
    <2>1. PICK row : AreRows(h, leaf, m, row)
      BY <1>2
    <2> DEFINE top == RowAbove(h, row[m], m + 1)
               more == [l \in 0 .. m + 1 |-> IF l = m + 1 THEN top ELSE row[l]]
    <2>2. ASSUME NEW l \in 0 .. m + 1
          PROVE  more[l] = IF l = 0 THEN leaf ELSE RowAbove(h, more[l - 1], l)
      <3>1. CASE l = 0
        <4>1. row[0] = leaf
          BY <2>1 DEF AreRows
        <4> QED
          BY <3>1, <4>1
      <3>2. CASE l \in 1 .. m
        <4>1. /\ l \in 0 .. m /\ l - 1 \in 0 .. m /\ l - 1 \in 0 .. m + 1
              /\ l # 0 /\ l - 1 # m + 1 /\ l # m + 1
          BY <3>2
        <4>2. row[l] = RowAbove(h, row[l - 1], l)
          BY <2>1, <4>1 DEF AreRows
        <4>3. more[l] = row[l] /\ more[l - 1] = row[l - 1]
          BY <4>1
        <4> QED
          BY <4>1, <4>2, <4>3
      <3>3. CASE l = m + 1
        <4>1. l # 0 /\ l - 1 = m /\ m # m + 1 /\ m \in 0 .. m + 1
          BY <3>3
        <4>2. more[m] = row[m] /\ more[m + 1] = top
          BY <4>1
        <4> QED
          BY <3>3, <4>1, <4>2
      <3> QED
        BY <3>1, <3>2, <3>3
    <2>3. more = [l \in 0 .. m + 1 |-> more[l]]
      OBVIOUS
    <2> HIDE DEF more, top
    <2>4. AreRows(h, leaf, m + 1, more)
      BY <2>2, <2>3 DEF AreRows
    <2> QED
      BY <2>4
  <1> HIDE DEF S
  <1>3. n \in S
    BY <1>1, <1>2, Induction
  <1> QED
    BY <1>3 DEF S

(* and they are what Merkle makes.                                         *)
LEMMA MerkleRows ==
  ASSUME NEW h \in Nat, NEW leaf
  PROVE  /\ Merkle(h, leaf)[0] = leaf
         /\ \A l \in 0 .. h - 1 :
              Merkle(h, leaf)[l + 1] = RowAbove(h, Merkle(h, leaf)[l], l + 1)
  <1> DEFINE row == CHOOSE r : AreRows(h, leaf, h, r)
  <1>1. AreRows(h, leaf, h, row)
    BY RowsExist
  <1>2. Merkle(h, leaf) = row
    BY DEF Merkle, AreRows, RowAbove
  <1> HIDE DEF row
  <1>3. row[0] = leaf
    BY <1>1 DEF AreRows
  <1>4. ASSUME NEW l \in 0 .. h - 1
        PROVE  row[l + 1] = RowAbove(h, row[l], l + 1)
    <2>1. l + 1 \in 0 .. h /\ l + 1 # 0 /\ (l + 1) - 1 = l
      OBVIOUS
    <2> QED
      BY <1>1, <2>1 DEF AreRows
  <1> QED
    BY <1>2, <1>3, <1>4

(* The words that hashing makes: different from each other where what is   *)
(* hashed is, and from the words that are not hashes.                      *)
LEMMA HashesDiffer ==
  ASSUME NEW a, NEW b, NEW c, NEW d
  PROVE  /\ Hash2(a, b) = Hash2(c, d) <=> a = c /\ b = d
         /\ Hash1(a) = Hash1(b) <=> a = b
         /\ Hash1(a) # Empty /\ Hash2(a, b) # Empty
  BY DEF Hash1, Hash2, Empty

(* One step up a tree: hashing a node with its sibling gives the tree's    *)
(* node above them if, and only if, the two are the tree's.                *)
LEMMA TreeStep ==
  ASSUME NEW h \in Nat, NEW leaf, NEW i \in 0 .. 2 ^ h - 1,
         NEW l \in 0 .. h - 1, NEW node, NEW sibling
  PROVE  LET tree == Merkle(h, leaf)
         IN  tree[l + 1][PathAt(i, l + 1)]
               = (IF IsRight(i, l) THEN Hash2(sibling, node)
                                   ELSE Hash2(node, sibling))
             <=> /\ node = tree[l][PathAt(i, l)]
                 /\ sibling = SiblingAt(tree, i, l)
  <1> DEFINE tree == Merkle(h, leaf)
             p == PathAt(i, l)
             k == PathAt(i, l + 1)
  <1>1. i \in Nat /\ l \in Nat /\ l + 1 \in 0 .. h
    BY PowerFacts
  <1>2. p \in Nat /\ k = p \div 2
    BY <1>1, PathUp
  <1>3. k \in 0 .. 2 ^ (h - (l + 1)) - 1
    BY <1>1, InTree
  <1>4. tree[l + 1] = RowAbove(h, tree[l], l + 1)
    BY MerkleRows
  <1>5. tree[l + 1][k] = Hash2(tree[l][2 * k], tree[l][2 * k + 1])
    <2> HIDE DEF tree, k
    <2> QED
      BY <1>3, <1>4 DEF RowAbove
  <1>6. IsRight(i, l) <=> p % 2 = 1
    BY DEF IsRight
  <1>7. SiblingAt(tree, i, l) = tree[l][SiblingOf(p)]
    BY DEF SiblingAt
  <1> HIDE DEF tree, p, k
  <1>8. CASE IsRight(i, l)
    <2>1. p = 2 * k + 1 /\ SiblingOf(p) = 2 * k
      BY <1>2, <1>6, <1>8 DEF SiblingOf
    <2> QED
      BY <1>5, <1>7, <1>8, <2>1, HashesDiffer DEF tree, p, k
  <1>9. CASE ~IsRight(i, l)
    <2>1. p = 2 * k /\ SiblingOf(p) = 2 * k + 1
      BY <1>2, <1>6, <1>9 DEF SiblingOf
    <2> QED
      BY <1>5, <1>7, <1>9, <2>1, HashesDiffer DEF tree, p, k
  <1> QED
    BY <1>8, <1>9

(* The constants and what they make.                                       *)
LEMMA HeightTypes ==
  /\ TreeHeight \in Nat \ {0} /\ SubsetSize \in Nat \ {0} /\ XmssHeight \in Nat
  /\ Leaves = 0 .. 2 ^ TreeHeight - 1 /\ Leaves \subseteq Nat
  /\ Epochs = 0 .. 2 ^ XmssHeight - 1 /\ Epochs \subseteq Nat
  BY MultiproofAssumption DEF Leaves, Epochs

(* The leaves of an epoch's tree, and one step up it.                      *)
LEMMA EpochTreeStep ==
  ASSUME NEW e \in Epochs, NEW i \in Leaves
  PROVE  /\ \A word : Hash1(word) = EpochTree[e][0][PathAt(i, 0)]
                        <=> word = Preimage(e, i)
         /\ \A l \in 0 .. TreeHeight - 1 : \A node, sibling :
              EpochTree[e][l + 1][PathAt(i, l + 1)]
                = (IF IsRight(i, l) THEN Hash2(sibling, node)
                                    ELSE Hash2(node, sibling))
              <=> /\ node = EpochTree[e][l][PathAt(i, l)]
                  /\ sibling = SiblingAt(EpochTree[e], i, l)
  <1> DEFINE leaf == [k \in Leaves |-> Hash1(Preimage(e, k))]
  <1>1. EpochTree[e] = Merkle(TreeHeight, leaf)
    BY DEF EpochTree
  <1>2. EpochTree[e][0] = leaf /\ PathAt(i, 0) = i
    <2> HIDE DEF leaf
    <2> QED
      BY <1>1, MerkleRows, PathStart, HeightTypes
  <1>3. EpochTree[e][0][PathAt(i, 0)] = Hash1(Preimage(e, i))
    BY <1>2
  <1>4. ASSUME NEW l \in 0 .. TreeHeight - 1, NEW node, NEW sibling
        PROVE  EpochTree[e][l + 1][PathAt(i, l + 1)]
                 = (IF IsRight(i, l) THEN Hash2(sibling, node)
                                     ELSE Hash2(node, sibling))
               <=> /\ node = EpochTree[e][l][PathAt(i, l)]
                   /\ sibling = SiblingAt(EpochTree[e], i, l)
    <2> HIDE DEF leaf
    <2> QED
      BY <1>1, TreeStep, HeightTypes
  <1> QED
    BY <1>3, <1>4, HashesDiffer

(* The same for the tree of the epochs.                                    *)
LEMMA XmssStep ==
  ASSUME NEW e \in Epochs
  PROVE  /\ Xmss[0][PathAt(e, 0)] = EpochTree[e][TreeHeight][0]
         /\ PublicKey = Xmss[XmssHeight][PathAt(e, XmssHeight)]
         /\ \A l \in 0 .. XmssHeight - 1 : \A node, sibling :
              Xmss[l + 1][PathAt(e, l + 1)]
                = (IF IsRight(e, l) THEN Hash2(sibling, node)
                                    ELSE Hash2(node, sibling))
              <=> /\ node = Xmss[l][PathAt(e, l)]
                  /\ sibling = XmssAuth(e)[l + 1]
  <1> DEFINE leaf == [k \in Epochs |-> EpochTree[k][TreeHeight][0]]
  <1>1. Xmss = Merkle(XmssHeight, leaf)
    BY DEF Xmss
  <1>2. Xmss[0] = leaf /\ PathAt(e, 0) = e
    <2> HIDE DEF leaf
    <2> QED
      BY <1>1, MerkleRows, PathStart, HeightTypes
  <1>3. PathAt(e, XmssHeight) = 0
    BY PathsMeet, HeightTypes
  <1>4. ASSUME NEW l \in 0 .. XmssHeight - 1, NEW node, NEW sibling
        PROVE  Xmss[l + 1][PathAt(e, l + 1)]
                 = (IF IsRight(e, l) THEN Hash2(sibling, node)
                                     ELSE Hash2(node, sibling))
               <=> /\ node = Xmss[l][PathAt(e, l)]
                   /\ sibling = XmssAuth(e)[l + 1]
    <2>1. XmssAuth(e)[l + 1] = SiblingAt(Xmss, e, l)
      <3>1. l + 1 \in 1 .. XmssHeight /\ (l + 1) - 1 = l
        BY HeightTypes
      <3> QED
        BY <3>1 DEF XmssAuth
    <2> HIDE DEF leaf
    <2> QED
      BY <1>1, <2>1, TreeStep, HeightTypes
  <1> QED
    BY <1>2, <1>3, <1>4 DEF PublicKey

(* The nodes that Fold goes through.                                       *)
Folded(auth, e, node, l) ==
  IF IsRight(e, l - 1) THEN Hash2(auth[l], node) ELSE Hash2(node, auth[l])

AreFolded(root, auth, e, n, node) ==
  node = [l \in 0 .. n |->
            IF l = 0 THEN root ELSE Folded(auth, e, node[l - 1], l)]

(* There are such nodes, for every length of the path.                     *)
LEMMA FoldedExist ==
  ASSUME NEW root, NEW auth, NEW e, NEW n \in Nat
  PROVE  \E node : AreFolded(root, auth, e, n, node)
  <1> DEFINE S == {m \in Nat : \E node : AreFolded(root, auth, e, m, node)}
  <1>1. 0 \in S
    <2>1. AreFolded(root, auth, e, 0, [l \in 0 .. 0 |-> root])
      BY DEF AreFolded
    <2> QED
      BY <2>1
  <1>2. ASSUME NEW m \in Nat, m \in S PROVE m + 1 \in S
    <2>1. PICK node : AreFolded(root, auth, e, m, node)
      BY <1>2
    <2> DEFINE top == Folded(auth, e, node[m], m + 1)
               more == [l \in 0 .. m + 1 |->
                          IF l = m + 1 THEN top ELSE node[l]]
    <2>2. ASSUME NEW l \in 0 .. m + 1
          PROVE  more[l] = IF l = 0 THEN root
                           ELSE Folded(auth, e, more[l - 1], l)
      <3>1. CASE l = 0
        <4>1. node[0] = root
          BY <2>1 DEF AreFolded
        <4> QED
          BY <3>1, <4>1
      <3>2. CASE l \in 1 .. m
        <4>1. /\ l \in 0 .. m /\ l - 1 \in 0 .. m /\ l # 0
              /\ l - 1 # m + 1 /\ l # m + 1 /\ l - 1 \in 0 .. m + 1
          BY <3>2
        <4>2. node[l] = Folded(auth, e, node[l - 1], l)
          BY <2>1, <4>1 DEF AreFolded
        <4>3. more[l] = node[l] /\ more[l - 1] = node[l - 1]
          BY <4>1
        <4> QED
          BY <4>1, <4>2, <4>3
      <3>3. CASE l = m + 1
        <4>1. l # 0 /\ l - 1 = m /\ m # m + 1 /\ m \in 0 .. m + 1
          BY <3>3
        <4>2. more[m] = node[m] /\ more[m + 1] = top
          BY <4>1
        <4> QED
          BY <3>3, <4>1, <4>2
      <3> QED
        BY <3>1, <3>2, <3>3
    <2>3. more = [l \in 0 .. m + 1 |-> more[l]]
      OBVIOUS
    <2> HIDE DEF more, top
    <2>4. AreFolded(root, auth, e, m + 1, more)
      BY <2>2, <2>3 DEF AreFolded
    <2> QED
      BY <2>4
  <1> HIDE DEF S
  <1>3. n \in S
    BY <1>1, <1>2, Induction
  <1> QED
    BY <1>3 DEF S

(* The words left after the walk fold its root up to the public key if,    *)
(* and only if, they and the root are the tree's.                          *)
LEMMA FoldReachesTheKey ==
  ASSUME NEW e \in Epochs, NEW root, NEW auth, Len(auth) = XmssHeight
  PROVE  Fold(root, auth, e) = PublicKey
           <=> /\ root = EpochTree[e][TreeHeight][0]
               /\ \A n \in 1 .. XmssHeight : auth[n] = XmssAuth(e)[n]
  <1> DEFINE node == CHOOSE f : AreFolded(root, auth, e, Len(auth), f)
  <1>1. AreFolded(root, auth, e, XmssHeight, node)
    BY FoldedExist, HeightTypes
  <1>2. Fold(root, auth, e) = node[XmssHeight]
    BY DEF Fold, AreFolded, Folded
  <1> HIDE DEF node
  <1>3. node[0] = root
    BY <1>1, HeightTypes DEF AreFolded
  <1>4. ASSUME NEW l \in 0 .. XmssHeight - 1
        PROVE  node[l + 1] = IF IsRight(e, l) THEN Hash2(auth[l + 1], node[l])
                                              ELSE Hash2(node[l], auth[l + 1])
    <2>1. l + 1 \in 0 .. XmssHeight /\ l + 1 # 0 /\ (l + 1) - 1 = l
      BY HeightTypes
    <2> QED
      BY <1>1, <2>1 DEF AreFolded, Folded
  <1> DEFINE S == {l \in Nat : l <= XmssHeight =>
                     (node[l] = Xmss[l][PathAt(e, l)]
                       <=> /\ root = EpochTree[e][TreeHeight][0]
                           /\ \A n \in 1 .. l : auth[n] = XmssAuth(e)[n])}
  <1>5. 0 \in S
    BY <1>3, XmssStep
  <1>6. ASSUME NEW l \in Nat, l \in S PROVE l + 1 \in S
    <2> SUFFICES ASSUME l + 1 <= XmssHeight
                 PROVE  node[l + 1] = Xmss[l + 1][PathAt(e, l + 1)]
                          <=> /\ root = EpochTree[e][TreeHeight][0]
                              /\ \A n \in 1 .. l + 1 : auth[n] = XmssAuth(e)[n]
      OBVIOUS
    <2>1. l \in 0 .. XmssHeight - 1 /\ l <= XmssHeight
      BY HeightTypes
    <2>2. node[l] = Xmss[l][PathAt(e, l)]
            <=> /\ root = EpochTree[e][TreeHeight][0]
                /\ \A n \in 1 .. l : auth[n] = XmssAuth(e)[n]
      BY <1>6, <2>1
    <2>3. node[l + 1] = Xmss[l + 1][PathAt(e, l + 1)]
            <=> /\ node[l] = Xmss[l][PathAt(e, l)]
                /\ auth[l + 1] = XmssAuth(e)[l + 1]
      BY <1>4, <2>1, XmssStep
    <2>4. 1 .. l + 1 = (1 .. l) \cup {l + 1}
      OBVIOUS
    <2> QED
      BY <2>2, <2>3, <2>4
  <1> HIDE DEF S
  <1>7. XmssHeight \in S
    BY <1>5, <1>6, Induction, HeightTypes
  <1>8. node[XmssHeight] = Xmss[XmssHeight][PathAt(e, XmssHeight)]
          <=> /\ root = EpochTree[e][TreeHeight][0]
              /\ \A n \in 1 .. XmssHeight : auth[n] = XmssAuth(e)[n]
    BY <1>7, HeightTypes DEF S
  <1> QED
    BY <1>2, <1>8, XmssStep

-----------------------------------------------------------------------------
(* THE SUBSET                                                              *)

(* How many elements of a sorted sequence are below a selection.           *)
CountsBelow(sorted, selection, c) ==
  /\ c \in 0 .. Len(sorted)
  /\ \A n \in 1 .. Len(sorted) : sorted[n] < selection <=> n <= c

(* There is a number of elements below any selection.                      *)
LEMMA SomeAreBelow ==
  ASSUME NEW sorted \in Seq(Nat), Increasing(sorted), NEW selection \in Nat
  PROVE  \E c : CountsBelow(sorted, selection, c)
  <1> DEFINE N == Len(sorted)
             T == {k \in 0 .. N :
                     \A n \in 1 .. N : n > k => ~(sorted[n] < selection)}
  <1>1. N \in Nat /\ DOMAIN sorted = 1 .. N /\ \A n \in 1 .. N : sorted[n] \in Nat
    OBVIOUS
  <1> HIDE DEF N
  <1>2. N \in T
    BY <1>1
  <1>3. PICK c \in T : \A k \in T : c <= k
    <2>1. T \subseteq 0 .. N
      OBVIOUS
    <2> HIDE DEF T
    <2>2. T \subseteq Nat /\ T # {}
      BY <1>1, <1>2, <2>1
    <2> QED
      BY <2>2, LeastNatural
  <1>4. ASSUME NEW n \in 1 .. N, n <= c PROVE sorted[n] < selection
    <2>1. c \in 1 .. N /\ c - 1 \in 0 .. N /\ ~(c <= c - 1)
      BY <1>1, <1>3, <1>4
    <2>2. c - 1 \notin T
      BY <1>3, <2>1
    <2>3. PICK m \in 1 .. N : m > c - 1 /\ sorted[m] < selection
      BY <2>1, <2>2
    <2>4. m = c
      BY <1>1, <1>3, <2>1, <2>3
    <2>5. n = c \/ n < c
      BY <1>1, <1>4, <2>1
    <2>6. n < c => sorted[n] < sorted[c]
      BY <1>1, <2>1 DEF Increasing
    <2> QED
      BY <1>1, <2>1, <2>3, <2>4, <2>5, <2>6
  <1>5. ASSUME NEW n \in 1 .. N, ~(n <= c) PROVE ~(sorted[n] < selection)
    BY <1>1, <1>3, <1>5
  <1> QED
    BY <1>3, <1>4, <1>5 DEF CountsBelow, N

(* The search of LowerBound, one span at a time.                           *)
SearchStep(sorted, selection, search, span) ==
  LET lo == span[1]  hi == span[2]  mid == (lo + hi) \div 2
  IN  IF lo < hi
      THEN IF sorted[mid + 1] < selection
           THEN search[<<mid + 1, hi>>] ELSE search[<<lo, mid>>]
      ELSE lo

IsSearch(sorted, selection, search) ==
  search = [span \in (0 .. Len(sorted)) \X (0 .. Len(sorted)) |->
              SearchStep(sorted, selection, search, span)]

(* The middle of a span is in it.                                          *)
LEMMA Middle ==
  ASSUME NEW lo \in Nat, NEW hi \in Nat, lo < hi
  PROVE  /\ (lo + hi) \div 2 \in Nat
         /\ lo <= (lo + hi) \div 2 /\ (lo + hi) \div 2 < hi
  OBVIOUS

(* There is such a search: what it finds is the number of elements below   *)
(* the selection, cut to the span.                                         *)
LEMMA SearchExists ==
  ASSUME NEW sorted \in Seq(Nat), Increasing(sorted), NEW selection \in Nat
  PROVE  \E search : IsSearch(sorted, selection, search)
  <1> DEFINE N == Len(sorted)
  <1>1. PICK c : CountsBelow(sorted, selection, c)
    BY SomeAreBelow
  <1>2. N \in Nat /\ c \in 0 .. N
    BY <1>1 DEF CountsBelow
  <1> DEFINE value(lo, hi) == IF lo < hi
                              THEN IF c < lo THEN lo ELSE IF hi < c THEN hi ELSE c
                              ELSE lo
             search == [span \in (0 .. N) \X (0 .. N) |-> value(span[1], span[2])]
  <1>3. ASSUME NEW lo \in 0 .. N, NEW hi \in 0 .. N
        PROVE  value(lo, hi) = SearchStep(sorted, selection, search, <<lo, hi>>)
    <2>1. CASE ~(lo < hi)
      BY <2>1 DEF SearchStep
    <2>2. CASE lo < hi
      <3> DEFINE mid == (lo + hi) \div 2
      <3>1. mid \in Nat /\ lo <= mid /\ mid < hi
        BY <1>2, <2>2, Middle
      <3> HIDE DEF mid
      <3>2. mid \in 0 .. N /\ mid + 1 \in 0 .. N /\ mid + 1 \in 1 .. N
        BY <1>2, <3>1
      <3>3. sorted[mid + 1] < selection <=> mid + 1 <= c
        BY <1>1, <3>2 DEF CountsBelow
      <3>4. /\ search[<<mid + 1, hi>>] = value(mid + 1, hi)
            /\ search[<<lo, mid>>] = value(lo, mid)
        BY <3>2
      <3>5. mid + 1 <= c => value(lo, hi) = value(mid + 1, hi)
        BY <1>2, <2>2, <3>1
      <3>6. ~(mid + 1 <= c) => value(lo, hi) = value(lo, mid)
        BY <1>2, <2>2, <3>1
      <3> HIDE DEF search, value
      <3>7. SearchStep(sorted, selection, search, <<lo, hi>>)
              = IF sorted[mid + 1] < selection THEN search[<<mid + 1, hi>>]
                                               ELSE search[<<lo, mid>>]
        BY <2>2 DEF SearchStep, mid
      <3> QED
        BY <3>3, <3>4, <3>5, <3>6, <3>7
    <2> QED
      BY <2>1, <2>2
  <1>4. ASSUME NEW span \in (0 .. N) \X (0 .. N)
        PROVE  value(span[1], span[2])
                 = SearchStep(sorted, selection, search, span)
    <2>1. PICK lo \in 0 .. N, hi \in 0 .. N : span = <<lo, hi>>
      OBVIOUS
    <2> HIDE DEF value, search
    <2> QED
      BY <1>3, <2>1
  <1>5. search = [span \in (0 .. N) \X (0 .. N) |->
                    SearchStep(sorted, selection, search, span)]
    <2> HIDE DEF value
    <2> QED
      BY <1>4
  <1> HIDE DEF search
  <1> QED
    BY <1>5 DEF IsSearch

(* The binary search finds how many elements are below the selection.      *)
LEMMA LowerBoundFinds ==
  ASSUME NEW sorted \in Seq(Nat), Increasing(sorted), NEW selection \in Nat
  PROVE  CountsBelow(sorted, selection, LowerBound(sorted, selection))
  <1> DEFINE N == Len(sorted)
             search == CHOOSE f : IsSearch(sorted, selection, f)
  <1>1. PICK c : CountsBelow(sorted, selection, c)
    BY SomeAreBelow
  <1>2. N \in Nat /\ c \in 0 .. N
    BY <1>1 DEF CountsBelow
  <1>3. IsSearch(sorted, selection, search)
    BY SearchExists
  <1>4. LowerBound(sorted, selection) = search[<<0, N>>]
    BY DEF LowerBound, IsSearch, SearchStep
  <1> HIDE DEF search
  <1>5. ASSUME NEW lo \in 0 .. N, NEW hi \in 0 .. N
        PROVE  search[<<lo, hi>>]
                 = SearchStep(sorted, selection, search, <<lo, hi>>)
    BY <1>3 DEF IsSearch
  <1> DEFINE S == {d \in Nat : \A lo, hi \in 0 .. N :
                     lo <= c /\ c <= hi /\ hi - lo <= d => search[<<lo, hi>>] = c}
  <1>6. 0 \in S
    <2>1. ASSUME NEW lo \in 0 .. N, NEW hi \in 0 .. N,
                 lo <= c, c <= hi, hi - lo <= 0
          PROVE  search[<<lo, hi>>] = c
      <3>1. lo = c /\ ~(lo < hi)
        BY <1>2, <2>1
      <3> QED
        BY <1>5, <3>1 DEF SearchStep
    <2> QED
      BY <2>1
  <1>7. ASSUME NEW d \in Nat, d \in S PROVE d + 1 \in S
    <2>1. ASSUME NEW lo \in 0 .. N, NEW hi \in 0 .. N,
                 lo <= c, c <= hi, hi - lo <= d + 1
          PROVE  search[<<lo, hi>>] = c
      <3>1. CASE ~(lo < hi)
        <4>1. lo = c
          BY <1>2, <2>1, <3>1
        <4> QED
          BY <1>5, <3>1, <4>1 DEF SearchStep
      <3>2. CASE lo < hi
        <4> DEFINE mid == (lo + hi) \div 2
        <4>1. mid \in Nat /\ lo <= mid /\ mid < hi
          BY <1>2, <3>2, Middle
        <4>2. search[<<lo, hi>>]
                = IF sorted[mid + 1] < selection THEN search[<<mid + 1, hi>>]
                                                 ELSE search[<<lo, mid>>]
          BY <1>5, <3>2 DEF SearchStep
        <4> HIDE DEF mid
        <4>3. mid \in 0 .. N /\ mid + 1 \in 0 .. N /\ mid + 1 \in 1 .. N
          BY <1>2, <4>1
        <4>4. sorted[mid + 1] < selection <=> mid + 1 <= c
          BY <1>1, <4>3 DEF CountsBelow
        <4>5. hi - (mid + 1) <= d /\ mid - lo <= d
          BY <1>2, <2>1, <4>1
        <4>6. CASE mid + 1 <= c
          BY <1>7, <2>1, <4>2, <4>3, <4>4, <4>5, <4>6
        <4>7. CASE ~(mid + 1 <= c)
          <5>1. c <= mid
            BY <1>2, <4>1, <4>7
          <5> QED
            BY <1>7, <2>1, <4>2, <4>3, <4>4, <4>5, <4>7, <5>1
        <4> QED
          BY <4>6, <4>7
      <3> QED
        BY <3>1, <3>2
    <2> QED
      BY <2>1
  <1> HIDE DEF S
  <1>8. N \in S
    BY <1>2, <1>6, <1>7, Induction
  <1>9. search[<<0, N>>] = c
    <2>1. 0 \in 0 .. N /\ N \in 0 .. N /\ 0 <= c /\ c <= N /\ N - 0 <= N
      BY <1>2
    <2> QED
      BY <1>8, <2>1 DEF S
  <1> QED
    BY <1>1, <1>4, <1>9

(* Whatever is selected, the subset stays sorted and without duplicates.   *)
LEMMA InsertionKeepsOrder ==
  ASSUME NEW sorted \in Seq(Leaves), Increasing(sorted), NEW selection \in Leaves
  PROVE  /\ InsertSelection(sorted, selection) \in Seq(Leaves)
         /\ Increasing(InsertSelection(sorted, selection))
         /\ Len(InsertSelection(sorted, selection)) <= Len(sorted) + 1
  <1> DEFINE N == Len(sorted)
             lo == LowerBound(sorted, selection)
             before == SubSeq(sorted, 1, lo)
             after == SubSeq(sorted, lo + 1, N)
             inserted == before \o <<selection>> \o after
  <1>1. /\ sorted \in Seq(Nat) /\ selection \in Nat /\ N \in Nat
        /\ \A n \in 1 .. N : sorted[n] \in Nat
    BY HeightTypes
  <1>2. \A m, n \in 1 .. N : m < n => sorted[m] < sorted[n]
    BY DEF Increasing
  <1>3. /\ lo \in 0 .. N
        /\ \A n \in 1 .. N : sorted[n] < selection <=> n <= lo
    BY <1>1, LowerBoundFinds DEF CountsBelow
  <1>4. InsertSelection(sorted, selection)
          = IF lo < N /\ sorted[lo + 1] = selection THEN sorted ELSE inserted
    BY DEF InsertSelection
  <1> HIDE DEF lo
  <1>5. CASE lo < N /\ sorted[lo + 1] = selection
    BY <1>1, <1>4, <1>5
  <1>6. CASE ~(lo < N /\ sorted[lo + 1] = selection)
    <2>1. /\ before \in Seq(Leaves) /\ Len(before) = lo
          /\ \A n \in 1 .. lo : before[n] = sorted[n]
      BY <1>1, <1>3
    <2>2. /\ after \in Seq(Leaves) /\ Len(after) = N - lo
          /\ \A n \in 1 .. N - lo : after[n] = sorted[lo + n]
      BY <1>1, <1>3
    <2> HIDE DEF before, after
    <2>3. /\ inserted \in Seq(Leaves) /\ Len(inserted) = N + 1
          /\ \A n \in 1 .. lo : inserted[n] = before[n]
          /\ inserted[lo + 1] = selection
          /\ \A n \in lo + 2 .. N + 1 : inserted[n] = after[n - (lo + 1)]
      BY <1>1, <1>3, <2>1, <2>2
    <2> HIDE DEF inserted, N
    <2>4. \A n \in 1 .. lo : inserted[n] = sorted[n] /\ n \in 1 .. N
      BY <1>1, <1>3, <2>1, <2>3
    <2>5. ASSUME NEW n \in lo + 2 .. N + 1
          PROVE  inserted[n] = sorted[n - 1] /\ n - 1 \in 1 .. N /\ lo < n - 1
      <3>1. n - (lo + 1) \in 1 .. N - lo /\ lo + (n - (lo + 1)) = n - 1
        BY <1>1, <1>3
      <3> QED
        BY <1>1, <1>3, <2>2, <2>3, <3>1
    <2>6. ASSUME NEW n \in 1 .. N, lo < n PROVE selection < sorted[n]
      <3>1. ~(sorted[n] < selection) /\ lo < N /\ lo + 1 \in 1 .. N
        BY <1>1, <1>3, <2>6
      <3>2. sorted[lo + 1] # selection /\ ~(sorted[lo + 1] < selection)
        BY <1>3, <1>6, <3>1
      <3>3. n = lo + 1 \/ sorted[lo + 1] < sorted[n]
        BY <1>1, <1>2, <1>3, <2>6, <3>1
      <3> QED
        BY <1>1, <3>1, <3>2, <3>3
    <2>7. ASSUME NEW m \in 1 .. N + 1, NEW n \in 1 .. N + 1, m < n
          PROVE  inserted[m] < inserted[n]
      <3>1. m \in 1 .. lo \/ m = lo + 1 \/ m \in lo + 2 .. N + 1
        BY <1>1, <1>3
      <3>2. n \in 1 .. lo \/ n = lo + 1 \/ n \in lo + 2 .. N + 1
        BY <1>1, <1>3
      <3>3. CASE n \in 1 .. lo
        <4>1. m \in 1 .. lo
          BY <1>3, <2>7, <3>3
        <4> QED
          BY <1>2, <2>4, <2>7, <3>3, <4>1
      <3>4. CASE n = lo + 1
        <4>1. m \in 1 .. lo
          BY <1>3, <2>7, <3>4
        <4> QED
          BY <1>3, <2>3, <2>4, <3>4, <4>1
      <3>5. CASE n \in lo + 2 .. N + 1
        <4>1. CASE m \in 1 .. lo
          <5>1. m < n - 1
            BY <1>1, <1>3, <3>5, <4>1
          <5> QED
            BY <1>2, <2>4, <2>5, <3>5, <4>1, <5>1
        <4>2. CASE m = lo + 1
          BY <2>3, <2>5, <2>6, <3>5, <4>2
        <4>3. CASE m \in lo + 2 .. N + 1
          <5>1. m - 1 < n - 1
            BY <1>1, <1>3, <2>7
          <5> QED
            BY <1>2, <2>5, <3>5, <4>3, <5>1
        <4> QED
          BY <3>1, <4>1, <4>2, <4>3
      <3> QED
        BY <3>2, <3>3, <3>4, <3>5
    <2>8. DOMAIN inserted = 1 .. N + 1
      BY <2>3
    <2> QED
      BY <1>1, <1>4, <1>6, <2>3, <2>7, <2>8 DEF Increasing, N
  <1> QED
    BY <1>5, <1>6

-----------------------------------------------------------------------------
(* THE WALK                                                                *)

(* A subset is sorted, and its elements are leaves.                        *)
LEMMA SubsetFacts ==
  ASSUME NEW S \in Subsets
  PROVE  /\ S \in Seq(Leaves) /\ Len(S) = SubsetSize
         /\ \A m \in 1 .. SubsetSize : S[m] \in Leaves /\ S[m] \in Nat
         /\ \A m, n \in 1 .. SubsetSize : m < n => S[m] < S[n]
         /\ \A m, n \in 1 .. SubsetSize : m <= n => S[m] <= S[n]
  <1>1. /\ S \in [1 .. SubsetSize -> Leaves]
        /\ \A m, n \in 1 .. SubsetSize : m < n => S[m] < S[n]
    BY DEF Subsets, Increasing
  <1>2. \A m \in 1 .. SubsetSize : S[m] \in Leaves /\ S[m] \in Nat
    BY <1>1, HeightTypes
  <1>3. S \in Seq(Leaves) /\ Len(S) = SubsetSize
    BY <1>1, HeightTypes
  <1>4. ASSUME NEW m \in 1 .. SubsetSize, NEW n \in 1 .. SubsetSize, m <= n
        PROVE  S[m] <= S[n]
    <2>1. m = n \/ m < n
      BY <1>4
    <2> QED
      BY <1>1, <1>2, <2>1
  <1> QED
    BY <1>1, <1>2, <1>3, <1>4

(* Where the path of a leaf and that of the next one merge.                *)
LEMMA ParkLevelMeets ==
  ASSUME NEW S \in Subsets, NEW m \in 1 .. SubsetSize - 1
  PROVE  /\ ParkLevel(S, m) \in 0 .. TreeHeight - 1
         /\ \A l \in 0 .. TreeHeight :
              PathAt(S[m], l) = PathAt(S[m + 1], l) <=> ParkLevel(S, m) < l
  <1>1. /\ m \in 1 .. SubsetSize /\ m + 1 \in 1 .. SubsetSize
        /\ m # SubsetSize /\ m < m + 1
    BY HeightTypes
  <1>2. /\ S[m] \in Leaves /\ S[m] \in Nat
        /\ S[m + 1] \in Leaves /\ S[m + 1] \in Nat /\ S[m] # S[m + 1]
    BY <1>1, SubsetFacts
  <1> DEFINE T == {l \in Nat : PathAt(S[m], l) = PathAt(S[m + 1], l)}
             Merges(l) == /\ PathAt(S[m], l) # PathAt(S[m + 1], l)
                          /\ PathAt(S[m], l + 1) = PathAt(S[m + 1], l + 1)
             p == CHOOSE l \in 0 .. TreeHeight - 1 : Merges(l)
  <1>3. TreeHeight \in T
    BY <1>2, PathsMeet, HeightTypes
  <1>4. 0 \notin T
    BY <1>2, PathStart
  <1>5. PICK q \in T : \A k \in T : q <= k
    <2>1. T \subseteq Nat /\ T # {}
      BY <1>3
    <2> HIDE DEF T
    <2> QED
      BY <2>1, LeastNatural
  <1>6. /\ q - 1 \in 0 .. TreeHeight - 1 /\ q - 1 \in Nat /\ (q - 1) + 1 = q
        /\ ~(q <= q - 1)
    BY <1>3, <1>4, <1>5, HeightTypes
  <1>7. Merges(q - 1)
    <2>1. q - 1 \notin T
      BY <1>5, <1>6
    <2> QED
      BY <1>5, <1>6, <2>1
  <1>8. p \in 0 .. TreeHeight - 1 /\ Merges(p)
    <2> HIDE DEF Merges
    <2> QED
      BY <1>6, <1>7
  <1>9. ParkLevel(S, m) = p
    BY <1>1 DEF ParkLevel
  <1> HIDE DEF p, T
  <1>10. ASSUME NEW l \in 0 .. TreeHeight
         PROVE  PathAt(S[m], l) = PathAt(S[m + 1], l) <=> p < l
    <2>1. l \in Nat /\ p \in Nat /\ p + 1 \in Nat
      BY <1>8, HeightTypes
    <2>2. CASE p < l
      <3>1. p + 1 <= l
        BY <2>1, <2>2
      <3> QED
        BY <1>2, <1>8, <2>1, <2>2, <3>1, Together
    <2>3. CASE ~(p < l)
      <3>1. l <= p
        BY <2>1, <2>3
      <3> QED
        BY <1>2, <1>8, <2>1, <2>3, <3>1, Together
    <2> QED
      BY <2>2, <2>3
  <1> QED
    BY <1>8, <1>9, <1>10

(* A park level is in the tree, and at the root only for the last leaf.    *)
LEMMA ParkLevelType ==
  ASSUME NEW S \in Subsets, NEW m \in 1 .. SubsetSize
  PROVE  /\ ParkLevel(S, m) \in 0 .. TreeHeight
         /\ m = SubsetSize => ParkLevel(S, m) = TreeHeight
         /\ m # SubsetSize => m \in 1 .. SubsetSize - 1
                              /\ ParkLevel(S, m) \in 0 .. TreeHeight - 1
  <1>1. m = SubsetSize \/ m \in 1 .. SubsetSize - 1
    BY HeightTypes
  <1>2. m = SubsetSize => ParkLevel(S, m) = TreeHeight
    BY DEF ParkLevel
  <1>3. \A n \in 1 .. SubsetSize - 1 : n # SubsetSize
    BY HeightTypes
  <1> QED
    BY <1>1, <1>2, <1>3, ParkLevelMeets, HeightTypes
(* A frontier with one slot changed.                                       *)
IsFrontier(d) == d = [l \in 0 .. TreeHeight |-> d[l]]

WithSlot(d, b, node) ==
  [l \in 0 .. TreeHeight |-> IF l = b THEN node ELSE d[l]]

LEMMA SlotChanged ==
  ASSUME NEW d, IsFrontier(d), NEW b, NEW node
  PROVE  [d EXCEPT ![b] = node] = WithSlot(d, b, node)
  BY DEF WithSlot, IsFrontier

-----------------------------------------------------------------------------
(* A walk, by its parts.                                                   *)
Walk(idx, level, node, frontier) ==
  [idx |-> idx, level |-> level, node |-> node, frontier |-> frontier]

(* The parts of a walk, and a walk with one part changed.                  *)
LEMMA WalkFields ==
  ASSUME NEW a, NEW b, NEW c, NEW d, NEW x
  PROVE  /\ Walk(a, b, c, d).idx = a /\ Walk(a, b, c, d).level = b
         /\ Walk(a, b, c, d).node = c /\ Walk(a, b, c, d).frontier = d
         /\ [Walk(a, b, c, d) EXCEPT !.idx = x] = Walk(x, b, c, d)
         /\ [Walk(a, b, c, d) EXCEPT !.level = x] = Walk(a, x, c, d)
         /\ [Walk(a, b, c, d) EXCEPT !.node = x] = Walk(a, b, x, d)
         /\ [Walk(a, b, c, d) EXCEPT !.frontier = x] = Walk(a, b, c, x)
  BY DEF Walk

(* The four steps, by what they make of the parts.                         *)
LEMMA RevealStep ==
  ASSUME NEW a, NEW b, NEW c, NEW d, NEW word
  PROVE  Reveal(Walk(a, b, c, d), word) = Walk(a, 0, Hash1(word), d)
  <1> DEFINE w == Walk(a, b, c, d)
             revealed == Hash1(word)
             w1 == [w EXCEPT !.node = revealed]
  <1>1. Reveal(w, word) = [w1 EXCEPT !.level = 0]
    BY DEF Reveal
  <1> HIDE DEF revealed
  <1>2. w1 = Walk(a, b, revealed, d)
    BY DEF Walk
  <1>3. [w1 EXCEPT !.level = 0] = Walk(a, 0, revealed, d)
    <2> HIDE DEF w1
    <2> QED
      BY <1>2 DEF Walk
  <1> QED
    BY <1>1, <1>3 DEF revealed

LEMMA ClimbStep ==
  ASSUME NEW a, NEW b, NEW c, NEW d, NEW i, NEW word
  PROVE  Climb(Walk(a, b, c, d), i, word)
           = Walk(a, b + 1, IF IsRight(i, b) THEN Hash2(word, c)
                                             ELSE Hash2(c, word), d)
  <1> DEFINE w == Walk(a, b, c, d)
             climbed == IF IsRight(i, b) THEN Hash2(word, c) ELSE Hash2(c, word)
             w1 == [w EXCEPT !.level = b + 1]
  <1>1. w.level = b /\ w.node = c
    BY WalkFields
  <1>2. Climb(w, i, word) = [w1 EXCEPT !.node = climbed]
    BY <1>1 DEF Climb
  <1> HIDE DEF climbed
  <1>3. w1 = Walk(a, b + 1, c, d)
    BY DEF Walk
  <1>4. [w1 EXCEPT !.node = climbed] = Walk(a, b + 1, climbed, d)
    <2> HIDE DEF w1
    <2> QED
      BY <1>3 DEF Walk
  <1> QED
    BY <1>2, <1>4 DEF climbed

LEMMA TakeParkedStep ==
  ASSUME NEW a, NEW b, NEW c, NEW d, IsFrontier(d)
  PROVE  TakeParked(Walk(a, b, c, d)) = Walk(a, b + 1, Hash2(d[b], c),
                                             WithSlot(d, b, Empty))
  <1> DEFINE w == Walk(a, b, c, d)
             above == Hash2(d[b], c)
             taken == WithSlot(d, b, Empty)
             w1 == [w EXCEPT !.level = b + 1]
             w2 == [w1 EXCEPT !.node = above]
  <1>1. w.level = b /\ w.node = c /\ w.frontier = d
    BY WalkFields
  <1>2. TakeParked(w) = [w2 EXCEPT !.frontier = [d EXCEPT ![b] = Empty]]
    BY <1>1 DEF TakeParked
  <1>6. [d EXCEPT ![b] = Empty] = taken
    BY SlotChanged
  <1> HIDE DEF above, taken
  <1>3. w1 = Walk(a, b + 1, c, d)
    BY DEF Walk
  <1>4. w2 = Walk(a, b + 1, above, d)
    <2> HIDE DEF w1
    <2> QED
      BY <1>3 DEF Walk
  <1>5. [w2 EXCEPT !.frontier = taken] = Walk(a, b + 1, above, taken)
    <2> HIDE DEF w2
    <2> QED
      BY <1>4 DEF Walk
  <1> QED
    BY <1>2, <1>5, <1>6 DEF above, taken

LEMMA ParkStep ==
  ASSUME NEW a, NEW b, NEW c, NEW d, IsFrontier(d)
  PROVE  Park(Walk(a, b, c, d)) = Walk(a + 1, Below, Empty,
                                       WithSlot(d, b, c))
  <1> DEFINE w == Walk(a, b, c, d)
             parked == WithSlot(d, b, c)
             w1 == [w EXCEPT !.frontier = [d EXCEPT ![b] = c]]
             w2 == [w1 EXCEPT !.node = Empty]
             w3 == [w2 EXCEPT !.idx = a + 1]
  <1>1. w.idx = a /\ w.level = b /\ w.node = c /\ w.frontier = d
    BY WalkFields
  <1>2. Park(w) = [w3 EXCEPT !.level = Below]
    BY <1>1 DEF Park
  <1>3. w1 = Walk(a, b, c, parked)
    <2>1. [d EXCEPT ![b] = c] = parked
      BY SlotChanged
    <2> HIDE DEF parked
    <2>2. [w EXCEPT !.frontier = parked] = Walk(a, b, c, parked)
      BY DEF Walk
    <2> QED
      BY <2>1, <2>2
  <1> HIDE DEF parked
  <1>4. w2 = Walk(a, b, Empty, parked)
    <2> HIDE DEF w1
    <2> QED
      BY <1>3 DEF Walk
  <1>5. w3 = Walk(a + 1, b, Empty, parked)
    <2> HIDE DEF w2
    <2> QED
      BY <1>4 DEF Walk
  <1>6. [w3 EXCEPT !.level = Below] = Walk(a + 1, Below, Empty, parked)
    <2> HIDE DEF w3
    <2> QED
      BY <1>5 DEF Walk
  <1> QED
    BY <1>2, <1>6 DEF parked

(* An earlier leaf has left a node at a level for leaf m's path.           *)
Waiting(S, m, l) ==
  /\ IsRight(S[m], l)
  /\ \E n \in 1 .. m - 1 : PathAt(S[n], l) = SiblingOf(PathAt(S[m], l))

(* What every walk is.                                                     *)
IsWalk(w) ==
  /\ w = Walk(w.idx, w.level, w.node, w.frontier)
  /\ IsFrontier(w.frontier)

(* Where a walk can be, whatever words it reads: what is parked is parked  *)
(* for the coming leaves.                                                  *)
Shape(S, w) ==
  /\ IsWalk(w)
  /\ w.idx \in 1 .. SubsetSize + 1
  /\ w.level \in Int
  /\ w.idx <= SubsetSize => w.level \in Below .. ParkLevel(S, w.idx)
  /\ w.idx > SubsetSize => w.level = Below
  /\ w.level # Below => w.node # Empty
  /\ \A l \in 0 .. TreeHeight :
       w.frontier[l] # Empty <=>
         IF w.idx > SubsetSize THEN l = TreeHeight
         ELSE l < TreeHeight /\ w.level <= l /\ Waiting(S, w.idx, l)

(* The step of the walk, given the word it may read.                       *)
Onward(S, w, word) ==
  IF w.level = Below THEN Reveal(w, word)
  ELSE IF w.level = ParkLevel(S, w.idx) THEN Park(w)
  ELSE IF NeedsWitness(w, S[w.idx]) THEN Climb(w, S[w.idx], word)
  ELSE TakeParked(w)

(* Whether the step takes a word.                                          *)
Reads(S, w) ==
  \/ w.level = Below
  \/ w.level < ParkLevel(S, w.idx) /\ NeedsWitness(w, S[w.idx])

(* What is put together from parts has them.                               *)
LEMMA WalkIs ==
  ASSUME NEW v, NEW a, NEW b, NEW c, NEW d, v = Walk(a, b, c, d), IsFrontier(d)
  PROVE  /\ IsWalk(v) /\ v.idx = a /\ v.level = b
         /\ v.node = c /\ v.frontier = d
  <1>1. v.idx = a /\ v.level = b /\ v.node = c /\ v.frontier = d
    BY WalkFields
  <1> QED
    BY <1>1 DEF IsWalk

(* A frontier with one slot changed is a frontier.                         *)
LEMMA SlotFrontier ==
  ASSUME NEW d, NEW b, NEW node
  PROVE  /\ IsFrontier(WithSlot(d, b, node))
         /\ \A l \in 0 .. TreeHeight :
              WithSlot(d, b, node)[l] = IF l = b THEN node ELSE d[l]
  BY DEF IsFrontier, WithSlot

(* What each of the steps makes of the parts of a walk.                    *)
LEMMA OnwardReveals ==
  ASSUME NEW S, NEW w, IsWalk(w), NEW word, w.level = Below,
         NEW v, v = Onward(S, w, word)
  PROVE  /\ IsWalk(v) /\ v.idx = w.idx /\ v.level = 0
         /\ v.node = Hash1(word) /\ v.frontier = w.frontier
  <1> DEFINE a == w.idx  b == w.level  c == w.node  d == w.frontier
  <1>1. w = Walk(a, b, c, d) /\ IsFrontier(d)
    BY DEF IsWalk
  <1>2. v = Reveal(w, word)
    BY DEF Onward
  <1> HIDE DEF a, b, c, d
  <1>3. v = Walk(a, 0, Hash1(word), d)
    BY <1>1, <1>2, RevealStep
  <1> QED
    BY <1>1, <1>3, WalkIs DEF a, d

LEMMA OnwardParks ==
  ASSUME NEW S, NEW w, IsWalk(w), NEW word,
         w.level # Below, w.level = ParkLevel(S, w.idx),
         NEW v, v = Onward(S, w, word)
  PROVE  /\ IsWalk(v) /\ v.idx = w.idx + 1 /\ v.level = Below /\ v.node = Empty
         /\ \A l \in 0 .. TreeHeight :
              v.frontier[l] = IF l = w.level THEN w.node ELSE w.frontier[l]
  <1> DEFINE a == w.idx  b == w.level  c == w.node  d == w.frontier
             parked == WithSlot(d, b, c)
  <1>1. w = Walk(a, b, c, d) /\ IsFrontier(d)
    BY DEF IsWalk
  <1>2. v = Park(w)
    BY DEF Onward
  <1>3. /\ IsFrontier(parked)
        /\ \A l \in 0 .. TreeHeight : parked[l] = IF l = b THEN c ELSE d[l]
    BY SlotFrontier
  <1> HIDE DEF a, b, c, d
  <1>4. v = Walk(a + 1, Below, Empty, parked)
    BY <1>1, <1>2, ParkStep
  <1> HIDE DEF parked
  <1>5. /\ IsWalk(v) /\ v.idx = a + 1 /\ v.level = Below /\ v.node = Empty
        /\ v.frontier = parked
    BY <1>3, <1>4, WalkIs
  <1> QED
    BY <1>3, <1>5 DEF a, b, c, d

LEMMA OnwardClimbs ==
  ASSUME NEW S, NEW w, IsWalk(w), NEW word,
         w.level # Below, w.level # ParkLevel(S, w.idx),
         NeedsWitness(w, S[w.idx]),
         NEW v, v = Onward(S, w, word)
  PROVE  /\ IsWalk(v) /\ v.idx = w.idx /\ v.level = w.level + 1
         /\ v.node = IF IsRight(S[w.idx], w.level) THEN Hash2(word, w.node)
                                                   ELSE Hash2(w.node, word)
         /\ v.frontier = w.frontier
  <1> DEFINE a == w.idx  b == w.level  c == w.node  d == w.frontier
             sum == IF IsRight(S[a], b) THEN Hash2(word, c) ELSE Hash2(c, word)
  <1>1. w = Walk(a, b, c, d) /\ IsFrontier(d)
    BY DEF IsWalk
  <1>2. v = Climb(w, S[a], word)
    BY DEF Onward
  <1> HIDE DEF a, b, c, d
  <1>3. v = Walk(a, b + 1, sum, d)
    BY <1>1, <1>2, ClimbStep
  <1> HIDE DEF sum
  <1>4. /\ IsWalk(v) /\ v.idx = a /\ v.level = b + 1 /\ v.node = sum
        /\ v.frontier = d
    BY <1>1, <1>3, WalkIs
  <1> QED
    BY <1>4 DEF a, b, c, d, sum

LEMMA OnwardTakes ==
  ASSUME NEW S, NEW w, IsWalk(w), NEW word,
         w.level # Below, w.level # ParkLevel(S, w.idx),
         ~NeedsWitness(w, S[w.idx]),
         NEW v, v = Onward(S, w, word)
  PROVE  /\ IsWalk(v) /\ v.idx = w.idx /\ v.level = w.level + 1
         /\ v.node = Hash2(w.frontier[w.level], w.node)
         /\ \A l \in 0 .. TreeHeight :
              v.frontier[l] = IF l = w.level THEN Empty ELSE w.frontier[l]
  <1> DEFINE a == w.idx  b == w.level  c == w.node  d == w.frontier
             taken == WithSlot(d, b, Empty)
             sum == Hash2(d[b], c)
  <1>1. w = Walk(a, b, c, d) /\ IsFrontier(d)
    BY DEF IsWalk
  <1>2. v = TakeParked(w)
    BY DEF Onward
  <1>3. /\ IsFrontier(taken)
        /\ \A l \in 0 .. TreeHeight : taken[l] = IF l = b THEN Empty ELSE d[l]
    BY SlotFrontier
  <1> HIDE DEF a, b, c, d
  <1>4. v = Walk(a, b + 1, sum, taken)
    BY <1>1, <1>2, TakeParkedStep
  <1> HIDE DEF taken, sum
  <1>5. /\ IsWalk(v) /\ v.idx = a /\ v.level = b + 1 /\ v.node = sum
        /\ v.frontier = taken
    BY <1>3, <1>4, WalkIs
  <1> QED
    BY <1>3, <1>5 DEF a, b, c, d, sum

(* The park level of leaf m as its neighbours see it.                      *)
LEMMA WaitingNext ==
  ASSUME NEW S \in Subsets, NEW m \in 1 .. SubsetSize - 1,
         NEW l \in 0 .. TreeHeight - 1
  PROVE  /\ l < ParkLevel(S, m) => ~Waiting(S, m + 1, l)
         /\ l = ParkLevel(S, m) => ~Waiting(S, m, l) /\ Waiting(S, m + 1, l)
         /\ ParkLevel(S, m) < l =>
              /\ PathAt(S[m + 1], l) = PathAt(S[m], l)
              /\ Waiting(S, m + 1, l) <=> Waiting(S, m, l)
  <1> DEFINE p == ParkLevel(S, m)
             i == S[m]
             j == S[m + 1]
  <1>1. /\ m \in 1 .. SubsetSize /\ m + 1 \in 1 .. SubsetSize /\ m < m + 1
        /\ m \in Nat /\ l \in Nat /\ l + 1 \in Nat
        /\ l \in 0 .. TreeHeight /\ l + 1 \in 0 .. TreeHeight
        /\ (m + 1) - 1 = m /\ m \in 1 .. m /\ 1 .. m = (1 .. m - 1) \cup {m}
    BY HeightTypes
  <1>2. i \in Nat /\ j \in Nat /\ i < j /\ i <= j
    BY <1>1, SubsetFacts
  <1>3. p \in 0 .. TreeHeight - 1 /\ p \in Nat
    BY ParkLevelMeets, HeightTypes
  <1>4. PathAt(i, l) = PathAt(j, l) <=> p < l
    BY <1>1, ParkLevelMeets
  <1>5. PathAt(i, l + 1) = PathAt(j, l + 1) <=> p < l + 1
    BY <1>1, ParkLevelMeets
  <1>6. PathAt(i, l) \in Nat /\ PathAt(j, l) \in Nat
    BY <1>1, <1>2, PathUp
  <1> HIDE DEF p, i, j
  <1>7. CASE l < p
    <2> SUFFICES ASSUME IsRight(j, l), NEW n \in 1 .. m,
                        PathAt(S[n], l) = SiblingOf(PathAt(j, l))
                 PROVE  FALSE
      BY <1>1, <1>3, <1>7 DEF Waiting, p, j
    <2>1. S[n] \in Nat /\ S[n] <= i /\ n \in 1 .. SubsetSize
      <3>1. n \in 1 .. SubsetSize /\ n <= m
        BY HeightTypes
      <3> QED
        BY <1>1, <3>1, SubsetFacts DEF i
    <2>2. PathAt(S[n], l + 1) = PathAt(j, l + 1)
      <3>1. SiblingOf(PathAt(j, l)) = PathAt(j, l) - 1 /\ PathAt(j, l) % 2 = 1
        BY <1>6 DEF IsRight, SiblingOf
      <3>2. (PathAt(j, l) - 1) \div 2 = PathAt(j, l) \div 2
        BY <1>6, <3>1
      <3>3. /\ PathAt(S[n], l + 1) = PathAt(S[n], l) \div 2
            /\ PathAt(j, l + 1) = PathAt(j, l) \div 2
        BY <1>1, <1>2, <2>1, PathUp
      <3> QED
        BY <3>1, <3>2, <3>3
    <2>3. /\ PathAt(S[n], l + 1) <= PathAt(i, l + 1)
          /\ PathAt(i, l + 1) <= PathAt(j, l + 1)
          /\ PathAt(i, l + 1) \in Nat /\ PathAt(j, l + 1) \in Nat
      BY <1>1, <1>2, <2>1, InOrder, PathUp
    <2>4. PathAt(i, l + 1) = PathAt(j, l + 1)
      BY <2>2, <2>3
    <2> QED
      BY <1>1, <1>3, <1>5, <1>7, <2>4
  <1>8. CASE l = p
    <2>1. PathAt(i, l) # PathAt(j, l) /\ PathAt(i, l + 1) = PathAt(j, l + 1)
      BY <1>1, <1>3, <1>4, <1>5, <1>8
    <2>2. ~IsRight(i, l) /\ IsRight(j, l) /\ SiblingOf(PathAt(j, l)) = PathAt(i, l)
      BY <1>1, <1>2, <2>1, Siblings
    <2> QED
      BY <1>1, <1>3, <1>8, <2>2 DEF Waiting, p, i, j
  <1>9. CASE p < l
    <2>1. PathAt(i, l) = PathAt(j, l)
      BY <1>4, <1>9
    <2>2. SiblingOf(PathAt(j, l)) # PathAt(i, l)
      BY <1>6, <2>1 DEF SiblingOf
    <2>3. IsRight(i, l) <=> IsRight(j, l)
      BY <2>1 DEF IsRight
    <2> QED
      BY <1>1, <1>3, <1>9, <2>1, <2>2, <2>3 DEF Waiting, p, i, j
  <1> QED
    BY <1>1, <1>3, <1>7, <1>8, <1>9 DEF p

(* What the shape of a walk says while there are leaves to come.           *)
LEMMA ShapeFacts ==
  ASSUME NEW S \in Subsets, NEW w, Shape(S, w), w.idx <= SubsetSize
  PROVE  /\ w.idx \in 1 .. SubsetSize /\ IsWalk(w) /\ S[w.idx] \in Leaves
         /\ ParkLevel(S, w.idx) \in 0 .. TreeHeight
         /\ w.level \in Below .. ParkLevel(S, w.idx)
         /\ w.level = Below \/ w.level \in 0 .. ParkLevel(S, w.idx)
         /\ w.level # Below => w.level \in 0 .. TreeHeight /\ w.node # Empty
         /\ \A l \in 0 .. TreeHeight :
              w.frontier[l] # Empty <=>
                l < TreeHeight /\ w.level <= l /\ Waiting(S, w.idx, l)
         /\ w.level # Below /\ w.level # ParkLevel(S, w.idx) =>
              /\ w.level \in 0 .. TreeHeight - 1
              /\ w.level < ParkLevel(S, w.idx)
              /\ NeedsWitness(w, S[w.idx]) <=> ~Waiting(S, w.idx, w.level)
              /\ NeedsWitness(w, S[w.idx]) <=> w.frontier[w.level] = Empty
              /\ ~NeedsWitness(w, S[w.idx]) => IsRight(S[w.idx], w.level)
  <1>1. w.idx \in 1 .. SubsetSize /\ ~(w.idx > SubsetSize) /\ IsWalk(w)
    BY HeightTypes DEF Shape
  <1>2. ParkLevel(S, w.idx) \in 0 .. TreeHeight /\ S[w.idx] \in Leaves
    BY <1>1, ParkLevelType, SubsetFacts
  <1>3. w.level \in Below .. ParkLevel(S, w.idx)
    BY DEF Shape
  <1>4. /\ w.level = Below \/ w.level \in 0 .. ParkLevel(S, w.idx)
        /\ w.level # Below => w.level \in 0 .. TreeHeight
    BY <1>2, <1>3, HeightTypes DEF Below
  <1>5. \A l \in 0 .. TreeHeight :
          w.frontier[l] # Empty <=>
            l < TreeHeight /\ w.level <= l /\ Waiting(S, w.idx, l)
    BY <1>1 DEF Shape
  <1>6. ASSUME w.level # Below, w.level # ParkLevel(S, w.idx)
        PROVE  /\ w.level \in 0 .. TreeHeight - 1
               /\ w.level < ParkLevel(S, w.idx)
               /\ NeedsWitness(w, S[w.idx]) <=> ~Waiting(S, w.idx, w.level)
               /\ NeedsWitness(w, S[w.idx]) <=> w.frontier[w.level] = Empty
               /\ ~NeedsWitness(w, S[w.idx]) => IsRight(S[w.idx], w.level)
    <2>1. /\ w.level \in 0 .. TreeHeight - 1 /\ w.level < ParkLevel(S, w.idx)
          /\ w.level \in 0 .. TreeHeight /\ w.level < TreeHeight
          /\ w.level <= w.level
      BY <1>2, <1>4, <1>6, HeightTypes
    <2>2. w.frontier[w.level] # Empty <=> Waiting(S, w.idx, w.level)
      BY <1>5, <2>1
    <2>3. Waiting(S, w.idx, w.level) => IsRight(S[w.idx], w.level)
      BY DEF Waiting
    <2> QED
      BY <2>1, <2>2, <2>3 DEF NeedsWitness
  <1>7. w.level # Below => w.node # Empty
    BY DEF Shape
  <1> QED
    BY <1>1, <1>2, <1>3, <1>4, <1>5, <1>6, <1>7

(* The walk keeps its shape, whatever word it reads.                       *)
LEMMA OnwardShape ==
  ASSUME NEW S \in Subsets, NEW w, Shape(S, w), w.idx <= SubsetSize, NEW word
  PROVE  Shape(S, Onward(S, w, word))
  <1> DEFINE v == Onward(S, w, word)
             a == w.idx
             b == w.level
             d == w.frontier
             p == ParkLevel(S, a)
  <1> SUFFICES Shape(S, v)
    OBVIOUS
  <1>1. /\ a \in 1 .. SubsetSize /\ IsWalk(w) /\ p \in 0 .. TreeHeight
        /\ b = Below \/ b \in 0 .. p
        /\ b # Below => b \in 0 .. TreeHeight /\ w.node # Empty
        /\ b # Below /\ b # p =>
              /\ b \in 0 .. TreeHeight - 1 /\ b < p
              /\ NeedsWitness(w, S[a]) <=> d[b] = Empty
    BY ShapeFacts
  <1>2. \A l \in 0 .. TreeHeight :
          d[l] # Empty <=> l < TreeHeight /\ b <= l /\ Waiting(S, a, l)
    BY ShapeFacts
  <1>3. b \in Int /\ a \in Int /\ TreeHeight \in Nat /\ SubsetSize \in Nat
    BY <1>1, HeightTypes DEF Shape
  <1>4. IsWalk(v)
    BY <1>1, OnwardReveals, OnwardParks, OnwardClimbs, OnwardTakes
  <1>5. CASE b = Below
    <2>1. v.idx = a /\ v.level = 0 /\ v.node = Hash1(word) /\ v.frontier = d
      BY <1>1, <1>5, OnwardReveals
    <2> HIDE DEF v, a, b, d, p
    <2>2. \A l \in 0 .. TreeHeight : b <= l <=> 0 <= l
      BY <1>5 DEF Below
    <2>3. 0 \in Below .. p /\ Hash1(word) # Empty /\ a <= SubsetSize
          /\ ~(a > SubsetSize) /\ a \in 1 .. SubsetSize + 1
      BY <1>1, <1>3, HashesDiffer DEF Below
    <2> QED
      BY <1>2, <1>4, <2>1, <2>2, <2>3 DEF Shape, p
  <1>6. CASE b # Below /\ b = p
    <2>1. v.idx = a + 1 /\ v.level = Below /\ v.node = Empty
      BY <1>1, <1>6, OnwardParks
    <2>2. \A l \in 0 .. TreeHeight :
            v.frontier[l] = IF l = b THEN w.node ELSE d[l]
      BY <1>1, <1>6, OnwardParks
    <2>3. a + 1 \in 1 .. SubsetSize + 1 /\ Below \in Int
      BY <1>1, <1>3 DEF Below
    <2>4. CASE a = SubsetSize
      <3>1. p = TreeHeight /\ a + 1 > SubsetSize
        BY <1>1, <1>3, <2>4, ParkLevelType
      <3> HIDE DEF v, a, b, d, p
      <3>2. ASSUME NEW l \in 0 .. TreeHeight
            PROVE  v.frontier[l] # Empty <=> l = TreeHeight
        <4>1. l # TreeHeight => ~(b <= l)
          BY <1>3, <1>6, <3>1
        <4> QED
          BY <1>1, <1>2, <1>6, <2>2, <3>1, <4>1
      <3> QED
        BY <1>3, <1>4, <2>1, <2>3, <3>1, <3>2 DEF Shape
    <2>5. CASE a # SubsetSize
      <3>1. a \in 1 .. SubsetSize - 1 /\ p \in 0 .. TreeHeight - 1
        BY <1>1, <2>5, ParkLevelType
      <3>2. /\ a + 1 \in 1 .. SubsetSize /\ a + 1 <= SubsetSize
            /\ ~(a + 1 > SubsetSize)
        BY <1>3, <3>1
      <3>3. Below \in Below .. ParkLevel(S, a + 1)
        <4>1. ParkLevel(S, a + 1) \in 0 .. TreeHeight
          BY <3>2, ParkLevelType
        <4> QED
          BY <4>1 DEF Below
      <3>4. ASSUME NEW l \in 0 .. TreeHeight
            PROVE  v.frontier[l] # Empty <=>
                     l < TreeHeight /\ Below <= l /\ Waiting(S, a + 1, l)
        <4>1. Below <= l
          BY DEF Below
        <4>2. CASE l = TreeHeight
          <5>1. l # b /\ ~(l < TreeHeight)
            BY <1>3, <1>6, <3>1, <4>2
          <5> QED
            BY <1>2, <2>2, <5>1
        <4>3. CASE l \in 0 .. TreeHeight - 1
          <5>0. l < TreeHeight /\ l # TreeHeight
            BY <1>3, <4>3
          <5>1. CASE l < p
            <6>1. ~(b <= l) /\ l # b
              BY <1>3, <1>6, <3>1, <5>1
            <6>2. ~Waiting(S, a + 1, l)
              BY <3>1, <4>3, <5>1, WaitingNext
            <6> QED
              BY <1>2, <2>2, <6>1, <6>2
          <5>2. CASE l = p
            <6>1. Waiting(S, a + 1, l)
              BY <3>1, <4>3, <5>2, WaitingNext
            <6> QED
              BY <1>1, <1>6, <2>2, <4>1, <5>0, <5>2, <6>1
          <5>3. CASE p < l
            <6>1. b <= l /\ l # b
              BY <1>3, <1>6, <3>1, <5>3
            <6>2. Waiting(S, a + 1, l) <=> Waiting(S, a, l)
              BY <3>1, <4>3, <5>3, WaitingNext
            <6> QED
              BY <1>2, <2>2, <4>1, <5>0, <6>1, <6>2
          <5>4. p \in Int /\ l \in Int
            BY <3>1
          <5>5. l < p \/ l = p \/ p < l
            <6> HIDE DEF p
            <6> QED
              BY <5>4
          <5> QED
            BY <5>1, <5>2, <5>3, <5>5
        <4>4. l = TreeHeight \/ l \in 0 .. TreeHeight - 1
          BY <1>3
        <4> QED
          BY <4>2, <4>3, <4>4
      <3> HIDE DEF v, a, b, d, p
      <3> QED
        BY <1>4, <2>1, <2>3, <3>2, <3>3, <3>4 DEF Shape
    <2> QED
      BY <2>4, <2>5
  <1>7. CASE b # Below /\ b # p
    <2>1. v.idx = a /\ v.level = b + 1 /\ v.node # Empty
      <3>1. CASE NeedsWitness(w, S[a])
        <4>1. /\ v.idx = a /\ v.level = b + 1
              /\ v.node = IF IsRight(S[a], b) THEN Hash2(word, w.node)
                                              ELSE Hash2(w.node, word)
          BY <1>1, <1>7, <3>1, OnwardClimbs
        <4> QED
          BY <4>1, HashesDiffer
      <3>2. CASE ~NeedsWitness(w, S[a])
        BY <1>1, <1>7, <3>2, OnwardTakes, HashesDiffer
      <3> QED
        BY <3>1, <3>2
    <2>2. \A l \in 0 .. TreeHeight :
            v.frontier[l] = IF l = b THEN Empty ELSE d[l]
      <3>1. CASE NeedsWitness(w, S[a])
        <4>1. v.frontier = d
          BY <1>1, <1>7, <3>1, OnwardClimbs
        <4> QED
          BY <1>1, <1>7, <3>1, <4>1
      <3>2. CASE ~NeedsWitness(w, S[a])
        BY <1>1, <1>7, <3>2, OnwardTakes
      <3> QED
        BY <3>1, <3>2
    <2> HIDE DEF v, a, b, d, p
    <2>3. /\ b + 1 \in Below .. p /\ b + 1 \in Int /\ a <= SubsetSize
          /\ ~(a > SubsetSize) /\ a \in 1 .. SubsetSize + 1
      BY <1>1, <1>3, <1>7 DEF Below
    <2>4. ASSUME NEW l \in 0 .. TreeHeight
          PROVE  v.frontier[l] # Empty <=>
                   l < TreeHeight /\ b + 1 <= l /\ Waiting(S, a, l)
      <3>1. b + 1 <= l <=> b <= l /\ l # b
        BY <1>3
      <3> QED
        BY <1>2, <2>2, <3>1
    <2> QED
      BY <1>4, <2>1, <2>3, <2>4 DEF Shape, p
  <1> QED
    BY <1>5, <1>6, <1>7

(* The word that a walk over S in the tree of epoch e ought to read.       *)
WordAt(S, e, m, l) ==
  IF l = Below THEN Preimage(e, S[m]) ELSE SiblingAt(EpochTree[e], S[m], l)

(* What ought to be in a slot of the frontier.                             *)
SlotAt(S, e, m, l) ==
  IF m > SubsetSize THEN EpochTree[e][TreeHeight][0]
                    ELSE SiblingAt(EpochTree[e], S[m], l)

(* Every node the walk holds is the tree's.                                *)
Authentic(S, e, w) ==
  /\ w.level # Below =>
       w.node = EpochTree[e][w.level][PathAt(S[w.idx], w.level)]
  /\ \A l \in 0 .. TreeHeight :
       w.frontier[l] # Empty => w.frontier[l] = SlotAt(S, e, w.idx, l)

(* A step is right if, and only if, what it started from and what it read  *)
(* are.                                                                    *)
LEMMA OnwardAuthentic ==
  ASSUME NEW S \in Subsets, NEW e \in Epochs, NEW w, Shape(S, w),
         w.idx <= SubsetSize, NEW word
  PROVE  Authentic(S, e, Onward(S, w, word))
           <=> /\ Authentic(S, e, w)
               /\ Reads(S, w) => word = WordAt(S, e, w.idx, w.level)
  <1> DEFINE v == Onward(S, w, word)
             a == w.idx
             b == w.level
             c == w.node
             d == w.frontier
             i == S[a]
             p == ParkLevel(S, a)
             tree == EpochTree[e]
             OK(l) == d[l] # Empty => d[l] = SlotAt(S, e, a, l)
             VOK(l) == v.frontier[l] # Empty => v.frontier[l] = SlotAt(S, e, v.idx, l)
  <1> SUFFICES Authentic(S, e, v)
           <=> /\ Authentic(S, e, w)
               /\ Reads(S, w) => word = WordAt(S, e, a, b)
    OBVIOUS
  <1>1. /\ a \in 1 .. SubsetSize /\ IsWalk(w) /\ p \in 0 .. TreeHeight
        /\ i \in Leaves
        /\ b = Below \/ b \in 0 .. p
        /\ b # Below => b \in 0 .. TreeHeight /\ c # Empty
        /\ b # Below /\ b # p =>
              /\ b \in 0 .. TreeHeight - 1 /\ b < p
              /\ NeedsWitness(w, i) <=> d[b] = Empty
              /\ ~NeedsWitness(w, i) => IsRight(i, b)
    BY ShapeFacts
  <1>2. \A l \in 0 .. TreeHeight :
          d[l] # Empty <=> l < TreeHeight /\ b <= l /\ Waiting(S, a, l)
    BY ShapeFacts
  <1>3. /\ b \in Int /\ a \in Int /\ TreeHeight \in Nat /\ SubsetSize \in Nat
        /\ ~(a > SubsetSize) /\ i \in Nat
    BY <1>1, HeightTypes DEF Shape
  <1>4. Authentic(S, e, w) <=>
          /\ b # Below => c = tree[b][PathAt(i, b)]
          /\ \A l \in 0 .. TreeHeight : OK(l)
    BY DEF Authentic
  <1>5. Authentic(S, e, v) <=>
          /\ v.level # Below => v.node = tree[v.level][PathAt(S[v.idx], v.level)]
          /\ \A l \in 0 .. TreeHeight : VOK(l)
    BY DEF Authentic
  <1>6. \A l \in 0 .. TreeHeight : SlotAt(S, e, a, l) = SiblingAt(tree, i, l)
    BY <1>3 DEF SlotAt
  <1>7. CASE b = Below
    <2>1. v.idx = a /\ v.level = 0 /\ v.node = Hash1(word) /\ v.frontier = d
      BY <1>1, <1>7, OnwardReveals
    <2>2. Hash1(word) = tree[0][PathAt(i, 0)] <=> word = Preimage(e, i)
      BY <1>1, EpochTreeStep
    <2>3. Reads(S, w) /\ WordAt(S, e, a, b) = Preimage(e, i) /\ 0 # Below
      BY <1>7 DEF Reads, WordAt, Below
    <2>4. \A l \in 0 .. TreeHeight : VOK(l) <=> OK(l)
      BY <2>1
    <2>5. /\ v.level # Below
          /\ v.node = tree[v.level][PathAt(S[v.idx], v.level)]
               <=> word = Preimage(e, i)
      BY <2>1, <2>2, <2>3
    <2> HIDE DEF v, a, b, c, d, i, p, tree, OK, VOK
    <2> QED
      BY <1>4, <1>5, <1>7, <2>3, <2>4, <2>5
  <1>8. CASE b # Below /\ b = p
    <2>1. v.idx = a + 1 /\ v.level = Below
      BY <1>1, <1>8, OnwardParks
    <2>2. \A l \in 0 .. TreeHeight :
            v.frontier[l] = IF l = b THEN c ELSE d[l]
      BY <1>1, <1>8, OnwardParks
    <2>3. ~Reads(S, w) /\ b \in 0 .. TreeHeight
      BY <1>1, <1>3, <1>8 DEF Reads
    <2>4. ASSUME NEW l \in 0 .. TreeHeight, l # b, d[l] # Empty
          PROVE  /\ a # SubsetSize
                 /\ SlotAt(S, e, a + 1, l) = SlotAt(S, e, a, l)
      <3>1. l < TreeHeight /\ b <= l
        BY <1>2, <2>4
      <3>2. a # SubsetSize
        <4>1. a = SubsetSize => p = TreeHeight
          BY <1>1, ParkLevelType
        <4> QED
          BY <1>3, <1>8, <3>1, <4>1
      <3>3. a \in 1 .. SubsetSize - 1
        BY <1>1, <3>2, ParkLevelType
      <3>4. p < l /\ l \in 0 .. TreeHeight - 1
        BY <1>3, <1>8, <2>4, <3>1
      <3>5. PathAt(S[a + 1], l) = PathAt(i, l)
        BY <3>3, <3>4, WaitingNext
      <3>6. ~(a + 1 > SubsetSize)
        BY <3>3, <1>3
      <3> QED
        BY <1>3, <3>2, <3>5, <3>6 DEF SlotAt, SiblingAt
    <2>5. SlotAt(S, e, a + 1, b) = tree[b][PathAt(i, b)]
      <3>1. CASE a = SubsetSize
        <4>1. b = TreeHeight
          BY <1>1, <1>8, <3>1, ParkLevelType
        <4>2. PathAt(i, TreeHeight) = 0
          BY <1>1, PathsMeet, HeightTypes
        <4>3. a + 1 > SubsetSize
          BY <1>3, <3>1
        <4> QED
          BY <4>1, <4>2, <4>3 DEF SlotAt
      <3>2. CASE a # SubsetSize
        <4>1. a \in 1 .. SubsetSize - 1 /\ p \in 0 .. TreeHeight - 1
          BY <1>1, <3>2, ParkLevelType
        <4>2. ~(a + 1 > SubsetSize)
          BY <1>3, <4>1
        <4>3. /\ PathAt(i, p) # PathAt(S[a + 1], p)
              /\ PathAt(i, p + 1) = PathAt(S[a + 1], p + 1)
          <5>1. /\ p \in 0 .. TreeHeight /\ p + 1 \in 0 .. TreeHeight
                /\ p < p + 1 /\ ~(p < p)
            BY <1>3, <4>1
          <5> QED
            BY <4>1, <5>1, ParkLevelMeets
        <4>4. i <= S[a + 1] /\ S[a + 1] \in Nat
          <5>1. /\ a \in 1 .. SubsetSize /\ a + 1 \in 1 .. SubsetSize
                /\ a <= a + 1
            BY <1>3, <4>1
          <5> QED
            BY <5>1, SubsetFacts
        <4>5. SiblingOf(PathAt(S[a + 1], p)) = PathAt(i, p)
          <5>1. p \in Nat
            BY <1>3, <4>1
          <5> HIDE DEF p, i
          <5> QED
            BY <1>3, <4>3, <4>4, <5>1, Siblings
        <4> QED
          BY <1>8, <4>2, <4>5 DEF SlotAt, SiblingAt
      <3> QED
        BY <3>1, <3>2
    <2>6. VOK(b) <=> c = tree[b][PathAt(i, b)]
      BY <1>1, <1>8, <2>1, <2>2, <2>3, <2>5
    <2>7. OK(b)
      <3>1. d[b] = Empty
        <4>1. CASE a = SubsetSize
          <5>1. b = TreeHeight
            BY <1>1, <1>8, <4>1, ParkLevelType
          <5> QED
            BY <1>2, <1>3, <2>3, <5>1
        <4>2. CASE a # SubsetSize
          <5>1. a \in 1 .. SubsetSize - 1 /\ p \in 0 .. TreeHeight - 1
            BY <1>1, <4>2, ParkLevelType
          <5>2. ~Waiting(S, a, p)
            BY <5>1, WaitingNext
          <5> QED
            BY <1>2, <1>8, <2>3, <5>2
        <4> QED
          BY <4>1, <4>2
      <3> QED
        BY <3>1
    <2>8. ASSUME NEW l \in 0 .. TreeHeight, l # b
          PROVE  VOK(l) <=> OK(l)
      <3>1. v.frontier[l] = d[l]
        BY <2>2, <2>8
      <3>2. d[l] # Empty => SlotAt(S, e, a + 1, l) = SlotAt(S, e, a, l)
        BY <2>4, <2>8
      <3> QED
        BY <2>1, <3>1, <3>2
    <2> HIDE DEF v, a, b, c, d, i, p, tree, OK, VOK
    <2> QED
      BY <1>4, <1>5, <1>8, <2>1, <2>3, <2>6, <2>7, <2>8
  <1>9. CASE b # Below /\ b # p /\ NeedsWitness(w, i)
    <2>1. /\ v.idx = a /\ v.level = b + 1 /\ v.frontier = d
          /\ v.node = IF IsRight(i, b) THEN Hash2(word, c) ELSE Hash2(c, word)
      BY <1>1, <1>9, OnwardClimbs
    <2>2. tree[b + 1][PathAt(i, b + 1)]
            = (IF IsRight(i, b) THEN Hash2(word, c) ELSE Hash2(c, word))
            <=> c = tree[b][PathAt(i, b)] /\ word = SiblingAt(tree, i, b)
      BY <1>1, <1>9, EpochTreeStep
    <2>3. /\ Reads(S, w) /\ WordAt(S, e, a, b) = SiblingAt(tree, i, b)
          /\ b + 1 # Below
      BY <1>1, <1>9 DEF Reads, WordAt, Below
    <2>4. \A l \in 0 .. TreeHeight : VOK(l) <=> OK(l)
      BY <2>1
    <2>5. /\ v.level # Below
          /\ v.node = tree[v.level][PathAt(S[v.idx], v.level)]
               <=> c = tree[b][PathAt(i, b)] /\ word = SiblingAt(tree, i, b)
      BY <2>1, <2>2, <2>3
    <2> HIDE DEF v, a, b, c, d, i, p, tree, OK, VOK
    <2> QED
      BY <1>4, <1>5, <1>9, <2>3, <2>4, <2>5
  <1>10. CASE b # Below /\ b # p /\ ~NeedsWitness(w, i)
    <2>1. v.idx = a /\ v.level = b + 1 /\ v.node = Hash2(d[b], c)
      BY <1>1, <1>10, OnwardTakes
    <2>2. \A l \in 0 .. TreeHeight :
            v.frontier[l] = IF l = b THEN Empty ELSE d[l]
      BY <1>1, <1>10, OnwardTakes
    <2>3. /\ IsRight(i, b) /\ d[b] # Empty /\ b \in 0 .. TreeHeight
          /\ b \in 0 .. TreeHeight - 1
      BY <1>1, <1>10
    <2>4. tree[b + 1][PathAt(i, b + 1)] = Hash2(d[b], c)
            <=> c = tree[b][PathAt(i, b)] /\ d[b] = SiblingAt(tree, i, b)
      <3>1. tree[b + 1][PathAt(i, b + 1)]
              = (IF IsRight(i, b) THEN Hash2(d[b], c) ELSE Hash2(c, d[b]))
              <=> c = tree[b][PathAt(i, b)] /\ d[b] = SiblingAt(tree, i, b)
        BY <1>1, <2>3, EpochTreeStep
      <3> QED
        BY <2>3, <3>1
    <2>5. ~Reads(S, w) /\ b + 1 # Below
      BY <1>1, <1>10 DEF Reads, Below
    <2>6. OK(b) <=> d[b] = SiblingAt(tree, i, b)
      BY <1>6, <2>3
    <2>7. VOK(b) /\ \A l \in 0 .. TreeHeight : l # b => (VOK(l) <=> OK(l))
      BY <2>1, <2>2, <2>3
    <2>8. /\ v.level # Below
          /\ v.node = tree[v.level][PathAt(S[v.idx], v.level)]
               <=> c = tree[b][PathAt(i, b)] /\ d[b] = SiblingAt(tree, i, b)
      BY <2>1, <2>4, <2>5
    <2> HIDE DEF v, a, b, c, d, i, p, tree, OK, VOK
    <2> QED
      BY <1>4, <1>5, <1>10, <2>3, <2>5, <2>6, <2>7, <2>8
  <1> QED
    BY <1>7, <1>8, <1>9, <1>10

-----------------------------------------------------------------------------
(* THE WORDS OF A WALK                                                     *)

(* Where the walk reads: before each leaf, and at the levels where no      *)
(* node waits.                                                             *)
Needs(S, m, l) ==
  l = Below \/ (l < ParkLevel(S, m) /\ ~Waiting(S, m, l))

Stops == (1 .. SubsetSize) \X (Below .. TreeHeight - 1)

Words(S) == {q \in Stops : Needs(S, q[1], q[2])}

Before(S, m, l) == {q \in Words(S) : q[1] < m \/ (q[1] = m /\ q[2] < l)}

(* The place of a word in the signature.                                   *)
Position(S, q) == Cardinality(Before(S, q[1], q[2])) + 1

(* The places where a walk can read.                                       *)
LEMMA StopFacts ==
  /\ IsFiniteSet(Stops) /\ Below = -1
  /\ \A q \in Stops : /\ q = <<q[1], q[2]>> /\ q[1] \in 1 .. SubsetSize
                      /\ q[2] \in Below .. TreeHeight - 1
                      /\ q[1] \in Int /\ q[2] \in Int
  /\ \A m \in 1 .. SubsetSize, l \in Below .. TreeHeight - 1 :
       <<m, l>> \in Stops /\ <<m, l>>[1] = m /\ <<m, l>>[2] = l
  <1>1. Below = -1 /\ Below \in Int /\ TreeHeight - 1 \in Int /\ SubsetSize \in Int
    BY HeightTypes DEF Below
  <1>2. IsFiniteSet(1 .. SubsetSize) /\ IsFiniteSet(Below .. TreeHeight - 1)
    BY <1>1, FS_Interval
  <1>3. IsFiniteSet(Stops)
    BY <1>2, FS_Product DEF Stops
  <1>4. ASSUME NEW q \in Stops
        PROVE  /\ q = <<q[1], q[2]>> /\ q[1] \in 1 .. SubsetSize
               /\ q[2] \in Below .. TreeHeight - 1
               /\ q[1] \in Int /\ q[2] \in Int
    BY <1>1 DEF Stops
  <1> QED
    BY <1>1, <1>3, <1>4 DEF Stops

(* There are finitely many words.                                          *)
LEMMA WordsFinite ==
  ASSUME NEW S, NEW m, NEW l
  PROVE  /\ IsFiniteSet(Words(S)) /\ Cardinality(Words(S)) \in Nat
         /\ IsFiniteSet(Before(S, m, l)) /\ Cardinality(Before(S, m, l)) \in Nat
         /\ Before(S, m, l) \subseteq Words(S) /\ Words(S) \subseteq Stops
         /\ Cardinality(Before(S, m, l)) <= Cardinality(Words(S))
  <1>1. Before(S, m, l) \in SUBSET Words(S) /\ Words(S) \in SUBSET Stops
    BY DEF Before, Words
  <1>2. IsFiniteSet(Words(S))
    BY <1>1, StopFacts, FS_Subset
  <1> QED
    BY <1>1, <1>2, FS_Subset, FS_CardinalityType

(* The words that come before a place have the positions up to it.         *)
LEMMA PositionBefore ==
  ASSUME NEW S, NEW m \in Int, NEW l \in Int, NEW q \in Before(S, m, l)
  PROVE  /\ Position(S, q) \in 1 .. Cardinality(Before(S, m, l))
         /\ q \in Words(S) /\ q \in Stops
  <1> DEFINE A == Before(S, q[1], q[2])
             B == Before(S, m, l)
  <1>1. q \in Words(S) /\ q \in Stops /\ q[1] \in Int /\ q[2] \in Int
    BY WordsFinite, StopFacts
  <1>2. q \notin A
    BY <1>1 DEF Before
  <1>3. A \cup {q} \in SUBSET B
    <2>1. ASSUME NEW r \in A PROVE r \in B
      <3>1. r \in Words(S) /\ r[1] \in Int /\ r[2] \in Int
        BY WordsFinite, StopFacts
      <3>2. /\ r[1] < q[1] \/ (r[1] = q[1] /\ r[2] < q[2])
            /\ q[1] < m \/ (q[1] = m /\ q[2] < l)
        BY DEF Before
      <3>3. r[1] < m \/ (r[1] = m /\ r[2] < l)
        BY <1>1, <3>1, <3>2
      <3> QED
        BY <3>1, <3>3 DEF Before
    <2> QED
      BY <2>1
  <1>4. /\ IsFiniteSet(A) /\ IsFiniteSet(B) /\ Cardinality(A) \in Nat
        /\ Cardinality(B) \in Nat
    BY WordsFinite
  <1>5. Position(S, q) = Cardinality(A) + 1
    BY DEF Position
  <1> HIDE DEF A, B
  <1>6. Cardinality(A \cup {q}) = Cardinality(A) + 1
    BY <1>2, <1>4, FS_AddElement
  <1>7. Cardinality(A \cup {q}) <= Cardinality(B)
    BY <1>3, <1>4, FS_Subset
  <1>8. Cardinality(A) + 1 \in 1 .. Cardinality(B)
    BY <1>4, <1>6, <1>7
  <1> QED
    BY <1>1, <1>5, <1>8 DEF B

(* Different words have different positions.                               *)
LEMMA PositionsDiffer ==
  ASSUME NEW S, NEW q \in Words(S), NEW r \in Words(S), q # r
  PROVE  Position(S, q) # Position(S, r)
  <1>1. /\ q = <<q[1], q[2]>> /\ q[1] \in Int /\ q[2] \in Int
        /\ r = <<r[1], r[2]>> /\ r[1] \in Int /\ r[2] \in Int
    BY WordsFinite, StopFacts
  <1>2. q[1] # r[1] \/ q[2] # r[2]
    BY <1>1
  <1>3. q \in Before(S, r[1], r[2]) \/ r \in Before(S, q[1], q[2])
    BY <1>1, <1>2 DEF Before
  <1>4. /\ Cardinality(Before(S, q[1], q[2])) \in Nat
        /\ Cardinality(Before(S, r[1], r[2])) \in Nat
    BY WordsFinite
  <1>5. CASE q \in Before(S, r[1], r[2])
    <2>1. Position(S, q) \in 1 .. Cardinality(Before(S, r[1], r[2]))
      BY <1>1, <1>5, PositionBefore
    <2>2. Position(S, r) = Cardinality(Before(S, r[1], r[2])) + 1
      BY DEF Position
    <2> QED
      BY <1>4, <2>1, <2>2
  <1>6. CASE r \in Before(S, q[1], q[2])
    <2>1. Position(S, r) \in 1 .. Cardinality(Before(S, q[1], q[2]))
      BY <1>1, <1>6, PositionBefore
    <2>2. Position(S, q) = Cardinality(Before(S, q[1], q[2])) + 1
      BY DEF Position
    <2> QED
      BY <1>4, <2>1, <2>2
  <1> QED
    BY <1>3, <1>5, <1>6

(* The first and the last place of a walk.                                 *)
LEMMA BeforeEnds ==
  ASSUME NEW S
  PROVE  /\ Before(S, 1, Below) = {} /\ Cardinality(Before(S, 1, Below)) = 0
         /\ Before(S, SubsetSize + 1, Below) = Words(S)
  <1>1. ASSUME NEW q \in Words(S)
        PROVE  /\ ~(q[1] < 1 \/ (q[1] = 1 /\ q[2] < Below))
               /\ q[1] < SubsetSize + 1
    <2>1. q[1] \in 1 .. SubsetSize /\ q[2] \in Below .. TreeHeight - 1
      BY WordsFinite, StopFacts
    <2> QED
      BY <2>1, StopFacts, HeightTypes
  <1>2. Before(S, 1, Below) = {}
    BY <1>1 DEF Before
  <1>3. Before(S, SubsetSize + 1, Below) = Words(S)
    BY <1>1 DEF Before
  <1> QED
    BY <1>2, <1>3, FS_EmptySet

(* A step leaves behind the word it reads, if it reads one.                *)
LEMMA OnwardBefore ==
  ASSUME NEW S \in Subsets, NEW w, Shape(S, w), w.idx <= SubsetSize, NEW word
  PROVE  LET v == Onward(S, w, word)
             old == Before(S, w.idx, w.level)
             new == Before(S, v.idx, v.level)
             q == <<w.idx, w.level>>
         IN  /\ w.idx \in Int /\ w.level \in Int /\ v.idx \in Int /\ v.level \in Int
             /\ Reads(S, w) =>
                  /\ q \in Words(S) /\ q \notin old /\ new = old \cup {q}
                  /\ Cardinality(new) = Cardinality(old) + 1
                  /\ Position(S, q) = Cardinality(old) + 1
             /\ ~Reads(S, w) => new = old
  <1> DEFINE v == Onward(S, w, word)
             a == w.idx
             b == w.level
             p == ParkLevel(S, a)
             old == Before(S, a, b)
             new == Before(S, v.idx, v.level)
             q == <<a, b>>
  <1>1. /\ a \in 1 .. SubsetSize /\ IsWalk(w) /\ p \in 0 .. TreeHeight
        /\ b = Below \/ b \in 0 .. p
        /\ b # Below /\ b # p =>
              /\ b \in 0 .. TreeHeight - 1 /\ b < p
              /\ NeedsWitness(w, S[a]) <=> ~Waiting(S, a, b)
    BY ShapeFacts
  <1>2. b \in Int /\ a \in Int /\ TreeHeight \in Nat /\ SubsetSize \in Nat
        /\ TreeHeight # 0
    BY <1>1, HeightTypes DEF Shape
  <1>3. ASSUME NEW r \in Words(S)
        PROVE  /\ r[1] \in Int /\ r[2] \in Int /\ r = <<r[1], r[2]>>
               /\ Below <= r[2] /\ Needs(S, r[1], r[2])
    <2>1. r \in Stops /\ Needs(S, r[1], r[2])
      BY DEF Words
    <2> QED
      BY <2>1, StopFacts, HeightTypes
  <1>4. CASE b # Below /\ b = p
    <2>1. v.idx = a + 1 /\ v.level = Below
      BY <1>1, <1>4, OnwardParks
    <2>2. ~Reads(S, w)
      BY <1>1, <1>2, <1>4 DEF Reads
    <2>3. ASSUME NEW r \in Words(S)
          PROVE  (r[1] < a + 1 \/ (r[1] = a + 1 /\ r[2] < Below))
                   <=> (r[1] < a \/ (r[1] = a /\ r[2] < b))
      <3>1. r[1] \in Int /\ r[2] \in Int /\ Below <= r[2] /\ Needs(S, r[1], r[2])
        BY <1>3
      <3>2. r[1] = a => r[2] < b
        <4> SUFFICES ASSUME r[1] = a PROVE r[2] < b
          OBVIOUS
        <4>1. r[2] = Below \/ r[2] < p
          BY <3>1 DEF Needs
        <4>2. Below < p
          BY <1>1, StopFacts
        <4> QED
          BY <1>4, <4>1, <4>2
      <3>3. ~(r[2] < Below)
        BY <3>1, StopFacts
      <3> HIDE DEF a, b
      <3>4. r[1] < a + 1 <=> r[1] < a \/ r[1] = a
        BY <1>2, <3>1
      <3> QED
        BY <3>2, <3>3, <3>4
    <2>4. new = old
      <3> HIDE DEF v, a, b
      <3> QED
        BY <2>1, <2>3 DEF Before
    <2>5. v.idx \in Int /\ v.level \in Int
      BY <1>2, <2>1, StopFacts
    <2> QED
      BY <1>2, <2>2, <2>4, <2>5
  <1>5. CASE b = Below \/ b # p
    <2>1. v.idx = a /\ v.level = b + 1
      <3>1. CASE b = Below
        <4>1. v.idx = a /\ v.level = 0
          BY <1>1, <3>1, OnwardReveals
        <4> QED
          BY <3>1, <4>1 DEF Below
      <3>2. CASE b # Below
        <4>1. CASE NeedsWitness(w, S[a])
          BY <1>1, <1>5, <3>2, <4>1, OnwardClimbs
        <4>2. CASE ~NeedsWitness(w, S[a])
          BY <1>1, <1>5, <3>2, <4>2, OnwardTakes
        <4> QED
          BY <4>1, <4>2
      <3> QED
        BY <3>1, <3>2
    <2>2. v.idx \in Int /\ v.level \in Int
      BY <1>2, <2>1
    <2>3. Reads(S, w) <=> Needs(S, a, b)
      BY <1>1, <1>5 DEF Reads, Needs
    <2>4. q \in Stops /\ q[1] = a /\ q[2] = b
      <3>1. b \in Below .. TreeHeight - 1
        BY <1>1, <1>2, <1>5, StopFacts
      <3> QED
        BY <1>1, <3>1, StopFacts
    <2>5. q \in Words(S) <=> Reads(S, w)
      BY <2>3, <2>4 DEF Words
    <2>6. ASSUME NEW r \in Words(S)
          PROVE  r \in new <=> r \in old \/ r = q
      <3>1. r[1] \in Int /\ r[2] \in Int /\ r = <<r[1], r[2]>>
        BY <1>3
      <3>2. r = q <=> r[1] = a /\ r[2] = b
        BY <2>4, <3>1
      <3>3. r \in new <=> r[1] < a \/ (r[1] = a /\ r[2] < b + 1)
        BY <2>1 DEF Before
      <3>4. r \in old <=> r[1] < a \/ (r[1] = a /\ r[2] < b)
        BY DEF Before
      <3> HIDE DEF a, b, new, old, q
      <3>5. r[2] < b + 1 <=> r[2] < b \/ r[2] = b
        BY <1>2, <3>1
      <3> QED
        BY <3>2, <3>3, <3>4, <3>5
    <2>7. old \subseteq Words(S) /\ new \subseteq Words(S)
      BY DEF Before
    <2>8. q \notin old
      BY <1>2, <2>4 DEF Before
    <2>9. IsFiniteSet(old) /\ Position(S, q) = Cardinality(old) + 1
      BY <2>4, WordsFinite DEF Position
    <2>10. CASE Reads(S, w)
      <3>1. q \in Words(S)
        BY <2>5, <2>10
      <3> HIDE DEF v, a, b, p, old, new, q
      <3>2. new = old \cup {q}
        BY <2>6, <2>7, <3>1
      <3>3. Cardinality(new) = Cardinality(old) + 1
        BY <2>8, <2>9, <3>2, FS_AddElement
      <3> QED
        BY <1>2, <2>2, <2>8, <2>9, <2>10, <3>1, <3>2, <3>3
           DEF v, a, b, p, old, new, q
    <2>11. CASE ~Reads(S, w)
      <3> HIDE DEF v, a, b, p, old, new, q
      <3>1. new = old
        BY <2>5, <2>6, <2>7, <2>11
      <3> QED
        BY <1>2, <2>2, <2>11, <3>1 DEF v, a, b, p, old, new, q
    <2> QED
      BY <2>10, <2>11
  <1> QED
    BY <1>4, <1>5

(* The words there are.                                                    *)
WordSet ==
  {Zero, Junk}
    \cup {Preimage(e, i) : e \in Epochs, i \in Leaves}
    \cup {EpochTree[e][l][k] : e \in Epochs, l \in 0 .. TreeHeight, k \in Int}
    \cup {XmssAuth(e)[n] : e \in Epochs, n \in 1 .. XmssHeight}

(* The words that belong before a place of the walk have been written, and *)
(* nothing else.                                                           *)
Written(S, e, words, m, l) ==
  /\ Len(words) = Cardinality(Before(S, m, l))
  /\ \A q \in Before(S, m, l) :
       words[Position(S, q)] = WordAt(S, e, q[1], q[2])
  /\ \A n \in 1 .. Len(words) : \E q \in Before(S, m, l) : Position(S, q) = n

(* The words before a place of the walk are those that belong there.       *)
WordOf(words, n) == IF n <= Len(words) THEN words[n] ELSE Zero

Matches(S, e, words, m, l) ==
  \A q \in Before(S, m, l) :
    WordOf(words, Position(S, q)) = WordAt(S, e, q[1], q[2])

(* A whole signature.                                                      *)
Complete(S, e, words) ==
  /\ Len(words) = Cardinality(Words(S)) + XmssHeight
  /\ \A q \in Words(S) : words[Position(S, q)] = WordAt(S, e, q[1], q[2])
  /\ \A n \in 1 .. XmssHeight :
       words[Cardinality(Words(S)) + n] = XmssAuth(e)[n]

(* Every position belongs to a word.                                       *)
Filled(S) ==
  \A n \in 1 .. Cardinality(Words(S)) : \E q \in Words(S) : Position(S, q) = n

(* What ought to be read is a word.                                        *)
LEMMA WordAtType ==
  ASSUME NEW S \in Subsets, NEW e \in Epochs, NEW q \in Stops
  PROVE  WordAt(S, e, q[1], q[2]) \in WordSet
  <1>1. q[1] \in 1 .. SubsetSize /\ q[2] \in Below .. TreeHeight - 1
    BY StopFacts
  <1>2. S[q[1]] \in Leaves /\ S[q[1]] \in Nat
    BY <1>1, SubsetFacts
  <1>3. CASE q[2] = Below
    <2>1. WordAt(S, e, q[1], q[2]) = Preimage(e, S[q[1]])
      BY <1>3 DEF WordAt
    <2> QED
      BY <1>2, <2>1 DEF WordSet
  <1>4. CASE q[2] # Below
    <2> DEFINE l == q[2]
               k == PathAt(S[q[1]], l)
    <2>1. l \in 0 .. TreeHeight /\ l \in Nat
      BY <1>1, <1>4, StopFacts, HeightTypes
    <2>2. k \in Nat
      BY <1>2, <2>1, PathUp
    <2>3. SiblingOf(k) \in Int
      <3> HIDE DEF k
      <3> QED
        BY <2>2 DEF SiblingOf
    <2>4. WordAt(S, e, q[1], q[2]) = EpochTree[e][l][SiblingOf(k)]
      BY <1>4 DEF WordAt, SiblingAt
    <2> HIDE DEF l, k
    <2> QED
      BY <2>1, <2>3, <2>4 DEF WordSet
  <1> QED
    BY <1>3, <1>4

(* Where every walk starts.                                                *)
LEMMA StartShape ==
  ASSUME NEW S \in Subsets, NEW e
  PROVE  /\ Shape(S, StartOfWalk) /\ Authentic(S, e, StartOfWalk)
         /\ StartOfWalk.idx = 1 /\ StartOfWalk.level = Below
  <1> DEFINE slots == [l \in 0 .. TreeHeight |-> Empty]
  <1>1. /\ StartOfWalk = Walk(1, Below, Empty, slots)
        /\ IsFrontier(slots) /\ \A l \in 0 .. TreeHeight : slots[l] = Empty
    BY DEF StartOfWalk, Walk, IsFrontier
  <1> HIDE DEF slots
  <1>2. /\ IsWalk(StartOfWalk) /\ StartOfWalk.idx = 1
        /\ StartOfWalk.level = Below /\ StartOfWalk.node = Empty
        /\ StartOfWalk.frontier = slots
    BY <1>1, WalkIs
  <1>3. 1 \in 1 .. SubsetSize /\ 1 \in 1 .. SubsetSize + 1 /\ ~(1 > SubsetSize)
    BY HeightTypes
  <1>4. ParkLevel(S, 1) \in 0 .. TreeHeight
    BY <1>3, ParkLevelType
  <1>5. Below \in Int /\ Below \in Below .. ParkLevel(S, 1)
    BY <1>4 DEF Below
  <1>6. \A l : ~Waiting(S, 1, l)
    BY DEF Waiting
  <1>7. Shape(S, StartOfWalk)
    BY <1>1, <1>2, <1>3, <1>5, <1>6 DEF Shape
  <1>8. Authentic(S, e, StartOfWalk)
    BY <1>1, <1>2 DEF Authentic
  <1> QED
    BY <1>2, <1>7, <1>8

(* The end of a walk: the root is all it has left.                         *)
LEMMA EndOfWalk ==
  ASSUME NEW S \in Subsets, NEW e, NEW w, Shape(S, w), w.idx > SubsetSize
  PROVE  /\ w.idx = SubsetSize + 1 /\ w.level = Below
         /\ Before(S, w.idx, w.level) = Words(S)
         /\ Authentic(S, e, w)
              <=> w.frontier[TreeHeight] = EpochTree[e][TreeHeight][0]
  <1>1. w.idx = SubsetSize + 1 /\ w.level = Below
    BY HeightTypes DEF Shape
  <1>2. \A l \in 0 .. TreeHeight : w.frontier[l] # Empty <=> l = TreeHeight
    BY DEF Shape
  <1>3. TreeHeight \in 0 .. TreeHeight
    BY HeightTypes
  <1>4. \A l : SlotAt(S, e, w.idx, l) = EpochTree[e][TreeHeight][0]
    BY DEF SlotAt
  <1> QED
    BY <1>1, <1>2, <1>3, <1>4, BeforeEnds DEF Authentic

(* There is one signature of a subset under an epoch.                      *)
LEMMA CompleteUnique ==
  ASSUME NEW S, NEW e, Filled(S), NEW x \in Seq(WordSet), NEW y \in Seq(WordSet),
         Complete(S, e, x), Complete(S, e, y)
  PROVE  x = y
  <1> DEFINE c == Cardinality(Words(S))
  <1>1. c \in Nat /\ XmssHeight \in Nat
    BY WordsFinite, HeightTypes
  <1>2. Len(x) = c + XmssHeight /\ Len(y) = c + XmssHeight
    BY DEF Complete
  <1>3. ASSUME NEW n \in 1 .. c + XmssHeight PROVE x[n] = y[n]
    <2>1. CASE n <= c
      <3>1. n \in 1 .. c
        BY <1>1, <2>1
      <3>2. PICK q \in Words(S) : Position(S, q) = n
        BY <3>1 DEF Filled
      <3> QED
        BY <3>2 DEF Complete
    <2>2. CASE ~(n <= c)
      <3> HIDE DEF c
      <3>1. n - c \in 1 .. XmssHeight /\ c + (n - c) = n
        BY <1>1, <2>2
      <3>2. /\ x[c + (n - c)] = XmssAuth(e)[n - c]
            /\ y[c + (n - c)] = XmssAuth(e)[n - c]
        BY <3>1 DEF Complete, c
      <3> QED
        BY <3>1, <3>2
    <2> QED
      BY <2>1, <2>2
  <1> HIDE DEF c
  <1> QED
    BY <1>1, <1>2, <1>3

(* Two sorted subsets of one size, one of them within the other, are one.  *)
LEMMA SameSubset ==
  ASSUME NEW S \in Subsets, NEW T \in Subsets,
         \A m \in 1 .. SubsetSize : \E n \in 1 .. SubsetSize : T[m] = S[n]
  PROVE  T = S
  <1> DEFINE N == SubsetSize
             f == [m \in 1 .. N |-> CHOOSE n \in 1 .. N : T[m] = S[n]]
  <1>1. N \in Nat
    BY HeightTypes
  <1>2. \A m \in 1 .. N : f[m] \in 1 .. N /\ T[m] = S[f[m]]
    OBVIOUS
  <1>3. /\ \A m, n \in 1 .. N : m < n => S[m] < S[n] /\ T[m] < T[n]
        /\ \A m \in 1 .. N : S[m] \in Nat /\ T[m] \in Nat
        /\ \A m, n \in 1 .. N : m <= n => S[m] <= S[n]
    BY SubsetFacts
  <1> HIDE DEF f, N
  <1>4. ASSUME NEW m \in 1 .. N, NEW n \in 1 .. N, m < n PROVE f[m] < f[n]
    <2>1. /\ f[m] \in 1 .. N /\ f[n] \in 1 .. N /\ S[f[m]] < S[f[n]]
          /\ S[f[m]] \in Nat /\ S[f[n]] \in Nat
      BY <1>2, <1>3, <1>4
    <2>2. f[n] <= f[m] => S[f[n]] <= S[f[m]]
      BY <1>3, <2>1
    <2> QED
      BY <1>1, <2>1, <2>2
  <1> DEFINE Up == {k \in Nat : k + 1 \in 1 .. N => k + 1 <= f[k + 1]}
             Down == {k \in Nat : N - k \in 1 .. N => f[N - k] <= N - k}
  <1>5. 0 \in Up
    BY <1>1, <1>2
  <1>6. ASSUME NEW k \in Nat, k \in Up PROVE k + 1 \in Up
    <2> SUFFICES ASSUME (k + 1) + 1 \in 1 .. N
                 PROVE  (k + 1) + 1 <= f[(k + 1) + 1]
      OBVIOUS
    <2>1. k + 1 \in 1 .. N /\ k + 1 < (k + 1) + 1
      BY <1>1
    <2>2. k + 1 <= f[k + 1] /\ f[k + 1] < f[(k + 1) + 1]
      BY <1>4, <1>6, <2>1
    <2>3. f[k + 1] \in Int /\ f[(k + 1) + 1] \in Int
      BY <1>2, <2>1
    <2> QED
      BY <2>2, <2>3
  <1>7. 0 \in Down
    BY <1>1, <1>2
  <1>8. ASSUME NEW k \in Nat, k \in Down PROVE k + 1 \in Down
    <2> SUFFICES ASSUME N - (k + 1) \in 1 .. N
                 PROVE  f[N - (k + 1)] <= N - (k + 1)
      OBVIOUS
    <2>1. N - k \in 1 .. N /\ N - (k + 1) < N - k
      BY <1>1
    <2>2. f[N - k] <= N - k /\ f[N - (k + 1)] < f[N - k]
      BY <1>4, <1>8, <2>1
    <2>3. f[N - k] \in Int /\ f[N - (k + 1)] \in Int
      BY <1>2, <2>1
    <2> QED
      BY <1>1, <2>2, <2>3
  <1> HIDE DEF Up, Down
  <1>9. Nat \subseteq Up
    BY <1>5, <1>6, Induction
  <1>10. Nat \subseteq Down
    BY <1>7, <1>8, Induction
  <1>11. ASSUME NEW m \in 1 .. N PROVE T[m] = S[m]
    <2>1. m - 1 \in Nat /\ (m - 1) + 1 = m
      BY <1>1
    <2>2. m <= f[m]
      BY <1>9, <2>1 DEF Up
    <2>3. N - m \in Nat /\ N - (N - m) = m
      BY <1>1
    <2>4. f[m] <= m
      BY <1>10, <2>3 DEF Down
    <2>5. f[m] = m
      BY <1>1, <1>2, <2>2, <2>4
    <2> QED
      BY <1>2, <2>5
  <1>12. S \in [1 .. N -> Leaves] /\ T \in [1 .. N -> Leaves]
    BY DEF Subsets, N
  <1>13. S = [m \in 1 .. N |-> S[m]] /\ T = [m \in 1 .. N |-> T[m]]
    BY <1>12
  <1>14. [m \in 1 .. N |-> T[m]] = [m \in 1 .. N |-> S[m]]
    BY <1>11
  <1> QED
    BY <1>13, <1>14

(* A sibling is in the tree.                                               *)
LEMMA SiblingInTree ==
  ASSUME NEW i \in Leaves, NEW l \in 0 .. TreeHeight - 1
  PROVE  /\ SiblingOf(PathAt(i, l)) \in 0 .. 2 ^ (TreeHeight - l) - 1
         /\ SiblingOf(SiblingOf(PathAt(i, l))) = PathAt(i, l)
         /\ PathAt(i, l) \in Nat
  <1> DEFINE p == PathAt(i, l)
             k == PathAt(i, l + 1)
             size == 2 ^ (TreeHeight - (l + 1))
  <1>1. /\ l \in Nat /\ l + 1 \in 0 .. TreeHeight /\ i \in Nat
        /\ TreeHeight - (l + 1) \in Nat
        /\ (TreeHeight - (l + 1)) + 1 = TreeHeight - l
    BY HeightTypes
  <1>2. p \in Nat /\ k = p \div 2
    BY <1>1, PathUp
  <1>3. k \in 0 .. size - 1
    BY <1>1, InTree, HeightTypes
  <1>4. size \in Nat /\ 2 ^ (TreeHeight - l) = 2 * size
    BY <1>1, PowerFacts
  <1> HIDE DEF p, k, size
  <1>5. SiblingOf(p) \in 0 .. 2 * size - 1 /\ SiblingOf(SiblingOf(p)) = p
    BY <1>2, <1>3, <1>4 DEF SiblingOf
  <1> QED
    BY <1>2, <1>4, <1>5 DEF p

(* The nodes of a tree are hashes, and no preimage is one.                 *)
LEMMA WitnessIsNoPreimage ==
  ASSUME NEW e \in Epochs, NEW i \in Leaves, NEW l \in 0 .. TreeHeight - 1,
         NEW f, NEW j
  PROVE  SiblingAt(EpochTree[e], i, l) # Preimage(f, j)
  <1> DEFINE leaf == [n \in Leaves |-> Hash1(Preimage(e, n))]
             k == SiblingOf(PathAt(i, l))
             tree == EpochTree[e]
  <1>1. tree = Merkle(TreeHeight, leaf)
    BY DEF EpochTree
  <1>2. k \in 0 .. 2 ^ (TreeHeight - l) - 1
    BY SiblingInTree
  <1>3. SiblingAt(EpochTree[e], i, l) = tree[l][k]
    BY DEF SiblingAt
  <1>4. CASE l = 0
    <2>1. TreeHeight - 0 = TreeHeight
      BY HeightTypes
    <2>2. k \in Leaves
      BY <1>2, <1>4, <2>1, HeightTypes
    <2>3. tree[0] = leaf
      <3> HIDE DEF leaf
      <3> QED
        BY <1>1, MerkleRows, HeightTypes
    <2> HIDE DEF k
    <2>4. tree[0][k] = Hash1(Preimage(e, k))
      BY <2>2, <2>3
    <2> QED
      BY <1>3, <1>4, <2>4 DEF Hash1, Preimage
  <1>5. CASE l # 0
    <2>1. l - 1 \in 0 .. TreeHeight - 1 /\ (l - 1) + 1 = l
      BY <1>5, HeightTypes
    <2>2. tree[l] = RowAbove(TreeHeight, tree[l - 1], l)
      <3> HIDE DEF leaf
      <3> QED
        BY <1>1, <2>1, MerkleRows, HeightTypes
    <2> HIDE DEF k, tree
    <2>3. tree[l][k] = Hash2(tree[l - 1][2 * k], tree[l - 1][2 * k + 1])
      BY <1>2, <2>2 DEF RowAbove
    <2> QED
      BY <1>3, <2>3 DEF Hash2, Preimage
  <1> QED
    BY <1>4, <1>5

(* A signature tells the subset and the epoch it is for.                   *)
LEMMA CompleteSubset ==
  ASSUME NEW S \in Subsets, NEW e \in Epochs, NEW T \in Subsets,
         NEW f \in Epochs, NEW x, Filled(S), Complete(S, e, x), Complete(T, f, x)
  PROVE  T = S /\ f = e
  <1> DEFINE c == Cardinality(Words(S))
  <1>1. c \in Nat /\ Cardinality(Words(T)) \in Nat /\ XmssHeight \in Nat
    BY WordsFinite, HeightTypes
  <1>2. Cardinality(Words(T)) = c
    <2>1. Len(x) = c + XmssHeight /\ Len(x) = Cardinality(Words(T)) + XmssHeight
      BY DEF Complete
    <2> HIDE DEF c
    <2> QED
      BY <1>1, <2>1
  <1>3. ASSUME NEW m \in 1 .. SubsetSize
        PROVE  f = e /\ \E n \in 1 .. SubsetSize : T[m] = S[n]
    <2> DEFINE q == <<m, Below>>
    <2>1. /\ q \in Stops /\ q[1] = m /\ q[2] = Below
          /\ q[1] \in Int /\ q[2] \in Int
      <3>1. Below \in Below .. TreeHeight - 1
        BY HeightTypes DEF Below
      <3> QED
        BY <3>1, StopFacts
    <2>2. q \in Words(T)
      BY <2>1 DEF Words, Needs
    <2>3. x[Position(T, q)] = Preimage(f, T[m])
      BY <2>1, <2>2 DEF Complete, WordAt
    <2>4. Position(T, q) \in 1 .. c
      <3>1. q \in Before(T, SubsetSize + 1, Below)
        BY <2>2, BeforeEnds
      <3>2. SubsetSize + 1 \in Int /\ Below \in Int
        BY HeightTypes DEF Below
      <3>3. Position(T, q) \in 1 .. Cardinality(Before(T, SubsetSize + 1, Below))
        BY <3>1, <3>2, PositionBefore
      <3> QED
        BY <1>2, <3>3, BeforeEnds
    <2>5. PICK r \in Words(S) : Position(S, r) = Position(T, q)
      BY <2>4 DEF Filled
    <2>6. WordAt(S, e, r[1], r[2]) = Preimage(f, T[m])
      BY <2>3, <2>5 DEF Complete
    <2>7. r \in Stops /\ r[1] \in 1 .. SubsetSize /\ r[2] \in Below .. TreeHeight - 1
      BY WordsFinite, StopFacts
    <2>8. S[r[1]] \in Leaves
      BY <2>7, SubsetFacts
    <2>9. r[2] = Below
      <3> SUFFICES ASSUME r[2] # Below PROVE FALSE
        OBVIOUS
      <3>1. r[2] \in 0 .. TreeHeight - 1
        BY <2>7, StopFacts, HeightTypes
      <3>2. WordAt(S, e, r[1], r[2]) = SiblingAt(EpochTree[e], S[r[1]], r[2])
        BY DEF WordAt
      <3> QED
        BY <2>6, <2>8, <3>1, <3>2, WitnessIsNoPreimage
    <2>10. Preimage(e, S[r[1]]) = Preimage(f, T[m])
      BY <2>6, <2>9 DEF WordAt
    <2>11. e = f /\ S[r[1]] = T[m]
      BY <2>10 DEF Preimage
    <2> QED
      BY <2>7, <2>11
  <1>4. T = S
    BY <1>3, SameSubset
  <1>5. 1 \in 1 .. SubsetSize
    BY HeightTypes
  <1> QED
    BY <1>3, <1>4, <1>5

-----------------------------------------------------------------------------
(* THE INVARIANT                                                           *)

(* The inductive invariant. The signer's walk holds nodes of the tree, and *)
(* what it has written is what belongs before the place it is at. So is    *)
(* the verifier's walk if, and only if, the words it has read are: both    *)
(* ways are needed, one to accept what was signed and the other to accept  *)
(* nothing else. A signature once made is complete, and every place in it  *)
(* is taken.                                                               *)
MultiproofTypes ==
  /\ phase \in {"derive", "sign", "signed", "verify", "accepted", "rejected"}
  /\ subset \in Seq(Leaves) /\ Len(subset) <= SubsetSize /\ Increasing(subset)
  /\ epoch \in Epochs /\ signature \in Seq(WordSet)
  /\ phase # "derive" => subset \in Subsets

Deriving ==
  phase = "derive" => walk = StartOfWalk /\ signature = <<>>

Signing ==
  phase = "sign" =>
    /\ Shape(subset, walk) /\ Authentic(subset, epoch, walk)
    /\ Written(subset, epoch, signature, walk.idx, walk.level)

HasSigned ==
  /\ phase \in {"signed", "verify", "accepted", "rejected"} =>
       Complete(subset, epoch, signature) /\ Filled(subset)
  /\ phase = "signed" => walk.idx = SubsetSize + 1 /\ walk.level = Below

Verifying ==
  phase \in {"verify", "accepted", "rejected"} =>
    /\ claim.subset \in Subsets /\ claim.epoch \in Epochs
    /\ sig \in Seq(WordSet)
    /\ claim = Signed \/ sig = signature
    /\ claim = [subset |-> claim.subset, epoch |-> claim.epoch]
    /\ Shape(claim.subset, walk)
    /\ cursor = Cardinality(Before(claim.subset, walk.idx, walk.level))
    /\ Authentic(claim.subset, claim.epoch, walk)
         <=> Matches(claim.subset, claim.epoch, sig, walk.idx, walk.level)

MultiproofInv ==
  /\ MultiproofTypes /\ Deriving /\ Signing /\ HasSigned /\ Verifying
  /\ AcceptsWhatWasSigned
-----------------------------------------------------------------------------
(* Before the walk starts nothing is to be written.                        *)
LEMMA EmptyWritten ==
  ASSUME NEW S, NEW e
  PROVE  Written(S, e, <<>>, 1, Below)
  BY BeforeEnds DEF Written

(* A step of the signer writes down the word it reads.                     *)
LEMMA SignStepIs ==
  ASSUME SignStep, subset \in Subsets, Shape(subset, walk)
  PROVE  LET word == WordAt(subset, epoch, walk.idx, walk.level)
         IN  /\ walk.idx <= SubsetSize
             /\ walk' = Onward(subset, walk, word)
             /\ Reads(subset, walk) => signature' = Append(signature, word)
             /\ ~Reads(subset, walk) => signature' = signature
             /\ UNCHANGED <<phase, subset, epoch, sig, claim, cursor>>
  <1> DEFINE i == subset[walk.idx]
             p == ParkLevel(subset, walk.idx)
             b == walk.level
             word == WordAt(subset, epoch, walk.idx, b)
             witness == SiblingAt(EpochTree[epoch], i, b)
  <1>1. walk.idx <= SubsetSize
    BY DEF SignStep
  <1>2. p \in 0 .. TreeHeight /\ (b = Below \/ b \in 0 .. p) /\ p # Below
    <2>1. p \in 0 .. TreeHeight /\ (b = Below \/ b \in 0 .. p)
      BY <1>1, ShapeFacts
    <2> QED
      BY <2>1 DEF Below
  <1>3. Climbing(walk, subset) =>
          /\ b \in 0 .. p - 1 /\ b # Below /\ b # p /\ b < p
    BY <1>2, HeightTypes DEF Climbing, Below
  <1>4. UNCHANGED <<phase, subset, epoch, sig, claim, cursor>>
    BY DEF SignStep
  <1>5. \/ /\ AtLeaf(walk)
           /\ walk' = Reveal(walk, Preimage(epoch, i))
           /\ signature' = Append(signature, Preimage(epoch, i))
        \/ /\ Climbing(walk, subset) /\ NeedsWitness(walk, i)
           /\ walk' = Climb(walk, i, witness)
           /\ signature' = Append(signature, witness)
        \/ /\ Climbing(walk, subset) /\ ~NeedsWitness(walk, i)
           /\ walk' = TakeParked(walk)
           /\ signature' = signature
        \/ /\ b = p
           /\ walk' = Park(walk)
           /\ signature' = signature
    BY DEF SignStep
  <1>6. CASE AtLeaf(walk) /\ walk' = Reveal(walk, Preimage(epoch, i))
             /\ signature' = Append(signature, Preimage(epoch, i))
    <2>1. b = Below /\ word = Preimage(epoch, i) /\ Reads(subset, walk)
      BY <1>6 DEF AtLeaf, WordAt, Reads
    <2> QED
      BY <1>1, <1>4, <1>6, <2>1 DEF Onward
  <1>7. CASE Climbing(walk, subset) /\ NeedsWitness(walk, i)
             /\ walk' = Climb(walk, i, witness)
             /\ signature' = Append(signature, witness)
    <2>1. word = witness /\ Reads(subset, walk)
      BY <1>3, <1>7 DEF WordAt, Reads
    <2> QED
      BY <1>1, <1>3, <1>4, <1>7, <2>1 DEF Onward
  <1>8. CASE Climbing(walk, subset) /\ ~NeedsWitness(walk, i)
             /\ walk' = TakeParked(walk) /\ signature' = signature
    <2>1. ~Reads(subset, walk)
      BY <1>3, <1>8 DEF Reads
    <2> QED
      BY <1>1, <1>3, <1>4, <1>8, <2>1 DEF Onward
  <1>9. CASE b = p /\ walk' = Park(walk) /\ signature' = signature
    <2>1. ~Reads(subset, walk) /\ b # Below
      BY <1>2, <1>9 DEF Reads
    <2> QED
      BY <1>1, <1>4, <1>9, <2>1 DEF Onward
  <1> QED
    BY <1>5, <1>6, <1>7, <1>8, <1>9

(* A step of the verifier takes the next word where the walk reads one.    *)
LEMMA VerifyStepIs ==
  ASSUME VerifyStep, claim.subset \in Subsets, Shape(claim.subset, walk)
  PROVE  /\ walk.idx <= SubsetSize
         /\ walk' = Onward(claim.subset, walk, Load)
         /\ Reads(claim.subset, walk) => cursor' = cursor + 1
         /\ ~Reads(claim.subset, walk) => cursor' = cursor
         /\ UNCHANGED <<phase, subset, epoch, signature, sig, claim>>
  <1> DEFINE S == claim.subset
             i == S[walk.idx]
             p == ParkLevel(S, walk.idx)
             b == walk.level
  <1>1. walk.idx <= SubsetSize
    BY DEF VerifyStep
  <1>2. p \in 0 .. TreeHeight /\ (b = Below \/ b \in 0 .. p) /\ p # Below
    <2>1. p \in 0 .. TreeHeight /\ (b = Below \/ b \in 0 .. p)
      BY <1>1, ShapeFacts
    <2> QED
      BY <2>1 DEF Below
  <1>3. Climbing(walk, S) => b \in 0 .. p - 1 /\ b # Below /\ b # p /\ b < p
    BY <1>2, HeightTypes DEF Climbing, Below
  <1>4. UNCHANGED <<phase, subset, epoch, signature, sig, claim>>
    BY DEF VerifyStep
  <1>5. \/ AtLeaf(walk) /\ walk' = Reveal(walk, Load) /\ cursor' = cursor + 1
        \/ /\ Climbing(walk, S) /\ NeedsWitness(walk, i)
           /\ walk' = Climb(walk, i, Load) /\ cursor' = cursor + 1
        \/ /\ Climbing(walk, S) /\ ~NeedsWitness(walk, i)
           /\ walk' = TakeParked(walk) /\ cursor' = cursor
        \/ b = p /\ walk' = Park(walk) /\ cursor' = cursor
    BY DEF VerifyStep
  <1>6. CASE AtLeaf(walk) /\ walk' = Reveal(walk, Load) /\ cursor' = cursor + 1
    <2>1. b = Below /\ Reads(S, walk)
      BY <1>6 DEF AtLeaf, Reads
    <2> QED
      BY <1>1, <1>4, <1>6, <2>1 DEF Onward
  <1>7. CASE Climbing(walk, S) /\ NeedsWitness(walk, i)
             /\ walk' = Climb(walk, i, Load) /\ cursor' = cursor + 1
    <2>1. Reads(S, walk)
      BY <1>3, <1>7 DEF Reads
    <2> QED
      BY <1>1, <1>3, <1>4, <1>7, <2>1 DEF Onward
  <1>8. CASE Climbing(walk, S) /\ ~NeedsWitness(walk, i)
             /\ walk' = TakeParked(walk) /\ cursor' = cursor
    <2>1. ~Reads(S, walk)
      BY <1>3, <1>8 DEF Reads
    <2> QED
      BY <1>1, <1>3, <1>4, <1>8, <2>1 DEF Onward
  <1>9. CASE b = p /\ walk' = Park(walk) /\ cursor' = cursor
    <2>1. ~Reads(S, walk) /\ b # Below
      BY <1>2, <1>9 DEF Reads
    <2> QED
      BY <1>1, <1>4, <1>9, <2>1 DEF Onward
  <1> QED
    BY <1>5, <1>6, <1>7, <1>8, <1>9

(* Writing the next word.                                                  *)
LEMMA WrittenOn ==
  ASSUME NEW S \in Subsets, NEW e \in Epochs, NEW w, Shape(S, w),
         w.idx <= SubsetSize, NEW words \in Seq(WordSet),
         Written(S, e, words, w.idx, w.level), NEW any
  PROVE  LET v == Onward(S, w, any)
             word == WordAt(S, e, w.idx, w.level)
         IN  IF Reads(S, w)
             THEN /\ Append(words, word) \in Seq(WordSet)
                  /\ Written(S, e, Append(words, word), v.idx, v.level)
             ELSE Written(S, e, words, v.idx, v.level)
  <1> DEFINE v == Onward(S, w, any)
             q == <<w.idx, w.level>>
             word == WordAt(S, e, w.idx, w.level)
             more == Append(words, word)
             old == Before(S, w.idx, w.level)
             new == Before(S, v.idx, v.level)
  <1>1. /\ w.idx \in Int /\ w.level \in Int
        /\ Reads(S, w) =>
             /\ q \in Words(S) /\ q \notin old /\ new = old \cup {q}
             /\ Cardinality(new) = Cardinality(old) + 1
             /\ Position(S, q) = Cardinality(old) + 1
        /\ ~Reads(S, w) => new = old
    BY OnwardBefore
  <1>2. CASE ~Reads(S, w)
    BY <1>1, <1>2 DEF Written
  <1>3. CASE Reads(S, w)
    <2>1. /\ Len(words) = Cardinality(old) /\ Cardinality(old) \in Nat
          /\ \A r \in old : words[Position(S, r)] = WordAt(S, e, r[1], r[2])
          /\ \A n \in 1 .. Len(words) : \E r \in old : Position(S, r) = n
      BY WordsFinite DEF Written
    <2>2. q[1] = w.idx /\ q[2] = w.level /\ q \in Stops
      BY <1>1, <1>3, WordsFinite
    <2>3. word \in WordSet
      BY <2>2, WordAtType
    <2>4. \A r \in old : Position(S, r) \in 1 .. Len(words)
      BY <1>1, <2>1, PositionBefore
    <2> HIDE DEF v, q, word, old, new
    <2>5. /\ more \in Seq(WordSet) /\ Len(more) = Len(words) + 1
          /\ \A n \in 1 .. Len(words) : more[n] = words[n]
          /\ more[Len(words) + 1] = word
      BY <2>3
    <2> HIDE DEF more
    <2>6. ASSUME NEW r \in new
          PROVE  more[Position(S, r)] = WordAt(S, e, r[1], r[2])
      <3>1. CASE r \in old
        BY <2>1, <2>4, <2>5, <3>1
      <3>2. CASE r = q
        BY <1>1, <1>3, <2>1, <2>2, <2>5, <3>2 DEF word
      <3> QED
        BY <1>1, <1>3, <3>1, <3>2
    <2>7. ASSUME NEW n \in 1 .. Len(more)
          PROVE  \E r \in new : Position(S, r) = n
      <3>1. n \in 1 .. Len(words) \/ n = Len(words) + 1
        BY <2>1, <2>5
      <3> QED
        BY <1>1, <1>3, <2>1, <3>1
    <2>8. Len(more) = Cardinality(new)
      BY <1>1, <1>3, <2>1, <2>5
    <2>9. Written(S, e, more, v.idx, v.level)
      BY <2>6, <2>7, <2>8 DEF Written, new
    <2> QED
      BY <1>3, <2>5, <2>9 DEF v, more, word
  <1> QED
    BY <1>2, <1>3

(* Reading the next word.                                                  *)
LEMMA MatchesOn ==
  ASSUME NEW S \in Subsets, NEW e \in Epochs, NEW w, Shape(S, w),
         w.idx <= SubsetSize, NEW words, NEW any
  PROVE  LET v == Onward(S, w, any)
             place == Cardinality(Before(S, w.idx, w.level)) + 1
         IN  Matches(S, e, words, v.idx, v.level)
               <=> /\ Matches(S, e, words, w.idx, w.level)
                   /\ Reads(S, w) => WordOf(words, place)
                                       = WordAt(S, e, w.idx, w.level)
  <1> DEFINE v == Onward(S, w, any)
             q == <<w.idx, w.level>>
             old == Before(S, w.idx, w.level)
             new == Before(S, v.idx, v.level)
  <1>1. /\ Reads(S, w) =>
             /\ new = old \cup {q} /\ Position(S, q) = Cardinality(old) + 1
        /\ ~Reads(S, w) => new = old
    BY OnwardBefore
  <1>2. q[1] = w.idx /\ q[2] = w.level
    OBVIOUS
  <1>3. CASE ~Reads(S, w)
    BY <1>1, <1>3 DEF Matches
  <1>4. CASE Reads(S, w)
    <2>1. new = old \cup {q} /\ Position(S, q) = Cardinality(old) + 1
      BY <1>1, <1>4
    <2> QED
      BY <1>2, <1>4, <2>1 DEF Matches
  <1> QED
    BY <1>3, <1>4

(* What is left of a walk that has read the right words, and what it says  *)
(* of the words.                                                           *)
LEMMA MatchesComplete ==
  ASSUME NEW S, NEW e, NEW words \in Seq(WordSet), Complete(S, e, words),
         NEW m, NEW l
  PROVE  Matches(S, e, words, m, l)
  <1>1. /\ Len(words) = Cardinality(Words(S)) + XmssHeight
        /\ Cardinality(Words(S)) \in Nat /\ XmssHeight \in Nat
    BY WordsFinite, HeightTypes DEF Complete
  <1>2. ASSUME NEW q \in Before(S, m, l)
        PROVE  WordOf(words, Position(S, q)) = WordAt(S, e, q[1], q[2])
    <2>1. q \in Words(S)
      BY WordsFinite
    <2>2. Position(S, q) \in 1 .. Cardinality(Words(S))
      <3>1. q \in Before(S, SubsetSize + 1, Below)
        BY <2>1, BeforeEnds
      <3>2. SubsetSize + 1 \in Int /\ Below \in Int
        BY HeightTypes DEF Below
      <3> QED
        BY <3>1, <3>2, PositionBefore, BeforeEnds
    <2>3. Position(S, q) <= Len(words)
      BY <1>1, <2>2
    <2> QED
      BY <2>1, <2>3 DEF Complete, WordOf
  <1> QED
    BY <1>2 DEF Matches

(* The verifier accepts exactly the signature of what it goes by.          *)
LEMMA AcceptsComplete ==
  ASSUME MultiproofTypes, Verifying, phase = "verify", walk.idx > SubsetSize
  PROVE  Accepts <=> Complete(claim.subset, claim.epoch, sig)
  <1> DEFINE S == claim.subset
             e == claim.epoch
             c == Cardinality(Words(S))
             root == walk.frontier[TreeHeight]
             auth == SubSeq(sig, cursor + 1, cursor + XmssHeight)
  <1>1. /\ S \in Subsets /\ e \in Epochs /\ sig \in Seq(WordSet)
        /\ Shape(S, walk)
        /\ cursor = Cardinality(Before(S, walk.idx, walk.level))
        /\ Authentic(S, e, walk) <=> Matches(S, e, sig, walk.idx, walk.level)
    BY DEF Verifying
  <1>2. /\ Before(S, walk.idx, walk.level) = Words(S)
        /\ Authentic(S, e, walk) <=> root = EpochTree[e][TreeHeight][0]
    BY <1>1, EndOfWalk
  <1>3. cursor = c /\ c \in Nat /\ XmssHeight \in Nat /\ Len(sig) \in Nat
    BY <1>1, <1>2, WordsFinite, HeightTypes
  <1>4. root = EpochTree[e][TreeHeight][0]
          <=> \A q \in Words(S) :
                WordOf(sig, Position(S, q)) = WordAt(S, e, q[1], q[2])
    BY <1>1, <1>2 DEF Matches
  <1>5. LengthMatches <=> Len(sig) = c + XmssHeight
    <2> HIDE DEF c
    <2> QED
      BY <1>3 DEF LengthMatches
  <1>6. Accepts <=> LengthMatches /\ Fold(root, auth, e) = PublicKey
    BY DEF Accepts
  <1>7. ASSUME Len(sig) = c + XmssHeight
        PROVE  Fold(root, auth, e) = PublicKey
                 <=> Complete(S, e, sig)
    <2>1. /\ Len(auth) = XmssHeight
          /\ \A n \in 1 .. XmssHeight : auth[n] = sig[c + n]
      <3> HIDE DEF c, S, e
      <3> QED
        BY <1>1, <1>3, <1>7
    <2>2. Fold(root, auth, e) = PublicKey
            <=> /\ root = EpochTree[e][TreeHeight][0]
                /\ \A n \in 1 .. XmssHeight : auth[n] = XmssAuth(e)[n]
      <3> HIDE DEF auth, root, e
      <3> QED
        BY <1>1, <2>1, FoldReachesTheKey
    <2>3. ASSUME NEW q \in Words(S)
          PROVE  WordOf(sig, Position(S, q)) = sig[Position(S, q)]
      <3>1. q \in Before(S, SubsetSize + 1, Below)
        BY BeforeEnds
      <3>2. SubsetSize + 1 \in Int /\ Below \in Int
        BY HeightTypes DEF Below
      <3>3. Position(S, q) \in 1 .. c
        BY <3>1, <3>2, PositionBefore, BeforeEnds
      <3> HIDE DEF c
      <3>4. Position(S, q) <= Len(sig)
        BY <1>3, <1>7, <3>3
      <3> QED
        BY <3>4 DEF WordOf
    <2>4. root = EpochTree[e][TreeHeight][0]
            <=> \A q \in Words(S) :
                  sig[Position(S, q)] = WordAt(S, e, q[1], q[2])
      BY <1>4, <2>3
    <2> HIDE DEF S, e, auth, root
    <2> QED
      BY <1>7, <2>1, <2>2, <2>4 DEF Complete
  <1>8. Complete(S, e, sig) => Len(sig) = c + XmssHeight
    BY DEF Complete
  <1> QED
    BY <1>5, <1>6, <1>7, <1>8

(* And that is the one that was made for it.                               *)
LEMMA CompleteIntact ==
  ASSUME MultiproofTypes, HasSigned, Verifying, phase = "verify"
  PROVE  Complete(claim.subset, claim.epoch, sig) <=> Intact
  <1>1. /\ subset \in Subsets /\ epoch \in Epochs /\ signature \in Seq(WordSet)
        /\ Complete(subset, epoch, signature) /\ Filled(subset)
    BY DEF MultiproofTypes, HasSigned
  <1>2. /\ claim.subset \in Subsets /\ claim.epoch \in Epochs
        /\ sig \in Seq(WordSet) /\ (claim = Signed \/ sig = signature)
        /\ claim = [subset |-> claim.subset, epoch |-> claim.epoch]
    BY DEF Verifying
  <1>3. claim = Signed <=> claim.subset = subset /\ claim.epoch = epoch
    BY <1>2 DEF Signed
  <1>4. ASSUME Intact PROVE Complete(claim.subset, claim.epoch, sig)
    BY <1>1, <1>3, <1>4 DEF Intact
  <1>5. ASSUME Complete(claim.subset, claim.epoch, sig) PROVE Intact
    <2>1. CASE claim = Signed
      <3>1. sig = signature
        BY <1>1, <1>2, <1>3, <1>5, <2>1, CompleteUnique
      <3> QED
        BY <2>1, <3>1 DEF Intact
    <2>2. CASE sig = signature
      <3>1. claim.subset = subset /\ claim.epoch = epoch
        BY <1>1, <1>2, <1>5, <2>2, CompleteSubset
      <3> QED
        BY <1>3, <2>2, <3>1 DEF Intact
    <2> QED
      BY <1>2, <2>1, <2>2
  <1> QED
    BY <1>4, <1>5

(* What becomes of the words on their way is words.                        *)
LEMMA DamagedType ==
  ASSUME NEW words \in Seq(WordSet), NEW other \in Damaged(words)
  PROVE  other \in Seq(WordSet)
  <1>1. Junk \in WordSet
    BY DEF WordSet
  <1>2. \A n \in DOMAIN words : words[n] \in WordSet
    OBVIOUS
  <1>3. CASE other \in {[words EXCEPT ![n] = Junk] : n \in DOMAIN words}
    <2>1. PICK n \in DOMAIN words : other = [words EXCEPT ![n] = Junk]
      BY <1>3
    <2> QED
      BY <1>1, <2>1
  <1>4. CASE other \in {SubSeq(words, 1, n) : n \in 0 .. Len(words) - 1}
    BY <1>4
  <1>5. CASE other = Append(words, Junk)
    BY <1>1, <1>5
  <1>6. CASE other \in {[words EXCEPT ![n] = words[n + 1], ![n + 1] = words[n]] :
                          n \in 1 .. Len(words) - 1}
    <2>1. PICK n \in 1 .. Len(words) - 1 :
            other = [words EXCEPT ![n] = words[n + 1], ![n + 1] = words[n]]
      BY <1>6
    <2>2. n \in 1 .. Len(words) /\ n + 1 \in 1 .. Len(words)
      OBVIOUS
    <2>3. words[n] \in WordSet /\ words[n + 1] \in WordSet
      BY <2>2
    <2> DEFINE once == [words EXCEPT ![n] = words[n + 1]]
    <2>4. once \in Seq(WordSet) /\ Len(once) = Len(words)
      BY <2>3
    <2>5. other = [once EXCEPT ![n + 1] = words[n]]
      BY <2>1
    <2>6. n + 1 \in DOMAIN once
      BY <2>2, <2>4
    <2> HIDE DEF once
    <2>7. ASSUME NEW s \in Seq(WordSet), NEW k \in DOMAIN s, NEW x \in WordSet
          PROVE  [s EXCEPT ![k] = x] \in Seq(WordSet)
      OBVIOUS
    <2> QED
      BY <2>3, <2>4, <2>5, <2>6, <2>7
  <1> QED
    BY <1>3, <1>4, <1>5, <1>6 DEF Damaged

(* The invariant holds at first, and every action keeps it.                *)
LEMMA InitInv ==
  ASSUME Init
  PROVE  MultiproofInv
  <1>1. <<>> \in Seq(Leaves) /\ Len(<<>>) = 0 /\ <<>> \in Seq(WordSet)
    OBVIOUS
  <1>2. Increasing(<<>>)
    BY DEF Increasing
  <1>3. MultiproofTypes
    BY <1>1, <1>2, HeightTypes DEF Init, MultiproofTypes
  <1> QED
    BY <1>3 DEF Init, MultiproofInv, Deriving, Signing, HasSigned, Verifying,
                AcceptsWhatWasSigned

(* A selection keeps the subset sorted.                                    *)
LEMMA SelectInv ==
  ASSUME MultiproofInv, Select
  PROVE  MultiproofInv'
  <1>1. /\ phase = "derive" /\ phase' = phase /\ Len(subset) < SubsetSize
        /\ UNCHANGED <<epoch, walk, signature>>
    BY DEF Select
  <1>2. PICK selection \in Leaves : subset' = InsertSelection(subset, selection)
    BY DEF Select
  <1>3. /\ subset \in Seq(Leaves) /\ Increasing(subset) /\ epoch \in Epochs
        /\ signature \in Seq(WordSet) /\ walk = StartOfWalk /\ signature = <<>>
    BY <1>1 DEF MultiproofInv, MultiproofTypes, Deriving
  <1>4. /\ subset' \in Seq(Leaves) /\ Increasing(subset')
        /\ Len(subset') <= Len(subset) + 1
    BY <1>2, <1>3, InsertionKeepsOrder
  <1>5. Len(subset') <= SubsetSize
    BY <1>1, <1>3, <1>4, HeightTypes
  <1>6. MultiproofTypes'
    BY <1>1, <1>3, <1>4, <1>5 DEF MultiproofTypes, Increasing
  <1> QED
    BY <1>1, <1>3, <1>6 DEF MultiproofInv, Deriving, Signing, HasSigned,
                            Verifying, AcceptsWhatWasSigned

(* The signer starts at the first leaf, having written nothing.            *)
LEMMA StartSigningInv ==
  ASSUME MultiproofInv, StartSigning
  PROVE  MultiproofInv'
  <1>1. /\ phase = "derive" /\ phase' = "sign" /\ Len(subset) = SubsetSize
        /\ UNCHANGED <<subset, epoch, walk, signature>>
    BY DEF StartSigning
  <1>2. /\ subset \in Seq(Leaves) /\ Increasing(subset) /\ epoch \in Epochs
        /\ signature \in Seq(WordSet) /\ walk = StartOfWalk /\ signature = <<>>
        /\ Len(subset) <= SubsetSize
    BY <1>1 DEF MultiproofInv, MultiproofTypes, Deriving
  <1>3. subset \in Subsets
    <2>1. subset \in [1 .. SubsetSize -> Leaves]
      BY <1>1, <1>2
    <2> QED
      BY <1>2, <2>1 DEF Subsets
  <1>4. MultiproofTypes'
    BY <1>1, <1>2, <1>3 DEF MultiproofTypes, Increasing
  <1>5. /\ Shape(subset, walk) /\ Authentic(subset, epoch, walk)
        /\ walk.idx = 1 /\ walk.level = Below
    BY <1>2, <1>3, StartShape
  <1>6. Written(subset, epoch, signature, 1, Below)
    BY <1>2, EmptyWritten
  <1>7. Signing'
    BY <1>1, <1>5, <1>6 DEF Signing
  <1> QED
    BY <1>1, <1>4, <1>7 DEF MultiproofInv, Deriving, HasSigned, Verifying,
                            AcceptsWhatWasSigned

(* The signer writes down what belongs at the place it is at.              *)
LEMMA SignStepInv ==
  ASSUME MultiproofInv, SignStep
  PROVE  MultiproofInv'
  <1> DEFINE word == WordAt(subset, epoch, walk.idx, walk.level)
             next == Onward(subset, walk, word)
  <1>1. phase = "sign"
    BY DEF SignStep
  <1>2. /\ subset \in Subsets /\ subset \in Seq(Leaves) /\ Increasing(subset)
        /\ Len(subset) <= SubsetSize
        /\ epoch \in Epochs /\ signature \in Seq(WordSet)
        /\ Shape(subset, walk) /\ Authentic(subset, epoch, walk)
        /\ Written(subset, epoch, signature, walk.idx, walk.level)
    BY <1>1 DEF MultiproofInv, MultiproofTypes, Signing
  <1>3. /\ walk.idx <= SubsetSize /\ walk' = next
        /\ Reads(subset, walk) => signature' = Append(signature, word)
        /\ ~Reads(subset, walk) => signature' = signature
        /\ UNCHANGED <<phase, subset, epoch, sig, claim, cursor>>
    BY <1>2, SignStepIs
  <1>4. Shape(subset, next)
    BY <1>2, <1>3, OnwardShape
  <1>5. Authentic(subset, epoch, next)
    BY <1>2, <1>3, OnwardAuthentic
  <1>6. /\ signature' \in Seq(WordSet)
        /\ Written(subset, epoch, signature', next.idx, next.level)
    <2>1. IF Reads(subset, walk)
          THEN /\ Append(signature, word) \in Seq(WordSet)
               /\ Written(subset, epoch, Append(signature, word),
                          next.idx, next.level)
          ELSE Written(subset, epoch, signature, next.idx, next.level)
      BY <1>2, <1>3, WrittenOn
    <2> HIDE DEF word, next
    <2> QED
      BY <1>2, <1>3, <2>1
  <1> HIDE DEF word, next
  <1>7. MultiproofTypes'
    BY <1>1, <1>2, <1>3, <1>6 DEF MultiproofTypes, Increasing
  <1>8. Signing'
    BY <1>3, <1>4, <1>5, <1>6 DEF Signing
  <1> QED
    BY <1>1, <1>3, <1>7, <1>8 DEF MultiproofInv, Deriving, HasSigned,
                                  Verifying, AcceptsWhatWasSigned

(* What a concatenation is.                                                *)
LEMMA Concatenation ==
  ASSUME NEW T, NEW s \in Seq(T), NEW t \in Seq(T)
  PROVE  /\ s \o t \in Seq(T) /\ Len(s \o t) = Len(s) + Len(t)
         /\ \A n \in 1 .. Len(s) : (s \o t)[n] = s[n]
         /\ \A n \in 1 .. Len(t) : (s \o t)[Len(s) + n] = t[n]
  <1>1. /\ s \o t \in Seq(T) /\ Len(s \o t) = Len(s) + Len(t)
        /\ Len(s) \in Nat /\ Len(t) \in Nat
    OBVIOUS
  <1>2. \A n \in 1 .. Len(s) : (s \o t)[n] = s[n]
    OBVIOUS
  <1>3. ASSUME NEW n \in 1 .. Len(t) PROVE (s \o t)[Len(s) + n] = t[n]
    <2>1. /\ Len(s) + n \in 1 .. Len(s) + Len(t) /\ ~(Len(s) + n <= Len(s))
          /\ (Len(s) + n) - Len(s) = n
      BY <1>1
    <2> QED
      BY <1>1, <2>1
  <1> QED
    BY <1>1, <1>2, <1>3

(* With the path of the epoch, the signature is complete.                  *)
LEMMA FinishSigningInv ==
  ASSUME MultiproofInv, FinishSigning
  PROVE  MultiproofInv'
  <1> DEFINE c == Cardinality(Words(subset))
             auth == XmssAuth(epoch)
             whole == signature \o auth
  <1>1. /\ phase = "sign" /\ phase' = "signed" /\ walk.idx > SubsetSize
        /\ signature' = whole
        /\ UNCHANGED <<subset, epoch, walk, sig, claim, cursor>>
    BY DEF FinishSigning
  <1>2. /\ subset \in Subsets /\ subset \in Seq(Leaves) /\ Increasing(subset)
        /\ Len(subset) <= SubsetSize
        /\ epoch \in Epochs /\ signature \in Seq(WordSet)
        /\ Shape(subset, walk)
        /\ Written(subset, epoch, signature, walk.idx, walk.level)
    BY <1>1 DEF MultiproofInv, MultiproofTypes, Signing
  <1>3. /\ walk.idx = SubsetSize + 1 /\ walk.level = Below
        /\ Before(subset, walk.idx, walk.level) = Words(subset)
    BY <1>1, <1>2, EndOfWalk
  <1>4. /\ Len(signature) = c
        /\ \A q \in Words(subset) : signature[Position(subset, q)]
                                      = WordAt(subset, epoch, q[1], q[2])
        /\ \A n \in 1 .. c : \E q \in Words(subset) : Position(subset, q) = n
    BY <1>2, <1>3 DEF Written
  <1>5. auth \in Seq(WordSet) /\ Len(auth) = XmssHeight
    <2>1. auth = [n \in 1 .. XmssHeight |-> auth[n]]
      BY DEF XmssAuth
    <2>2. \A n \in 1 .. XmssHeight : auth[n] \in WordSet
      BY <1>2 DEF WordSet
    <2> HIDE DEF auth
    <2>3. auth \in [1 .. XmssHeight -> WordSet]
      BY <2>1, <2>2
    <2> QED
      BY <2>3, HeightTypes
  <1>6. c \in Nat
    BY WordsFinite
  <1>7. \A q \in Words(subset) : Position(subset, q) \in 1 .. c
    <2>1. SubsetSize + 1 \in Int /\ Below \in Int
      BY HeightTypes DEF Below
    <2> QED
      BY <2>1, BeforeEnds, PositionBefore
  <1> HIDE DEF c, auth
  <1>8. /\ whole \in Seq(WordSet) /\ Len(whole) = c + XmssHeight
        /\ \A n \in 1 .. c : whole[n] = signature[n]
        /\ \A n \in 1 .. XmssHeight : whole[c + n] = auth[n]
    <2>1. Len(signature) = c
      BY <1>4
    <2>2. /\ whole \in Seq(WordSet)
          /\ Len(whole) = Len(signature) + Len(auth)
          /\ \A n \in 1 .. Len(signature) : whole[n] = signature[n]
          /\ \A n \in 1 .. Len(auth) : whole[Len(signature) + n] = auth[n]
      <3>1. /\ signature \o auth \in Seq(WordSet)
            /\ Len(signature \o auth) = Len(signature) + Len(auth)
            /\ \A n \in 1 .. Len(signature) :
                 (signature \o auth)[n] = signature[n]
            /\ \A n \in 1 .. Len(auth) :
                 (signature \o auth)[Len(signature) + n] = auth[n]
        <4>1. signature \in Seq(WordSet) /\ auth \in Seq(WordSet)
          BY <1>2, <1>5
        <4> HIDE DEF whole
        <4> QED
          BY ONLY <4>1, Concatenation
      <3> QED
        BY <3>1
    <2> HIDE DEF whole
    <2> QED
      BY <1>5, <2>1, <2>2
  <1> HIDE DEF whole
  <1>9. Complete(subset, epoch, whole)
    BY <1>4, <1>7, <1>8 DEF Complete, c, auth
  <1>10. Filled(subset)
    BY <1>4 DEF Filled, c
  <1>11. MultiproofTypes'
    BY <1>1, <1>2, <1>8 DEF MultiproofTypes, Increasing
  <1>12. HasSigned'
    BY <1>1, <1>3, <1>9, <1>10 DEF HasSigned
  <1> QED
    BY <1>1, <1>11, <1>12 DEF MultiproofInv, Deriving, Signing, Verifying,
                              AcceptsWhatWasSigned

(* The verifier starts at the first leaf, having read nothing.             *)
LEMMA PresentInv ==
  ASSUME MultiproofInv, Present
  PROVE  MultiproofInv'
  <1>1. /\ phase = "signed" /\ phase' = "verify" /\ walk' = StartOfWalk
        /\ cursor' = 0 /\ UNCHANGED <<subset, epoch, signature>>
    BY DEF Present
  <1>2. /\ subset \in Subsets /\ subset \in Seq(Leaves) /\ Increasing(subset)
        /\ Len(subset) <= SubsetSize
        /\ epoch \in Epochs /\ signature \in Seq(WordSet)
        /\ Complete(subset, epoch, signature) /\ Filled(subset)
    BY <1>1 DEF MultiproofInv, MultiproofTypes, HasSigned
  <1>3. /\ claim'.subset \in Subsets /\ claim'.epoch \in Epochs
        /\ sig' \in Seq(WordSet)
        /\ claim' = Signed \/ sig' = signature
        /\ claim' = [subset |-> claim'.subset, epoch |-> claim'.epoch]
    <2>1. CASE claim' = Signed /\ sig' \in {signature} \cup Damaged(signature)
      <3>1. sig' \in Seq(WordSet)
        BY <1>2, <2>1, DamagedType
      <3> QED
        BY <1>2, <2>1, <3>1 DEF Signed
    <2>2. CASE /\ claim' \in [subset : Subsets, epoch : Epochs]
               /\ sig' = signature
      BY <1>2, <2>2
    <2> QED
      BY <2>1, <2>2 DEF Present
  <1>4. /\ Shape(claim'.subset, StartOfWalk)
        /\ Authentic(claim'.subset, claim'.epoch, StartOfWalk)
        /\ StartOfWalk.idx = 1 /\ StartOfWalk.level = Below
    BY <1>3, StartShape
  <1>5. /\ Before(claim'.subset, 1, Below) = {}
        /\ Cardinality(Before(claim'.subset, 1, Below)) = 0
    BY BeforeEnds
  <1>6. Matches(claim'.subset, claim'.epoch, sig', 1, Below)
    BY <1>5 DEF Matches
  <1>7. Verifying'
    BY <1>1, <1>3, <1>4, <1>5, <1>6 DEF Verifying, Signed
  <1>8. MultiproofTypes'
    BY <1>1, <1>2 DEF MultiproofTypes, Increasing
  <1>9. HasSigned'
    BY <1>1, <1>2 DEF HasSigned
  <1> QED
    BY <1>1, <1>7, <1>8, <1>9 DEF MultiproofInv, Deriving, Signing,
                                  AcceptsWhatWasSigned

(* The verifier's nodes stay the tree's as long as, and only as long as,   *)
(* the words it reads are those that belong there.                         *)
LEMMA VerifyStepInv ==
  ASSUME MultiproofInv, VerifyStep
  PROVE  MultiproofInv'
  <1> DEFINE S == claim.subset
             e == claim.epoch
             next == Onward(S, walk, Load)
             old == Before(S, walk.idx, walk.level)
             new == Before(S, next.idx, next.level)
  <1>1. phase = "verify"
    BY DEF VerifyStep
  <1>2. /\ S \in Subsets /\ e \in Epochs /\ sig \in Seq(WordSet)
        /\ claim = Signed \/ sig = signature
        /\ claim = [subset |-> S, epoch |-> e]
        /\ Shape(S, walk) /\ cursor = Cardinality(old)
        /\ Authentic(S, e, walk) <=> Matches(S, e, sig, walk.idx, walk.level)
    BY <1>1 DEF MultiproofInv, Verifying
  <1>3. /\ walk.idx <= SubsetSize /\ walk' = next
        /\ Reads(S, walk) => cursor' = cursor + 1
        /\ ~Reads(S, walk) => cursor' = cursor
        /\ UNCHANGED <<phase, subset, epoch, signature, sig, claim>>
    BY <1>2, VerifyStepIs
  <1>4. Shape(S, next)
    BY <1>2, <1>3, OnwardShape
  <1>5. cursor' = Cardinality(new)
    <2>1. /\ Reads(S, walk) => Cardinality(new) = Cardinality(old) + 1
          /\ ~Reads(S, walk) => new = old
      BY <1>2, <1>3, OnwardBefore
    <2> HIDE DEF S, new, old
    <2> QED
      BY <1>2, <1>3, <2>1
  <1>6. Load = WordOf(sig, cursor + 1)
    <2>1. cursor \in Nat /\ Len(sig) \in Nat
      BY <1>2, WordsFinite
    <2> QED
      BY <2>1 DEF Load, WordOf
  <1>7. Authentic(S, e, next) <=> Matches(S, e, sig, next.idx, next.level)
    <2>1. Authentic(S, e, next)
            <=> /\ Authentic(S, e, walk)
                /\ Reads(S, walk) => Load = WordAt(S, e, walk.idx, walk.level)
      BY <1>2, <1>3, OnwardAuthentic
    <2>2. Matches(S, e, sig, next.idx, next.level)
            <=> /\ Matches(S, e, sig, walk.idx, walk.level)
                /\ Reads(S, walk) => WordOf(sig, Cardinality(old) + 1)
                                       = WordAt(S, e, walk.idx, walk.level)
      BY <1>2, <1>3, MatchesOn
    <2> HIDE DEF S, e, next, old
    <2> QED
      BY <1>2, <1>6, <2>1, <2>2
  <1> HIDE DEF next
  <1>8. Verifying'
    BY <1>1, <1>2, <1>3, <1>4, <1>5, <1>7 DEF Verifying, Signed
  <1>9. MultiproofTypes' /\ HasSigned'
    BY <1>1, <1>3 DEF MultiproofInv, MultiproofTypes, HasSigned, Increasing
  <1> QED
    BY <1>1, <1>3, <1>8, <1>9 DEF MultiproofInv, Deriving, Signing,
                                  AcceptsWhatWasSigned

(* It accepts what is complete, and that is what was signed.               *)
LEMMA ConcludeInv ==
  ASSUME MultiproofInv, Conclude
  PROVE  MultiproofInv'
  <1>1. /\ phase = "verify" /\ walk.idx > SubsetSize
        /\ phase' = IF Accepts THEN "accepted" ELSE "rejected"
        /\ UNCHANGED <<subset, epoch, walk, signature, sig, claim, cursor>>
    BY DEF Conclude
  <1>2. Accepts <=> Intact
    BY <1>1, AcceptsComplete, CompleteIntact DEF MultiproofInv
  <1>3. Intact' = Intact
    BY <1>1 DEF Intact, Signed
  <1>4. AcceptsWhatWasSigned'
    BY <1>1, <1>2, <1>3 DEF AcceptsWhatWasSigned
  <1>5. Verifying'
    BY <1>1 DEF MultiproofInv, Verifying, Signed
  <1>6. MultiproofTypes' /\ HasSigned'
    BY <1>1 DEF MultiproofInv, MultiproofTypes, HasSigned, Increasing
  <1> QED
    BY <1>1, <1>4, <1>5, <1>6 DEF MultiproofInv, Deriving, Signing

(* A step that changes nothing keeps the invariant.                        *)
LEMMA StutterInv ==
  ASSUME MultiproofInv, UNCHANGED vars
  PROVE  MultiproofInv'
  BY DEF MultiproofInv, MultiproofTypes, Deriving, Signing, HasSigned,
         Verifying, AcceptsWhatWasSigned, Intact, Signed, Increasing, vars

(* The invariant holds for trees of any height, subsets of any size, any   *)
(* number of epochs and any selections.                                    *)
THEOREM MultiproofInvariant == Spec => []MultiproofInv
  <1>1. Init => MultiproofInv
    BY InitInv
  <1>2. MultiproofInv /\ [Next]_vars => MultiproofInv'
    BY SelectInv, StartSigningInv, SignStepInv, FinishSigningInv, PresentInv,
       VerifyStepInv, ConcludeInv, StutterInv DEF Next
  <1> QED
    BY <1>1, <1>2, PTL DEF Spec

-----------------------------------------------------------------------------
(* THE SMALLEST SIGNATURE                                                  *)

(* Sets in one-to-one correspondence have the same number of elements.     *)
LEMMA OneToOne ==
  ASSUME NEW A, IsFiniteSet(A), NEW B, NEW f \in [A -> B],
         \A x, y \in A : f[x] = f[y] => x = y,
         \A z \in B : \E x \in A : f[x] = z
  PROVE  IsFiniteSet(B) /\ Cardinality(B) = Cardinality(A)
  <1>1. f \in Injection(A, B)
    BY DEF Injection, IsInjective
  <1>2. f \in Surjection(A, B)
    BY DEF Surjection
  <1> QED
    BY <1>1, <1>2, FS_Surjection

(* A witness that is read covers no leaf of the subset.                    *)
LEMMA WitnessCoversNothing ==
  ASSUME NEW S \in Subsets, NEW m \in 1 .. SubsetSize,
         NEW l \in 0 .. TreeHeight - 1, l < ParkLevel(S, m), ~Waiting(S, m, l),
         NEW n \in 1 .. SubsetSize
  PROVE  PathAt(S[n], l) # SiblingOf(PathAt(S[m], l))
  <1> SUFFICES ASSUME PathAt(S[n], l) = SiblingOf(PathAt(S[m], l)) PROVE FALSE
    OBVIOUS
  <1> DEFINE x == PathAt(S[m], l)
             y == PathAt(S[n], l)
  <1>1. /\ l \in Nat /\ l \in 0 .. TreeHeight /\ l + 1 \in 0 .. TreeHeight
        /\ l + 1 \in Nat /\ SubsetSize \in Nat
    BY HeightTypes
  <1>2. S[m] \in Nat /\ S[n] \in Nat /\ S[m] \in Leaves
    BY SubsetFacts
  <1>3. /\ x \in Nat /\ y \in Nat
        /\ PathAt(S[m], l + 1) = x \div 2 /\ PathAt(S[n], l + 1) = y \div 2
    BY <1>1, <1>2, PathUp
  <1>4. /\ x # y /\ x \div 2 = y \div 2
        /\ y < x => x % 2 = 1
    <2>1. y = SiblingOf(x)
      OBVIOUS
    <2> HIDE DEF x, y
    <2> QED
      BY <1>3, <2>1 DEF SiblingOf
  <1>5. CASE n = m
    BY <1>4, <1>5
  <1>6. CASE n < m
    <2>1. n \in 1 .. m - 1 /\ n <= m
      BY <1>1, <1>6
    <2>2. S[n] <= S[m]
      BY <2>1, SubsetFacts
    <2>3. y <= x
      BY <1>1, <1>2, <2>2, InOrder
    <2>4. x % 2 = 1
      <3> HIDE DEF x, y
      <3> QED
        BY <1>3, <1>4, <2>3
    <2>5. Waiting(S, m, l)
      BY <2>1, <2>4 DEF Waiting, IsRight
    <2> QED
      BY <2>5
  <1>7. CASE m < n
    <2>1. /\ m \in 1 .. SubsetSize - 1 /\ m + 1 \in 1 .. SubsetSize
          /\ m <= m + 1 /\ m + 1 <= n
      BY <1>1, <1>7
    <2> DEFINE up == PathAt(S[m], l + 1)
               mid == PathAt(S[m + 1], l + 1)
    <2>2. S[m + 1] \in Nat /\ S[m] <= S[m + 1] /\ S[m + 1] <= S[n]
      BY <2>1, SubsetFacts
    <2>3. up <= mid /\ mid <= PathAt(S[n], l + 1) /\ up \in Nat /\ mid \in Nat
      BY <1>1, <1>2, <2>2, InOrder, PathUp
    <2>4. PathAt(S[n], l + 1) = up
      BY <1>3, <1>4
    <2> HIDE DEF up, mid
    <2>5. up = mid
      BY <2>3, <2>4
    <2>6. ParkLevel(S, m) < l + 1
      BY <1>1, <2>1, <2>5, ParkLevelMeets DEF up, mid
    <2>7. ParkLevel(S, m) \in Nat
      BY ParkLevelType, HeightTypes
    <2> QED
      BY <1>1, <2>6, <2>7
  <1>8. n = m \/ n < m \/ m < n
    BY <1>1
  <1> QED
    BY <1>5, <1>6, <1>7, <1>8

(* No witness is read twice.                                               *)
LEMMA PathsApart ==
  ASSUME NEW S \in Subsets, NEW m \in 1 .. SubsetSize, NEW n \in 1 .. SubsetSize,
         m < n, NEW l \in 0 .. TreeHeight - 1, l < ParkLevel(S, m)
  PROVE  PathAt(S[m], l) # PathAt(S[n], l)
  <1> DEFINE x == PathAt(S[m], l)
             y == PathAt(S[m + 1], l)
             z == PathAt(S[n], l)
  <1>1. /\ l \in Nat /\ l \in 0 .. TreeHeight /\ SubsetSize \in Nat
        /\ m \in 1 .. SubsetSize - 1 /\ m + 1 \in 1 .. SubsetSize
        /\ m <= m + 1 /\ m + 1 <= n
    BY HeightTypes
  <1>2. /\ S[m] \in Nat /\ S[m + 1] \in Nat /\ S[n] \in Nat
        /\ S[m] <= S[m + 1] /\ S[m + 1] <= S[n]
    BY <1>1, SubsetFacts
  <1>3. x <= y /\ y <= z /\ x \in Nat /\ y \in Nat /\ z \in Nat
    BY <1>1, <1>2, InOrder, PathUp
  <1>4. ~(ParkLevel(S, m) < l)
    <2>1. ParkLevel(S, m) \in Nat
      BY ParkLevelType, HeightTypes
    <2> QED
      BY <1>1, <2>1
  <1>5. x # y
    BY <1>1, <1>4, ParkLevelMeets
  <1> HIDE DEF x, y, z
  <1>6. x # z
    BY <1>3, <1>5
  <1> QED
    BY <1>6 DEF x, z
-----------------------------------------------------------------------------
(* The words of the walk that are preimages, and those that are witnesses. *)
PreimageWords(S) == {q \in Words(S) : q[2] = Below}
WitnessWords(S) == {q \in Words(S) : q[2] # Below}

(* The node that a witness is.                                             *)
NodeOf(S, q) == <<q[2], SiblingOf(PathAt(S[q[1]], q[2]))>>

(* A witness is read below the park level, where no node waits.            *)
LEMMA WitnessWordFacts ==
  ASSUME NEW S \in Subsets, NEW q \in WitnessWords(S)
  PROVE  /\ q \in Words(S) /\ q = <<q[1], q[2]>>
         /\ q[1] \in 1 .. SubsetSize /\ q[2] \in 0 .. TreeHeight - 1
         /\ q[2] < ParkLevel(S, q[1]) /\ ~Waiting(S, q[1], q[2])
         /\ S[q[1]] \in Leaves
         /\ \A e : WordAt(S, e, q[1], q[2])
                     = EpochTree[e][NodeOf(S, q)[1]][NodeOf(S, q)[2]]
  <1>1. q \in Words(S) /\ q[2] # Below
    BY DEF WitnessWords
  <1>2. q \in Stops /\ Needs(S, q[1], q[2])
    BY <1>1 DEF Words
  <1>3. /\ q = <<q[1], q[2]>> /\ q[1] \in 1 .. SubsetSize
        /\ q[2] \in Below .. TreeHeight - 1 /\ q[2] \in Int
    BY <1>2, StopFacts
  <1>4. q[2] \in 0 .. TreeHeight - 1
    BY <1>1, <1>3, StopFacts, HeightTypes
  <1>5. q[2] < ParkLevel(S, q[1]) /\ ~Waiting(S, q[1], q[2])
    BY <1>1, <1>2 DEF Needs
  <1>6. \A e : WordAt(S, e, q[1], q[2])
                 = EpochTree[e][NodeOf(S, q)[1]][NodeOf(S, q)[2]]
    BY <1>1 DEF WordAt, SiblingAt, NodeOf
  <1> QED
    BY <1>1, <1>3, <1>4, <1>5, <1>6, SubsetFacts

(* The nodes of the tree that can be witnesses.                            *)
InnerNodes == UNION {{l} \X (0 .. 2 ^ (TreeHeight - l) - 1) :
                       l \in 0 .. TreeHeight - 1}

(* A node below the root, by its level and its index.                      *)
LEMMA InnerNodeFacts ==
  ASSUME NEW node
  PROVE  node \in InnerNodes
           <=> /\ node = <<node[1], node[2]>> /\ node[1] \in 0 .. TreeHeight - 1
               /\ node[2] \in 0 .. 2 ^ (TreeHeight - node[1]) - 1
  BY DEF InnerNodes

(* Each witness that is read is a node the signature needs.                *)
LEMMA WitnessIsNeeded ==
  ASSUME subset \in Subsets, NEW q \in WitnessWords(subset)
  PROVE  NodeOf(subset, q) \in WitnessNodes
  <1> DEFINE S == subset
             m == q[1]
             l == q[2]
             k == SiblingOf(PathAt(S[m], l))
  <1>1. /\ m \in 1 .. SubsetSize /\ l \in 0 .. TreeHeight - 1
        /\ l < ParkLevel(S, m) /\ ~Waiting(S, m, l) /\ S[m] \in Leaves
    BY WitnessWordFacts
  <1>2. /\ k \in 0 .. 2 ^ (TreeHeight - l) - 1
        /\ SiblingOf(k) = PathAt(S[m], l)
    BY <1>1, SiblingInTree
  <1>3. DOMAIN S = 1 .. SubsetSize
    BY DEF Subsets
  <1>4. ~Covers(l, k)
    BY <1>1, <1>3, WitnessCoversNothing DEF Covers
  <1>5. Covers(l, SiblingOf(k))
    BY <1>1, <1>2, <1>3 DEF Covers
  <1> HIDE DEF k, l
  <1>6. <<l, k>> \in InnerNodes /\ <<l, k>>[1] = l /\ <<l, k>>[2] = k
    BY <1>1, <1>2, InnerNodeFacts
  <1>7. <<l, k>> \in WitnessNodes
    BY <1>4, <1>5, <1>6 DEF WitnessNodes, InnerNodes
  <1> QED
    BY <1>7 DEF NodeOf, k, l

(* Each node the signature needs is read.                                  *)
LEMMA NeededIsRead ==
  ASSUME subset \in Subsets, NEW node \in WitnessNodes
  PROVE  \E q \in WitnessWords(subset) : NodeOf(subset, q) = node
  <1> DEFINE S == subset
             l == node[1]
             k == node[2]
             T == {n \in 1 .. SubsetSize : PathAt(S[n], l) = SiblingOf(k)}
             R == {SubsetSize - n : n \in T}
  <1>1. /\ node \in InnerNodes /\ ~Covers(l, k) /\ Covers(l, SiblingOf(k))
    BY DEF WitnessNodes, InnerNodes
  <1>2. /\ node = <<l, k>> /\ l \in 0 .. TreeHeight - 1
        /\ k \in 0 .. 2 ^ (TreeHeight - l) - 1
    BY <1>1, InnerNodeFacts
  <1>3. DOMAIN S = 1 .. SubsetSize
    BY DEF Subsets
  <1>4. \A n \in 1 .. SubsetSize : PathAt(S[n], l) # k
    BY <1>1, <1>3 DEF Covers
  <1>5. /\ l \in Nat /\ l + 1 \in 0 .. TreeHeight /\ l \in 0 .. TreeHeight
        /\ SubsetSize \in Nat /\ TreeHeight - l \in Nat
    BY <1>2, HeightTypes
  <1>6. k \in Nat /\ SiblingOf(SiblingOf(k)) = k
    <2>1. 2 ^ (TreeHeight - l) \in Nat
      BY <1>5, PowerFacts
    <2>2. k \in Nat
      BY <1>2, <2>1
    <2> HIDE DEF k
    <2> QED
      BY <2>2 DEF SiblingOf
  <1>7. PICK m \in T : \A n \in T : n <= m
    <2>1. R \subseteq Nat /\ R # {}
      <3>1. T # {}
        BY <1>1, <1>3 DEF Covers
      <3>2. T \subseteq 1 .. SubsetSize
        OBVIOUS
      <3>3. PICK n \in T : TRUE
        BY <3>1
      <3>4. SubsetSize - n \in R
        BY <3>3
      <3>5. ASSUME NEW i \in T PROVE SubsetSize - i \in Nat
        <4>1. i \in 1 .. SubsetSize
          BY <3>2, <3>5
        <4> QED
          BY <1>5, <4>1
      <3> QED
        BY <3>4, <3>5
    <2>2. PICK r \in R : \A s \in R : r <= s
      <3> HIDE DEF R
      <3> QED
        BY <2>1, LeastNatural
    <2>3. PICK m \in T : r = SubsetSize - m
      BY <2>2
    <2>4. ASSUME NEW n \in T PROVE n <= m
      <3>1. SubsetSize - n \in R
        BY <2>4
      <3>2. SubsetSize - m <= SubsetSize - n
        BY <2>2, <2>3, <3>1
      <3>3. n \in Int /\ m \in Int
        OBVIOUS
      <3> QED
        BY <1>5, <3>2, <3>3
    <2> QED
      BY <2>3, <2>4
  <1>8. m \in 1 .. SubsetSize /\ PathAt(S[m], l) = SiblingOf(k) /\ m \in Int
    BY <1>7
  <1>9. ~Waiting(S, m, l)
    <2>1. SiblingOf(PathAt(S[m], l)) = k
      BY <1>6, <1>8
    <2>2. \A n \in 1 .. m - 1 : n \in 1 .. SubsetSize
      BY <1>5, <1>8
    <2> QED
      BY <1>4, <2>1, <2>2 DEF Waiting
  <1>10. l < ParkLevel(S, m)
    <2>1. CASE m = SubsetSize
      <3>1. ParkLevel(S, m) = TreeHeight
        BY <1>8, <2>1, ParkLevelType
      <3> QED
        BY <1>2, <3>1, HeightTypes
    <2>2. CASE m # SubsetSize
      <3> DEFINE p == ParkLevel(S, m)
      <3>1. m \in 1 .. SubsetSize - 1 /\ p \in 0 .. TreeHeight - 1 /\ p \in Nat
        BY <1>8, <2>2, ParkLevelType, HeightTypes
      <3>2. m + 1 \in 1 .. SubsetSize /\ ~(m + 1 <= m) /\ m <= m + 1
        BY <1>5, <1>8, <3>1
      <3>3. PathAt(S[m + 1], l) # SiblingOf(k)
        <4>1. m + 1 \notin T
          BY <1>7, <3>2
        <4> QED
          BY <3>2, <4>1
      <3>4. ~(p < l)
        BY <1>5, <1>8, <3>1, <3>3, ParkLevelMeets
      <3>5. p # l
        <4> SUFFICES ASSUME p = l PROVE FALSE
          OBVIOUS
        <4>1. p < l + 1
          BY <3>1
        <4>2. PathAt(S[m], l + 1) = PathAt(S[m + 1], l + 1)
          BY <1>5, <3>1, <4>1, ParkLevelMeets
        <4>3. S[m] \in Nat /\ S[m + 1] \in Nat /\ S[m] <= S[m + 1]
          BY <1>8, <3>2, SubsetFacts
        <4>4. SiblingOf(PathAt(S[m], l)) = PathAt(S[m + 1], l)
          BY <1>5, <1>8, <3>3, <4>2, <4>3, Siblings
        <4> QED
          BY <1>4, <1>6, <1>8, <3>2, <4>4
      <3> HIDE DEF p
      <3>6. l < p
        BY <1>5, <3>1, <3>4, <3>5
      <3> QED
        BY <3>6 DEF p
    <2> QED
      BY <2>1, <2>2
  <1> DEFINE q == <<m, l>>
  <1>11. q \in Stops /\ q[1] = m /\ q[2] = l /\ q[2] # Below
    <2>1. l \in Below .. TreeHeight - 1 /\ l # Below
      BY <1>2, HeightTypes DEF Below
    <2> QED
      BY <1>8, <2>1, StopFacts
  <1>12. q \in WitnessWords(S)
    BY <1>9, <1>10, <1>11 DEF WitnessWords, Words, Needs
  <1>13. NodeOf(S, q) = node
    BY <1>2, <1>6, <1>8, <1>11 DEF NodeOf
  <1> QED
    BY <1>12, <1>13

(* The words of a walk are the preimages of the subset and the witnesses   *)
(* it needs, each once.                                                    *)
LEMMA WordsCounted ==
  ASSUME subset \in Subsets
  PROVE  Cardinality(Words(subset)) = SubsetSize + Cardinality(WitnessNodes)
  <1> DEFINE S == subset
             A == PreimageWords(S)
             B == WitnessWords(S)
             f == [m \in 1 .. SubsetSize |-> <<m, Below>>]
             g == [q \in B |-> NodeOf(S, q)]
  <1>1. /\ IsFiniteSet(1 .. SubsetSize) /\ Cardinality(1 .. SubsetSize) = SubsetSize
        /\ SubsetSize \in Nat
    <2>1. SubsetSize \in Int /\ 1 \in Int /\ ~(1 > SubsetSize)
          /\ SubsetSize - 1 + 1 = SubsetSize
      BY HeightTypes
    <2> QED
      BY <2>1, FS_Interval, HeightTypes
  <1>2. IsFiniteSet(A) /\ Cardinality(A) = SubsetSize
    <2>1. ASSUME NEW m \in 1 .. SubsetSize
          PROVE  <<m, Below>> \in A /\ <<m, Below>>[1] = m
      <3>1. Below \in Below .. TreeHeight - 1
        BY HeightTypes DEF Below
      <3>2. /\ <<m, Below>> \in Stops /\ <<m, Below>>[1] = m
            /\ <<m, Below>>[2] = Below
        BY <3>1, StopFacts
      <3> QED
        BY <3>2 DEF PreimageWords, Words, Needs
    <2>2. ASSUME NEW q \in A
          PROVE  q[1] \in 1 .. SubsetSize /\ q = <<q[1], Below>>
      <3>1. q \in Stops /\ q[2] = Below
        BY DEF PreimageWords, Words
      <3> QED
        BY <3>1, StopFacts
    <2> HIDE DEF A
    <2>3. f \in [1 .. SubsetSize -> A]
      BY <2>1
    <2>4. \A m, n \in 1 .. SubsetSize : f[m] = f[n] => m = n
      OBVIOUS
    <2>5. \A q \in A : \E m \in 1 .. SubsetSize : f[m] = q
      BY <2>2
    <2> HIDE DEF f
    <2> QED
      BY <1>1, <2>3, <2>4, <2>5, OneToOne
  <1>3. IsFiniteSet(B) /\ Cardinality(B) \in Nat
    <2>1. B \in SUBSET Words(S)
      BY DEF WitnessWords
    <2> HIDE DEF B
    <2> QED
      BY <2>1, WordsFinite, FS_Subset, FS_CardinalityType
  <1>4. Cardinality(WitnessNodes) = Cardinality(B)
    <2>1. g \in [B -> WitnessNodes]
      BY WitnessIsNeeded
    <2>2. \A node \in WitnessNodes : \E q \in B : g[q] = node
      BY NeededIsRead
    <2>3. ASSUME NEW q \in B, NEW r \in B, g[q] = g[r]
          PROVE  q = r
      <3>1. /\ q = <<q[1], q[2]>> /\ r = <<r[1], r[2]>>
            /\ q[1] \in 1 .. SubsetSize /\ r[1] \in 1 .. SubsetSize
            /\ q[2] \in 0 .. TreeHeight - 1 /\ r[2] \in 0 .. TreeHeight - 1
            /\ q[2] < ParkLevel(S, q[1]) /\ r[2] < ParkLevel(S, r[1])
            /\ S[q[1]] \in Leaves /\ S[r[1]] \in Leaves
        BY WitnessWordFacts
      <3>2. NodeOf(S, q) = NodeOf(S, r)
        BY <2>3
      <3>3. /\ q[2] = r[2]
            /\ SiblingOf(PathAt(S[q[1]], q[2])) = SiblingOf(PathAt(S[r[1]], r[2]))
        BY <3>2 DEF NodeOf
      <3>4. PathAt(S[q[1]], q[2]) = PathAt(S[r[1]], r[2])
        BY <3>1, <3>3, SiblingInTree
      <3>5. ~(q[1] < r[1]) /\ ~(r[1] < q[1])
        BY <3>1, <3>3, <3>4, PathsApart
      <3>6. q[1] = r[1]
        BY <3>1, <3>5
      <3> QED
        BY <3>1, <3>3, <3>6
    <2> HIDE DEF g, B
    <2> QED
      BY <1>3, <2>1, <2>2, <2>3, OneToOne
  <1>5. Words(S) = A \cup B /\ A \cap B = {}
    BY DEF PreimageWords, WitnessWords
  <1> HIDE DEF A, B, S
  <1>6. Cardinality(A \cup B)
          = Cardinality(A) + Cardinality(B) - Cardinality(A \cap B)
    BY <1>2, <1>3, FS_Union
  <1>7. Cardinality(A \cap B) = 0
    BY <1>5, FS_EmptySet
  <1>8. Cardinality(Words(S)) = SubsetSize + Cardinality(WitnessNodes)
    BY <1>1, <1>2, <1>3, <1>4, <1>5, <1>6, <1>7
  <1> QED
    BY <1>8 DEF S

(* A whole signature consists of these, and of the path of the epoch.      *)
LEMMA CompleteIsMinimal ==
  ASSUME subset \in Subsets, NEW e \in Epochs, NEW x \in Seq(WordSet),
         Complete(subset, e, x), Filled(subset)
  PROVE  /\ Len(x) = SubsetSize + Cardinality(WitnessNodes) + XmssHeight
         /\ {x[n] : n \in DOMAIN x}
              = {Preimage(e, subset[n]) : n \in DOMAIN subset}
                  \cup {EpochTree[e][n[1]][n[2]] : n \in WitnessNodes}
                  \cup {XmssAuth(e)[n] : n \in 1 .. XmssHeight}
  <1> DEFINE S == subset
             c == Cardinality(Words(S))
             leaves == {Preimage(e, S[n]) : n \in DOMAIN S}
             witnesses == {EpochTree[e][n[1]][n[2]] : n \in WitnessNodes}
             auth == {XmssAuth(e)[n] : n \in 1 .. XmssHeight}
  <1>1. c \in Nat /\ XmssHeight \in Nat /\ DOMAIN S = 1 .. SubsetSize
    BY WordsFinite, HeightTypes DEF Subsets
  <1>2. /\ Len(x) = c + XmssHeight /\ DOMAIN x = 1 .. c + XmssHeight
        /\ \A q \in Words(S) : x[Position(S, q)] = WordAt(S, e, q[1], q[2])
        /\ \A n \in 1 .. XmssHeight : x[c + n] = XmssAuth(e)[n]
    <2>1. Len(x) = c + XmssHeight
      BY DEF Complete
    <2>2. DOMAIN x = 1 .. Len(x)
      OBVIOUS
    <2> QED
      BY <2>1, <2>2 DEF Complete
  <1>3. Len(x) = SubsetSize + Cardinality(WitnessNodes) + XmssHeight
    BY <1>2, WordsCounted
  <1>4. ASSUME NEW q \in Words(S)
        PROVE  WordAt(S, e, q[1], q[2]) \in leaves \cup witnesses
    <2>1. CASE q[2] = Below
      <3>1. q[1] \in 1 .. SubsetSize
        BY WordsFinite, StopFacts
      <3>2. WordAt(S, e, q[1], q[2]) = Preimage(e, S[q[1]])
        BY <2>1 DEF WordAt
      <3> QED
        BY <1>1, <3>1, <3>2
    <2>2. CASE q[2] # Below
      <3>1. q \in WitnessWords(S)
        BY <2>2 DEF WitnessWords
      <3> QED
        BY <3>1, WitnessWordFacts, WitnessIsNeeded
    <2> QED
      BY <2>1, <2>2
  <1>5. ASSUME NEW q \in Words(S)
        PROVE  Position(S, q) \in 1 .. c
    <2>1. q \in Before(S, SubsetSize + 1, Below)
      BY BeforeEnds
    <2>2. SubsetSize + 1 \in Int /\ Below \in Int
      BY HeightTypes DEF Below
    <2> QED
      BY <2>1, <2>2, PositionBefore, BeforeEnds
  <1>6. ASSUME NEW n \in 1 .. c + XmssHeight
        PROVE  x[n] \in leaves \cup witnesses \cup auth
    <2>1. CASE n <= c
      <3>1. n \in 1 .. c
        BY <1>1, <2>1
      <3>2. PICK q \in Words(S) : Position(S, q) = n
        BY <3>1 DEF Filled
      <3>3. x[n] = WordAt(S, e, q[1], q[2])
        BY <1>2, <3>2
      <3> HIDE DEF leaves, witnesses, auth
      <3> QED
        BY <1>4, <3>3
    <2>2. CASE ~(n <= c)
      <3> HIDE DEF c
      <3>1. n - c \in 1 .. XmssHeight /\ c + (n - c) = n
        BY <1>1, <2>2
      <3> QED
        BY <1>2, <3>1
    <2> QED
      BY <2>1, <2>2
  <1>7. ASSUME NEW q \in Words(S)
        PROVE  \E n \in DOMAIN x : x[n] = WordAt(S, e, q[1], q[2])
    <2>1. Position(S, q) \in 1 .. c
      BY <1>5
    <2> HIDE DEF c
    <2>2. Position(S, q) \in 1 .. c + XmssHeight
      BY <1>1, <2>1
    <2> QED
      BY <1>2, <2>2
  <1>8. ASSUME NEW word \in leaves PROVE \E n \in DOMAIN x : x[n] = word
    <2>1. PICK m \in 1 .. SubsetSize : word = Preimage(e, S[m])
      BY <1>1
    <2> DEFINE q == <<m, Below>>
    <2>2. q \in Stops /\ q[1] = m /\ q[2] = Below
      <3>1. Below \in Below .. TreeHeight - 1
        BY HeightTypes DEF Below
      <3> QED
        BY <3>1, StopFacts
    <2>3. q \in Words(S)
      BY <2>2 DEF Words, Needs
    <2>4. WordAt(S, e, q[1], q[2]) = word
      BY <2>1, <2>2 DEF WordAt
    <2> HIDE DEF q
    <2> QED
      BY <1>7, <2>3, <2>4
  <1>9. ASSUME NEW word \in witnesses PROVE \E n \in DOMAIN x : x[n] = word
    <2>1. PICK node \in WitnessNodes : word = EpochTree[e][node[1]][node[2]]
      OBVIOUS
    <2>2. PICK q \in WitnessWords(S) : NodeOf(S, q) = node
      BY NeededIsRead
    <2>3. q \in Words(S) /\ WordAt(S, e, q[1], q[2]) = word
      BY <2>1, <2>2, WitnessWordFacts
    <2> QED
      BY <1>7, <2>3
  <1>10. ASSUME NEW word \in auth PROVE \E n \in DOMAIN x : x[n] = word
    <2>1. PICK n \in 1 .. XmssHeight : word = XmssAuth(e)[n]
      OBVIOUS
    <2> HIDE DEF c
    <2>2. c + n \in 1 .. c + XmssHeight
      BY <1>1
    <2> QED
      BY <1>2, <2>1, <2>2
  <1> HIDE DEF c, leaves, witnesses, auth
  <1>11. {x[n] : n \in DOMAIN x} \subseteq leaves \cup witnesses \cup auth
    BY <1>2, <1>6
  <1>12. leaves \cup witnesses \cup auth \subseteq {x[n] : n \in DOMAIN x}
    BY <1>8, <1>9, <1>10
  <1> QED
    BY <1>3, <1>11, <1>12 DEF leaves, witnesses, auth

-----------------------------------------------------------------------------
(* THE PROPERTIES                                                          *)

(* Where a walk is, by its shape.                                          *)
LEMMA ShapeInTree ==
  ASSUME NEW S \in Subsets, NEW w, Shape(S, w)
  PROVE  w.idx \in 1 .. SubsetSize + 1 /\ w.level \in Below .. TreeHeight
  <1>1. w.idx \in 1 .. SubsetSize + 1 /\ w.level \in Int
    BY DEF Shape
  <1>2. CASE w.idx <= SubsetSize
    <2>1. w.level \in Below .. ParkLevel(S, w.idx)
      BY <1>2 DEF Shape
    <2>2. ParkLevel(S, w.idx) \in 0 .. TreeHeight
      BY <1>2, ShapeFacts
    <2> QED
      BY <1>1, <2>1, <2>2, HeightTypes DEF Below
  <1>3. CASE ~(w.idx <= SubsetSize)
    <2>1. w.idx > SubsetSize
      BY <1>1, <1>3, HeightTypes
    <2>2. w.level = Below
      BY <2>1 DEF Shape
    <2> QED
      BY <1>1, <2>2, HeightTypes DEF Below
  <1> QED
    BY <1>2, <1>3

(* What the invariant says of the properties.                              *)
LEMMA MultiproofTypeHolds ==
  ASSUME MultiproofInv
  PROVE  MultiproofTypeOK
  <1>1. /\ phase \in {"derive", "sign", "signed", "verify", "accepted", "rejected"}
        /\ subset \in Seq(Leaves) /\ Len(subset) <= SubsetSize
        /\ Increasing(subset) /\ epoch \in Epochs
        /\ phase # "derive" => subset \in Subsets
    BY DEF MultiproofInv, MultiproofTypes
  <1>2. phase = "derive" \/ Len(subset) = SubsetSize
    BY <1>1, SubsetFacts
  <1>3. walk.idx \in 1 .. SubsetSize + 1 /\ walk.level \in Below .. TreeHeight
    <2>0. /\ 1 \in 1 .. SubsetSize + 1 /\ SubsetSize + 1 \in 1 .. SubsetSize + 1
          /\ Below \in Below .. TreeHeight
      BY HeightTypes DEF Below
    <2>1. CASE phase = "derive"
      <3>1. walk.idx = 1 /\ walk.level = Below
        BY <2>1 DEF MultiproofInv, Deriving, StartOfWalk
      <3> QED
        BY <2>0, <3>1
    <2>2. CASE phase = "sign"
      BY <1>1, <2>2, ShapeInTree DEF MultiproofInv, Signing
    <2>3. CASE phase = "signed"
      BY <2>0, <2>3 DEF MultiproofInv, HasSigned
    <2>4. CASE phase \in {"verify", "accepted", "rejected"}
      BY <2>4, ShapeInTree DEF MultiproofInv, Verifying
    <2> QED
      BY <1>1, <2>1, <2>2, <2>3, <2>4
  <1> QED
    BY <1>1, <1>2, <1>3 DEF MultiproofTypeOK

(* An authentic walk has in its slots what the coming leaves need.         *)
LEMMA SlotsServe ==
  ASSUME NEW S \in Subsets, NEW e, NEW w, Shape(S, w), Authentic(S, e, w),
         NEW l \in 0 .. TreeHeight, w.frontier[l] # Empty
  PROVE  IF w.idx > SubsetSize
         THEN l = TreeHeight /\ w.frontier[l] = EpochTree[e][l][0]
         ELSE /\ l < TreeHeight /\ l >= w.level
              /\ IsRight(S[w.idx], l)
              /\ w.frontier[l] = SiblingAt(EpochTree[e], S[w.idx], l)
  <1>1. w.frontier[l] = SlotAt(S, e, w.idx, l) /\ w.level \in Int /\ l \in Int
    BY DEF Authentic, Shape
  <1>2. IF w.idx > SubsetSize THEN l = TreeHeight
        ELSE l < TreeHeight /\ w.level <= l /\ Waiting(S, w.idx, l)
    BY DEF Shape
  <1>3. CASE w.idx > SubsetSize
    BY <1>1, <1>2, <1>3 DEF SlotAt
  <1>4. CASE ~(w.idx > SubsetSize)
    <2>1. w.frontier[l] = SiblingAt(EpochTree[e], S[w.idx], l)
      BY <1>1, <1>4 DEF SlotAt
    <2>2. l < TreeHeight /\ w.level <= l /\ IsRight(S[w.idx], l)
      BY <1>2, <1>4 DEF Waiting
    <2>3. l >= w.level
      BY <1>1, <2>2
    <2> QED
      BY <1>4, <2>1, <2>2, <2>3
  <1> QED
    BY <1>3, <1>4

(* The verifier of an intact signature has read the right words.           *)
LEMMA FrontierServes ==
  ASSUME MultiproofInv
  PROVE  FrontierServesTheNextLeaf
  <1> SUFFICES ASSUME phase = "sign" \/ (phase = "verify" /\ Intact)
               PROVE  \A l \in 0 .. TreeHeight :
                        walk.frontier[l] # Empty =>
                          IF walk.idx > SubsetSize
                          THEN /\ l = TreeHeight
                               /\ walk.frontier[l] = EpochTree[epoch][l][0]
                          ELSE /\ l < TreeHeight /\ l >= walk.level
                               /\ IsRight(subset[walk.idx], l)
                               /\ walk.frontier[l]
                                    = SiblingAt(EpochTree[epoch],
                                                subset[walk.idx], l)
    BY DEF FrontierServesTheNextLeaf
  <1>1. subset \in Subsets /\ signature \in Seq(WordSet)
    BY DEF MultiproofInv, MultiproofTypes
  <1>2. Shape(subset, walk) /\ Authentic(subset, epoch, walk)
    <2>1. CASE phase = "sign"
      BY <2>1 DEF MultiproofInv, Signing
    <2>2. CASE phase = "verify" /\ Intact
      <3>1. claim.subset = subset /\ claim.epoch = epoch /\ sig = signature
        BY <2>2 DEF Intact, Signed
      <3>2. /\ Shape(subset, walk)
            /\ Authentic(subset, epoch, walk)
                 <=> Matches(subset, epoch, signature, walk.idx, walk.level)
        BY <2>2, <3>1 DEF MultiproofInv, Verifying
      <3>3. Complete(subset, epoch, signature)
        BY <2>2 DEF MultiproofInv, HasSigned
      <3>4. Matches(subset, epoch, signature, walk.idx, walk.level)
        BY <1>1, <3>3, MatchesComplete
      <3> QED
        BY <3>2, <3>4
    <2> QED
      BY <2>1, <2>2
  <1> QED
    BY <1>1, <1>2, SlotsServe

(* The signer has written the right ones, and no other.                    *)
LEMMA SignedIsMinimal ==
  ASSUME MultiproofInv
  PROVE  SignatureIsMinimal
  <1> SUFFICES ASSUME phase = "signed" PROVE SignatureIsMinimal
    BY DEF SignatureIsMinimal
  <1>1. /\ subset \in Subsets /\ epoch \in Epochs /\ signature \in Seq(WordSet)
        /\ Complete(subset, epoch, signature) /\ Filled(subset)
    BY DEF MultiproofInv, MultiproofTypes, HasSigned
  <1> QED
    BY <1>1, CompleteIsMinimal DEF SignatureIsMinimal
-----------------------------------------------------------------------------
(* The subset is strictly increasing whatever is selected in whatever      *)
(* order (derive_subset), and no walk leaves the tree.                     *)
THEOREM MultiproofTypeCorrect == Spec => []MultiproofTypeOK
  <1>1. MultiproofInv => MultiproofTypeOK
    BY MultiproofTypeHolds
  <1> QED
    BY <1>1, MultiproofInvariant, PTL

(* Signing, and verifying an intact signature, each slot of the frontier   *)
(* holds the sibling that the coming leaves need at its level, and nothing *)
(* is parked over it (porst_sign, compute_porst_root).                     *)
THEOREM FrontierServesTheNextLeafAlways == Spec => []FrontierServesTheNextLeaf
  <1>1. MultiproofInv => FrontierServesTheNextLeaf
    BY FrontierServes
  <1> QED
    BY <1>1, MultiproofInvariant, PTL

(* The signature has the preimages of the subset, each node that covers no *)
(* selected leaf while its sibling covers one, and the path of the epoch,  *)
(* and no word more (porst_sign, sign_digest).                             *)
THEOREM SignatureIsAlwaysMinimal == Spec => []SignatureIsMinimal
  <1>1. MultiproofInv => SignatureIsMinimal
    BY SignedIsMinimal
  <1> QED
    BY <1>1, MultiproofInvariant, PTL

(* The verifier accepts the signature where it was made for, and no other  *)
(* words, subset or epoch (verify_wallet_sig, verify_porst).               *)
THEOREM AcceptsOnlyWhatWasSigned == Spec => []AcceptsWhatWasSigned
  <1>1. MultiproofInv => AcceptsWhatWasSigned
    BY DEF MultiproofInv
  <1> QED
    BY <1>1, MultiproofInvariant, PTL
=============================================================================

-------------------------- MODULE FiniteSumsProofs --------------------------
(***************************************************************************)
(* How the sum of natural-number weights over a finite set moves when the  *)
(* set gains or loses an element or when one weight changes.               *)
(***************************************************************************)
EXTENDS FiniteSums, Integers, FiniteSetTheorems, TLAPS

(* The unit tokens of one element are as many as its weight.               *)
LEMMA UnitsOfOne ==
  ASSUME NEW x, NEW n \in Nat
  PROVE  /\ IsFiniteSet({x} \X (1 .. n))
         /\ Cardinality({x} \X (1 .. n)) = n
  <1>1. IsFiniteSet({x}) /\ Cardinality({x}) = 1
    BY FS_Singleton
  <1>2. IsFiniteSet(1 .. n) /\ Cardinality(1 .. n) = n
    BY FS_Interval
  <1>3. /\ IsFiniteSet({x} \X (1 .. n))
        /\ Cardinality({x} \X (1 .. n)) = Cardinality({x}) * Cardinality(1 .. n)
    BY <1>1, <1>2, FS_Product
  <1> QED
    BY <1>1, <1>2, <1>3

(* A finite set with natural weights has finitely many unit tokens, so its *)
(* sum is a natural number.                                                *)
LEMMA SumType ==
  ASSUME NEW S, IsFiniteSet(S), NEW f, \A x \in S : f[x] \in Nat
  PROVE  /\ IsFiniteSet(Units(f, S))
         /\ SumOver(f, S) \in Nat
  <1> DEFINE U == {{x} \X (1 .. f[x]) : x \in S}
             g == [x \in S |-> {x} \X (1 .. f[x])]
  <1>1. g \in Surjection(S, U)
    BY DEF Surjection
  <1>2. IsFiniteSet(U)
    BY <1>1, FS_Surjection
  <1>3. ASSUME NEW T \in U PROVE IsFiniteSet(T)
    <2>1. PICK x \in S : T = {x} \X (1 .. f[x])
      OBVIOUS
    <2>2. f[x] \in Nat
      OBVIOUS
    <2> QED
      BY <2>1, <2>2, UnitsOfOne
  <1>4. IsFiniteSet(UNION U)
    BY <1>2, <1>3, FS_UNION
  <1> QED
    BY <1>4, FS_CardinalityType DEF Units, SumOver

(* The sum over nothing is zero.                                           *)
LEMMA SumEmpty ==
  ASSUME NEW f
  PROVE  SumOver(f, {}) = 0
  BY FS_EmptySet DEF SumOver, Units

(* Two weightings that agree on a set have the same sum over it.           *)
LEMMA SumEqual ==
  ASSUME NEW S, NEW f, NEW g, \A x \in S : f[x] = g[x]
  PROVE  SumOver(f, S) = SumOver(g, S)
  <1>1. Units(f, S) = Units(g, S)
    BY DEF Units
  <1> QED
    BY <1>1 DEF SumOver

(* A new element adds its weight.                                          *)
LEMMA SumAdd ==
  ASSUME NEW S, IsFiniteSet(S), NEW x, x \notin S,
         NEW f, \A y \in S : f[y] \in Nat,
         NEW g, \A y \in S : g[y] = f[y], g[x] \in Nat
  PROVE  SumOver(g, S \cup {x}) = SumOver(f, S) + g[x]
  <1> DEFINE N == {x} \X (1 .. g[x])
  <1>1. Units(g, S \cup {x}) = Units(f, S) \cup N
    BY DEF Units
  <1>2. Units(f, S) \cap N = {}
    BY DEF Units
  <1>3. IsFiniteSet(Units(f, S)) /\ Cardinality(Units(f, S)) \in Nat
    BY SumType DEF SumOver
  <1>4. IsFiniteSet(N) /\ Cardinality(N) = g[x]
    BY UnitsOfOne
  <1> HIDE DEF N
  <1>5. Cardinality(Units(f, S) \cup N)
          = Cardinality(Units(f, S)) + Cardinality(N)
              - Cardinality(Units(f, S) \cap N)
    BY <1>3, <1>4, FS_Union
  <1>6. Cardinality(Units(f, S) \cap N) = 0
    BY <1>2, FS_EmptySet
  <1>7. Cardinality(Units(g, S \cup {x})) = Cardinality(Units(f, S)) + g[x]
    <2>1. Cardinality(Units(f, S) \cup N) = Cardinality(Units(f, S)) + g[x]
      BY <1>3, <1>4, <1>5, <1>6
    <2> QED
      BY <1>1, <2>1
  <1> QED
    BY <1>7 DEF SumOver

(* An element that leaves takes its weight with it.                        *)
LEMMA SumRemove ==
  ASSUME NEW S, IsFiniteSet(S), NEW x \in S,
         NEW f, \A y \in S : f[y] \in Nat,
         NEW g, \A y \in S \ {x} : g[y] = f[y]
  PROVE  /\ f[x] <= SumOver(f, S)
         /\ SumOver(g, S \ {x}) = SumOver(f, S) - f[x]
  <1> DEFINE R == S \ {x}
  <1>1. IsFiniteSet(R)
    BY FS_RemoveElement
  <1>2. \A y \in R : g[y] \in Nat
    OBVIOUS
  <1>3. SumOver(g, R) \in Nat
    BY <1>1, <1>2, SumType
  <1>4. S = R \cup {x} /\ x \notin R
    OBVIOUS
  <1>5. (\A y \in R : f[y] = g[y]) /\ f[x] \in Nat
    OBVIOUS
  <1> HIDE DEF R
  <1>6. SumOver(f, R \cup {x}) = SumOver(g, R) + f[x]
    BY <1>1, <1>2, <1>4, <1>5, SumAdd
  <1>7. /\ f[x] <= SumOver(f, S)
        /\ SumOver(g, R) = SumOver(f, S) - f[x]
    BY <1>3, <1>4, <1>5, <1>6
  <1> QED
    BY <1>7 DEF R

(* Changing one weight changes the sum by the difference.                  *)
LEMMA SumUpdate ==
  ASSUME NEW S, IsFiniteSet(S), NEW x \in S,
         NEW f, \A y \in S : f[y] \in Nat,
         NEW g, \A y \in S \ {x} : g[y] = f[y], g[x] \in Nat
  PROVE  SumOver(g, S) = SumOver(f, S) - f[x] + g[x]
  <1> DEFINE R == S \ {x}
  <1>1. IsFiniteSet(R) /\ x \notin R /\ S = R \cup {x}
    BY FS_RemoveElement
  <1>2. SumOver(f, R) = SumOver(f, S) - f[x] /\ f[x] <= SumOver(f, S)
    BY SumRemove
  <1>3. (\A y \in R : f[y] \in Nat) /\ (\A y \in R : g[y] = f[y])
    OBVIOUS
  <1> HIDE DEF R
  <1>4. SumOver(g, R \cup {x}) = SumOver(f, R) + g[x]
    BY <1>1, <1>3, SumAdd
  <1> QED
    BY <1>1, <1>2, <1>4

(* Elements without weight do not count.                                   *)
LEMMA SumSupport ==
  ASSUME NEW S, NEW T, T \subseteq S, NEW f, \A x \in S \ T : f[x] = 0
  PROVE  SumOver(f, S) = SumOver(f, T)
  <1>1. \A x \in S \ T : {x} \X (1 .. f[x]) = {}
    OBVIOUS
  <1>2. Units(f, S) = Units(f, T)
    BY <1>1 DEF Units
  <1> QED
    BY <1>2 DEF SumOver

(* Greater weights have a greater sum.                                     *)
LEMMA SumMonotone ==
  ASSUME NEW S, IsFiniteSet(S), NEW f, NEW g,
         \A x \in S : f[x] \in Nat /\ g[x] \in Nat /\ f[x] <= g[x]
  PROVE  SumOver(f, S) <= SumOver(g, S)
  <1>1. \A x \in S : 1 .. f[x] \subseteq 1 .. g[x]
    OBVIOUS
  <1>2. Units(f, S) \subseteq Units(g, S)
    BY <1>1 DEF Units
  <1>3. IsFiniteSet(Units(g, S))
    BY SumType
  <1> QED
    BY <1>2, <1>3, FS_Subset DEF SumOver

(* A sum of equal weights is a product, and one of weights that are no     *)
(* more than c is no more than that product.                               *)
LEMMA SumBound ==
  ASSUME NEW S, IsFiniteSet(S), NEW c \in Nat,
         NEW f, \A x \in S : f[x] \in 0 .. c
  PROVE  /\ SumOver(f, S) <= c * Cardinality(S)
         /\ (\A x \in S : f[x] = c) => SumOver(f, S) = c * Cardinality(S)
  <1> DEFINE U == S \X (1 .. c)
  <1>1. IsFiniteSet(1 .. c) /\ Cardinality(1 .. c) = c
    BY FS_Interval
  <1>2. IsFiniteSet(U) /\ Cardinality(U) = Cardinality(S) * c
    BY <1>1, FS_Product
  <1>3. Cardinality(S) \in Nat
    BY FS_CardinalityType
  <1>4. Cardinality(U) = c * Cardinality(S)
    BY <1>2, <1>3
  <1>5. \A x \in S : 1 .. f[x] \subseteq 1 .. c
    OBVIOUS
  <1>6. Units(f, S) \subseteq U
    BY <1>5 DEF Units
  <1> HIDE DEF U
  <1>7. Cardinality(Units(f, S)) <= Cardinality(U)
    BY <1>2, <1>6, FS_Subset
  <1>8. ASSUME \A x \in S : f[x] = c PROVE Units(f, S) = U
    BY <1>8 DEF Units, U
  <1> QED
    BY <1>4, <1>7, <1>8 DEF SumOver
=============================================================================

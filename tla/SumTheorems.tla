----------------------------- MODULE SumTheorems -----------------------------
(***************************************************************************)
(* What the models' sums over finite sets (MapThenSumSet) are: facts the   *)
(* proofs about promised stock, settled money and ledgers rest on; and     *)
(* what is left of a sequence that loses one of its elements.              *)
(*                                                                         *)
(* A fold removes the elements of a set in an order of its own, so that a  *)
(* sum is the last word of a recursive function on the subsets of the set. *)
(* The facts are proved by looking at a smallest counterexample: the       *)
(* subsets of a finite set are well founded.                               *)
(***************************************************************************)
EXTENDS Integers, FiniteSetsExt, SequencesExt, FiniteSetTheorems, WellFoundedInduction, TLAPS

(* The element a fold takes out of a set next. *)
First(s) == CHOOSE x \in s : TRUE

(* it adds up the values F of the subsets of S. *)
AddsUp(it, F, S) ==
    it = [s \in SUBSET S |-> IF s = {} THEN 0 ELSE F[First(s)] + it[s \ {First(s)}]]

(* The sum of the values F of the elements of S. *)
SumOver(F, S) == (CHOOSE it : AddsUp(it, F, S))[S]

------------------------------------------------------------------------------
(* Induction. *)

LEMMA SmallestSubset ==
    ASSUME NEW S, IsFiniteSet(S), NEW C \in SUBSET SUBSET S, C # {}
    PROVE  \E A \in C : \A B \in C : B \subseteq A => B = A
<1>1. IsWellFoundedOn(StrictSubsetOrdering(S), SUBSET S)
  BY FS_FiniteSubsetsOfFinite, FS_StrictSubsetOrderingWellFounded
<1>2. PICK A \in C : \A B \in C : ~(<<B, A>> \in StrictSubsetOrdering(S))
  BY <1>1, WFMin
<1>3. QED
  BY <1>2 DEF StrictSubsetOrdering

(* A family of subsets that has each subset whose every smaller one it has. *)
LEMMA SubsetInduction ==
    ASSUME NEW S, IsFiniteSet(S), NEW T \in SUBSET SUBSET S,
           \A A \in SUBSET S : (\A B \in SUBSET A : B # A => B \in T) => A \in T
    PROVE  T = SUBSET S
<1> DEFINE C == (SUBSET S) \ T
<1>1. SUFFICES ASSUME C # {} PROVE FALSE
  OBVIOUS
<1>2. C \in SUBSET SUBSET S
  OBVIOUS
<1> HIDE DEF C
<1>3. PICK A \in C : \A B \in C : B \subseteq A => B = A
  BY <1>1, <1>2, SmallestSubset
<1>4. \A B \in SUBSET A : B # A => B \in T
  BY <1>2, <1>3 DEF C
<1>5. QED
  BY <1>3, <1>4 DEF C

LEMMA SmallestNumber ==
    ASSUME NEW C \in SUBSET Nat, C # {}
    PROVE  \E n \in C : \A m \in C : n <= m
<1>1. PICK k \in C : TRUE
  OBVIOUS
<1> DEFINE D == {0..m : m \in C \cap (0..k)}
<1>2. 0..k \in D /\ D \in SUBSET SUBSET (0..k)
  OBVIOUS
<1>3. IsFiniteSet(0..k)
  BY FS_Interval
<1>4. \E A \in D : \A B \in D : B \subseteq A => B = A
  <2>1. D # {}
    BY <1>2
  <2>2. PICK K : K = 0..k
    OBVIOUS
  <2>3. IsFiniteSet(K) /\ D \in SUBSET SUBSET K
    BY <1>2, <1>3, <2>2
  <2> HIDE DEF D
  <2>4. QED
    BY <2>1, <2>3, SmallestSubset
<1>5. PICK n \in C \cap (0..k) : \A B \in D : B \subseteq 0..n => B = 0..n
  BY <1>4
<1>6. ASSUME NEW m \in C, m < n PROVE FALSE
  <2>1. 0..m \in D /\ 0..m \subseteq 0..n
    BY <1>6
  <2>2. 0..m = 0..n
    BY <1>5, <2>1
  <2>3. QED
    BY <1>6, <2>2
<1>7. QED
  BY <1>5, <1>6

LEMMA NumberInduction ==
    ASSUME NEW T \in SUBSET Nat, 0 \in T, \A n \in T : n + 1 \in T
    PROVE  T = Nat
<1>1. SUFFICES ASSUME Nat \ T # {} PROVE FALSE
  OBVIOUS
<1>2. PICK n \in Nat \ T : \A m \in Nat \ T : n <= m
  BY <1>1, SmallestNumber
<1>3. n - 1 \in Nat \/ n = 0
  OBVIOUS
<1>4. QED
  BY <1>2, <1>3

------------------------------------------------------------------------------
(* There is such a function: what is right for the subsets of n elements is
   made right for those of n + 1 by applying the definition once more. *)
LEMMA SumExists ==
    ASSUME NEW S, IsFiniteSet(S), NEW F
    PROVE  \E it : AddsUp(it, F, S)
<1> DEFINE Def(it, s) == IF s = {} THEN 0 ELSE F[First(s)] + it[s \ {First(s)}]
           Right(it, n) == \A s \in SUBSET S : Cardinality(s) <= n => it[s] = Def(it, s)
           T == {n \in Nat : \E it : it = [s \in SUBSET S |-> it[s]] /\ Right(it, n)}
<1>1. \A s \in SUBSET S : Cardinality(s) \in Nat
  BY FS_Subset, FS_CardinalityType
<1>2. 0 \in T
  <2> DEFINE it == [s \in SUBSET S |-> 0]
  <2>1. \A s \in SUBSET S : Cardinality(s) <= 0 => s = {}
    BY <1>1, FS_Subset, FS_EmptySet
  <2>2. Right(it, 0)
    BY <2>1
  <2>3. QED
    BY <2>2
<1>3. ASSUME NEW n \in T PROVE n + 1 \in T
  <2>1. PICK it : it = [s \in SUBSET S |-> it[s]] /\ Right(it, n)
    BY <1>3
  <2> DEFINE jt == [s \in SUBSET S |-> Def(it, s)]
  <2>2. ASSUME NEW s \in SUBSET S, Cardinality(s) <= n + 1 PROVE jt[s] = Def(jt, s)
    <3>1. CASE s = {}
      BY <3>1
    <3>2. CASE s # {}
      <4>1. First(s) \in s
        BY <3>2 DEF First
      <4>2. s \ {First(s)} \in SUBSET S /\ Cardinality(s \ {First(s)}) <= n
        <5>1. IsFiniteSet(s)
          BY FS_Subset
        <5>2. Cardinality(s \ {First(s)}) = Cardinality(s) - 1
          BY <4>1, <5>1, FS_RemoveElement
        <5>3. QED
          BY <1>1, <2>2, <5>2
      <4>3. jt[s \ {First(s)}] = it[s \ {First(s)}]
        BY <2>1, <4>2
      <4>4. QED
        BY <3>2, <4>3
    <3>3. QED
      BY <3>1, <3>2
  <2>3. Right(jt, n + 1)
    BY <2>2
  <2>4. jt = [s \in SUBSET S |-> jt[s]]
    OBVIOUS
  <2> HIDE DEF jt, Right
  <2>5. QED
    BY <2>3, <2>4
<1>4. T = Nat
  <2>1. T \in SUBSET Nat
    OBVIOUS
  <2> HIDE DEF T
  <2>2. QED
    BY <1>2, <1>3, <2>1, NumberInduction
<1>5. Cardinality(S) \in T
  BY <1>1, <1>4
<1>6. PICK it : it = [s \in SUBSET S |-> it[s]] /\ Right(it, Cardinality(S))
  BY <1>5
<1>7. \A s \in SUBSET S : Cardinality(s) <= Cardinality(S)
  BY FS_Subset
<1>8. it = [s \in SUBSET S |-> Def(it, s)]
  BY <1>6, <1>7
<1>9. QED
  BY <1>8 DEF AddsUp

(* Any such function has the values F as its parts, in whatever order. *)
LEMMA SumParts ==
    ASSUME NEW S, IsFiniteSet(S), NEW F, \A x \in S : F[x] \in Int, NEW it, AddsUp(it, F, S)
    PROVE  /\ it[{}] = 0
           /\ \A s \in SUBSET S : it[s] \in Int
           /\ \A s \in SUBSET S : \A x \in s : it[s] = F[x] + it[s \ {x}]
<1> DEFINE Good(s) == it[s] \in Int /\ \A x \in s : it[s] = F[x] + it[s \ {x}]
           T == {s \in SUBSET S : Good(s)}
<1>1. \A s \in SUBSET S : it[s] = IF s = {} THEN 0 ELSE F[First(s)] + it[s \ {First(s)}]
  BY DEF AddsUp
<1>2. ASSUME NEW A \in SUBSET S, \A B \in SUBSET A : B # A => B \in T
      PROVE  A \in T
  <2>1. CASE A = {}
    <3>1. it[{}] = 0
      BY <1>1
    <3>2. QED
      BY <2>1, <3>1
  <2>2. CASE A # {}
    <3>1. PICK p \in A : p = First(A) /\ it[A] = F[p] + it[A \ {p}]
      BY <1>1, <2>2 DEF First
    <3>2. Good(A \ {p}) /\ F[p] \in Int
      BY <1>2, <3>1
    <3>3. it[A] \in Int
      BY <3>1, <3>2
    <3>4. ASSUME NEW x \in A, x # p PROVE it[A] = F[x] + it[A \ {x}]
      <4>1. Good(A \ {x}) /\ F[x] \in Int
        BY <1>2
      <4>2. it[A \ {p}] = F[x] + it[(A \ {p}) \ {x}]
        BY <3>2, <3>4
      <4>3. it[A \ {x}] = F[p] + it[(A \ {x}) \ {p}]
        BY <3>4, <4>1
      <4>4. it[(A \ {p}) \ {x}] = it[(A \ {x}) \ {p}] /\ it[(A \ {p}) \ {x}] \in Int
        <5>1. (A \ {p}) \ {x} # A /\ (A \ {p}) \ {x} \in SUBSET A
          BY <3>1
        <5>2. Good((A \ {p}) \ {x})
          BY <1>2, <5>1
        <5>3. (A \ {p}) \ {x} = (A \ {x}) \ {p}
          OBVIOUS
        <5>4. QED
          BY <5>2, <5>3
      <4>5. PICK a, b, c, d : a = it[A \ {p}] /\ b = it[A \ {x}] /\ c = it[(A \ {p}) \ {x}] /\ d = it[A]
        OBVIOUS
      <4>6. c \in Int /\ d = F[p] + a /\ a = F[x] + c /\ b = F[p] + c /\ F[p] \in Int /\ F[x] \in Int
        BY <3>1, <3>2, <4>1, <4>2, <4>3, <4>4, <4>5
      <4>7. d = F[x] + b
        BY <4>6
      <4>8. QED
        BY <4>5, <4>7
    <3>5. QED
      BY <3>1, <3>3, <3>4
  <2>3. QED
    BY <2>1, <2>2
<1>3. T = SUBSET S
  <2>1. T \in SUBSET SUBSET S
    OBVIOUS
  <2> HIDE DEF T
  <2>2. QED
    BY <1>2, <2>1, SubsetInduction
<1>4. \A s \in SUBSET S : Good(s)
  BY <1>3
<1>5. QED
  BY <1>1, <1>4

(* Two of them agree where their values do. *)
LEMMA SumsAgree ==
    ASSUME NEW S, IsFiniteSet(S), NEW F, NEW it, AddsUp(it, F, S),
           NEW U, IsFiniteSet(U), NEW G, NEW jt, AddsUp(jt, G, U),
           NEW W, W \subseteq S, W \subseteq U, \A x \in W : F[x] = G[x]
    PROVE  it[W] = jt[W]
<1> DEFINE T == {s \in SUBSET W : it[s] = jt[s]}
<1>1. \A s \in SUBSET S : it[s] = IF s = {} THEN 0 ELSE F[First(s)] + it[s \ {First(s)}]
  BY DEF AddsUp
<1>2. \A s \in SUBSET U : jt[s] = IF s = {} THEN 0 ELSE G[First(s)] + jt[s \ {First(s)}]
  BY DEF AddsUp
<1>3. ASSUME NEW A \in SUBSET W, \A B \in SUBSET A : B # A => B \in T
      PROVE  A \in T
  <2>1. CASE A = {}
    BY <1>1, <1>2, <2>1
  <2>2. CASE A # {}
    <3>1. First(A) \in A
      BY <2>2 DEF First
    <3>2. it[A \ {First(A)}] = jt[A \ {First(A)}]
      BY <1>3, <3>1
    <3>3. QED
      BY <1>1, <1>2, <2>2, <3>1, <3>2
  <2>3. QED
    BY <2>1, <2>2
<1>4. T = SUBSET W
  <2>1. T \in SUBSET SUBSET W /\ IsFiniteSet(W)
    BY FS_Subset
  <2> HIDE DEF T
  <2>2. QED
    BY <1>3, <2>1, SubsetInduction
<1>5. QED
  BY <1>4

------------------------------------------------------------------------------
(* The total. *)

LEMMA SumIs ==
    ASSUME NEW S, IsFiniteSet(S), NEW F, NEW it, AddsUp(it, F, S)
    PROVE  SumOver(F, S) = it[S]
<1>1. AddsUp(CHOOSE jt : AddsUp(jt, F, S), F, S)
  OBVIOUS
<1>2. QED
  BY <1>1, SumsAgree DEF SumOver

LEMMA SumNone == \A F : SumOver(F, {}) = 0
<1> SUFFICES ASSUME NEW F PROVE SumOver(F, {}) = 0
  OBVIOUS
<1>1. IsFiniteSet({})
  BY FS_EmptySet
<1>2. PICK it : AddsUp(it, F, {})
  BY <1>1, SumExists
<1>3. it[{}] = 0
  BY <1>2 DEF AddsUp
<1>4. QED
  BY <1>1, <1>2, <1>3, SumIs

LEMMA SumZero ==
    ASSUME NEW S, IsFiniteSet(S), NEW F, \A x \in S : F[x] = 0
    PROVE  SumOver(F, S) = 0
<1> DEFINE it == [s \in SUBSET S |-> 0]
<1>1. AddsUp(it, F, S)
  <2>1. \A s \in SUBSET S : s # {} => F[First(s)] = 0 /\ it[s \ {First(s)}] = 0
    BY DEF First
  <2>2. \A s \in SUBSET S : it[s] = IF s = {} THEN 0 ELSE F[First(s)] + it[s \ {First(s)}]
    <3>1. \A s \in SUBSET S : it[s] = 0
      OBVIOUS
    <3> HIDE DEF it
    <3>2. QED
      BY <2>1, <3>1
  <2>3. it = [s \in SUBSET S |-> it[s]]
    OBVIOUS
  <2> HIDE DEF it
  <2>4. QED
    BY <2>2, <2>3 DEF AddsUp
<1>2. it[S] = 0
  OBVIOUS
<1> HIDE DEF it
<1>3. QED
  BY <1>1, <1>2, SumIs

LEMMA SumType ==
    ASSUME NEW S, IsFiniteSet(S), NEW F, \A x \in S : F[x] \in Int
    PROVE  SumOver(F, S) \in Int
<1>1. PICK it : AddsUp(it, F, S)
  BY SumExists
<1>2. QED
  BY <1>1, SumParts, SumIs

(* The same values, the same total. *)
LEMMA SumSame ==
    ASSUME NEW S, IsFiniteSet(S), NEW F, NEW G, \A x \in S : F[x] = G[x]
    PROVE  SumOver(F, S) = SumOver(G, S)
<1>1. PICK it : AddsUp(it, F, S)
  BY SumExists
<1>2. PICK jt : AddsUp(jt, G, S)
  BY SumExists
<1>3. QED
  BY <1>1, <1>2, SumsAgree, SumIs

(* One element taken out of it. *)
LEMMA SumSplit ==
    ASSUME NEW S, IsFiniteSet(S), NEW F, \A x \in S : F[x] \in Int, NEW x \in S
    PROVE  /\ SumOver(F, S \ {x}) \in Int
           /\ SumOver(F, S) = F[x] + SumOver(F, S \ {x})
<1>1. PICK it : AddsUp(it, F, S)
  BY SumExists
<1>2. IsFiniteSet(S \ {x})
  BY FS_Subset
<1>3. PICK jt : AddsUp(jt, F, S \ {x})
  BY <1>2, SumExists
<1>4. it[S \ {x}] = jt[S \ {x}]
  BY <1>1, <1>2, <1>3, SumsAgree
<1>5. it[S] = F[x] + it[S \ {x}]
  BY <1>1, SumParts
<1>6. SumOver(F, S) = it[S] /\ SumOver(F, S \ {x}) = jt[S \ {x}]
  BY <1>1, <1>2, <1>3, SumIs
<1>7. QED
  BY <1>2, <1>4, <1>5, <1>6, SumType

(* One value changed. *)
LEMMA SumChange ==
    ASSUME NEW S, IsFiniteSet(S), NEW F, NEW G, \A x \in S : F[x] \in Int /\ G[x] \in Int,
           NEW x \in S, \A y \in S \ {x} : G[y] = F[y]
    PROVE  SumOver(G, S) = SumOver(F, S) + G[x] - F[x]
<1>1. IsFiniteSet(S \ {x})
  BY FS_Subset
<1>2. SumOver(G, S \ {x}) = SumOver(F, S \ {x})
  BY <1>1, SumSame
<1>3. SumOver(F, S) = F[x] + SumOver(F, S \ {x}) /\ SumOver(F, S \ {x}) \in Int
  BY SumSplit
<1>4. SumOver(G, S) = G[x] + SumOver(G, S \ {x})
  BY SumSplit
<1>5. QED
  BY <1>2, <1>3, <1>4

(* No value above, no total above. *)
LEMMA SumAtMost ==
    ASSUME NEW S, IsFiniteSet(S), NEW F, NEW G,
           \A x \in S : F[x] \in Int /\ G[x] \in Int /\ F[x] <= G[x]
    PROVE  SumOver(F, S) <= SumOver(G, S)
<1> DEFINE T == {s \in SUBSET S : SumOver(F, s) <= SumOver(G, s)}
<1>1. ASSUME NEW A \in SUBSET S, \A B \in SUBSET A : B # A => B \in T
      PROVE  A \in T
  <2>1. CASE A = {}
    BY <2>1, SumNone
  <2>2. CASE A # {}
    <3>1. PICK x \in A : TRUE
      BY <2>2
    <3>2. A \ {x} \in T
      BY <1>1
    <3>3. IsFiniteSet(A)
      BY FS_Subset
    <3>4. SumOver(F, A) = F[x] + SumOver(F, A \ {x}) /\ SumOver(F, A \ {x}) \in Int
      BY <3>3, SumSplit
    <3>5. SumOver(G, A) = G[x] + SumOver(G, A \ {x}) /\ SumOver(G, A \ {x}) \in Int
      BY <3>3, SumSplit
    <3>6. QED
      BY <3>2, <3>4, <3>5
  <2>3. QED
    BY <2>1, <2>2
<1>2. T = SUBSET S
  <2>1. T \in SUBSET SUBSET S
    OBVIOUS
  <2> HIDE DEF T
  <2>2. QED
    BY <1>1, <2>1, SubsetInduction
<1>3. QED
  BY <1>2

(* Two parts. *)
LEMMA SumDisjoint ==
    ASSUME NEW A, NEW B, IsFiniteSet(A), IsFiniteSet(B), A \cap B = {},
           NEW F, \A x \in A \cup B : F[x] \in Int
    PROVE  SumOver(F, A \cup B) = SumOver(F, A) + SumOver(F, B)
<1> DEFINE T == {s \in SUBSET B : SumOver(F, A \cup s) = SumOver(F, A) + SumOver(F, s)}
<1>1. SumOver(F, A) \in Int
  BY SumType
<1>2. ASSUME NEW s \in SUBSET B, \A t \in SUBSET s : t # s => t \in T
      PROVE  s \in T
  <2>1. CASE s = {}
    <3>1. A \cup s = A /\ SumOver(F, s) = 0
      BY <2>1, SumNone
    <3>2. PICK a : a = SumOver(F, A) /\ a = a + 0
      BY <1>1
    <3>3. SumOver(F, A \cup s) = a
      BY <3>1, <3>2, Zenon
    <3>4. SumOver(F, A \cup s) = SumOver(F, A) + SumOver(F, s)
      BY <3>1, <3>2, <3>3
    <3>5. QED
      BY <3>4
  <2>2. CASE s # {}
    <3>1. PICK x \in s : TRUE
      BY <2>2
    <3>2. s \ {x} \in T
      BY <1>2
    <3>3. IsFiniteSet(s) /\ IsFiniteSet(A \cup s)
      BY FS_Subset, FS_Union
    <3>4. SumOver(F, s) = F[x] + SumOver(F, s \ {x}) /\ SumOver(F, s \ {x}) \in Int
      BY <3>3, SumSplit
    <3>5. SumOver(F, A \cup s) = F[x] + SumOver(F, (A \cup s) \ {x})
      BY <3>3, SumSplit
    <3>6. (A \cup s) \ {x} = A \cup (s \ {x}) /\ F[x] \in Int
      OBVIOUS
    <3>7. PICK a, b, c, d, e, f : /\ a = SumOver(F, A) /\ b = SumOver(F, s) /\ c = SumOver(F, s \ {x})
                                  /\ d = SumOver(F, A \cup s) /\ e = SumOver(F, A \cup (s \ {x})) /\ f = F[x]
      OBVIOUS
    <3>8. e = a + c /\ a \in Int /\ b = f + c /\ c \in Int /\ f \in Int
      BY <1>1, <3>2, <3>4, <3>6, <3>7
    <3>9. d = f + e
      BY <3>5, <3>6, <3>7
    <3>10. d = a + b
      BY <3>8, <3>9
    <3>11. QED
      BY <3>7, <3>10
  <2>3. QED
    BY <2>1, <2>2
<1>3. T = SUBSET B
  <2>1. T \in SUBSET SUBSET B
    OBVIOUS
  <2> HIDE DEF T
  <2>2. QED
    BY <1>2, <2>1, SubsetInduction
<1>4. QED
  BY <1>3

(* The elements under other names. *)
LEMMA SumRenamed ==
    ASSUME NEW S, IsFiniteSet(S), NEW F, NEW G, NEW h,
           \A x \in S : F[x] \in Int /\ F[x] = G[h[x]],
           \A x, y \in S : h[x] = h[y] => x = y
    PROVE  SumOver(F, S) = SumOver(G, {h[x] : x \in S}) /\ IsFiniteSet({h[x] : x \in S})
<1> DEFINE Image(s) == {h[x] : x \in s}
           T == {s \in SUBSET S : IsFiniteSet(Image(s)) /\ SumOver(F, s) = SumOver(G, Image(s))}
<1>1. ASSUME NEW s \in SUBSET S, \A t \in SUBSET s : t # s => t \in T
      PROVE  s \in T
  <2>1. CASE s = {}
    <3>1. Image(s) = {}
      BY <2>1
    <3>2. IsFiniteSet(Image(s)) /\ SumOver(F, s) = 0 /\ SumOver(G, Image(s)) = 0
      BY <2>1, <3>1, SumNone, FS_EmptySet
    <3>3. QED
      BY <3>2
  <2>2. CASE s # {}
    <3>1. PICK x \in s : TRUE
      BY <2>2
    <3>2. s \ {x} \in T
      BY <1>1
    <3>3. IsFiniteSet(s)
      BY FS_Subset
    <3>4. SumOver(F, s) = F[x] + SumOver(F, s \ {x})
      BY <3>3, SumSplit
    <3>5. Image(s \ {x}) = Image(s) \ {h[x]} /\ Image(s) = Image(s \ {x}) \cup {h[x]} /\ h[x] \in Image(s)
      OBVIOUS
    <3>6. IsFiniteSet(Image(s))
      <4>1. IsFiniteSet(Image(s \ {x}))
        BY <3>2
      <4> HIDE DEF Image
      <4>2. IsFiniteSet(Image(s \ {x}) \cup {h[x]})
        BY <4>1, FS_AddElement
      <4>3. QED
        BY <3>5, <4>2
    <3>7. \A y \in Image(s) : G[y] \in Int
      OBVIOUS
    <3>8. SumOver(G, Image(s)) = G[h[x]] + SumOver(G, Image(s) \ {h[x]})
      <4> HIDE DEF Image
      <4>1. QED
        BY <3>5, <3>6, <3>7, SumSplit
    <3>9. SumOver(F, s \ {x}) = SumOver(G, Image(s \ {x})) /\ F[x] = G[h[x]]
      BY <3>2
    <3>10. SumOver(F, s) = SumOver(G, Image(s))
      <4> HIDE DEF Image, T
      <4>1. QED
        BY <3>4, <3>5, <3>8, <3>9
    <3>11. QED
      BY <3>6, <3>10
  <2>3. QED
    BY <2>1, <2>2
<1>2. T = SUBSET S
  <2>1. T \in SUBSET SUBSET S
    OBVIOUS
  <2> HIDE DEF T
  <2>2. QED
    BY <1>1, <2>1, SubsetInduction
<1>3. QED
  BY <1>2

(* Each value negated. *)
LEMMA SumNegated ==
    ASSUME NEW S, IsFiniteSet(S), NEW F, NEW G, \A x \in S : F[x] \in Int /\ G[x] = -F[x]
    PROVE  SumOver(G, S) = -SumOver(F, S)
<1> DEFINE T == {s \in SUBSET S : SumOver(G, s) = -SumOver(F, s)}
<1>1. ASSUME NEW s \in SUBSET S, \A t \in SUBSET s : t # s => t \in T
      PROVE  s \in T
  <2>1. CASE s = {}
    BY <2>1, SumNone
  <2>2. CASE s # {}
    <3>1. PICK x \in s : TRUE
      BY <2>2
    <3>2. s \ {x} \in T
      BY <1>1
    <3>3. IsFiniteSet(s) /\ \A y \in s : G[y] \in Int
      BY FS_Subset
    <3>4. SumOver(F, s) = F[x] + SumOver(F, s \ {x}) /\ SumOver(F, s \ {x}) \in Int
      BY <3>3, SumSplit
    <3>5. SumOver(G, s) = G[x] + SumOver(G, s \ {x})
      BY <3>3, SumSplit
    <3>6. QED
      BY <3>2, <3>4, <3>5
  <2>3. QED
    BY <2>1, <2>2
<1>2. T = SUBSET S
  <2>1. T \in SUBSET SUBSET S
    OBVIOUS
  <2> HIDE DEF T
  <2>2. QED
    BY <1>1, <2>1, SubsetInduction
<1>3. QED
  BY <1>2

(* What covers every element that counts adds up to as much. *)
LEMMA SumCovers ==
    ASSUME NEW E, IsFiniteSet(E), NEW F, \A x \in E : F[x] \in Int /\ F[x] >= 0,
           NEW W \in SUBSET E, NEW R \in SUBSET E, \A x \in W \ R : F[x] = 0
    PROVE  SumOver(F, W) <= SumOver(F, R) /\ SumOver(F, W) \in Int /\ SumOver(F, R) \in Int
<1>1. PICK A, B, C : A = W \ R /\ B = W \cap R /\ C = R \ W
  OBVIOUS
<1>2. /\ IsFiniteSet(A) /\ IsFiniteSet(B) /\ IsFiniteSet(C)
      /\ W = A \cup B /\ A \cap B = {} /\ R = B \cup C /\ B \cap C = {}
      /\ A \subseteq E /\ B \subseteq E /\ C \subseteq E
  <2>1. A \in SUBSET E /\ B \in SUBSET E /\ C \in SUBSET E
    BY <1>1
  <2>2. IsFiniteSet(A) /\ IsFiniteSet(B) /\ IsFiniteSet(C)
    BY <2>1, FS_Subset
  <2>3. QED
    BY <1>1, <2>1, <2>2
<1>3. PICK a, b, c : a = SumOver(F, A) /\ b = SumOver(F, B) /\ c = SumOver(F, C)
  OBVIOUS
<1>4. a \in Int /\ b \in Int /\ c \in Int
  BY <1>2, <1>3, SumType
<1>5. a = 0
  BY <1>1, <1>2, <1>3, SumZero
<1>6. c >= 0
  <2> DEFINE Z == [x \in C |-> 0]
  <2>1. \A x \in C : Z[x] = 0 /\ Z[x] \in Int /\ F[x] \in Int /\ Z[x] <= F[x]
    BY <1>2
  <2> HIDE DEF Z
  <2>2. SumOver(Z, C) = 0 /\ SumOver(Z, C) <= SumOver(F, C)
    BY <1>2, <2>1, SumZero, SumAtMost
  <2>3. QED
    BY <1>3, <2>2
<1>7. SumOver(F, A \cup B) = SumOver(F, A) + SumOver(F, B)
  BY <1>2, SumDisjoint
<1>8. SumOver(F, B \cup C) = SumOver(F, B) + SumOver(F, C)
  BY <1>2, SumDisjoint
<1>9. SumOver(F, W) = a + b /\ SumOver(F, R) = b + c
  BY <1>2, <1>3, <1>7, <1>8
<1>10. QED
  BY <1>4, <1>5, <1>6, <1>9

(* Two values added, two totals added. *)
LEMMA SumAdds ==
    ASSUME NEW S, IsFiniteSet(S), NEW F, NEW G, NEW H,
           \A x \in S : F[x] \in Int /\ G[x] \in Int /\ H[x] = F[x] + G[x]
    PROVE  SumOver(H, S) = SumOver(F, S) + SumOver(G, S)
<1> DEFINE T == {s \in SUBSET S : SumOver(H, s) = SumOver(F, s) + SumOver(G, s)}
<1>1. ASSUME NEW s \in SUBSET S, \A t \in SUBSET s : t # s => t \in T
      PROVE  s \in T
  <2>1. CASE s = {}
    BY <2>1, SumNone
  <2>2. CASE s # {}
    <3>1. PICK x \in s : TRUE
      BY <2>2
    <3>2. s \ {x} \in T
      BY <1>1
    <3>3. IsFiniteSet(s) /\ \A y \in s : H[y] \in Int
      BY FS_Subset
    <3>4. SumOver(F, s) = F[x] + SumOver(F, s \ {x}) /\ SumOver(F, s \ {x}) \in Int
      BY <3>3, SumSplit
    <3>5. SumOver(G, s) = G[x] + SumOver(G, s \ {x}) /\ SumOver(G, s \ {x}) \in Int
      BY <3>3, SumSplit
    <3>6. SumOver(H, s) = H[x] + SumOver(H, s \ {x})
      BY <3>3, SumSplit
    <3>7. H[x] = F[x] + G[x] /\ F[x] \in Int /\ G[x] \in Int
      OBVIOUS
    <3>8. QED
      BY <3>2, <3>4, <3>5, <3>6, <3>7
  <2>3. QED
    BY <2>1, <2>2
<1>2. T = SUBSET S
  <2>1. T \in SUBSET SUBSET S
    OBVIOUS
  <2> HIDE DEF T
  <2>2. QED
    BY <1>1, <2>1, SubsetInduction
<1>3. QED
  BY <1>2

(* No value above and the same total: the same values. *)
LEMMA SumTight ==
    ASSUME NEW S, IsFiniteSet(S), NEW F, NEW G,
           \A x \in S : F[x] \in Int /\ G[x] \in Int /\ F[x] <= G[x],
           SumOver(F, S) = SumOver(G, S), NEW x \in S
    PROVE  F[x] = G[x]
<1>1. IsFiniteSet(S \ {x}) /\ \A y \in S \ {x} : F[y] \in Int /\ G[y] \in Int /\ F[y] <= G[y]
  BY FS_Subset
<1>2. SumOver(F, S) = F[x] + SumOver(F, S \ {x}) /\ SumOver(F, S \ {x}) \in Int
  BY SumSplit
<1>3. SumOver(G, S) = G[x] + SumOver(G, S \ {x}) /\ SumOver(G, S \ {x}) \in Int
  BY SumSplit
<1>4. SumOver(F, S \ {x}) <= SumOver(G, S \ {x})
  BY <1>1, SumAtMost
<1>5. F[x] \in Int /\ G[x] \in Int /\ F[x] <= G[x]
  OBVIOUS
<1>6. PICK a, b, f, g : /\ a = SumOver(F, S \ {x}) /\ b = SumOver(G, S \ {x})
                        /\ f = F[x] /\ g = G[x]
  OBVIOUS
<1>7. f + a = SumOver(F, S) /\ g + b = SumOver(G, S)
  BY <1>2, <1>3, <1>6
<1>8. f + a = g + b
  BY <1>7
<1>9. f \in Int /\ g \in Int /\ f <= g /\ a \in Int /\ b \in Int /\ a <= b
  BY <1>2, <1>3, <1>4, <1>5, <1>6
<1>10. QED
  BY <1>6, <1>8, <1>9

------------------------------------------------------------------------------
(* Sequences without one of their elements. *)

(* z is s without its i-th element. *)
Removes(X, s, i, z) == s \in Seq(X) /\ i \in DOMAIN s /\ z = RemoveAt(s, i)
Without(X, s, i, z) ==
    /\ z \in Seq(X) /\ Len(z) = Len(s) - 1 /\ DOMAIN z = 1..(Len(s) - 1)
    /\ \A k \in 1..(Len(s) - 1) : k + 1 \in DOMAIN s /\ z[k] = IF k < i THEN s[k] ELSE s[k + 1]

LEMMA RemovedIs ==
    ASSUME NEW X, NEW s, NEW i, NEW z, Removes(X, s, i, z)
    PROVE  Without(X, s, i, z)
<1>0. s \in Seq(X) /\ i \in DOMAIN s /\ z = RemoveAt(s, i)
  BY DEF Removes
<1>1. i \in 1..Len(s) /\ Len(s) \in Nat /\ DOMAIN s = 1..Len(s)
  BY <1>0
<1>2. PICK a, b : a = SubSeq(s, 1, i - 1) /\ b = SubSeq(s, i + 1, Len(s))
  OBVIOUS
<1>3. a \in Seq(X) /\ Len(a) = i - 1 /\ \A k \in 1..(i - 1) : a[k] = s[k]
  BY <1>0, <1>1, <1>2
<1>4. b \in Seq(X) /\ Len(b) = Len(s) - i /\ \A k \in 1..(Len(s) - i) : b[k] = s[i + k]
  <2>1. b \in Seq(X)
    BY <1>0, <1>1, <1>2
  <2>2. Len(b) = IF i + 1 <= Len(s) THEN Len(s) - (i + 1) + 1 ELSE 0
    BY <1>0, <1>1, <1>2
  <2>3. Len(b) = Len(s) - i
    <3>1. i \in Int /\ Len(s) \in Int /\ i <= Len(s)
      BY <1>1
    <3>2. QED
      BY <3>1, <2>2
  <2>4. ASSUME NEW k \in 1..(Len(s) - i) PROVE b[k] = s[i + k]
    <3>1. b[k] = s[i + 1 + k - 1]
      BY <1>0, <1>1, <1>2
    <3>2. i + 1 + k - 1 = i + k
      BY <1>1
    <3>3. QED
      BY <3>1, <3>2
  <2>5. QED
    BY <2>1, <2>3, <2>4
<1>5. z = a \o b
  BY <1>0, <1>2 DEF RemoveAt
<1>6. z \in Seq(X) /\ Len(z) = Len(s) - 1 /\ DOMAIN z = 1..(Len(s) - 1)
  <2>0. a \in Seq(X) /\ b \in Seq(X)
    BY <1>3, <1>4
  <2>1. z \in Seq(X) /\ Len(z) = Len(a) + Len(b)
    BY <1>5, <2>0
  <2>2. Len(z) = Len(s) - 1
    BY <1>1, <1>3, <1>4, <2>1
  <2>3. QED
    BY <2>1, <2>2
<1>7. ASSUME NEW k \in 1..(Len(s) - 1) PROVE k + 1 \in DOMAIN s /\ z[k] = IF k < i THEN s[k] ELSE s[k + 1]
  <2>1. k + 1 \in DOMAIN s
    BY <1>1
  <2>2. CASE k < i
    <3>1. k \in 1..(i - 1) /\ k <= Len(a)
      BY <1>1, <1>3, <2>2
    <3>2. z[k] = a[k]
      BY <1>3, <1>4, <1>5, <3>1
    <3>3. QED
      BY <1>3, <2>1, <2>2, <3>1, <3>2
  <2>3. CASE ~ k < i
    <3>1. k - Len(a) \in 1..(Len(s) - i) /\ ~ k <= Len(a)
      BY <1>1, <1>3, <1>4, <2>3
    <3>2. k \in 1..(Len(a) + Len(b))
      BY <1>1, <1>3, <1>4
    <3>6. (a \o b)[k] = b[k - Len(a)]
      BY <1>3, <1>4, <3>1, <3>2
    <3>3. b[k - Len(a)] = s[i + (k - Len(a))]
      BY <1>4, <3>1
    <3>4. i + (k - Len(a)) = k + 1
      BY <1>1, <1>3
    <3>5. QED
      BY <1>5, <2>1, <2>3, <3>3, <3>4, <3>6
  <2>4. QED
    BY <2>2, <2>3
<1>8. QED
  BY <1>6, <1>7 DEF Without

LEMMA RestIs ==
    ASSUME NEW X, NEW s, NEW i, NEW z, Removes(X, s, i, z)
    PROVE  z \in Seq(X) /\ \A k \in DOMAIN z : \E j \in DOMAIN s : z[k] = s[j]
<1>1. Without(X, s, i, z)
  BY RemovedIs
<1>2. DOMAIN s = 1..Len(s) /\ Len(s) \in Nat
  BY DEF Removes
<1>3. ASSUME NEW k \in DOMAIN z PROVE \E j \in DOMAIN s : z[k] = s[j]
  <2>1. k \in 1..(Len(s) - 1)
    BY <1>1, <1>3 DEF Without
  <2>2. k \in DOMAIN s /\ k + 1 \in DOMAIN s
    BY <1>2, <2>1
  <2>3. z[k] = s[k] \/ z[k] = s[k + 1]
    BY <1>1, <2>1 DEF Without
  <2>4. QED
    BY <2>2, <2>3
<1>4. QED
  BY <1>1, <1>3 DEF Without

(* What is left does not say which of two was removed, only when they were
   equal. *)
LEMMA SameRest ==
    ASSUME NEW X, NEW s \in Seq(X), NEW i \in DOMAIN s, NEW j \in DOMAIN s, i < j,
           RemoveAt(s, i) = RemoveAt(s, j)
    PROVE  s[i] = s[j]
<1>1. PICK z : z = RemoveAt(s, i) /\ z = RemoveAt(s, j)
  OBVIOUS
<1>2. \A k \in 1..(Len(s) - 1) : z[k] = IF k < i THEN s[k] ELSE s[k + 1]
  <2>1. Removes(X, s, i, z)
    BY <1>1 DEF Removes
  <2>2. Without(X, s, i, z)
    BY <2>1, RemovedIs
  <2>3. QED
    BY <2>2 DEF Without
<1>3. \A k \in 1..(Len(s) - 1) : z[k] = IF k < j THEN s[k] ELSE s[k + 1]
  <2>1. Removes(X, s, j, z)
    BY <1>1 DEF Removes
  <2>2. Without(X, s, j, z)
    BY <2>1, RemovedIs
  <2>3. QED
    BY <2>2 DEF Without
<1>4. i \in Nat /\ j \in Nat /\ i >= 1 /\ j <= Len(s) /\ Len(s) \in Nat
  OBVIOUS
<1>5. \A k \in i..(j - 1) : s[k + 1] = s[k]
  <2>1. \A k \in i..(j - 1) : k \in 1..(Len(s) - 1) /\ ~(k < i) /\ k < j
    BY <1>4
  <2>2. QED
    BY <1>2, <1>3, <2>1
<1>6. PICK C : C = {k \in i..j : s[k] # s[i]}
  OBVIOUS
<1>7. CASE C = {}
  <2>1. j \in i..j
    BY <1>4
  <2>2. QED
    BY <1>6, <1>7, <2>1
<1>8. CASE C # {}
  <2>1. C \in SUBSET Nat
    BY <1>4, <1>6
  <2>2. PICK n \in C : \A m \in C : n <= m
    BY <1>8, <2>1, SmallestNumber
  <2>3. n \in i..j /\ s[n] # s[i]
    BY <1>6, <2>2
  <2>4. n - 1 \in i..(j - 1) /\ n - 1 \in i..j /\ n - 1 < n /\ n - 1 + 1 = n
    BY <1>4, <2>3
  <2>5. s[n - 1] = s[i]
    BY <1>4, <1>6, <2>2, <2>4
  <2>6. s[n] = s[n - 1]
    BY <1>5, <2>4
  <2>7. QED
    BY <2>3, <2>5, <2>6
<1>9. QED
  BY <1>7, <1>8

LEMMA SameOne ==
    ASSUME NEW X, NEW s \in Seq(X), NEW i \in DOMAIN s, NEW j \in DOMAIN s, RemoveAt(s, i) = RemoveAt(s, j)
    PROVE  s[i] = s[j]
<1>1. i \in Nat /\ j \in Nat
  OBVIOUS
<1>2. CASE i < j
  BY <1>2, SameRest
<1>3. CASE j < i
  BY <1>3, SameRest
<1>4. QED
  BY <1>1, <1>2, <1>3

LEMMA Shorter ==
    ASSUME NEW X, NEW s \in Seq(X), NEW i \in DOMAIN s, NEW z, z = RemoveAt(s, i)
    PROVE  Len(z) = Len(s) - 1 /\ Len(s) \in Nat /\ z # s
<1>1. Removes(X, s, i, z)
  BY DEF Removes
<1>2. Len(z) = Len(s) - 1
  BY <1>1, RemovedIs DEF Without
<1>3. QED
  BY <1>2
==============================================================================

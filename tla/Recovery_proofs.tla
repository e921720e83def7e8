--------------------------- MODULE Recovery_proofs ---------------------------
(***************************************************************************)
(* Proofs about RecoveryLeave and RecoveryWindows.  Of RecoveryLeave, for  *)
(* any requests, credits, rules, dates and bounds:                         *)
(*                                                                         *)
(*   RecoveryTypes     what the tables hold (TypeOK);                      *)
(*   ReadingsAgree     what the first-in-first-out pool leaves of the      *)
(*                     credits is the balance (AvailableIsBalance);        *)
(*   RowsAreBacked     each row of the ledger is backed by a decision      *)
(*                     (RowsBacked);                                       *)
(*   SpendsWhatIsThere no decision spends days that are not there          *)
(*                     (OverdrawnOnlyBySweep);                             *)
(*   SweepsAreExact    a sweep nothing was written behind takes what fell  *)
(*                     due less what was spent (SweepIsExact), when HR     *)
(*                     decides each credit in time.                        *)
(*                                                                         *)
(* The first part is about any ledger, however it came about: its sums,    *)
(* the order in which earned days are used up, and what a sweep takes.     *)
(* The invariant of the second part says what a transaction that waits to  *)
(* write still knows: one at a time holds the lock of the employee, and    *)
(* all that was written since it read is what sweeps posted.  The last     *)
(* part adds what a sweep that waits to post still knows.                  *)
(*                                                                         *)
(* Of RecoveryWindows, for any rules the payload check accepts, any rest   *)
(* days and any number of sessions, corrections and instants:              *)
(*                                                                         *)
(*   WindowsTyped          what the engine's tables hold (WindowsTypeOK);  *)
(*   PostedAlwaysEarned    approval posts what the evidence earns, of a    *)
(*                         window that has closed (PostedIsEarned);        *)
(*   StrandedByOverlapOnly credit stays on a window that was taken back    *)
(*                         only by an approval inside the run that did it  *)
(*                         (StrandedOnlyByOverlap).                        *)
(*                                                                         *)
(* They rest on facts about the rules (an instant lies in one window; what *)
(* a window recorded, who corrected it and that it is closed do not change *)
(* as a running session grows), and on an invariant: unless a run has      *)
(* failed, the row of a live closed window says what the evidence says.    *)
(***************************************************************************)
EXTENDS RecoveryLeave, RecoveryWindows, SumTheorems

------------------------------------------------------------------------------
(* Any ledger. *)

Earned(rows) == Of(rows, "earned")
Days(rows) == [i \in DOMAIN rows |-> rows[i].days]
Rests(rows) == [i \in DOMAIN rows |-> Remaining(rows, i)]

Signed(rows) ==
    /\ rows \in Seq(RowType)
    /\ \A i \in DOMAIN rows : IF rows[i].kind = "earned" THEN rows[i].days > 0 ELSE rows[i].days < 0

(* The larger of a number and zero. *)
Above(n) == IF n > 0 THEN n ELSE 0

LEMMA MaxOfTwo == ASSUME NEW a \in Int, NEW b \in Int PROVE Max({a, b}) = a + Above(b - a)
<1> DEFINE m == a + Above(b - a)
<1>1. m \in {a, b} /\ \A y \in {a, b} : m >= y
  BY DEF Above
<1>2. \A x \in {a, b} : (\A y \in {a, b} : x >= y) => x = m
  BY DEF Above
<1> HIDE DEF m
<1>3. Max({a, b}) = m
  BY <1>1, <1>2 DEF Max
<1>4. QED
  BY <1>3 DEF m

LEMMA MaxIsAbove == ASSUME NEW n \in Int PROVE Max({0, n}) = Above(n)
<1>1. 0 \in Int /\ n - 0 = n
  OBVIOUS
<1>2. Max({0, n}) = 0 + Above(n - 0)
  BY <1>1, MaxOfTwo
<1>3. QED
  BY <1>1, <1>2 DEF Above

LEMMA RowIs ==
    ASSUME NEW rows, Signed(rows), NEW i \in DOMAIN rows
    PROVE  /\ rows[i] \in RowType /\ rows[i].days \in Int /\ rows[i].expiry \in Nat
           /\ rows[i].kind \in {"earned", "redeemed", "expired", "reversal"}
           /\ i \in Earned(rows) => rows[i].days > 0
           /\ i \notin Earned(rows) => rows[i].days < 0
<1>1. rows[i] \in RowType
  BY DEF Signed
<1>2. QED
  BY <1>1 DEF RowType, Signed, Earned, Of

LEMMA RowsFinite ==
    ASSUME NEW rows, Signed(rows), NEW I \in SUBSET DOMAIN rows
    PROVE  IsFiniteSet(I)
<1>1. DOMAIN rows = 1..Len(rows) /\ Len(rows) \in Nat
  BY DEF Signed
<1>2. IsFiniteSet(DOMAIN rows)
  BY <1>1, FS_Interval
<1>3. QED
  BY <1>2, FS_Subset

LEMMA TotalIs ==
    ASSUME NEW rows, Signed(rows), NEW I \in SUBSET DOMAIN rows
    PROVE  Total(rows, I) = SumOver(Days(rows), I)
<1>0. IsFiniteSet(I) /\ \A i \in I : Days(rows)[i] = rows[i].days
  BY RowsFinite DEF Days
<1>1. PICK S, F : S = I /\ F = Days(rows) /\ IsFiniteSet(S) /\ \A i \in S : F[i] = rows[i].days
  BY <1>0
<1> DEFINE Adds(it) == it = [s \in SUBSET S |-> IF s = {} THEN 0
                                ELSE rows[CHOOSE x \in s : TRUE].days + it[s \ {CHOOSE x \in s : TRUE}]]
           it == CHOOSE jt : Adds(jt)
<1>2. \A s \in SUBSET S : s # {} => F[First(s)] = rows[CHOOSE x \in s : TRUE].days
  BY <1>1 DEF First
<1>3. Adds(it)
  <2>1. PICK jt : AddsUp(jt, F, S)
    BY <1>1, SumExists
  <2>2. jt = [s \in SUBSET S |-> IF s = {} THEN 0 ELSE F[First(s)] + jt[s \ {First(s)}]]
    BY <2>1 DEF AddsUp
  <2>3. \A s \in SUBSET S :
          jt[s] = IF s = {} THEN 0 ELSE rows[CHOOSE x \in s : TRUE].days + jt[s \ {CHOOSE x \in s : TRUE}]
    BY <1>2, <2>2 DEF First
  <2>4. Adds(jt)
    BY <2>2, <2>3
  <2> HIDE DEF Adds
  <2>5. QED
    BY <2>4
<1>4. AddsUp(it, F, S)
  <2> HIDE DEF it
  <2>1. QED
    BY <1>2, <1>3 DEF AddsUp, First
<1>5. Total(rows, I) = it[S]
  BY <1>1 DEF Total, MapThenSumSet, MapThenFoldSet
<1>6. QED
  BY <1>1, <1>4, <1>5, SumIs

LEMMA TotalType ==
    ASSUME NEW rows, Signed(rows), NEW I \in SUBSET DOMAIN rows
    PROVE  Total(rows, I) \in Int /\ \A i \in I : Days(rows)[i] = rows[i].days /\ Days(rows)[i] \in Int
<1>1. \A i \in I : Days(rows)[i] = rows[i].days /\ Days(rows)[i] \in Int
  BY RowIs DEF Days
<1>2. SumOver(Days(rows), I) \in Int
  BY <1>1, RowsFinite, SumType
<1>3. QED
  BY <1>1, <1>2, TotalIs

LEMMA TotalNothing == ASSUME NEW rows, Signed(rows) PROVE Total(rows, {}) = 0
<1>1. {} \in SUBSET DOMAIN rows
  OBVIOUS
<1>2. QED
  BY <1>1, TotalIs, SumNone

(* Two sets of rows apart. *)
LEMMA TotalParts ==
    ASSUME NEW rows, Signed(rows), NEW I \in SUBSET DOMAIN rows, NEW J \in SUBSET DOMAIN rows,
           NEW K \in SUBSET DOMAIN rows, I \cap J = {}, K = I \cup J
    PROVE  Total(rows, K) = Total(rows, I) + Total(rows, J)
<1>1. IsFiniteSet(I) /\ IsFiniteSet(J) /\ \A i \in I \cup J : Days(rows)[i] \in Int
  BY RowsFinite, TotalType
<1>2. SumOver(Days(rows), I \cup J) = SumOver(Days(rows), I) + SumOver(Days(rows), J)
  BY <1>1, SumDisjoint
<1>3. Total(rows, I) = SumOver(Days(rows), I) /\ Total(rows, J) = SumOver(Days(rows), J)
  BY TotalIs
<1>4. Total(rows, K) = SumOver(Days(rows), K)
  BY TotalIs
<1>5. PICK F : F = SumOver(Days(rows), K)
  OBVIOUS
<1>6. F = SumOver(Days(rows), I) + SumOver(Days(rows), J)
  BY <1>2, <1>5, Zenon
<1>7. QED
  BY <1>3, <1>4, <1>5, <1>6

LEMMA TotalOne ==
    ASSUME NEW rows, Signed(rows), NEW i \in DOMAIN rows
    PROVE  Total(rows, {i}) = rows[i].days
<1>1. {i} \in SUBSET DOMAIN rows
  OBVIOUS
<1>2. IsFiniteSet({i}) /\ Days(rows)[i] = rows[i].days /\ Days(rows)[i] \in Int
  BY <1>1, RowsFinite, TotalType
<1>3. SumOver(Days(rows), {i}) = Days(rows)[i] + SumOver(Days(rows), {i} \ {i})
  BY <1>2, SumSplit
<1>4. {i} \ {i} = {}
  OBVIOUS
<1>5. SumOver(Days(rows), {i} \ {i}) = 0
  BY <1>4, SumNone, Zenon
<1>6. QED
  BY <1>1, <1>2, <1>3, <1>5, TotalIs

(* Rows that all add, rows that all take. *)
LEMMA TotalSign ==
    ASSUME NEW rows, Signed(rows), NEW I \in SUBSET DOMAIN rows
    PROVE  /\ (\A i \in I : rows[i].days >= 0) => Total(rows, I) >= 0
           /\ (\A i \in I : rows[i].days <= 0) => Total(rows, I) <= 0
<1> DEFINE Z == [i \in I |-> 0]
<1>1. IsFiniteSet(I) /\ \A i \in I : Z[i] = 0 /\ Z[i] \in Int /\ Days(rows)[i] = rows[i].days /\ Days(rows)[i] \in Int
  BY RowsFinite, TotalType
<1> HIDE DEF Z
<1>2. SumOver(Z, I) = 0
  BY <1>1, SumZero
<1>3. (\A i \in I : rows[i].days >= 0) => SumOver(Z, I) <= SumOver(Days(rows), I)
  BY <1>1, SumAtMost
<1>4. (\A i \in I : rows[i].days <= 0) => SumOver(Days(rows), I) <= SumOver(Z, I)
  BY <1>1, SumAtMost
<1>5. Total(rows, I) = SumOver(Days(rows), I) /\ Total(rows, I) \in Int
  BY TotalIs, TotalType
<1>6. QED
  BY <1>2, <1>3, <1>4, <1>5

(* The balance is what was earned less the pool. *)
LEMMA BalanceIs ==
    ASSUME NEW rows, Signed(rows)
    PROVE  /\ Pool(rows) \in Nat /\ Balance(rows) \in Int /\ Total(rows, Earned(rows)) \in Int
           /\ Balance(rows) = Total(rows, Earned(rows)) - Pool(rows)
<1> DEFINE Taken == {i \in DOMAIN rows : rows[i].kind # "earned" /\ rows[i].days < 0}
<1>1. Taken \in SUBSET DOMAIN rows /\ Earned(rows) \in SUBSET DOMAIN rows /\ DOMAIN rows \in SUBSET DOMAIN rows
  BY DEF Earned, Of
<1>2. Earned(rows) \cap Taken = {} /\ DOMAIN rows = Earned(rows) \cup Taken
  BY DEF Earned, Of, Signed
<1>3. \A i \in Taken : rows[i].days <= 0
  BY RowIs
<1>4. PICK W : W = Taken
  OBVIOUS
<1>5. PICK t : t = Total(rows, W)
  OBVIOUS
<1>6. t \in Int /\ t <= 0
  BY <1>1, <1>3, <1>4, <1>5, TotalType, TotalSign
<1>7. Pool(rows) = -t
  BY <1>4, <1>5 DEF Pool
<1>8. Balance(rows) = Total(rows, Earned(rows)) + t
  BY <1>1, <1>2, <1>4, <1>5, TotalParts DEF Balance
<1>9. QED
  BY <1>1, <1>6, <1>7, <1>8, TotalType

------------------------------------------------------------------------------
(* The order in which earned days are used up. *)

LEMMA BeforeIs ==
    ASSUME NEW rows, Signed(rows), NEW i \in DOMAIN rows
    PROVE  Before(rows, i) \in SUBSET Earned(rows) /\ Before(rows, i) \in SUBSET DOMAIN rows /\ i \notin Before(rows, i)
<1>1. \A j \in DOMAIN rows : j \in Int /\ rows[j].expiry \in Nat
  BY RowIs DEF Signed
<1>2. QED
  BY <1>1 DEF Before, Earned, Of

LEMMA BeforeOrders ==
    ASSUME NEW rows, Signed(rows), NEW i \in Earned(rows), NEW j \in Earned(rows), i # j
    PROVE  /\ i \in Before(rows, j) \/ j \in Before(rows, i)
           /\ i \in Before(rows, j) => Before(rows, i) \subseteq Before(rows, j)
<1>1. \A k \in DOMAIN rows : k \in Int /\ rows[k].expiry \in Int
  BY RowIs DEF Signed
<1>2. i \in DOMAIN rows /\ j \in DOMAIN rows
  BY DEF Earned, Of
<1>3. i \in Before(rows, j) \/ j \in Before(rows, i)
  BY <1>1, <1>2 DEF Before, Earned
<1>4. ASSUME i \in Before(rows, j), NEW k \in Before(rows, i) PROVE k \in Before(rows, j)
  <2>1. k \in DOMAIN rows /\ k \in Of(rows, "earned")
    BY DEF Before, Of
  <2>2. PICK a, b, c : a = rows[i].expiry /\ b = rows[j].expiry /\ c = rows[k].expiry
    OBVIOUS
  <2>3. a \in Int /\ b \in Int /\ c \in Int /\ i \in Int /\ j \in Int /\ k \in Int
    BY <1>1, <1>2, <2>1, <2>2
  <2>4. (a < b \/ (a = b /\ i < j)) /\ (c < a \/ (c = a /\ k < i))
    BY <1>4, <2>2 DEF Before
  <2>5. c < b \/ (c = b /\ k < j)
    BY <2>3, <2>4
  <2>6. QED
    BY <2>1, <2>2, <2>5 DEF Before
<1>5. QED
  BY <1>3, <1>4

LEMMA RemainingIs ==
    ASSUME NEW rows, Signed(rows), NEW i \in Earned(rows)
    PROVE  /\ Remaining(rows, i) \in 0..rows[i].days
           /\ Remaining(rows, i) = Above(Total(rows, Before(rows, i)) + rows[i].days - Pool(rows))
                                     - Above(Total(rows, Before(rows, i)) - Pool(rows))
<1>1. i \in DOMAIN rows
  BY DEF Earned, Of
<1>2. PICK p, b, d : p = Pool(rows) /\ b = Total(rows, Before(rows, i)) /\ d = rows[i].days
  OBVIOUS
<1>3. p \in Int /\ b \in Int /\ d \in Int /\ d > 0
  BY <1>1, <1>2, BalanceIs, BeforeIs, TotalType, RowIs
<1>4. Remaining(rows, i) = IF p - b <= 0 THEN d ELSE IF p - b >= d THEN 0 ELSE d - (p - b)
  BY <1>2 DEF Remaining
<1>5. QED
  BY <1>2, <1>3, <1>4 DEF Above

(* A set of earned rows that holds, with a row, the rows used up before it. *)
Early(rows, A) == A \subseteq Earned(rows) /\ \A i \in A : Before(rows, i) \subseteq A

(* Its last row. *)
LEMMA LastOfEarly ==
    ASSUME NEW rows, Signed(rows), NEW A, Early(rows, A), A # {}
    PROVE  \E i \in A : Before(rows, i) = A \ {i}
<1> DEFINE C == {Earned(rows) \ Before(rows, i) : i \in A}
<1>1. IsFiniteSet(Earned(rows)) /\ A \subseteq Earned(rows) /\ A \subseteq DOMAIN rows
  <2>1. Earned(rows) \in SUBSET DOMAIN rows
    BY DEF Earned, Of
  <2>2. QED
    BY <2>1, RowsFinite DEF Early
<1>2. C \in SUBSET SUBSET Earned(rows) /\ C # {}
  OBVIOUS
<1>3. PICK M \in C : \A B \in C : B \subseteq M => B = M
  <2> HIDE DEF C
  <2>1. QED
    BY <1>1, <1>2, SmallestSubset
<1>4. PICK i \in A : M = Earned(rows) \ Before(rows, i)
  OBVIOUS
<1>5. ASSUME NEW j \in A, j # i PROVE j \in Before(rows, i)
  <2>1. SUFFICES ASSUME i \in Before(rows, j) PROVE FALSE
    BY <1>1, <1>5, BeforeOrders
  <2>2. Before(rows, i) \subseteq Before(rows, j) /\ i \notin Before(rows, i)
    BY <1>1, <1>5, <2>1, BeforeOrders, BeforeIs
  <2>3. Earned(rows) \ Before(rows, j) \in C
    OBVIOUS
  <2>4. Earned(rows) \ Before(rows, j) = M
    BY <1>3, <1>4, <2>2, <2>3
  <2>5. i \in M /\ i \notin Earned(rows) \ Before(rows, j)
    BY <1>1, <1>4, <2>1, <2>2
  <2>6. QED
    BY <2>4, <2>5
<1>6. Before(rows, i) \subseteq A /\ i \notin Before(rows, i)
  BY <1>1, BeforeIs DEF Early
<1>7. QED
  BY <1>5, <1>6

(* What is left of the rows used up first is what they gave beyond the pool. *)
LEMMA FirstInFirstOut ==
    ASSUME NEW rows, Signed(rows), NEW E, Early(rows, E)
    PROVE  SumOver(Rests(rows), E) = Above(Total(rows, E) - Pool(rows))
<1> DEFINE T == {A \in SUBSET E : Early(rows, A) => SumOver(Rests(rows), A) = Above(Total(rows, A) - Pool(rows))}
<1>1. IsFiniteSet(E) /\ E \subseteq DOMAIN rows /\ E \subseteq Earned(rows)
  <2>1. E \in SUBSET DOMAIN rows /\ E \subseteq Earned(rows)
    BY DEF Early, Earned, Of
  <2>2. QED
    BY <2>1, RowsFinite
<1>2. ASSUME NEW A \in SUBSET E, \A B \in SUBSET A : B # A => B \in T
      PROVE  A \in T
  <2>1. SUFFICES ASSUME Early(rows, A) PROVE SumOver(Rests(rows), A) = Above(Total(rows, A) - Pool(rows))
    OBVIOUS
  <2>2. Pool(rows) \in Nat
    BY BalanceIs
  <2>3. CASE A = {}
    <3>1. SumOver(Rests(rows), A) = 0 /\ Total(rows, A) = 0
      BY <2>3, SumNone, TotalNothing
    <3>2. QED
      BY <2>2, <3>1 DEF Above
  <2>4. CASE A # {}
    <3>1. PICK i \in A : Before(rows, i) = A \ {i}
      BY <2>1, <2>4, LastOfEarly
    <3>2. PICK B : B = Before(rows, i)
      OBVIOUS
    <3>3. B \in SUBSET A /\ B # A /\ i \in Earned(rows) /\ i \in DOMAIN rows /\ A \in SUBSET DOMAIN rows /\ IsFiniteSet(A)
      BY <1>1, <3>1, <3>2, RowsFinite
    <3>4. Early(rows, B)
      <4>1. ASSUME NEW j \in B PROVE Before(rows, j) \subseteq B
        BY <1>1, <3>1, <3>2, <3>3, BeforeOrders
      <4>2. QED
        BY <1>1, <3>3, <4>1 DEF Early
    <3>5. SumOver(Rests(rows), B) = Above(Total(rows, B) - Pool(rows))
      BY <1>2, <3>3, <3>4
    <3>6. \A j \in A : Rests(rows)[j] \in Int /\ Rests(rows)[j] = Remaining(rows, j)
      <4>1. \A j \in A : j \in DOMAIN rows /\ j \in Earned(rows) /\ rows[j].days \in Int
        BY <1>1, RowIs
      <4>2. QED
        BY <4>1, RemainingIs DEF Rests
    <3>7. SumOver(Rests(rows), A) = Remaining(rows, i) + SumOver(Rests(rows), B)
      <4>1. SumOver(Rests(rows), A) = Rests(rows)[i] + SumOver(Rests(rows), A \ {i})
        BY <3>3, <3>6, SumSplit
      <4>2. A \ {i} = B
        BY <3>1, <3>2
      <4>3. QED
        BY <3>6, <4>1, <4>2
    <3>8. Total(rows, A) = Total(rows, B) + rows[i].days
      <4>1. B \in SUBSET DOMAIN rows /\ {i} \in SUBSET DOMAIN rows /\ B \cap {i} = {} /\ A = B \cup {i}
        BY <1>1, <3>1, <3>2, <3>3
      <4>2. Total(rows, A) = Total(rows, B) + Total(rows, {i})
        BY <3>3, <4>1, TotalParts
      <4>3. QED
        BY <3>3, <4>2, TotalOne
    <3>9. PICK p, b, d, r : p = Pool(rows) /\ b = Total(rows, B) /\ d = rows[i].days /\ r = Remaining(rows, i)
      OBVIOUS
    <3>10. p \in Int /\ b \in Int /\ d \in Int
      BY <1>1, <2>2, <3>3, <3>9, TotalType, RowIs
    <3>11. r = Above(b + d - p) - Above(b - p)
      BY <3>2, <3>3, <3>9, RemainingIs
    <3>12. SumOver(Rests(rows), A) = r + Above(b - p)
      BY <3>5, <3>7, <3>9
    <3>13. r + Above(b - p) = Above(b + d - p)
      BY <3>10, <3>11 DEF Above
    <3>14. PICK t : t = Total(rows, A)
      OBVIOUS
    <3>15. t = b + d
      BY <3>8, <3>9, <3>14
    <3>16. Above(Total(rows, A) - Pool(rows)) = Above(b + d - p)
      <4>1. t - p = b + d - p
        BY <3>10, <3>15
      <4>2. Total(rows, A) - Pool(rows) = b + d - p
        BY <3>9, <3>14, <4>1, Zenon
      <4>3. QED
        BY <4>2, Zenon
    <3>17. QED
      BY <3>12, <3>13, <3>16
  <2>5. QED
    BY <2>3, <2>4
<1>3. T = SUBSET E
  <2>1. T \in SUBSET SUBSET E
    OBVIOUS
  <2> HIDE DEF T
  <2>2. QED
    BY <1>1, <1>2, <2>1, SubsetInduction
<1>4. QED
  BY <1>3

LEMMA EarnedIsEarly == ASSUME NEW rows, Signed(rows) PROVE Early(rows, Earned(rows))
BY BeforeIs DEF Early, Earned, Of

LEMMA AvailableIs ==
    ASSUME NEW rows, Signed(rows)
    PROVE  SumOver(Rests(rows), Earned(rows)) = Above(Balance(rows))
BY EarnedIsEarly, FirstInFirstOut, BalanceIs

(* The sum AvailableIsBalance names. *)
Available(rows) == MapThenSumSet(LAMBDA i : Remaining(rows, i), Of(rows, "earned"))

LEMMA AvailableSum ==
    ASSUME NEW rows, Signed(rows)
    PROVE  Available(rows) = Above(Balance(rows))
<1>0. /\ Earned(rows) \in SUBSET DOMAIN rows
      /\ \A i \in Earned(rows) : Rests(rows)[i] = Remaining(rows, i)
  BY DEF Earned, Of, Rests
<1>1. PICK S, F : S = Earned(rows) /\ F = Rests(rows) /\ IsFiniteSet(S) /\ \A i \in S : F[i] = Remaining(rows, i)
  BY <1>0, RowsFinite
<1> DEFINE Adds(it) == it = [s \in SUBSET S |-> IF s = {} THEN 0
                                ELSE Remaining(rows, CHOOSE x \in s : TRUE) + it[s \ {CHOOSE x \in s : TRUE}]]
           it == CHOOSE jt : Adds(jt)
<1>2. \A s \in SUBSET S : s # {} => F[First(s)] = Remaining(rows, CHOOSE x \in s : TRUE)
  BY <1>1 DEF First
<1>3. Adds(it)
  <2>1. PICK jt : AddsUp(jt, F, S)
    BY <1>1, SumExists
  <2>2. jt = [s \in SUBSET S |-> IF s = {} THEN 0 ELSE F[First(s)] + jt[s \ {First(s)}]]
    BY <2>1 DEF AddsUp
  <2>3. \A s \in SUBSET S :
          jt[s] = IF s = {} THEN 0 ELSE Remaining(rows, CHOOSE x \in s : TRUE) + jt[s \ {CHOOSE x \in s : TRUE}]
    BY <1>2, <2>2 DEF First
  <2>4. Adds(jt)
    BY <2>2, <2>3
  <2> HIDE DEF Adds
  <2>5. QED
    BY <2>4
<1>4. AddsUp(it, F, S)
  <2> HIDE DEF it
  <2>1. QED
    BY <1>2, <1>3 DEF AddsUp, First
<1>5. Available(rows) = it[S]
  BY <1>1 DEF Available, Earned, MapThenSumSet, MapThenFoldSet
<1>6. Available(rows) = SumOver(Rests(rows), Earned(rows))
  BY <1>1, <1>4, <1>5, SumIs
<1>7. QED
  BY <1>6, AvailableIs

------------------------------------------------------------------------------
(* Ledgers that grow. *)

Extends(old, new) == DOMAIN old \subseteq DOMAIN new /\ \A i \in DOMAIN old : new[i] = old[i]

LEMMA TotalExtends ==
    ASSUME NEW old, NEW new, Signed(old), Signed(new), Extends(old, new), NEW I \in SUBSET DOMAIN old
    PROVE  Total(new, I) = Total(old, I)
<1>1. I \in SUBSET DOMAIN new /\ \A i \in I : Days(new)[i] = Days(old)[i]
  BY DEF Extends, Days
<1>2. IsFiniteSet(I)
  BY RowsFinite
<1>3. QED
  BY <1>1, <1>2, TotalIs, SumSame

LEMMA BalanceParts ==
    ASSUME NEW rows, Signed(rows), NEW A \in SUBSET DOMAIN rows
    PROVE  Balance(rows) = Total(rows, A) + Total(rows, DOMAIN rows \ A)
<1>1. PICK D, B : D = DOMAIN rows /\ B = D \ A
  OBVIOUS
<1>2. B \in SUBSET DOMAIN rows /\ D \in SUBSET DOMAIN rows /\ A \cap B = {} /\ D = A \cup B
  BY <1>1
<1>3. Total(rows, D) = Total(rows, A) + Total(rows, B)
  BY <1>2, TotalParts
<1>4. QED
  BY <1>1, <1>3 DEF Balance

(* A row as every writer makes it. *)
Proper(x) == x \in RowType /\ IF x.kind = "earned" THEN x.days > 0 ELSE x.days < 0

LEMMA Appended ==
    ASSUME NEW rows, Signed(rows), NEW x, Proper(x),
           NEW new, new = Append(rows, x)
    PROVE  /\ Signed(new) /\ Extends(rows, new)
           /\ Len(new) = Len(rows) + 1 /\ Len(rows) \in Nat
           /\ DOMAIN rows = 1..Len(rows) /\ DOMAIN new = DOMAIN rows \cup {Len(rows) + 1}
           /\ Len(rows) + 1 \notin DOMAIN rows /\ new[Len(rows) + 1] = x
           /\ Balance(new) = Balance(rows) + x.days
<1>1. rows \in Seq(RowType) /\ DOMAIN rows = 1..Len(rows) /\ Len(rows) \in Nat
  BY DEF Signed
<1>2. PICK k : k = Len(rows) + 1
  OBVIOUS
<1>3. /\ new \in Seq(RowType) /\ Len(new) = k /\ DOMAIN new = DOMAIN rows \cup {k}
      /\ k \notin DOMAIN rows /\ new[k] = x /\ \A i \in DOMAIN rows : new[i] = rows[i]
  BY <1>1, <1>2 DEF Proper
<1>4. Signed(new) /\ Extends(rows, new)
  BY <1>3 DEF Proper, Signed, Extends
<1>5. Balance(new) = Balance(rows) + x.days
  <2>1. PICK C : C = DOMAIN rows
    OBVIOUS
  <2>2. C \in SUBSET DOMAIN rows /\ C \in SUBSET DOMAIN new /\ k \in DOMAIN new /\ {k} = DOMAIN new \ C
    BY <1>3, <2>1
  <2>3. Balance(new) = Total(new, C) + new[k].days
    <3>1. Balance(new) = Total(new, C) + Total(new, DOMAIN new \ C)
      BY <1>4, <2>2, BalanceParts
    <3>2. Total(new, {k}) = new[k].days
      BY <1>4, <2>2, TotalOne
    <3>3. QED
      BY <2>2, <3>1, <3>2, Zenon
  <2>4. Total(new, C) = Total(rows, C)
    BY <1>4, <2>2, TotalExtends
  <2>5. QED
    BY <1>3, <2>1, <2>3, <2>4 DEF Balance
<1>6. QED
  BY <1>1, <1>2, <1>3, <1>4, <1>5

LEMMA Prefix ==
    ASSUME NEW rows, Signed(rows), NEW n \in Nat, n <= Len(rows), NEW part, part = SubSeq(rows, 1, n)
    PROVE  Signed(part) /\ Extends(part, rows) /\ DOMAIN part = 1..n /\ (n = Len(rows) => part = rows)
<1>1. rows \in Seq(RowType) /\ DOMAIN rows = 1..Len(rows) /\ Len(rows) \in Nat
  BY DEF Signed
<1>2. part \in Seq(RowType) /\ DOMAIN part = 1..n /\ \A i \in 1..n : part[i] = rows[i]
  BY <1>1
<1>3. 1..n \subseteq DOMAIN rows
  BY <1>1
<1>4. n = Len(rows) => part = rows
  BY <1>1, <1>2
<1>5. QED
  BY <1>2, <1>3, <1>4 DEF Signed, Extends

LEMMA ElementIs == ASSUME NEW X, NEW s \in Seq(X), NEW i \in DOMAIN s PROVE s[i] \in X
OBVIOUS

------------------------------------------------------------------------------
(* What the leave rules draw. *)

(* A draw that adds up and takes no more comp days than the balance. *)
Fair(p, r, rows) ==
    /\ p \in [comp : Nat, leave : Nat, rest : Nat]
    /\ p.comp + p.leave + p.rest = Asked[r]
    /\ p.comp <= Above(Balance(rows))

(* What one configured source takes. *)
Source(p, i, r, rows) ==
    LET free == Balance(rows) - p.comp
        d == IF free <= 0 THEN 0 ELSE IF free < p.rest THEN free ELSE p.rest
    IN  IF Rules[r][i] = "comp_day"
        THEN [comp |-> p.comp + d, leave |-> p.leave, rest |-> p.rest - d]
        ELSE [comp |-> p.comp, leave |-> p.leave + p.rest, rest |-> 0]

LEMMA SourceIs ==
    ASSUME NEW r \in Requests, NEW rows, Signed(rows), NEW p, Fair(p, r, rows), NEW i
    PROVE  Fair(Source(p, i, r, rows), r, rows)
<1>1. PICK q, bal : q = Source(p, i, r, rows) /\ bal = Balance(rows)
  OBVIOUS
<1>2. PICK a, b, c, m : a = p.comp /\ b = p.leave /\ c = p.rest /\ m = Asked[r]
  OBVIOUS
<1>3. /\ p \in [comp : Nat, leave : Nat, rest : Nat] /\ a \in Nat /\ b \in Nat /\ c \in Nat
      /\ a + b + c = m /\ a <= Above(bal) /\ bal \in Int
  BY <1>1, <1>2, BalanceIs DEF Fair
<1>4. p = [comp |-> a, leave |-> b, rest |-> c]
  BY <1>2, <1>3
<1>5. PICK e : e = IF bal - a <= 0 THEN 0 ELSE IF bal - a < c THEN bal - a ELSE c
  OBVIOUS
<1>6. e \in 0..c /\ a + e <= Above(bal) /\ a + e \in Nat /\ c - e \in Nat
  BY <1>3, <1>5 DEF Above
<1>7. q = IF Rules[r][i] = "comp_day" THEN [comp |-> a + e, leave |-> b, rest |-> c - e]
                                      ELSE [comp |-> a, leave |-> b + c, rest |-> 0]
  BY <1>1, <1>2, <1>4, <1>5 DEF Source
<1>8. CASE Rules[r][i] = "comp_day"
  <2>1. (a + e) + b + (c - e) = m
    BY <1>3, <1>6
  <2>2. q = [comp |-> a + e, leave |-> b, rest |-> c - e]
    BY <1>7, <1>8
  <2>3. QED
    BY <1>1, <1>2, <1>3, <1>6, <2>1, <2>2 DEF Fair
<1>9. CASE Rules[r][i] # "comp_day"
  <2>1. a + (b + c) + 0 = m /\ b + c \in Nat
    BY <1>3
  <2>2. q = [comp |-> a, leave |-> b + c, rest |-> 0]
    BY <1>7, <1>9
  <2>3. QED
    BY <1>1, <1>2, <1>3, <2>1, <2>2 DEF Fair
<1>10. QED
  BY <1>8, <1>9

LEMMA DrawIs ==
    ASSUME NEW r \in Requests, NEW rows, Signed(rows)
    PROVE  Fair(Draw(r, rows), r, rows)
<1>1. PICK n \in Nat : n = Len(Rules[r])
  <2>1. Rules[r] \in Seq({"comp_day", "leave_ledger"})
    BY RecoveryAssumption
  <2>2. QED
    BY <2>1
<1> DEFINE Start0 == [comp |-> 0, leave |-> 0, rest |-> Asked[r]]
           Body(f, i) == IF i = 0 THEN Start0 ELSE Source(f[i - 1], i, r, rows)
           Is(f) == f = [i \in 0..n |-> Body(f, i)]
           step == CHOOSE f : Is(f)
<1>2. \E f : Is(f)
  <2> DEFINE Right(f, k) == f = [i \in 0..n |-> f[i]] /\ \A i \in 0..n : i <= k => f[i] = Body(f, i)
             T == {k \in Nat : \E f : Right(f, k)}
  <2> HIDE DEF Start0
  <2>1. 0 \in T
    <3> DEFINE f == [i \in 0..n |-> Start0]
    <3>1. f = [i \in 0..n |-> f[i]] /\ f[0] = Start0
      OBVIOUS
    <3> HIDE DEF f
    <3>2. QED
      BY <3>1
  <2>2. ASSUME NEW k \in T PROVE k + 1 \in T
    <3>1. PICK f : Right(f, k)
      BY <2>2
    <3>2. k \in Nat /\ k + 1 \in Nat
      OBVIOUS
    <3> DEFINE g == [i \in 0..n |-> Body(f, i)]
    <3>3. ASSUME NEW i \in 0..n, i <= k + 1 PROVE g[i] = Body(g, i)
      <4>1. CASE i = 0
        BY <4>1
      <4>2. CASE i # 0
        <5>1. i - 1 \in 0..n /\ i - 1 <= k
          BY <3>2, <3>3, <4>2
        <5>2. g[i - 1] = f[i - 1]
          BY <3>1, <5>1
        <5>3. QED
          BY <4>2, <5>2
      <4>3. QED
        BY <4>1, <4>2
    <3>4. g = [i \in 0..n |-> g[i]]
      OBVIOUS
    <3> HIDE DEF g
    <3>5. Right(g, k + 1)
      BY <3>3, <3>4
    <3> HIDE DEF Right
    <3>6. QED
      BY <3>2, <3>5
  <2>3. T = Nat
    <3>1. T \in SUBSET Nat
      OBVIOUS
    <3> HIDE DEF T
    <3>2. QED
      BY <2>1, <2>2, <3>1, NumberInduction
  <2>4. PICK f : Right(f, n)
    BY <2>3
  <2>5. f = [i \in 0..n |-> f[i]] /\ \A i \in 0..n : f[i] = Body(f, i)
    <3>1. f = [i \in 0..n |-> f[i]] /\ \A i \in 0..n : i <= n => f[i] = Body(f, i)
      BY <2>4, Zenon
    <3>2. \A i \in 0..n : i <= n
      BY <1>1
    <3>3. QED
      BY <3>1, <3>2, Zenon
  <2>6. f = [i \in 0..n |-> Body(f, i)]
    <3> HIDE DEF Body
    <3>1. QED
      BY <2>5
  <2>7. QED
    BY <2>6
<1>3. Is(step)
  <2> HIDE DEF Is
  <2>1. QED
    BY <1>2
<1>4. Draw(r, rows) = step[n]
  BY <1>1 DEF Draw, Source
<1>5. \A i \in 0..n : step[i] = Body(step, i)
  <2> HIDE DEF step, Start0
  <2>1. QED
    BY <1>3
<1> HIDE DEF step
<1> DEFINE G == {k \in Nat : k \in 0..n => Fair(step[k], r, rows)}
<1>6. 0 \in G
  <2>1. Asked[r] \in Nat /\ Balance(rows) \in Int
    BY RecoveryAssumption, BalanceIs
  <2>2. step[0] = Start0
    <3>1. 0 \in 0..n
      BY <1>1
    <3>2. step[0] = Body(step, 0)
      BY <1>5, <3>1
    <3>3. QED
      BY <3>2
  <2>3. Fair(Start0, r, rows)
    BY <2>1 DEF Fair, Above
  <2>4. QED
    BY <2>2, <2>3
<1>7. ASSUME NEW k \in G PROVE k + 1 \in G
  <2>1. SUFFICES ASSUME k + 1 \in 0..n PROVE Fair(step[k + 1], r, rows)
    OBVIOUS
  <2>2. k \in 0..n /\ Fair(step[k], r, rows)
    BY <1>7, <2>1
  <2>3. step[k + 1] = Source(step[k], k + 1, r, rows)
    BY <1>5, <2>1, <2>2
  <2>4. QED
    BY <2>2, <2>3, SourceIs
<1>8. G = Nat
  <2>1. G \in SUBSET Nat
    OBVIOUS
  <2> HIDE DEF G
  <2>2. QED
    BY <1>6, <1>7, <2>1, NumberInduction
<1>9. QED
  BY <1>4, <1>8

------------------------------------------------------------------------------
(* What the sweep posts. *)

(* A row that says an earned row has lapsed, for what was left of it. *)
Lapses(x, part) ==
    /\ x \in RowType /\ x.kind = "expired"
    /\ x.ref \in Earned(part) /\ x.days = - Remaining(part, x.ref) /\ x.days < 0

LEMMA LapsedIs ==
    ASSUME NEW part, Signed(part), NEW d \in Nat
    PROVE  IsFiniteSet(Lapsed(part, d)) /\ \A x \in Lapsed(part, d) : Lapses(x, part)
<1>1. \A i \in Earned(part) : i \in Nat /\ Remaining(part, i) \in Int
  <2>1. ASSUME NEW i \in Earned(part) PROVE i \in Nat /\ Remaining(part, i) \in Int
    <3>1. i \in DOMAIN part /\ part[i].days \in Int
      BY RowIs DEF Earned, Of
    <3>2. i \in Nat
      BY <3>1 DEF Signed
    <3>3. Remaining(part, i) \in 0..part[i].days
      BY RemainingIs
    <3>4. QED
      BY <3>1, <3>2, <3>3
  <2>2. QED
    BY <2>1
<1>2. ASSUME NEW x \in Lapsed(part, d) PROVE Lapses(x, part)
  <2>1. PICK i \in Earned(part) :
           Remaining(part, i) > 0 /\ x = [kind |-> "expired", days |-> - Remaining(part, i), ref |-> i, expiry |-> 0]
    BY <1>2 DEF Lapsed, Due, Earned
  <2>2. PICK n : n = Remaining(part, i)
    OBVIOUS
  <2>3. n \in Int /\ n > 0 /\ i \in Nat
    BY <1>1, <2>1, <2>2
  <2>4. x = [kind |-> "expired", days |-> -n, ref |-> i, expiry |-> 0]
    BY <2>1, <2>2
  <2>5. x \in RowType /\ x.kind = "expired" /\ x.ref = i /\ x.days = -n /\ x.days < 0
    BY <2>3, <2>4 DEF RowType
  <2>6. QED
    BY <2>1, <2>2, <2>5 DEF Lapses
<1>3. IsFiniteSet(Lapsed(part, d))
  <2> DEFINE f == [x \in Lapsed(part, d) |-> x.ref]
  <2>1. \A x \in Lapsed(part, d) : x.ref \in Earned(part)
    BY <1>2 DEF Lapses
  <2>2. \A x, y \in Lapsed(part, d) : x.ref = y.ref => x = y
    BY DEF Lapsed
  <2>3. f \in Injection(Lapsed(part, d), Earned(part))
    BY <2>1, <2>2 DEF Injection, IsInjective
  <2>4. Earned(part) \in SUBSET DOMAIN part
    BY DEF Earned, Of
  <2>5. QED
    BY <2>3, <2>4, RowsFinite, FS_Injection
<1>4. QED
  BY <1>2, <1>3

(* The rows a sweep that read part posts to rows. *)
Posts(posted, part, rows) ==
    /\ posted \in Seq(RowType)
    /\ \A k \in DOMAIN posted :
          Lapses(posted[k], part) /\ \A i \in Of(rows, "expired") : rows[i].ref # posted[k].ref
    /\ \A j, k \in DOMAIN posted : posted[j].ref = posted[k].ref => j = k

LEMMA PostsIs ==
    ASSUME NEW part, Signed(part), NEW d \in Nat, NEW rows,
           NEW posted \in SetToSeqs(Unposted(rows, Lapsed(part, d))),
           \A j, k \in DOMAIN posted : j < k => posted[j].ref < posted[k].ref
    PROVE  Posts(posted, part, rows)
<1>1. PICK U : U = Unposted(rows, Lapsed(part, d))
  OBVIOUS
<1>2. U \subseteq Lapsed(part, d) /\ \A x \in U, i \in Of(rows, "expired") : rows[i].ref # x.ref
  BY <1>1 DEF Unposted
<1>3. PICK n : n = Cardinality(U)
  OBVIOUS
<1>4. n \in Nat
  BY <1>2, <1>3, LapsedIs, FS_Subset, FS_CardinalityType
<1>5. posted \in [1..n -> U]
  BY <1>1, <1>3 DEF SetToSeqs
<1>6. \A k \in 1..n : Lapses(posted[k], part) /\ \A i \in Of(rows, "expired") : rows[i].ref # posted[k].ref
  BY <1>2, <1>5, LapsedIs
<1>7. posted \in [1..n -> RowType]
  BY <1>5, <1>6 DEF Lapses
<1>8. posted \in Seq(RowType) /\ DOMAIN posted = 1..n
  BY <1>4, <1>7
<1>9. ASSUME NEW j \in 1..n, NEW k \in 1..n, posted[j].ref = posted[k].ref PROVE j = k
  <2>1. posted[j].ref \in Nat /\ posted[k].ref \in Nat
    BY <1>6 DEF Lapses, Earned, Of, Signed
  <2>2. PICK a, b : a = posted[j].ref /\ b = posted[k].ref
    OBVIOUS
  <2>3. (j < k => a < b) /\ (k < j => b < a) /\ a = b /\ a \in Nat
    BY <1>8, <1>9, <2>1, <2>2
  <2>4. QED
    BY <2>3
<1>10. QED
  BY <1>6, <1>8, <1>9 DEF Posts

LEMMA Joined ==
    ASSUME NEW rows, Signed(rows), NEW part, NEW posted, Posts(posted, part, rows),
           NEW new, new = rows \o posted
    PROVE  /\ Signed(new) /\ Extends(rows, new) /\ Len(rows) \in Nat /\ Len(posted) \in Nat
           /\ Len(new) = Len(rows) + Len(posted)
           /\ DOMAIN rows = 1..Len(rows) /\ DOMAIN new = 1..(Len(rows) + Len(posted))
           /\ \A k \in DOMAIN new \ DOMAIN rows :
                 k - Len(rows) \in DOMAIN posted /\ new[k] = posted[k - Len(rows)]
<1>1. /\ rows \in Seq(RowType) /\ posted \in Seq(RowType) /\ Len(rows) \in Nat /\ Len(posted) \in Nat
      /\ DOMAIN rows = 1..Len(rows) /\ DOMAIN posted = 1..Len(posted)
  BY DEF Signed, Posts
<1>2. /\ new \in Seq(RowType) /\ Len(new) = Len(rows) + Len(posted)
      /\ DOMAIN new = 1..(Len(rows) + Len(posted)) /\ \A k \in DOMAIN rows : new[k] = rows[k]
  BY <1>1
<1>3. ASSUME NEW k \in DOMAIN new \ DOMAIN rows
      PROVE  k - Len(rows) \in DOMAIN posted /\ new[k] = posted[k - Len(rows)]
  BY <1>1, <1>2
<1>4. \A k \in DOMAIN posted : posted[k].kind = "expired" /\ posted[k].days < 0
  BY DEF Posts, Lapses
<1>5. Signed(new)
  BY <1>1, <1>2, <1>3, <1>4 DEF Signed
<1>6. DOMAIN rows \subseteq DOMAIN new
  BY <1>1, <1>2
<1>7. QED
  BY <1>1, <1>2, <1>3, <1>5, <1>6 DEF Extends

(* The earned rows that are posted to have lapsed. *)
Refs(posted) == {posted[k].ref : k \in DOMAIN posted}

(* A sweep of day d that read part posts what it found left of each row due,
   all but those an expiry already names. *)
Sweeps(posted, part, d, rows) ==
    /\ Posts(posted, part, rows) /\ Refs(posted) \subseteq Due(part, d)
    /\ \A i \in Due(part, d) \ Refs(posted) :
          Remaining(part, i) = 0 \/ \E j \in Of(rows, "expired") : rows[j].ref = i

LEMMA SweepsIs ==
    ASSUME NEW part, Signed(part), NEW d \in Nat, NEW rows,
           NEW posted \in SetToSeqs(Unposted(rows, Lapsed(part, d))),
           \A j, k \in DOMAIN posted : j < k => posted[j].ref < posted[k].ref
    PROVE  Sweeps(posted, part, d, rows)
<1>1. PICK U, n : U = Unposted(rows, Lapsed(part, d)) /\ n = Cardinality(U)
  OBVIOUS
<1>2. U \subseteq Lapsed(part, d) /\ IsFiniteSet(U) /\ n \in Nat
  <2>1. U \subseteq Lapsed(part, d)
    BY <1>1 DEF Unposted
  <2>2. QED
    BY <1>1, <2>1, LapsedIs, FS_Subset, FS_CardinalityType
<1>3. posted \in [1..n -> U] /\ \A i, j \in 1..n : i # j => posted[i] # posted[j]
  BY <1>1 DEF SetToSeqs
<1>4. \A x \in U : \E k \in 1..n : posted[k] = x
  <2>1. PICK D : D = 1..n
    OBVIOUS
  <2>2. posted \in Injection(D, U)
    BY <1>3, <2>1 DEF Injection, IsInjective
  <2>3. Cardinality(D) = Cardinality(U)
    BY <1>1, <1>2, <2>1, FS_Interval
  <2>4. posted \in Surjection(D, U)
    BY <1>2, <2>2, <2>3, FS_Injection
  <2>5. QED
    BY <2>1, <2>4 DEF Surjection
<1>5. Posts(posted, part, rows)
  BY PostsIs
<1>6. DOMAIN posted = 1..n
  BY <1>3
<1>7. Refs(posted) \subseteq Due(part, d)
  <2>1. \A x \in Lapsed(part, d) : x.ref \in Due(part, d)
    BY DEF Lapsed
  <2>2. QED
    BY <1>2, <1>3, <1>6, <2>1 DEF Refs
<1>8. ASSUME NEW i \in Due(part, d) \ Refs(posted), \A j \in Of(rows, "expired") : rows[j].ref # i
      PROVE  Remaining(part, i) = 0
  <2>1. PICK r : r = Remaining(part, i)
    OBVIOUS
  <2>2. r \in Nat
    <3>1. i \in Earned(part) /\ i \in DOMAIN part
      BY DEF Due, Earned, Of
    <3>2. r \in 0..part[i].days /\ part[i].days \in Int
      BY <2>1, <3>1, RowIs, RemainingIs
    <3>3. QED
      BY <3>2
  <2>3. SUFFICES ASSUME r > 0 PROVE FALSE
    BY <2>1, <2>2
  <2>4. PICK x : x = [kind |-> "expired", days |-> - Remaining(part, i), ref |-> i, expiry |-> 0]
    OBVIOUS
  <2>5. x \in Lapsed(part, d)
    BY <2>1, <2>3, <2>4 DEF Lapsed
  <2>6. x.ref = i
    BY <2>4
  <2>7. x \in U
    BY <1>1, <1>8, <2>5, <2>6 DEF Unposted
  <2>8. i \in Refs(posted)
    BY <1>4, <1>6, <2>6, <2>7 DEF Refs
  <2>9. QED
    BY <1>8, <2>8
<1>9. QED
  BY <1>5, <1>7, <1>8 DEF Sweeps

(* The rows a sweep posts take what it found left of the earned rows they name. *)
LEMMA TotalMore ==
    ASSUME NEW old, NEW new, Signed(old), Signed(new), Extends(old, new),
           NEW B \in SUBSET DOMAIN new, B \cap DOMAIN old = {}, NEW A \in SUBSET DOMAIN old, NEW C, C = A \cup B
    PROVE  Total(new, C) = Total(old, A) + Total(new, B) /\ Total(old, A) \in Int /\ Total(new, B) \in Int
<1>1. A \in SUBSET DOMAIN new /\ C \in SUBSET DOMAIN new /\ A \cap B = {}
  BY DEF Extends
<1>2. Total(new, C) = Total(new, A) + Total(new, B)
  BY <1>1, TotalParts
<1>3. Total(new, A) = Total(old, A)
  BY TotalExtends
<1>4. QED
  BY <1>2, <1>3, TotalType

(* What the rows that expire take is taken from the pool and the balance. *)
ExpiredBy(rows, new, m) ==
    Pool(new) = Pool(rows) + m /\ Swept(new) = Swept(rows) + m /\ Swept(rows) \in Int /\ Balance(new) = Balance(rows) - m

LEMMA ExpiredSums ==
    ASSUME NEW rows, NEW new, Signed(rows), Signed(new), Extends(rows, new), NEW B, B = DOMAIN new \ DOMAIN rows,
           \A k \in B : new[k].kind = "expired" /\ new[k].days < 0, NEW m \in Int, Total(new, B) = -m
    PROVE  ExpiredBy(rows, new, m)
<1>1. B \in SUBSET DOMAIN new /\ B \cap DOMAIN rows = {}
  OBVIOUS
<1>2. DOMAIN new = DOMAIN rows \cup B /\ \A i \in DOMAIN rows : new[i] = rows[i]
  BY DEF Extends
<1>3. ASSUME NEW A \in SUBSET DOMAIN rows, NEW C, C = A \cup B
      PROVE  Total(new, C) = Total(rows, A) - m /\ Total(rows, A) \in Int
  <2>1. Total(new, C) = Total(rows, A) + Total(new, B) /\ Total(rows, A) \in Int
    BY <1>1, <1>3, TotalMore
  <2>2. QED
    BY <2>1
<1>4. Swept(new) = Swept(rows) + m /\ Swept(rows) \in Int
  <2>1. PICK A, C : A = Of(rows, "expired") /\ C = Of(new, "expired")
    OBVIOUS
  <2>2. A \in SUBSET DOMAIN rows /\ C = A \cup B
    BY <1>2, <2>1 DEF Of
  <2>3. Total(new, C) = Total(rows, A) - m /\ Total(rows, A) \in Int
    BY <1>3, <2>2
  <2>4. QED
    BY <2>1, <2>3 DEF Swept
<1>5. Pool(new) = Pool(rows) + m
  <2>1. PICK A, C : /\ A = {i \in DOMAIN rows : rows[i].kind # "earned" /\ rows[i].days < 0}
                    /\ C = {i \in DOMAIN new : new[i].kind # "earned" /\ new[i].days < 0}
    OBVIOUS
  <2>2. A \in SUBSET DOMAIN rows /\ C = A \cup B
    BY <1>2, <2>1
  <2>3. Total(new, C) = Total(rows, A) - m /\ Total(rows, A) \in Int
    BY <1>3, <2>2
  <2>4. Pool(rows) = - Total(rows, A) /\ Pool(new) = - Total(new, C)
    BY <2>1, Zenon DEF Pool
  <2>5. QED
    BY <2>3, <2>4
<1>6. Balance(new) = Balance(rows) - m
  <2>1. PICK A, C : A = DOMAIN rows /\ C = DOMAIN new
    OBVIOUS
  <2>2. A \in SUBSET DOMAIN rows /\ C = A \cup B
    BY <1>2, <2>1
  <2>3. Total(new, C) = Total(rows, A) - m
    BY <1>3, <2>2
  <2>4. QED
    BY <2>1, <2>3 DEF Balance
<1>7. QED
  BY <1>4, <1>5, <1>6 DEF ExpiredBy

Took(n, part, posted, rows, new) ==
    /\ n \in Int /\ n = SumOver(Rests(part), Refs(posted)) /\ Refs(posted) \subseteq Earned(part)
    /\ ExpiredBy(rows, new, n)

LEMMA PostedSum ==
    ASSUME NEW rows, Signed(rows), NEW part, Signed(part), NEW posted, Posts(posted, part, rows),
           NEW new, new = rows \o posted
    PROVE  \E n : Took(n, part, posted, rows, new)
<1>1. PICK B, n : B = DOMAIN new \ DOMAIN rows /\ n = Len(rows) /\ n \in Nat
  BY Joined
<1>2. /\ Signed(new) /\ Extends(rows, new) /\ B \in SUBSET DOMAIN new
      /\ DOMAIN new = DOMAIN rows \cup B /\ \A i \in DOMAIN rows : new[i] = rows[i]
      /\ DOMAIN posted = 1..Len(posted) /\ Len(posted) \in Nat
  <2>1. Signed(new) /\ Extends(rows, new)
    BY Joined
  <2>2. posted \in Seq(RowType)
    BY DEF Posts
  <2>3. QED
    BY <1>1, <2>1, <2>2 DEF Extends
<1>3. /\ \A k \in B : k - n \in DOMAIN posted /\ new[k] = posted[k - n] /\ k \in Int
      /\ \A j \in DOMAIN posted : n + j \in B /\ new[n + j] = posted[j]
  <2>1. /\ DOMAIN rows = 1..n /\ DOMAIN new = 1..(n + Len(posted))
        /\ \A k \in DOMAIN new \ DOMAIN rows : k - n \in DOMAIN posted /\ new[k] = posted[k - n]
    BY <1>1, Joined
  <2>2. \A k \in B : k - n \in DOMAIN posted /\ new[k] = posted[k - n] /\ k \in Int
    BY <1>1, <2>1
  <2>3. ASSUME NEW j \in DOMAIN posted PROVE n + j \in B /\ new[n + j] = posted[j]
    <3>1. j \in Int /\ j >= 1 /\ j <= Len(posted)
      BY <1>2
    <3>2. n + j \in B /\ (n + j) - n = j
      BY <1>1, <1>2, <2>1, <3>1
    <3>3. QED
      BY <2>2, <3>2
  <2>4. QED
    BY <2>2, <2>3
<1> DEFINE h == [k \in B |-> new[k].ref]
           F == [k \in B |-> Rests(part)[new[k].ref]]
<1>4. ASSUME NEW k \in B
      PROVE  /\ h[k] \in Earned(part) /\ Days(new)[k] = - F[k] /\ F[k] \in Int /\ F[k] = Rests(part)[h[k]]
             /\ new[k].kind = "expired" /\ new[k].days < 0
  <2>1. PICK x : x = new[k]
    OBVIOUS
  <2>2. Lapses(x, part)
    BY <1>3, <1>4, <2>1 DEF Posts
  <2>3. x.ref \in Earned(part) /\ x.days = - Remaining(part, x.ref) /\ x.kind = "expired" /\ x.days < 0
    BY <2>2 DEF Lapses
  <2>4. Days(new)[k] = x.days /\ h[k] = x.ref /\ F[k] = Rests(part)[x.ref]
    BY <1>2, <2>1 DEF Days
  <2>5. x.ref \in DOMAIN part /\ part[x.ref].days \in Int
    BY <2>3, RowIs DEF Earned, Of
  <2>6. Rests(part)[x.ref] = Remaining(part, x.ref) /\ Remaining(part, x.ref) \in Int
    BY <2>3, <2>5, RemainingIs DEF Rests
  <2>7. QED
    BY <2>1, <2>3, <2>4, <2>6
<1>5. ASSUME NEW j \in B, NEW k \in B, h[j] = h[k] PROVE j = k
  <2>1. PICK a, b : a = j - n /\ b = k - n
    OBVIOUS
  <2>2. /\ a \in DOMAIN posted /\ b \in DOMAIN posted /\ new[j] = posted[a] /\ new[k] = posted[b]
        /\ j \in Int /\ k \in Int
    BY <1>3, <2>1
  <2>3. posted[a].ref = posted[b].ref
    BY <1>5, <2>2
  <2>4. a = b
    BY <2>2, <2>3 DEF Posts
  <2>5. QED
    BY <1>1, <2>1, <2>2, <2>4
<1>6. {h[k] : k \in B} = Refs(posted)
  <2>1. ASSUME NEW r \in Refs(posted) PROVE r \in {h[k] : k \in B}
    <3>1. PICK j \in DOMAIN posted : r = posted[j].ref
      BY DEF Refs
    <3>2. n + j \in B /\ h[n + j] = r
      BY <1>3, <3>1
    <3>3. QED
      BY <3>2
  <2>2. ASSUME NEW k \in B PROVE h[k] \in Refs(posted)
    BY <1>3, <2>2 DEF Refs
  <2>3. QED
    BY <2>1, <2>2
<1>7. Refs(posted) \subseteq Earned(part)
  BY <1>4, <1>6
<1>8. /\ \A k \in B : Days(new)[k] = - F[k] /\ F[k] \in Int /\ F[k] = Rests(part)[h[k]]
      /\ \A x, y \in B : h[x] = h[y] => x = y
      /\ \A k \in B : new[k].kind = "expired" /\ new[k].days < 0
  BY <1>4, <1>5
<1> HIDE DEF F, h
<1>9. IsFiniteSet(B)
  BY <1>2, RowsFinite
<1>10. SumOver(F, B) = SumOver(Rests(part), Refs(posted))
  <2>1. PICK G : G = Rests(part)
    OBVIOUS
  <2>2. \A x \in B : F[x] \in Int /\ F[x] = G[h[x]]
    BY <1>8, <2>1
  <2>3. \A x, y \in B : h[x] = h[y] => x = y
    BY <1>8
  <2>4. SumOver(F, B) = SumOver(G, {h[x] : x \in B})
    BY <1>9, <2>2, <2>3, SumRenamed
  <2>5. QED
    BY <1>6, <2>1, <2>4, Zenon
<1>11. PICK m : m = SumOver(F, B) /\ m \in Int
  BY <1>8, <1>9, SumType
<1>12. SumOver(Days(new), B) = - SumOver(F, B)
  BY <1>8, <1>9, SumNegated
<1>13. Total(new, B) = -m
  BY <1>2, <1>11, <1>12, TotalIs
<1>14. ExpiredBy(rows, new, m)
  <2>1. Signed(new) /\ Extends(rows, new) /\ B = DOMAIN new \ DOMAIN rows
    BY <1>1, <1>2
  <2>2. \A k \in B : new[k].kind = "expired" /\ new[k].days < 0
    BY <1>8
  <2>3. m \in Int /\ Total(new, B) = -m
    BY <1>11, <1>13
  <2>4. QED
    BY <2>1, <2>2, <2>3, ExpiredSums, Zenon
<1>15. m = SumOver(Rests(part), Refs(posted))
  BY <1>10, <1>11, Zenon
<1>16. Took(m, part, posted, rows, new)
  BY <1>7, <1>11, <1>14, <1>15 DEF Took
<1>17. QED
  BY <1>16, Zenon

LEMMA RestsAre ==
    ASSUME NEW rows, Signed(rows)
    PROVE  /\ IsFiniteSet(Earned(rows)) /\ Earned(rows) \in SUBSET DOMAIN rows
           /\ \A i \in Earned(rows) :
                 Rests(rows)[i] = Remaining(rows, i) /\ Rests(rows)[i] \in Int /\ Rests(rows)[i] >= 0
<1>1. Earned(rows) \in SUBSET DOMAIN rows
  BY DEF Earned, Of
<1>2. ASSUME NEW i \in Earned(rows)
      PROVE  Rests(rows)[i] = Remaining(rows, i) /\ Rests(rows)[i] \in Int /\ Rests(rows)[i] >= 0
  <2>1. i \in DOMAIN rows /\ rows[i].days \in Int
    BY <1>1, RowIs
  <2>2. Remaining(rows, i) \in 0..rows[i].days /\ Rests(rows)[i] = Remaining(rows, i)
    BY <2>1, RemainingIs DEF Rests
  <2>3. QED
    BY <2>1, <2>2
<1>3. QED
  BY <1>1, <1>2, RowsFinite

(* A sweep nothing was written behind takes no more than there is. *)
LEMMA PostedAtMost ==
    ASSUME NEW rows, Signed(rows), NEW posted, Posts(posted, rows, rows), NEW new, new = rows \o posted
    PROVE  Balance(new) \in Int /\ Balance(new) >= Balance(rows) - Above(Balance(rows))
<1>1. PICK n \in Int : /\ n = SumOver(Rests(rows), Refs(posted)) /\ Refs(posted) \subseteq Earned(rows)
                       /\ Balance(new) = Balance(rows) - n
  <2>1. \E n : Took(n, rows, posted, rows, new)
    BY PostedSum, Zenon
  <2>2. QED
    BY <2>1 DEF Took, ExpiredBy
<1>2. PICK E, R : E = Earned(rows) /\ R = Refs(posted)
  OBVIOUS
<1>3. IsFiniteSet(E) /\ E \in SUBSET E /\ R \in SUBSET E /\ R \ E = {} /\ \A i \in E : Rests(rows)[i] \in Int /\ Rests(rows)[i] >= 0
  BY <1>1, <1>2, RestsAre
<1>4. SumOver(Rests(rows), R) <= SumOver(Rests(rows), E)
  <2>1. \A i \in R \ E : Rests(rows)[i] = 0
    BY <1>3
  <2>2. QED
    BY <1>3, <2>1, SumCovers
<1>5. SumOver(Rests(rows), E) = Above(Balance(rows)) /\ Balance(rows) \in Int
  BY <1>2, AvailableIs, BalanceIs
<1>6. PICK b, m, a : b = Balance(rows) /\ m = Balance(new) /\ a = Above(Balance(rows))
  OBVIOUS
<1>7. b \in Int /\ m = b - n /\ n <= a /\ a \in Int
  BY <1>1, <1>2, <1>4, <1>5, <1>6 DEF Above
<1>8. QED
  BY <1>6, <1>7

------------------------------------------------------------------------------
(* What the rows of a ledger say of each other. *)

(* An expiry names an earned row, once, and takes no more than it gave; a
   reversal names an earned row, or none when the employee leaves. *)
Marked(rows) ==
    /\ \A j \in Of(rows, "expired") :
          rows[j].ref \in Earned(rows) /\ - rows[j].days <= rows[rows[j].ref].days
    /\ \A j, k \in Of(rows, "expired") : rows[j].ref = rows[k].ref => j = k
    /\ \A j \in Of(rows, "reversal") : rows[j].ref = 0 \/ rows[j].ref \in Earned(rows)

(* What a leave request has cost in recovery days, as a number below zero. *)
Spent(rows, r) == Total(rows, {i \in Of(rows, "redeemed") : rows[i].ref = r})

Kinds == {"earned", "redeemed", "expired", "reversal"}

(* The rows of kind k once x is appended. *)
Gained(rows, x, k) == IF x.kind = k THEN Of(rows, k) \cup {Len(rows) + 1} ELSE Of(rows, k)

LEMMA OfAppended ==
    ASSUME NEW rows, Signed(rows), NEW x, Proper(x),
           NEW new, new = Append(rows, x)
    PROVE  \A k \in Kinds : Of(new, k) = Gained(rows, x, k)
<1>1. PICK n : n = Len(rows) + 1
  OBVIOUS
<1>2. DOMAIN new = DOMAIN rows \cup {n} /\ n \notin DOMAIN rows /\ new[n] = x /\ \A i \in DOMAIN rows : new[i] = rows[i]
  BY <1>1, Appended DEF Extends
<1>3. QED
  BY <1>1, <1>2 DEF Of, Gained

LEMMA MarkedAppended ==
    ASSUME NEW rows, Signed(rows), Marked(rows), NEW x, Proper(x),
           x.kind # "expired", x.kind = "reversal" => x.ref = 0 \/ x.ref \in Earned(rows),
           NEW new, new = Append(rows, x)
    PROVE  Marked(new)
<1>1. PICK n : n = Len(rows) + 1
  OBVIOUS
<1>2. n \notin DOMAIN rows /\ new[n] = x /\ \A i \in DOMAIN rows : new[i] = rows[i]
  BY <1>1, Appended DEF Extends
<1>3. /\ Of(new, "expired") = Of(rows, "expired") /\ Earned(rows) \subseteq Earned(new)
      /\ Of(new, "reversal") \subseteq Of(rows, "reversal") \cup {n}
      /\ n \in Of(new, "reversal") => x.kind = "reversal"
  BY <1>1, <1>2, OfAppended DEF Gained, Kinds, Earned, Of
<1>4. Of(rows, "expired") \subseteq DOMAIN rows /\ Of(rows, "reversal") \subseteq DOMAIN rows /\ Earned(rows) \subseteq DOMAIN rows
  BY DEF Of, Earned
<1>5. \A j \in Of(new, "expired") : new[j].ref \in Earned(new) /\ - new[j].days <= new[new[j].ref].days
  BY <1>2, <1>3, <1>4 DEF Marked
<1>6. \A j, k \in Of(new, "expired") : new[j].ref = new[k].ref => j = k
  BY <1>2, <1>3, <1>4 DEF Marked
<1>7. \A j \in Of(new, "reversal") : new[j].ref = 0 \/ new[j].ref \in Earned(new)
  BY <1>2, <1>3, <1>4 DEF Marked
<1>8. QED
  BY <1>5, <1>6, <1>7 DEF Marked

LEMMA MarkedJoined ==
    ASSUME NEW rows, Signed(rows), Marked(rows), NEW part, Signed(part), Extends(part, rows),
           NEW posted, Posts(posted, part, rows), NEW new, new = rows \o posted
    PROVE  Marked(new) /\ \A k \in Kinds \ {"expired"} : Of(new, k) = Of(rows, k)
<1>1. PICK B : B = DOMAIN new \ DOMAIN rows
  OBVIOUS
<1>2. PICK n : n = Len(rows) /\ n \in Nat
  BY Joined
<1>3. /\ DOMAIN new = DOMAIN rows \cup B /\ B \cap DOMAIN rows = {} /\ \A i \in DOMAIN rows : new[i] = rows[i]
      /\ \A k \in B : k - n \in DOMAIN posted /\ new[k] = posted[k - n] /\ k \in Int
  <2>1. DOMAIN rows \subseteq DOMAIN new /\ \A i \in DOMAIN rows : new[i] = rows[i]
    BY Joined DEF Extends
  <2>2. \A k \in B : k - n \in DOMAIN posted /\ new[k] = posted[k - n]
    BY <1>1, <1>2, Joined
  <2>3. \A k \in DOMAIN new : k \in Int
    BY Joined
  <2>4. QED
    BY <1>1, <2>1, <2>2, <2>3
<1>4. \A k \in B : Lapses(new[k], part) /\ \A i \in Of(rows, "expired") : rows[i].ref # new[k].ref
  BY <1>3 DEF Posts
<1>5. \A k \in Kinds \ {"expired"} : Of(new, k) = Of(rows, k)
  <2>1. \A k \in B : new[k].kind = "expired"
    BY <1>4 DEF Lapses
  <2>2. QED
    BY <1>3, <2>1 DEF Of
<1>6. Of(new, "expired") \subseteq Of(rows, "expired") \cup B /\ Earned(new) = Earned(rows)
  <2>1. Of(new, "expired") \subseteq Of(rows, "expired") \cup B
    BY <1>3 DEF Of
  <2>2. QED
    BY <1>5, <2>1 DEF Earned, Kinds
<1>7. Of(rows, "expired") \subseteq DOMAIN rows /\ Of(rows, "reversal") \subseteq DOMAIN rows /\ Earned(rows) \subseteq DOMAIN rows
  BY DEF Of, Earned
<1>8. ASSUME NEW j \in Of(new, "expired") PROVE new[j].ref \in Earned(new) /\ - new[j].days <= new[new[j].ref].days
  <2>1. CASE j \in Of(rows, "expired")
    BY <1>3, <1>6, <1>7, <2>1 DEF Marked
  <2>2. CASE j \in B
    <3>1. PICK i, x : x = new[j] /\ i = x.ref
      OBVIOUS
    <3>2. i \in Earned(part) /\ x.days = - Remaining(part, i)
      BY <1>4, <2>2, <3>1 DEF Lapses
    <3>3. i \in DOMAIN part /\ rows[i] = part[i] /\ i \in DOMAIN rows /\ i \in Earned(rows)
      BY <3>2 DEF Earned, Of, Extends
    <3>4. PICK d, m : d = part[i].days /\ m = Remaining(part, i)
      OBVIOUS
    <3>5. d \in Int /\ m \in 0..d
      BY <3>2, <3>3, <3>4, RowIs, RemainingIs
    <3>6. - x.days <= d
      BY <3>2, <3>4, <3>5
    <3>7. new[i].days = d
      BY <1>3, <3>3, <3>4
    <3>8. QED
      BY <1>6, <3>1, <3>3, <3>6, <3>7
  <2>3. QED
    BY <1>6, <2>1, <2>2
<1>9. ASSUME NEW j \in Of(new, "expired"), NEW k \in Of(new, "expired"), new[j].ref = new[k].ref PROVE j = k
  <2>1. CASE j \in Of(rows, "expired") /\ k \in Of(rows, "expired")
    BY <1>3, <1>7, <1>9, <2>1 DEF Marked
  <2>2. CASE j \in Of(rows, "expired") /\ k \in B
    BY <1>3, <1>4, <1>7, <1>9, <2>2
  <2>3. CASE j \in B /\ k \in Of(rows, "expired")
    BY <1>3, <1>4, <1>7, <1>9, <2>3
  <2>4. CASE j \in B /\ k \in B
    <3>1. PICK a, b : a = j - n /\ b = k - n
      OBVIOUS
    <3>2. a \in DOMAIN posted /\ b \in DOMAIN posted /\ new[j] = posted[a] /\ new[k] = posted[b] /\ j \in Int /\ k \in Int
      BY <1>3, <2>4, <3>1
    <3>3. posted[a].ref = posted[b].ref
      BY <1>9, <3>2
    <3>4. a = b
      BY <3>2, <3>3 DEF Posts
    <3>5. QED
      BY <1>2, <3>1, <3>2, <3>4
  <2>5. QED
    BY <1>6, <2>1, <2>2, <2>3, <2>4
<1>10. \A j \in Of(new, "reversal") : new[j].ref = 0 \/ new[j].ref \in Earned(new)
  <2>1. Of(new, "reversal") = Of(rows, "reversal")
    BY <1>5 DEF Kinds
  <2>2. QED
    BY <1>3, <1>6, <1>7, <2>1 DEF Marked
<1>11. QED
  BY <1>5, <1>8, <1>9, <1>10 DEF Marked

(* Rows of other kinds change neither what is active nor what was spent. *)
LEMMA ActiveSame ==
    ASSUME NEW old, NEW new, Extends(old, new), NEW c,
           Of(new, "earned") = Of(old, "earned"), Of(new, "reversal") = Of(old, "reversal")
    PROVE  Active(new, c) = Active(old, c)
<1>1. \A i \in Of(old, "earned") \cup Of(old, "reversal") : new[i] = old[i]
  BY DEF Extends, Of
<1>2. \A i : Reversed(new, i) <=> Reversed(old, i)
  BY <1>1 DEF Reversed
<1>3. QED
  BY <1>1, <1>2 DEF Active

LEMMA SpentSame ==
    ASSUME NEW old, NEW new, Signed(old), Signed(new), Extends(old, new), NEW r,
           Of(new, "redeemed") = Of(old, "redeemed")
    PROVE  Spent(new, r) = Spent(old, r)
<1>1. PICK I : I = {i \in Of(old, "redeemed") : old[i].ref = r}
  OBVIOUS
<1>2. I \in SUBSET DOMAIN old
  BY <1>1 DEF Of
<1>3. I = {i \in Of(new, "redeemed") : new[i].ref = r}
  BY <1>1 DEF Extends, Of
<1>4. Total(new, I) = Total(old, I)
  BY <1>2, TotalExtends
<1>5. Spent(old, r) = Total(old, I) /\ Spent(new, r) = Total(new, I)
  BY <1>1, <1>3, Zenon DEF Spent
<1>6. QED
  BY <1>4, <1>5

LEMMA SpentType ==
    ASSUME NEW rows, Signed(rows), NEW r
    PROVE  Spent(rows, r) \in Int
<1>1. {i \in Of(rows, "redeemed") : rows[i].ref = r} \in SUBSET DOMAIN rows
  BY DEF Of
<1>2. QED
  BY <1>1, TotalType DEF Spent

(* A redemption adds to what its request has cost. *)
LEMMA SpentMore ==
    ASSUME NEW old, NEW new, Signed(old), Signed(new), Extends(old, new), NEW n \in DOMAIN new,
           n \notin DOMAIN old, Of(new, "redeemed") = Of(old, "redeemed") \cup {n}, NEW r
    PROVE  Spent(new, r) = IF new[n].ref = r THEN Spent(old, r) + new[n].days ELSE Spent(old, r)
<1>1. PICK I, J, S : I = {i \in Of(old, "redeemed") : old[i].ref = r} /\ J = {i \in Of(new, "redeemed") : new[i].ref = r} /\ S = {n}
  OBVIOUS
<1>2. I \in SUBSET DOMAIN old /\ I \in SUBSET DOMAIN new /\ n \notin I /\ I = {i \in Of(old, "redeemed") : new[i].ref = r}
  BY <1>1 DEF Extends, Of
<1>3. Total(new, I) = Total(old, I)
  BY <1>2, TotalExtends
<1>4. Spent(old, r) = Total(old, I) /\ Spent(new, r) = Total(new, J)
  BY <1>1, Zenon DEF Spent
<1>5. CASE new[n].ref = r
  <2>1. J = I \cup S /\ S \in SUBSET DOMAIN new /\ J \in SUBSET DOMAIN new /\ I \cap S = {}
    BY <1>1, <1>2, <1>5
  <2>2. Total(new, J) = Total(new, I) + Total(new, S)
    BY <1>2, <2>1, TotalParts
  <2>3. Total(new, {n}) = new[n].days
    BY TotalOne
  <2>4. QED
    BY <1>1, <1>3, <1>4, <1>5, <2>2, <2>3
<1>6. CASE new[n].ref # r
  <2>1. J = I
    BY <1>1, <1>2, <1>6
  <2>2. QED
    BY <1>3, <1>4, <1>6, <2>1
<1>7. QED
  BY <1>5, <1>6

(* What a transaction reads when only sweeps wrote since. *)
LEMMA SeenIs ==
    ASSUME NEW rows, Signed(rows), NEW n \in Nat, n <= Len(rows),
           \A j \in (n + 1)..Len(rows) : rows[j].kind = "expired",
           NEW part, part = SubSeq(rows, 1, n)
    PROVE  /\ Signed(part) /\ Extends(part, rows)
           /\ \A k \in Kinds \ {"expired"} : Of(part, k) = Of(rows, k)
           /\ \A c : Active(part, c) = Active(rows, c)
<1>0. Len(rows) \in Nat /\ DOMAIN rows = 1..Len(rows)
  BY DEF Signed
<1>1. Signed(part) /\ Extends(part, rows) /\ DOMAIN part = 1..n
  BY Prefix, Zenon
<1>2. \A i \in DOMAIN rows : i \notin DOMAIN part => rows[i].kind = "expired"
  BY <1>0, <1>1
<1>3. \A i \in DOMAIN part : i \in DOMAIN rows /\ part[i] = rows[i]
  BY <1>1 DEF Extends
<1>4. \A k \in Kinds \ {"expired"} : Of(part, k) = Of(rows, k)
  BY <1>2, <1>3 DEF Of
<1>5. Of(part, "earned") = Of(rows, "earned") /\ Of(part, "reversal") = Of(rows, "reversal")
  BY <1>4 DEF Kinds
<1>6. \A c : Active(part, c) = Active(rows, c)
  BY <1>1, <1>5, ActiveSame
<1>7. QED
  BY <1>1, <1>4, <1>6

------------------------------------------------------------------------------
(* What has lapsed in all. *)

(* An earned row and the rows used up before it. *)
UpTo(rows, i) == Before(rows, i) \cup {i}

(* The rows old has lost nothing, and the earned ones that came since lapse
   after e. *)
Later(old, new, e) ==
    Extends(old, new) /\ \A k \in Earned(new) \ DOMAIN old : new[k].expiry > e

LEMMA UpToIs ==
    ASSUME NEW rows, Signed(rows), NEW i \in Earned(rows)
    PROVE  /\ Early(rows, UpTo(rows, i)) /\ UpTo(rows, i) \in SUBSET DOMAIN rows
           /\ Total(rows, UpTo(rows, i)) = Total(rows, Before(rows, i)) + rows[i].days
           /\ Total(rows, UpTo(rows, i)) \in Int
<1>1. i \in DOMAIN rows /\ Earned(rows) \subseteq DOMAIN rows
  BY DEF Earned, Of
<1>2. Before(rows, i) \in SUBSET Earned(rows) /\ Before(rows, i) \in SUBSET DOMAIN rows /\ i \notin Before(rows, i)
  BY <1>1, BeforeIs
<1>3. ASSUME NEW k \in UpTo(rows, i) PROVE Before(rows, k) \subseteq UpTo(rows, i)
  <2>1. CASE k = i
    BY <2>1 DEF UpTo
  <2>2. CASE k # i
    <3>1. k \in Before(rows, i) /\ k \in Earned(rows)
      BY <1>2, <2>2 DEF UpTo
    <3>2. Before(rows, k) \subseteq Before(rows, i)
      BY <2>2, <3>1, BeforeOrders
    <3>3. QED
      BY <3>2 DEF UpTo
  <2>3. QED
    BY <2>1, <2>2
<1>4. PICK A, B, U : A = Before(rows, i) /\ B = {i} /\ U = UpTo(rows, i)
  OBVIOUS
<1>5. A \in SUBSET DOMAIN rows /\ B \in SUBSET DOMAIN rows /\ U \in SUBSET DOMAIN rows /\ A \cap B = {} /\ U = A \cup B
  BY <1>1, <1>2, <1>4 DEF UpTo
<1>6. Total(rows, U) = Total(rows, A) + Total(rows, B)
  BY <1>5, TotalParts
<1>7. Total(rows, B) = rows[i].days
  BY <1>1, <1>4, TotalOne
<1>8. Total(rows, U) \in Int
  BY <1>5, TotalType
<1>9. Early(rows, UpTo(rows, i))
  BY <1>2, <1>3 DEF Early, UpTo
<1>10. QED
  BY <1>4, <1>5, <1>6, <1>7, <1>8, <1>9

LEMMA DueIs ==
    ASSUME NEW rows, Signed(rows), NEW d \in Nat
    PROVE  Early(rows, Due(rows, d)) /\ Due(rows, d) \in SUBSET DOMAIN rows
<1>1. Due(rows, d) \subseteq Earned(rows) /\ Due(rows, d) \subseteq DOMAIN rows
  BY DEF Due, Earned, Of
<1>2. ASSUME NEW i \in Due(rows, d), NEW k \in Before(rows, i) PROVE k \in Due(rows, d)
  <2>1. k \in Of(rows, "earned") /\ k \in DOMAIN rows /\ i \in DOMAIN rows /\ rows[i].expiry <= d
    BY <1>1, <1>2 DEF Before, Due, Of
  <2>2. PICK a, b : a = rows[i].expiry /\ b = rows[k].expiry
    OBVIOUS
  <2>3. a \in Int /\ b \in Int
    BY <2>1, <2>2, RowIs
  <2>4. b < a \/ b = a
    BY <1>2, <2>2 DEF Before
  <2>5. QED
    BY <2>1, <2>2, <2>3, <2>4 DEF Due
<1>3. QED
  BY <1>1, <1>2 DEF Early

(* Earned days only add. *)
LEMMA TotalGrows ==
    ASSUME NEW rows, Signed(rows), NEW A \in SUBSET Earned(rows), NEW B \in SUBSET Earned(rows), A \subseteq B
    PROVE  Total(rows, A) <= Total(rows, B) /\ Total(rows, A) \in Int /\ Total(rows, B) \in Int
<1>1. Earned(rows) \subseteq DOMAIN rows
  BY DEF Earned, Of
<1>2. PICK C : C = B \ A
  OBVIOUS
<1>3. /\ A \in SUBSET DOMAIN rows /\ B \in SUBSET DOMAIN rows /\ C \in SUBSET DOMAIN rows
      /\ A \cap C = {} /\ B = A \cup C
  BY <1>1, <1>2
<1>4. Total(rows, B) = Total(rows, A) + Total(rows, C)
  BY <1>3, TotalParts
<1>5. \A i \in C : rows[i].days >= 0
  BY <1>1, <1>2, <1>3, RowIs
<1>6. Total(rows, A) \in Int /\ Total(rows, B) \in Int /\ Total(rows, C) \in Int
  BY <1>3, TotalType
<1>7. Total(rows, C) >= 0
  BY <1>3, <1>5, TotalSign
<1>8. QED
  BY <1>4, <1>6, <1>7

(* Of a row that the pool has used up nothing is left. *)
LEMMA NothingLeft ==
    ASSUME NEW rows, Signed(rows), NEW i \in Earned(rows), Total(rows, UpTo(rows, i)) <= Pool(rows)
    PROVE  Remaining(rows, i) = 0
<1>1. i \in DOMAIN rows
  BY DEF Earned, Of
<1>2. PICK p, b, d : p = Pool(rows) /\ b = Total(rows, Before(rows, i)) /\ d = rows[i].days
  OBVIOUS
<1>3. p \in Int /\ b \in Int /\ d \in Int /\ d > 0
  BY <1>1, <1>2, BalanceIs, BeforeIs, TotalType, RowIs
<1>4. b + d <= p
  BY <1>2, UpToIs
<1>5. Remaining(rows, i) = Above(b + d - p) - Above(b - p)
  BY <1>2, RemainingIs
<1>6. QED
  BY <1>3, <1>4, <1>5 DEF Above

(* Consumption only adds. *)
LEMMA PoolGrows ==
    ASSUME NEW old, NEW new, Signed(old), Signed(new), Extends(old, new)
    PROVE  Pool(old) <= Pool(new) /\ Pool(old) \in Nat /\ Pool(new) \in Nat
<1> DEFINE Uses(rows) == {i \in DOMAIN rows : rows[i].kind # "earned" /\ rows[i].days < 0}
<1>1. PICK A, B, C : A = Uses(old) /\ B = Uses(new) /\ C = B \ A
  OBVIOUS
<1>2. A \in SUBSET DOMAIN old /\ A \subseteq B
  BY <1>1 DEF Extends
<1>3. /\ A \in SUBSET DOMAIN new /\ B \in SUBSET DOMAIN new /\ C \in SUBSET DOMAIN new
      /\ A \cap C = {} /\ B = A \cup C
  BY <1>1, <1>2
<1>4. Total(new, B) = Total(new, A) + Total(new, C)
  BY <1>3, TotalParts
<1>5. Total(new, A) = Total(old, A)
  BY <1>2, TotalExtends
<1>6. \A i \in C : new[i].days <= 0
  BY <1>1, <1>3, RowIs
<1>7. Total(new, C) <= 0
  BY <1>3, <1>6, TotalSign
<1>8. Total(new, A) \in Int /\ Total(new, B) \in Int /\ Total(new, C) \in Int
  BY <1>3, TotalType
<1>9. Pool(old) = - Total(old, A) /\ Pool(new) = - Total(new, B)
  BY <1>1 DEF Pool
<1>10. QED
  BY <1>4, <1>5, <1>7, <1>8, <1>9, BalanceIs

(* Rows that lapse later are used up later. *)
LEMMA LaterSame ==
    ASSUME NEW old, NEW new, Signed(old), Signed(new), NEW e \in Nat, Later(old, new, e)
    PROVE  /\ Due(new, e) = Due(old, e)
           /\ \A i \in Due(old, e) : UpTo(new, i) = UpTo(old, i) /\ i \in Earned(new) /\ i \in DOMAIN old
<1>1. DOMAIN old \subseteq DOMAIN new /\ \A i \in DOMAIN old : new[i] = old[i]
  BY DEF Later, Extends
<1>2. \A k \in Earned(new) : k \in Earned(old) \/ new[k].expiry > e
  BY <1>1 DEF Later, Earned, Of
<1>3. \A k \in Earned(old) : k \in DOMAIN old /\ k \in Earned(new)
  BY <1>1 DEF Earned, Of
<1>4. (\A k \in DOMAIN new : new[k].expiry \in Int) /\ \A k \in DOMAIN old : old[k].expiry \in Int
  BY RowIs
<1>5. \A k \in Earned(new) : k \in DOMAIN new
  BY DEF Earned, Of
<1>6. \A i : i \in Due(new, e) <=> i \in Due(old, e)
  <2>1. \A i : i \in Due(new, e) <=> i \in Earned(new) /\ new[i].expiry <= e
    BY DEF Due, Earned
  <2>2. \A i : i \in Due(old, e) <=> i \in Earned(old) /\ old[i].expiry <= e
    BY DEF Due, Earned
  <2>3. ASSUME NEW i \in Earned(new), new[i].expiry <= e PROVE i \in Earned(old)
    <3>1. new[i].expiry \in Int /\ ~ new[i].expiry > e
      BY <1>4, <1>5, <2>3
    <3>2. QED
      BY <1>2, <3>1
  <2>4. QED
    BY <1>1, <1>3, <2>1, <2>2, <2>3
<1>7. ASSUME NEW i \in Due(old, e) PROVE UpTo(new, i) = UpTo(old, i) /\ i \in Earned(new) /\ i \in DOMAIN old
  <2>1. i \in Earned(old) /\ i \in DOMAIN old /\ old[i].expiry <= e /\ new[i] = old[i] /\ i \in Earned(new)
    BY <1>1, <1>3, <1>7 DEF Due, Earned
  <2>2. ASSUME NEW k \in Before(old, i) PROVE k \in Before(new, i)
    <3>1. k \in Earned(old) /\ new[k] = old[k] /\ k \in Earned(new)
      BY <1>1, <1>3, <2>2 DEF Before, Earned
    <3>2. QED
      BY <2>1, <2>2, <3>1 DEF Before, Earned
  <2>3. ASSUME NEW k \in Before(new, i) PROVE k \in Before(old, i)
    <3>1. k \in Earned(new) /\ k \in DOMAIN new
      BY <1>5 DEF Before, Earned
    <3>2. PICK a, b : a = new[k].expiry /\ b = new[i].expiry
      OBVIOUS
    <3>3. a \in Int /\ b \in Int /\ b <= e
      BY <1>4, <2>1, <3>1, <3>2
    <3>4. a < b \/ (a = b /\ k < i)
      BY <2>3, <3>2 DEF Before
    <3>5. ~ a > e
      BY <3>3, <3>4
    <3>6. k \in Earned(old) /\ new[k] = old[k]
      BY <1>1, <1>2, <1>3, <3>1, <3>2, <3>5
    <3>7. QED
      BY <2>1, <3>2, <3>4, <3>6 DEF Before, Earned
  <2>4. Before(new, i) = Before(old, i)
    BY <2>2, <2>3
  <2>5. QED
    BY <2>1, <2>4 DEF UpTo
<1>8. QED
  BY <1>6, <1>7

(* The pool has used up each earned row that an expiry names, and these have
   all lapsed by e. *)
CoveredIn(rows, e) ==
    \A j \in Of(rows, "expired") :
        /\ rows[j].ref \in Earned(rows) /\ rows[rows[j].ref].expiry <= e
        /\ Total(rows, UpTo(rows, rows[j].ref)) <= Pool(rows)

(* The rows due that are used up no later than one an expiry names. *)
Behind(part, d, rows) ==
    {i \in Due(part, d) :
        \E j \in Of(rows, "expired") : rows[j].ref \in Due(part, d) /\ i \in UpTo(part, rows[j].ref)}

LEMMA BehindIs ==
    ASSUME NEW part, Signed(part), NEW rows, Signed(rows), NEW d \in Nat, Later(part, rows, d),
           NEW e, CoveredIn(rows, e)
    PROVE  /\ Early(part, Behind(part, d, rows)) /\ Total(part, Behind(part, d, rows)) \in Int
           /\ Total(part, Behind(part, d, rows)) <= Pool(rows)
<1>1. PICK A, D : A = Behind(part, d, rows) /\ D = Due(part, d)
  OBVIOUS
<1>2. D \subseteq Earned(part) /\ D \in SUBSET DOMAIN part /\ A \subseteq D /\ Early(part, D)
  <2>1. A \subseteq D
    BY <1>1 DEF Behind
  <2>2. QED
    BY <1>1, <2>1, DueIs DEF Early
<1>3. \A i \in A : \E k \in D : i \in UpTo(part, k) /\ Total(part, UpTo(part, k)) <= Pool(rows)
  <2>1. ASSUME NEW i \in A PROVE \E k \in D : i \in UpTo(part, k) /\ Total(part, UpTo(part, k)) <= Pool(rows)
    <3>1. PICK j \in Of(rows, "expired") : rows[j].ref \in D /\ i \in UpTo(part, rows[j].ref)
      BY <1>1 DEF Behind
    <3>2. PICK k : k = rows[j].ref
      OBVIOUS
    <3>3. k \in D /\ i \in UpTo(part, k) /\ Total(rows, UpTo(rows, k)) <= Pool(rows)
      BY <3>1, <3>2 DEF CoveredIn
    <3>4. UpTo(rows, k) = UpTo(part, k)
      BY <1>1, <3>3, LaterSame
    <3>5. UpTo(part, k) \in SUBSET DOMAIN part
      BY <1>2, <3>3, UpToIs
    <3>6. PICK u : u = UpTo(part, k)
      OBVIOUS
    <3>7. Total(rows, u) = Total(part, u)
      BY <3>5, <3>6, TotalExtends DEF Later
    <3>8. QED
      BY <3>3, <3>4, <3>6, <3>7
  <2>2. QED
    BY <2>1
<1>4. Early(part, A)
  <2>1. ASSUME NEW i \in A, NEW m \in Before(part, i) PROVE m \in A
    <3>1. PICK j \in Of(rows, "expired") : rows[j].ref \in D /\ i \in UpTo(part, rows[j].ref)
      BY <1>1 DEF Behind
    <3>2. PICK k : k = rows[j].ref
      OBVIOUS
    <3>3. k \in Earned(part) /\ i \in UpTo(part, k)
      BY <1>2, <3>1, <3>2
    <3>4. m \in UpTo(part, k)
      <4>1. Early(part, UpTo(part, k))
        BY <3>3, UpToIs
      <4>2. QED
        BY <2>1, <3>3, <4>1 DEF Early
    <3>5. m \in D
      BY <1>2, <2>1 DEF Early
    <3>6. QED
      BY <1>1, <3>1, <3>2, <3>4, <3>5 DEF Behind
  <2>2. QED
    BY <1>2, <2>1 DEF Early
<1>5. Total(part, A) \in Int
  BY <1>2, TotalType
<1>6. Total(part, A) <= Pool(rows)
  <2>1. CASE A = {}
    <3>1. Total(part, A) = 0 /\ Pool(rows) \in Nat
      BY <2>1, TotalNothing, BalanceIs
    <3>2. QED
      BY <3>1
  <2>2. CASE A # {}
    <3>1. PICK i \in A : Before(part, i) = A \ {i}
      BY <1>4, <2>2, LastOfEarly
    <3>2. PICK k \in D : i \in UpTo(part, k) /\ Total(part, UpTo(part, k)) <= Pool(rows)
      BY <1>3
    <3>3. A = UpTo(part, i) /\ i \in Earned(part) /\ k \in Earned(part)
      BY <1>2, <3>1 DEF UpTo
    <3>4. UpTo(part, i) \subseteq UpTo(part, k) /\ UpTo(part, k) \subseteq Earned(part)
      <4>1. Early(part, UpTo(part, k))
        BY <3>3, UpToIs
      <4>2. QED
        BY <3>2, <4>1 DEF Early, UpTo
    <3>5. PICK B, p : B = UpTo(part, k) /\ p = Pool(rows)
      OBVIOUS
    <3>6. Total(part, A) <= Total(part, B) /\ Total(part, A) \in Int /\ Total(part, B) \in Int
      BY <1>2, <3>3, <3>4, <3>5, TotalGrows
    <3>7. Total(part, B) <= p /\ p \in Int
      BY <3>2, <3>5, BalanceIs
    <3>8. QED
      BY <3>5, <3>6, <3>7
  <2>3. QED
    BY <2>1, <2>2
<1>7. QED
  BY <1>1, <1>4, <1>5, <1>6

(* What a sweep leaves behind: the pool has used up all that was due. *)
LEMMA SweepCovers ==
    ASSUME NEW part, Signed(part), NEW rows, Signed(rows), NEW d \in Nat, Later(part, rows, d),
           NEW e, CoveredIn(rows, e), NEW posted, Sweeps(posted, part, d, rows),
           NEW new, new = rows \o posted
    PROVE  Total(part, Due(part, d)) <= Pool(new) /\ Total(part, Due(part, d)) \in Int
<1>1. PICK n : Took(n, part, posted, rows, new)
  <2>1. Posts(posted, part, rows)
    BY DEF Sweeps
  <2>2. \E n : Took(n, part, posted, rows, new)
    BY <2>1, PostedSum, Zenon
  <2>3. QED
    BY <2>2
<1>2. PICK A, D, R, E, F : A = Behind(part, d, rows) /\ D = Due(part, d) /\ R = Refs(posted) /\ E = Earned(part) /\ F = Rests(part)
  OBVIOUS
<1>3. /\ Early(part, A) /\ Early(part, D) /\ A \subseteq D /\ D \in SUBSET E /\ R \in SUBSET E /\ D \in SUBSET DOMAIN part
      /\ A \in SUBSET E
  <2>1. A \subseteq D
    BY <1>2 DEF Behind
  <2>2. Early(part, A)
    BY <1>2, BehindIs
  <2>3. R \subseteq E
    BY <1>1, <1>2 DEF Took
  <2>4. QED
    BY <1>2, <2>1, <2>2, <2>3, DueIs DEF Early
<1>4. IsFiniteSet(E) /\ \A i \in E : F[i] \in Int /\ F[i] >= 0 /\ F[i] = Remaining(part, i)
  BY <1>2, RestsAre
<1>5. PICK W : W = D \ A
  OBVIOUS
<1>6. \A i \in W \ R : F[i] = 0
  <2>1. ASSUME NEW i \in W \ R PROVE F[i] = 0
    <3>1. i \in D \ R /\ i \notin A
      BY <1>5
    <3>2. ~ \E j \in Of(rows, "expired") : rows[j].ref = i
      <4>1. i \in UpTo(part, i)
        BY DEF UpTo
      <4>2. QED
        BY <1>2, <3>1, <4>1 DEF Behind
    <3>3. Remaining(part, i) = 0
      BY <1>2, <3>1, <3>2 DEF Sweeps
    <3>4. QED
      BY <1>3, <1>4, <3>1, <3>3
  <2>2. QED
    BY <2>1
<1>7. SumOver(F, W) <= SumOver(F, R) /\ SumOver(F, W) \in Int /\ SumOver(F, R) \in Int
  <2>1. W \in SUBSET E
    BY <1>3, <1>5
  <2>2. QED
    BY <1>3, <1>4, <1>6, <2>1, SumCovers
<1>8. SumOver(F, {}) <= SumOver(F, R)
  <2>1. {} \in SUBSET E /\ \A i \in {} \ R : F[i] = 0
    OBVIOUS
  <2>2. QED
    BY <1>3, <1>4, <2>1, SumCovers
<1>9. SumOver(F, {}) = 0
  BY SumNone
<1>10. SumOver(F, D) = SumOver(F, A) + SumOver(F, W)
  <2>1. D = A \cup W /\ A \cap W = {} /\ A \in SUBSET E /\ W \in SUBSET E
    BY <1>3, <1>5
  <2>2. IsFiniteSet(A) /\ IsFiniteSet(W) /\ \A i \in A \cup W : F[i] \in Int
    BY <1>4, <2>1, FS_Subset
  <2>3. SumOver(F, A \cup W) = SumOver(F, A) + SumOver(F, W)
    BY <2>1, <2>2, SumDisjoint
  <2>4. QED
    BY <2>1, <2>3, Zenon
<1>11. PICK x, y, pp, p : x = Total(part, A) /\ y = Total(part, D) /\ pp = Pool(part) /\ p = Pool(rows)
  OBVIOUS
<1>12. SumOver(F, D) = Above(y - pp) /\ SumOver(F, A) = Above(x - pp)
  BY <1>2, <1>3, <1>11, FirstInFirstOut
<1>13. x \in Int /\ y \in Int /\ x <= p
  <2>1. x \in Int /\ x <= p
    BY <1>2, <1>11, BehindIs
  <2>2. QED
    BY <1>3, <1>11, <2>1, TotalType
<1>14. pp <= p /\ pp \in Int /\ p \in Int
  <2>1. Extends(part, rows)
    BY DEF Later
  <2>2. QED
    BY <1>11, <2>1, PoolGrows
<1>15. PICK s, w : s = SumOver(F, R) /\ w = SumOver(F, W)
  OBVIOUS
<1>16. s \in Int /\ w \in Int /\ w <= s /\ 0 <= s /\ Above(y - pp) = Above(x - pp) + w
  BY <1>7, <1>8, <1>9, <1>10, <1>12, <1>15
<1>17. y <= p + s
  BY <1>13, <1>14, <1>16 DEF Above
<1>18. Pool(new) = p + s
  BY <1>1, <1>2, <1>11, <1>15 DEF Took, ExpiredBy
<1>19. QED
  BY <1>2, <1>11, <1>13, <1>17, <1>18

(* A sweep nothing was written behind takes, of all that was due, what the
   pool had left. *)
LEMMA FreshTakes ==
    ASSUME NEW rows, Signed(rows), NEW d \in Nat, NEW e, CoveredIn(rows, e),
           NEW posted, Sweeps(posted, rows, d, rows), NEW new, new = rows \o posted
    PROVE  Swept(new) = Max({Swept(rows), Total(rows, Due(rows, d)) - Consumed(rows)})
<1>1. PICK n : Took(n, rows, posted, rows, new)
  <2>1. Posts(posted, rows, rows)
    BY DEF Sweeps
  <2>2. \E n : Took(n, rows, posted, rows, new)
    BY <2>1, PostedSum, Zenon
  <2>3. QED
    BY <2>2
<1>2. PICK D, R, E, F : D = Due(rows, d) /\ R = Refs(posted) /\ E = Earned(rows) /\ F = Rests(rows)
  OBVIOUS
<1>3. Early(rows, D) /\ D \in SUBSET E /\ D \in SUBSET DOMAIN rows /\ R \subseteq D /\ R \in SUBSET E
  <2>1. R \subseteq D
    BY <1>2 DEF Sweeps
  <2>2. QED
    BY <1>2, <2>1, DueIs DEF Early
<1>4. IsFiniteSet(E) /\ \A i \in E : F[i] \in Int /\ F[i] >= 0 /\ F[i] = Remaining(rows, i)
  BY <1>2, RestsAre
<1>5. \A i \in D \ R : F[i] = 0
  <2>1. ASSUME NEW i \in D \ R PROVE F[i] = 0
    <3>1. i \in Earned(rows)
      BY <1>2, <1>3
    <3>2. ASSUME NEW j \in Of(rows, "expired"), rows[j].ref = i PROVE Remaining(rows, i) = 0
      <4>1. Total(rows, UpTo(rows, i)) <= Pool(rows)
        BY <3>2 DEF CoveredIn
      <4>2. QED
        BY <3>1, <4>1, NothingLeft
    <3>3. Remaining(rows, i) = 0
      BY <1>2, <3>2 DEF Sweeps
    <3>4. QED
      BY <1>2, <1>4, <3>1, <3>3
  <2>2. QED
    BY <2>1
<1>6. SumOver(F, D) <= SumOver(F, R) /\ SumOver(F, D) \in Int /\ SumOver(F, R) \in Int
  BY <1>3, <1>4, <1>5, SumCovers
<1>7. SumOver(F, R) <= SumOver(F, D)
  <2>1. D \in SUBSET E /\ R \in SUBSET E /\ \A i \in R \ D : F[i] = 0
    BY <1>3
  <2>2. QED
    BY <1>4, <2>1, SumCovers
<1>8. PICK y, p, s, m : y = Total(rows, D) /\ p = Pool(rows) /\ s = Swept(rows) /\ m = Swept(new)
  OBVIOUS
<1>9. y \in Int /\ p \in Int /\ s \in Int
  <2>1. y \in Int
    BY <1>3, <1>8, TotalType
  <2>2. QED
    BY <1>1, <1>8, <2>1, BalanceIs DEF Took, ExpiredBy
<1>10. SumOver(F, D) = Above(y - p)
  BY <1>2, <1>3, <1>8, FirstInFirstOut
<1>11. m = s + n /\ n = SumOver(F, R)
  BY <1>1, <1>2, <1>8 DEF Took, ExpiredBy
<1>12. m = s + Above(y - p)
  <2>1. PICK u, v : u = SumOver(F, D) /\ v = SumOver(F, R)
    OBVIOUS
  <2>2. u \in Int /\ v \in Int /\ u <= v /\ v <= u
    BY <1>6, <1>7, <2>1
  <2>3. u = v
    BY <2>2
  <2>4. QED
    BY <1>10, <1>11, <2>1, <2>3
<1>13. Consumed(rows) = p - s
  <2>1. PICK t : t = Total(rows, Of(rows, "expired"))
    OBVIOUS
  <2>2. Of(rows, "expired") \in SUBSET DOMAIN rows
    BY DEF Of
  <2>3. t \in Int
    BY <2>1, <2>2, TotalType
  <2>4. s = -t /\ Consumed(rows) = p + t
    BY <1>8, <2>1 DEF Swept, Consumed
  <2>5. QED
    BY <1>9, <2>3, <2>4
<1>14. PICK c : c = Consumed(rows)
  OBVIOUS
<1>15. y - c = y - p + s /\ y - c \in Int
  BY <1>9, <1>13, <1>14
<1>16. Max({s, y - c}) = s + Above((y - c) - s)
  BY <1>9, <1>15, MaxOfTwo
<1>17. (y - c) - s = y - p
  BY <1>9, <1>15
<1>18. QED
  BY <1>2, <1>8, <1>12, <1>14, <1>16, <1>17

(* Rows that lapse later do not undo it, nor does the passing of time. *)
Reached(rows, k, e) == k \in Earned(rows) /\ rows[k].expiry <= e /\ Total(rows, UpTo(rows, k)) <= Pool(rows)

LEMMA CoveredKeeps ==
    ASSUME NEW old, NEW new, Signed(old), Signed(new), NEW e \in Nat, NEW f \in Nat, e <= f,
           Later(old, new, e), CoveredIn(old, e),
           \A j \in Of(new, "expired") \ DOMAIN old : Reached(new, new[j].ref, f)
    PROVE  CoveredIn(new, f)
<1>1. Extends(old, new)
  BY DEF Later
<1>2. ASSUME NEW j \in Of(new, "expired") PROVE Reached(new, new[j].ref, f)
  <2>1. CASE j \in DOMAIN old
    <3>1. PICK k : k = new[j].ref
      OBVIOUS
    <3>2. j \in Of(old, "expired") /\ old[j].ref = k
      BY <1>1, <1>2, <2>1, <3>1 DEF Extends, Of
    <3>3. k \in Earned(old) /\ old[k].expiry <= e /\ Total(old, UpTo(old, k)) <= Pool(old)
      BY <3>2 DEF CoveredIn
    <3>4. k \in Due(old, e) /\ k \in DOMAIN old
      BY <3>3 DEF Due, Earned, Of
    <3>5. UpTo(new, k) = UpTo(old, k) /\ k \in Earned(new)
      BY <3>4, LaterSame
    <3>6. PICK u : u = UpTo(old, k)
      OBVIOUS
    <3>7. u \in SUBSET DOMAIN old /\ Total(old, u) \in Int
      BY <3>3, <3>6, UpToIs
    <3>8. Total(new, u) = Total(old, u)
      BY <1>1, <3>7, TotalExtends
    <3>9. Pool(old) <= Pool(new) /\ Pool(old) \in Int /\ Pool(new) \in Int
      BY <1>1, PoolGrows
    <3>10. Total(new, UpTo(new, k)) <= Pool(new)
      BY <3>3, <3>5, <3>6, <3>7, <3>8, <3>9
    <3>11. new[k].expiry <= f
      <4>1. new[k] = old[k] /\ old[k].expiry \in Int
        BY <1>1, <3>4, RowIs DEF Extends
      <4>2. QED
        BY <3>3, <4>1
    <3>12. QED
      BY <3>1, <3>5, <3>10, <3>11 DEF Reached
  <2>2. QED
    BY <1>2, <2>1
<1>3. QED
  BY <1>2 DEF CoveredIn, Reached

(* A sweep, however late it posts, leaves what its rows name used up. *)
LEMMA CoveredPosted ==
    ASSUME NEW part, Signed(part), NEW rows, Signed(rows), NEW d \in Nat, NEW e \in Nat, d <= e,
           Later(part, rows, d), CoveredIn(rows, e), NEW posted, Sweeps(posted, part, d, rows),
           NEW new, new = rows \o posted
    PROVE  CoveredIn(new, e) /\ Later(rows, new, e) /\ Signed(new)
<1>1. PICK B, n : B = DOMAIN new \ DOMAIN rows /\ n = Len(rows)
  OBVIOUS
<1>2. /\ Signed(new) /\ Extends(rows, new)
      /\ \A k \in B : k - n \in DOMAIN posted /\ new[k] = posted[k - n]
  <2>1. Posts(posted, part, rows)
    BY DEF Sweeps
  <2>2. Signed(new) /\ Extends(rows, new)
    BY <2>1, Joined
  <2>3. \A k \in DOMAIN new \ DOMAIN rows : k - Len(rows) \in DOMAIN posted /\ new[k] = posted[k - Len(rows)]
    BY <2>1, Joined
  <2>4. QED
    BY <1>1, <2>2, <2>3, Zenon
<1>3. ASSUME NEW k \in B PROVE new[k].kind = "expired" /\ new[k].ref \in Refs(posted)
  <2>1. PICK j \in DOMAIN posted : new[k] = posted[j]
    BY <1>2
  <2>2. Lapses(posted[j], part) /\ posted[j].ref \in Refs(posted)
    BY DEF Sweeps, Posts, Refs
  <2>3. QED
    BY <2>1, <2>2, Zenon DEF Lapses
<1>4. Extends(part, new) /\ Extends(part, rows)
  BY <1>2 DEF Later, Extends
<1>5. Later(part, new, d) /\ Later(rows, new, e)
  <2>1. \A k \in Earned(new) : k \in Earned(rows)
    BY <1>1, <1>2, <1>3 DEF Earned, Of, Extends
  <2>2. \A k \in Earned(rows) : k \in DOMAIN rows /\ new[k] = rows[k]
    BY <1>2 DEF Earned, Of, Extends
  <2>3. \A k \in Earned(rows) \ DOMAIN part : rows[k].expiry > d
    BY DEF Later
  <2>4. QED
    BY <1>2, <1>4, <2>1, <2>2, <2>3 DEF Later
<1>6. PICK D, y, p : D = Due(part, d) /\ y = Total(part, D) /\ p = Pool(new)
  OBVIOUS
<1>7. y <= p /\ y \in Int /\ p \in Int
  <2>1. y <= p /\ y \in Int
    BY <1>6, SweepCovers, Zenon
  <2>2. QED
    BY <1>2, <1>6, <2>1, BalanceIs
<1>8. Early(part, D) /\ D \in SUBSET Earned(part)
  BY <1>6, DueIs DEF Early
<1>9. ASSUME NEW j \in Of(new, "expired") \ DOMAIN rows PROVE Reached(new, new[j].ref, e)
  <2>1. PICK i : i = new[j].ref
    OBVIOUS
  <2>2. i \in D /\ i \in Earned(part) /\ i \in DOMAIN part /\ part[i].expiry <= d
    <3>1. j \in B
      BY <1>1 DEF Of
    <3>2. i \in D
      BY <1>3, <1>6, <2>1, <3>1 DEF Sweeps
    <3>3. QED
      BY <1>6, <3>2 DEF Due, Earned, Of
  <2>3. new[i] = part[i] /\ part[i].expiry \in Int
    BY <1>4, <2>2, RowIs DEF Extends
  <2>4. UpTo(new, i) = UpTo(part, i) /\ i \in Earned(new)
    BY <1>2, <1>5, <1>6, <2>2, LaterSame
  <2>5. PICK u : u = UpTo(part, i)
    OBVIOUS
  <2>6. u \in SUBSET D /\ u \in SUBSET DOMAIN part
    BY <1>8, <2>2, <2>5, UpToIs DEF UpTo, Early
  <2>7. Total(part, u) <= y /\ Total(part, u) \in Int
    <3>1. u \in SUBSET Earned(part) /\ u \subseteq D
      BY <1>8, <2>6
    <3>2. QED
      BY <1>6, <1>8, <3>1, TotalGrows
  <2>8. Total(new, u) = Total(part, u)
    BY <1>2, <1>4, <2>6, TotalExtends
  <2>9. Total(new, UpTo(new, i)) <= Pool(new)
    BY <1>6, <1>7, <2>4, <2>5, <2>7, <2>8
  <2>10. part[i].expiry <= e
    BY <2>2, <2>3
  <2>11. QED
    BY <2>1, <2>3, <2>4, <2>9, <2>10, Zenon DEF Reached
<1>10. e <= e
  OBVIOUS
<1>11. \A j \in Of(new, "expired") \ DOMAIN rows : Reached(new, new[j].ref, e)
  BY <1>9, Zenon
<1>12. QED
  BY <1>2, <1>5, <1>10, <1>11, CoveredKeeps, Zenon

------------------------------------------------------------------------------
(* The invariant. *)

Known == \A i \in DOMAIN sweeps : sweeps[i].seen <= Len(ledger)

(* One transaction at a time holds the lock; it has read all but expiries
   posted since, and what it is about has not changed. *)
Held ==
    /\ \A t, u \in open : t = u
    /\ \A t \in open :
          /\ t.seen <= Len(ledger) /\ \A j \in (t.seen + 1)..Len(ledger) : ledger[j].kind = "expired"
          /\ t.op = "leave" => t.on \in Requests /\ leave[t.on] \in Pending
          /\ t.op = "cancel" => t.on \in Requests /\ leave[t.on] = "approved"
          /\ t.op = "credit" => t.on \in Credits /\ credit[t.on].status = "submitted"
          /\ t.op = "present" => t.on \in Credits /\ t.days > 0 /\ WorkDates[t.on] # {}
          /\ t.op = "away" => t.on \in Credits

(* A record has one active credit while its request is approved, else none. *)
Credited ==
    \A c \in Credits :
        /\ credit[c].status # "none" => credit[c].days > 0 /\ present[c]
        /\ \A i, j \in Active(ledger, c) : i = j
        /\ Active(ledger, c) # {} <=> credit[c].status = "approved"

Booked(r, was, is) == Spent(ledger, r) + was[r] = IF is[r] = "approved" THEN - Asked[r] ELSE 0

Inv == TypeOK /\ Marked(ledger) /\ Known /\ Held /\ Credited /\ LeaveBooked

LEMMA BookedIs == LeaveBooked <=> \A r \in Requests : Booked(r, booked, leave)
BY DEF LeaveBooked, Booked, Spent

LEMMA LedgerIs == TypeOK => Signed(ledger) /\ Len(ledger) \in Nat
BY DEF TypeOK, Signed

CreditType == [status : {"none", "submitted", "approved"}, date : Nat, days : Nat]

LEMMA InitInv == Init => Inv
<1> SUFFICES ASSUME Init PROVE Inv
  OBVIOUS
<1>1. TypeOK
  BY RecoveryAssumption DEF Init, TypeOK, Nothing, Live, Pending
<1>2. DOMAIN ledger = {} /\ \A k : Of(ledger, k) = {}
  BY DEF Init, Of
<1>3. Marked(ledger) /\ Known /\ Held
  BY <1>2 DEF Init, Marked, Known, Held
<1>4. Credited
  <2>1. \A c \in Credits : Active(ledger, c) = {} /\ credit[c].status = "none"
    BY <1>2 DEF Active, Init, Nothing
  <2>2. QED
    BY <2>1 DEF Credited
<1>5. LeaveBooked
  <2>1. \A r : Spent(ledger, r) = 0
    <3>1. \A r : {i \in Of(ledger, "redeemed") : ledger[i].ref = r} = {}
      BY <1>2
    <3>2. Total(ledger, {}) = 0
      BY <1>1, LedgerIs, TotalNothing
    <3>3. QED
      BY <3>1, <3>2, Zenon DEF Spent
  <2>2. \A r \in Requests : booked[r] = 0 /\ leave[r] = "none"
    BY DEF Init
  <2>3. QED
    BY <2>1, <2>2, BookedIs DEF Booked
<1>6. QED
  BY <1>1, <1>3, <1>4, <1>5 DEF Inv

(* Steps that leave the tables alone. *)
LEMMA IdleKeeps ==
    ASSUME Inv, UNCHANGED <<ledger, booked, leave, credit, present>>, TypeOK', Known', Held'
    PROVE  Inv'
BY DEF Inv, Credited, LeaveBooked, Marked

LEMMA EnterKeeps ==
    ASSUME Inv, NEW o, NEW x, NEW d, Enter(o, x, d),
           o \in {"leave", "credit", "present", "away", "terminate", "cancel"},
           x \in Requests \cup Credits \cup {0}, d \in Nat,
           o = "leave" => x \in Requests /\ leave[x] \in Pending,
           o = "cancel" => x \in Requests /\ leave[x] = "approved",
           o = "credit" => x \in Credits /\ credit[x].status = "submitted",
           o = "present" => x \in Credits /\ d > 0 /\ WorkDates[x] # {},
           o = "away" => x \in Credits
    PROVE  Inv'
<1>1. PICK t : t = [op |-> o, on |-> x, seen |-> Len(ledger), days |-> d]
  OBVIOUS
<1>2. Len(ledger) \in Nat /\ t \in TxType /\ t.op = o /\ t.on = x /\ t.seen = Len(ledger) /\ t.days = d
  BY <1>1, LedgerIs DEF Inv, TxType
<1>3. open' = {t} /\ UNCHANGED <<day, ledger, booked, leave, credit, present, sweeps>>
  BY <1>1 DEF Enter, LockFree
<1>4. TypeOK'
  BY <1>2, <1>3 DEF Inv, TypeOK
<1>5. Known'
  BY <1>3 DEF Inv, Known
<1>6. Held'
  BY <1>2, <1>3 DEF Held
<1>7. QED
  BY <1>3, <1>4, <1>5, <1>6, IdleKeeps

LEMMA EntersKeep ==
    ASSUME Inv,
           \/ \E r \in Requests : EnterLeave(r) \/ EnterCancel(r)
           \/ \E c \in Credits : EnterCredit(c) \/ EnterAway(c) \/ \E d \in Amounts[c] : EnterPresent(c, d)
           \/ EnterTerminate
    PROVE  Inv'
<1>1. CASE \E r \in Requests : EnterLeave(r) \/ EnterCancel(r)
  <2>1. PICK r \in Requests : EnterLeave(r) \/ EnterCancel(r)
    BY <1>1
  <2>2. CASE EnterLeave(r)
    <3>1. Enter("leave", r, 0) /\ leave[r] \in Pending
      BY <2>2 DEF EnterLeave, LastStep, Pending
    <3>2. QED
      BY <3>1, EnterKeeps
  <2>3. CASE EnterCancel(r)
    <3>1. Enter("cancel", r, 0) /\ leave[r] = "approved"
      BY <2>3 DEF EnterCancel
    <3>2. QED
      BY <3>1, EnterKeeps
  <2>4. QED
    BY <2>1, <2>2, <2>3
<1>2. CASE \E c \in Credits : EnterCredit(c) \/ EnterAway(c) \/ \E d \in Amounts[c] : EnterPresent(c, d)
  <2>1. PICK c \in Credits : EnterCredit(c) \/ EnterAway(c) \/ \E d \in Amounts[c] : EnterPresent(c, d)
    BY <1>2
  <2>2. CASE EnterCredit(c)
    <3>1. Enter("credit", c, 0) /\ credit[c].status = "submitted"
      BY <2>2 DEF EnterCredit
    <3>2. QED
      BY <3>1, EnterKeeps
  <2>3. CASE EnterAway(c)
    <3>1. Enter("away", c, 0)
      BY <2>3 DEF EnterAway
    <3>2. QED
      BY <3>1, EnterKeeps
  <2>4. CASE \E d \in Amounts[c] : EnterPresent(c, d)
    <3>1. PICK d \in Amounts[c] : EnterPresent(c, d)
      BY <2>4
    <3>2. Enter("present", c, d) /\ WorkDates[c] # {}
      BY <3>1 DEF EnterPresent
    <3>3. d \in Nat /\ d > 0
      BY RecoveryAssumption
    <3>4. QED
      BY <3>2, <3>3, EnterKeeps
  <2>5. QED
    BY <2>1, <2>2, <2>3, <2>4
<1>3. CASE EnterTerminate
  <2>1. Enter("terminate", 0, 0)
    BY <1>3 DEF EnterTerminate
  <2>2. QED
    BY <2>1, EnterKeeps
<1>4. QED
  BY <1>1, <1>2, <1>3

(* A transaction that ends is the only one; nothing waits after it. *)
LEMMA DoneIs ==
    ASSUME Inv, NEW t \in open, Done(t)
    PROVE  /\ open' = {} /\ Held' /\ t \in TxType /\ UNCHANGED <<day, sweeps>>
           /\ Signed(View(t)) /\ Extends(View(t), ledger)
           /\ \A k \in Kinds \ {"expired"} : Of(View(t), k) = Of(ledger, k)
           /\ \A c : Active(View(t), c) = Active(ledger, c)
<1>1. open' = {} /\ UNCHANGED <<day, sweeps>> /\ t \in TxType
  BY DEF Inv, Held, Done, TypeOK
<1>2. Held'
  BY <1>1 DEF Held
<1>3. /\ t.seen \in Nat /\ t.seen <= Len(ledger) /\ Signed(ledger)
      /\ \A j \in (t.seen + 1)..Len(ledger) : ledger[j].kind = "expired"
  BY <1>1, LedgerIs DEF Inv, Held, TxType
<1>4. PICK part : part = View(t)
  OBVIOUS
<1>5. part = SubSeq(ledger, 1, t.seen)
  BY <1>4 DEF View
<1>6. /\ Signed(part) /\ Extends(part, ledger)
      /\ \A k \in Kinds \ {"expired"} : Of(part, k) = Of(ledger, k)
      /\ \A c : Active(part, c) = Active(ledger, c)
  BY <1>3, <1>5, SeenIs
<1>7. QED
  BY <1>1, <1>2, <1>4, <1>6

(* What a row that a transaction appends leaves as it was. *)
LEMMA AppendsIs ==
    ASSUME Inv, NEW x, Proper(x),
           x.kind # "expired", x.kind = "reversal" => x.ref = 0 \/ x.ref \in Earned(ledger),
           ledger' = Append(ledger, x), UNCHANGED sweeps
    PROVE  /\ Signed(ledger') /\ Marked(ledger') /\ Known' /\ Extends(ledger, ledger')
           /\ Len(ledger) + 1 \in DOMAIN ledger' \ DOMAIN ledger /\ ledger'[Len(ledger) + 1] = x
           /\ \A k \in Kinds : Of(ledger', k) = Gained(ledger, x, k)
<1>1. Signed(ledger) /\ Marked(ledger) /\ Len(ledger) \in Nat
  BY LedgerIs DEF Inv
<1>2. PICK new : new = ledger'
  OBVIOUS
<1>3. new = Append(ledger, x)
  BY <1>2
<1>4. /\ Signed(new) /\ Extends(ledger, new) /\ Len(new) = Len(ledger) + 1
      /\ Len(ledger) + 1 \in DOMAIN new \ DOMAIN ledger /\ new[Len(ledger) + 1] = x
  <2>1. /\ Signed(new) /\ Extends(ledger, new) /\ Len(new) = Len(ledger) + 1
        /\ DOMAIN new = DOMAIN ledger \cup {Len(ledger) + 1}
        /\ Len(ledger) + 1 \notin DOMAIN ledger /\ new[Len(ledger) + 1] = x
    BY <1>1, <1>3, Appended, Zenon
  <2>2. QED
    BY <2>1, Zenon
<1>5. Marked(new)
  BY <1>1, <1>3, MarkedAppended
<1>6. \A k \in Kinds : Of(new, k) = Gained(ledger, x, k)
  BY <1>1, <1>3, OfAppended
<1>7. Known'
  <2>1. Len(ledger') = Len(ledger) + 1
    BY <1>2, <1>4
  <2>2. \A i \in DOMAIN sweeps : sweeps[i].seen \in Nat
    <3>1. sweeps \in Seq([seen : Nat, day : Nat])
      BY DEF Inv, TypeOK
    <3>2. \A i \in DOMAIN sweeps : sweeps[i] \in [seen : Nat, day : Nat]
      BY <3>1, ElementIs
    <3>3. QED
      BY <3>2
  <2>3. QED
    BY <1>1, <2>1, <2>2 DEF Inv, Known
<1>8. QED
  BY <1>2, <1>4, <1>5, <1>6, <1>7

LEMMA BookedThen == LeaveBooked' <=> \A r \in Requests : Booked(r, booked, leave)'
BY DEF LeaveBooked, Booked, Spent

LEMMA CreditedSame ==
    ASSUME Inv, Extends(ledger, ledger'), Of(ledger', "earned") = Of(ledger, "earned"),
           Of(ledger', "reversal") = Of(ledger, "reversal"), UNCHANGED <<credit, present>>
    PROVE  Credited'
<1>1. PICK new : new = ledger'
  OBVIOUS
<1>2. \A c : Active(new, c) = Active(ledger, c)
  BY <1>1, ActiveSame
<1>3. QED
  BY <1>1, <1>2 DEF Inv, Credited

LEMMA BookedSame ==
    ASSUME Inv, Signed(ledger'), Extends(ledger, ledger'), Of(ledger', "redeemed") = Of(ledger, "redeemed"),
           UNCHANGED <<booked, leave>>
    PROVE  LeaveBooked'
<1>1. PICK new : new = ledger'
  OBVIOUS
<1>2. Signed(ledger)
  BY LedgerIs DEF Inv
<1>3. \A r : Spent(new, r) = Spent(ledger, r)
  BY <1>1, <1>2, SpentSame
<1>4. QED
  BY <1>1, <1>3, BookedIs, BookedThen DEF Inv, Booked

(* Funding books exactly the days asked for. *)
LEMMA FinishLeaveKeeps ==
    ASSUME Inv, NEW t \in open, FinishLeave(t)
    PROVE  Inv'
<1>1. Done(t) /\ t.op = "leave" /\ UNCHANGED <<credit, present>>
  BY DEF FinishLeave
<1>2. PICK r \in Requests : r = t.on /\ leave[r] \in Pending
  BY <1>1 DEF Inv, Held
<1>3. /\ open' = {} /\ Held' /\ UNCHANGED <<day, sweeps>> /\ Signed(View(t)) /\ Signed(ledger)
  BY <1>1, DoneIs, LedgerIs DEF Inv
<1>4. PICK p : p = Draw(r, View(t))
  OBVIOUS
<1>5. PICK a, b, c, m : a = p.comp /\ b = p.leave /\ c = p.rest /\ m = Asked[r]
  OBVIOUS
<1>6. a \in Nat /\ b \in Nat /\ c \in Nat /\ a + b + c = m
  BY <1>3, <1>4, <1>5, DrawIs DEF Fair
<1>7. /\ booked \in [Requests -> Int] /\ leave \in [Requests -> {"none", "ended"} \cup Live]
  BY DEF Inv, TypeOK
<1>8. CASE UNCHANGED <<ledger, booked, leave>>
  <2>1. TypeOK' /\ Known'
    BY <1>1, <1>3, <1>8 DEF Inv, TypeOK, Known
  <2>2. QED
    BY <1>1, <1>3, <1>8, <2>1, IdleKeeps
<1>9. CASE ~ UNCHANGED <<ledger, booked, leave>>
  <2>1. /\ ledger' = IF a = 0 THEN ledger
                     ELSE Append(ledger, [kind |-> "redeemed", days |-> - a, ref |-> r, expiry |-> 0])
        /\ booked' = [booked EXCEPT ![r] = @ - b - c]
        /\ leave' = [leave EXCEPT ![r] = "approved"]
    BY <1>2, <1>4, <1>5, <1>9 DEF FinishLeave
  <2>2. booked' \in [Requests -> Int] /\ leave' \in [Requests -> {"none", "ended"} \cup Live]
    BY <1>6, <1>7, <2>1 DEF Live
  <2>3. /\ booked'[r] = booked[r] - b - c /\ leave'[r] = "approved"
        /\ \A q \in Requests \ {r} : booked'[q] = booked[q] /\ leave'[q] = leave[q]
    BY <1>7, <2>1
  <2>4. Spent(ledger, r) + booked[r] = 0
    BY <1>2, BookedIs DEF Inv, Booked, Pending
  <2>5. /\ Signed(ledger') /\ Marked(ledger') /\ Known' /\ Credited'
        /\ \A q : Spent(ledger', q) = IF q = r THEN Spent(ledger, q) - a ELSE Spent(ledger, q)
    <3>1. CASE a = 0
      <4>1. ledger' = ledger
        BY <2>1, <3>1
      <4>2. Credited' /\ Known' /\ Marked(ledger') /\ Signed(ledger')
        BY <1>1, <1>3, <4>1 DEF Inv, Credited, Known
      <4>3. Spent(ledger, r) \in Int
        BY <1>3, SpentType
      <4>4. Spent(ledger, r) - a = Spent(ledger, r)
        BY <3>1, <4>3
      <4>5. QED
        BY <4>1, <4>2, <4>4
    <3>2. CASE a # 0
      <4>1. PICK x : x = [kind |-> "redeemed", days |-> - a, ref |-> r, expiry |-> 0]
        OBVIOUS
      <4>2. x \in RowType /\ x.kind = "redeemed" /\ x.days = -a /\ x.ref = r /\ x.days < 0
        BY <1>6, <3>2, <4>1 DEF RowType
      <4>3. Proper(x) /\ x.kind # "expired" /\ x.kind # "reversal"
        BY <4>2 DEF Proper
      <4>4. ledger' = Append(ledger, x) /\ UNCHANGED sweeps
        BY <1>3, <2>1, <3>2, <4>1
      <4>5. /\ Signed(ledger') /\ Marked(ledger') /\ Known' /\ Extends(ledger, ledger')
            /\ Len(ledger) + 1 \in DOMAIN ledger' \ DOMAIN ledger /\ ledger'[Len(ledger) + 1] = x
            /\ \A k \in Kinds : Of(ledger', k) = Gained(ledger, x, k)
        BY <4>3, <4>4, AppendsIs
      <4>6. /\ Of(ledger', "earned") = Of(ledger, "earned") /\ Of(ledger', "reversal") = Of(ledger, "reversal")
            /\ Of(ledger', "redeemed") = Of(ledger, "redeemed") \cup {Len(ledger) + 1}
        BY <4>2, <4>5 DEF Kinds, Gained
      <4>7. Credited'
        BY <1>1, <4>5, <4>6, CreditedSame
      <4>8. PICK new, n : new = ledger' /\ n = Len(ledger) + 1
        OBVIOUS
      <4>9. \A q : Spent(new, q) = IF new[n].ref = q THEN Spent(ledger, q) + new[n].days ELSE Spent(ledger, q)
        BY <1>3, <4>5, <4>6, <4>8, SpentMore
      <4>10. new[n].ref = r /\ new[n].days = -a
        BY <4>2, <4>5, <4>8
      <4>11. \A q : Spent(ledger, q) \in Int
        BY <1>3, SpentType
      <4>12. \A q : Spent(ledger', q) = IF q = r THEN Spent(ledger, q) - a ELSE Spent(ledger, q)
        BY <1>6, <4>8, <4>9, <4>10, <4>11
      <4>13. QED
        BY <4>5, <4>7, <4>12
    <3>3. QED
      BY <3>1, <3>2
  <2>6. LeaveBooked'
    <3>1. ASSUME NEW q \in Requests PROVE Booked(q, booked, leave)'
      <4>1. PICK s, u, v : s = Spent(ledger, q) /\ u = booked[q] /\ v = booked'[q]
        OBVIOUS
      <4>2. s \in Int /\ u \in Int
        BY <1>3, <1>7, <4>1, SpentType
      <4>3. CASE q = r
        <5>1. s + u = 0 /\ v = u - b - c /\ Spent(ledger', q) = s - a
          BY <2>3, <2>4, <2>5, <4>1, <4>3
        <5>2. (s - a) + v = -m
          BY <1>6, <4>2, <5>1
        <5>3. Spent(ledger', q) + v = -m
          BY <5>1, <5>2
        <5>4. QED
          BY <1>5, <2>3, <4>1, <4>3, <5>3 DEF Booked
      <4>4. CASE q # r
        <5>1. Spent(ledger', q) = Spent(ledger, q) /\ booked'[q] = booked[q] /\ leave'[q] = leave[q]
          BY <2>3, <2>5, <4>4
        <5>2. Booked(q, booked, leave)
          BY BookedIs DEF Inv
        <5>3. QED
          BY <5>1, <5>2 DEF Booked
      <4>5. QED
        BY <4>3, <4>4
    <3>2. QED
      BY <3>1, BookedThen
  <2>7. TypeOK'
    BY <1>1, <1>3, <2>2, <2>5 DEF Inv, TypeOK, Signed
  <2>8. QED
    BY <1>3, <2>5, <2>6, <2>7 DEF Inv
<1>10. QED
  BY <1>8, <1>9

(* A cancellation that goes through finds nothing spent. *)
LEMMA FinishCancelKeeps ==
    ASSUME Inv, NEW t \in open, FinishCancel(t)
    PROVE  Inv'
<1>1. Done(t) /\ t.op = "cancel" /\ UNCHANGED <<ledger, credit, present>>
  BY DEF FinishCancel
<1>2. PICK r \in Requests : r = t.on
  BY <1>1 DEF Inv, Held
<1>3. /\ open' = {} /\ Held' /\ UNCHANGED <<day, sweeps>> /\ Signed(View(t)) /\ Extends(View(t), ledger)
      /\ \A k \in Kinds \ {"expired"} : Of(View(t), k) = Of(ledger, k)
  BY <1>1, DoneIs
<1>4. Known' /\ Credited' /\ Marked(ledger')
  BY <1>1, <1>3 DEF Inv, Known, Credited
<1>5. CASE UNCHANGED <<booked, leave>>
  <2>1. TypeOK'
    BY <1>1, <1>3, <1>5 DEF Inv, TypeOK
  <2>2. QED
    BY <1>1, <1>3, <1>4, <1>5, <2>1, IdleKeeps
<1>6. CASE ~ UNCHANGED <<booked, leave>>
  <2>1. /\ {i \in Of(View(t), "redeemed") : ledger[i].ref = r /\ ~ Reversed(View(t), i)} = {}
        /\ leave' = [leave EXCEPT ![r] = "ended"] /\ booked' = [booked EXCEPT ![r] = 0]
    BY <1>2, <1>6 DEF FinishCancel
  <2>2. /\ booked \in [Requests -> Int] /\ leave \in [Requests -> {"none", "ended"} \cup Live]
    BY DEF Inv, TypeOK
  <2>3. TypeOK'
    BY <1>1, <1>3, <2>1, <2>2 DEF Inv, TypeOK
  <2>4. \A i \in Of(View(t), "redeemed") : ~ Reversed(View(t), i)
    <3>1. SUFFICES ASSUME NEW i \in Of(View(t), "redeemed"), NEW j \in Of(View(t), "reversal"), View(t)[j].ref = i
                   PROVE FALSE
      BY DEF Reversed
    <3>2. i \in Of(ledger, "redeemed") /\ j \in Of(ledger, "reversal") /\ ledger[j].ref = i
      BY <1>3, <3>1 DEF Kinds, Extends, Of
    <3>3. i \in Earned(ledger) \/ i = 0
      BY <3>2 DEF Inv, Marked
    <3>4. i \in Nat \ {0}
      BY <3>2, LedgerIs DEF Inv, Of, Signed
    <3>5. QED
      BY <3>2, <3>3, <3>4 DEF Earned, Of
  <2>5. {i \in Of(ledger, "redeemed") : ledger[i].ref = r} = {}
    BY <1>3, <2>1, <2>4 DEF Kinds
  <2>6. Spent(ledger, r) = 0
    <3>1. Total(ledger, {}) = 0
      BY LedgerIs, TotalNothing DEF Inv
    <3>2. QED
      BY <2>5, <3>1, Zenon DEF Spent
  <2>7. LeaveBooked'
    <3>1. ASSUME NEW q \in Requests PROVE Booked(q, booked, leave)'
      <4>1. CASE q = r
        <5>1. booked'[r] = 0 /\ leave'[r] = "ended"
          BY <2>1, <2>2
        <5>2. QED
          BY <1>1, <2>6, <4>1, <5>1 DEF Booked
      <4>2. CASE q # r
        <5>1. booked'[q] = booked[q] /\ leave'[q] = leave[q]
          BY <2>1, <2>2, <4>2
        <5>2. Booked(q, booked, leave)
          BY BookedIs DEF Inv
        <5>3. QED
          BY <1>1, <5>1, <5>2 DEF Booked
      <4>3. QED
        BY <4>1, <4>2
    <3>2. QED
      BY <3>1, BookedThen
  <2>8. QED
    BY <1>3, <1>4, <2>3, <2>7 DEF Inv
<1>7. QED
  BY <1>5, <1>6

LEMMA CreditIs ==
    ASSUME TypeOK, NEW c \in Credits
    PROVE  credit[c] \in CreditType /\ credit[c].date \in Nat /\ credit[c].days \in Nat
           /\ credit \in [Credits -> CreditType]
<1>1. credit \in [Credits -> CreditType]
  BY DEF TypeOK, CreditType
<1>2. QED
  BY <1>1 DEF CreditType

(* The credit of a submitted request becomes the only active one. *)
LEMMA FinishCreditKeeps ==
    ASSUME Inv, NEW t \in open, FinishCredit(t)
    PROVE  Inv'
<1>1. Done(t) /\ t.op = "credit" /\ UNCHANGED <<booked, leave, present>>
  BY DEF FinishCredit
<1>2. PICK c \in Credits : c = t.on /\ credit[c].status = "submitted"
  BY <1>1 DEF Inv, Held
<1>3. /\ open' = {} /\ Held' /\ UNCHANGED <<day, sweeps>> /\ Signed(ledger)
      /\ Active(View(t), c) = Active(ledger, c)
  BY <1>1, DoneIs, LedgerIs DEF Inv
<1>4. Active(View(t), c) = {}
  BY <1>2, <1>3 DEF Inv, Credited
<1>5. PICK e, d : e = credit[c].date + Validity /\ d = credit[c].days
  OBVIOUS
<1>6. d \in Nat /\ d > 0 /\ e \in Nat /\ credit \in [Credits -> CreditType] /\ credit[c] \in CreditType
  <2>1. credit[c].date \in Nat /\ credit[c].days \in Nat /\ credit \in [Credits -> CreditType] /\ credit[c] \in CreditType
    BY CreditIs DEF Inv
  <2>2. d > 0 /\ Validity \in Nat
    BY <1>2, <1>5, RecoveryAssumption DEF Inv, Credited
  <2>3. QED
    BY <1>5, <2>1, <2>2
<1>7. PICK x : x = [kind |-> "earned", days |-> d, ref |-> c, expiry |-> e]
  OBVIOUS
<1>8. Proper(x) /\ x.kind = "earned" /\ x.ref = c
  BY <1>6, <1>7 DEF Proper, RowType
<1>9. ledger' = Append(ledger, x) /\ credit' = [credit EXCEPT ![c].status = "approved"]
  BY <1>2, <1>4, <1>5, <1>7 DEF FinishCredit
<1>10. PICK new, n : new = ledger' /\ n = Len(ledger) + 1
  OBVIOUS
<1>11. /\ Signed(new) /\ Marked(new) /\ Known' /\ Extends(ledger, new)
       /\ n \in DOMAIN new \ DOMAIN ledger /\ new[n] = x
       /\ \A k \in Kinds : Of(new, k) = Gained(ledger, x, k)
  BY <1>3, <1>8, <1>9, <1>10, AppendsIs
<1>12. /\ Of(new, "earned") = Of(ledger, "earned") \cup {n} /\ Of(new, "reversal") = Of(ledger, "reversal")
       /\ Of(new, "redeemed") = Of(ledger, "redeemed")
  BY <1>8, <1>10, <1>11 DEF Kinds, Gained
<1>13. LeaveBooked'
  BY <1>1, <1>10, <1>11, <1>12, BookedSame
<1>14. Active(new, c) = {n} /\ \A q : q # c => Active(new, q) = Active(ledger, q)
  <2>1. \A j \in Of(ledger, "reversal") : new[j] = ledger[j] /\ (ledger[j].ref = 0 \/ ledger[j].ref \in Earned(ledger))
    BY <1>11 DEF Extends, Of, Inv, Marked
  <2>2. n # 0 /\ n \notin Earned(ledger)
    BY <1>3, <1>10, <1>11 DEF Earned, Of, Signed
  <2>3. ~ Reversed(new, n)
    BY <1>12, <2>1, <2>2 DEF Reversed
  <2>4. \A i : Reversed(new, i) <=> Reversed(ledger, i)
    BY <1>12, <2>1 DEF Reversed
  <2>5. \A i \in Of(ledger, "earned") : new[i] = ledger[i]
    BY <1>11 DEF Extends, Of
  <2>6. \A q : {i \in Of(ledger, "earned") : new[i].ref = q /\ ~ Reversed(new, i)} = Active(ledger, q)
    BY <2>4, <2>5 DEF Active
  <2>7. \A q : Active(new, q) = Active(ledger, q) \cup {i \in {n} : q = c}
    <3>1. new[n].ref = c
      BY <1>8, <1>11
    <3>2. \A q : Active(new, q) = {i \in Of(ledger, "earned") : new[i].ref = q /\ ~ Reversed(new, i)} \cup {i \in {n} : q = c}
      BY <1>12, <2>3, <3>1 DEF Active
    <3>3. QED
      BY <2>6, <3>2
  <2>8. QED
    BY <1>3, <1>4, <2>7
<1>15. /\ credit' \in [Credits -> CreditType]
       /\ credit'[c].status = "approved" /\ credit'[c].days = d
       /\ \A q \in Credits \ {c} : credit'[q] = credit[q]
  <2>1. credit' = [credit EXCEPT ![c] = [credit[c] EXCEPT !.status = "approved"]]
    BY <1>9
  <2>2. PICK y : y = [credit[c] EXCEPT !.status = "approved"]
    OBVIOUS
  <2>3. y \in CreditType /\ y.status = "approved" /\ y.days = d
    BY <1>5, <1>6, <2>2 DEF CreditType
  <2>4. QED
    BY <1>6, <2>1, <2>2, <2>3
<1>16. Credited'
  <2>1. present[c]
    BY <1>2 DEF Inv, Credited
  <2>2. ASSUME NEW q \in Credits
        PROVE  /\ credit'[q].status # "none" => credit'[q].days > 0 /\ present[q]
               /\ \A i, j \in Active(new, q) : i = j
               /\ Active(new, q) # {} <=> credit'[q].status = "approved"
    <3>1. CASE q = c
      BY <1>6, <1>14, <1>15, <2>1, <3>1
    <3>2. CASE q # c
      BY <1>14, <1>15, <3>2 DEF Inv, Credited
    <3>3. QED
      BY <3>1, <3>2
  <2>3. QED
    BY <1>1, <1>10, <2>2 DEF Credited
<1>17. TypeOK'
  BY <1>1, <1>3, <1>10, <1>11, <1>15 DEF Inv, TypeOK, Signed, CreditType
<1>18. QED
  BY <1>3, <1>10, <1>11, <1>13, <1>16, <1>17 DEF Inv

LEMMA SmallestIs == ASSUME NEW C \in SUBSET Nat, C # {} PROVE Min(C) \in Nat
<1>1. \E n \in C : \A m \in C : n <= m
  BY SmallestNumber
<1>2. QED
  BY <1>1 DEF Min

(* A record that becomes present asks for a credit when it has none. *)
LEMMA FinishPresentKeeps ==
    ASSUME Inv, NEW t \in open, FinishPresent(t)
    PROVE  Inv'
<1>1. Done(t) /\ t.op = "present" /\ UNCHANGED <<ledger, booked, leave>>
  BY DEF FinishPresent
<1>2. PICK c \in Credits : c = t.on /\ t.days > 0 /\ WorkDates[c] # {}
  BY <1>1 DEF Inv, Held
<1>3. /\ open' = {} /\ Held' /\ UNCHANGED <<day, sweeps>> /\ t.days \in Nat
      /\ Active(View(t), c) = Active(ledger, c)
  BY <1>1, DoneIs DEF TxType
<1>4. WorkDates[c] \in SUBSET Nat
  BY RecoveryAssumption
<1>5. PICK x : x = [status |-> "submitted", days |-> t.days, date |-> Min(WorkDates[c])]
  OBVIOUS
<1>6. x \in CreditType /\ x.status = "submitted" /\ x.days > 0
  BY <1>2, <1>3, <1>4, <1>5, SmallestIs DEF CreditType
<1>7. credit \in [Credits -> CreditType] /\ present \in [Credits -> BOOLEAN]
  BY DEF Inv, TypeOK, CreditType
<1>8. present' = [present EXCEPT ![c] = TRUE] /\ present' \in [Credits -> BOOLEAN]
  BY <1>2, <1>7 DEF FinishPresent
<1>9. Known' /\ Marked(ledger') /\ LeaveBooked'
  BY <1>1, <1>3 DEF Inv, Known, LeaveBooked
<1>10. CASE credit[c].status # "none" \/ Active(View(t), c) # {}
  <2>1. credit' = credit
    BY <1>2, <1>10 DEF FinishPresent
  <2>2. Credited'
    BY <1>1, <1>7, <1>8, <2>1 DEF Inv, Credited
  <2>3. TypeOK'
    BY <1>1, <1>3, <1>8, <2>1 DEF Inv, TypeOK
  <2>4. QED
    BY <1>3, <1>9, <2>2, <2>3 DEF Inv
<1>11. CASE ~ (credit[c].status # "none" \/ Active(View(t), c) # {})
  <2>1. credit' = [credit EXCEPT ![c] = x]
    BY <1>2, <1>5, <1>11 DEF FinishPresent
  <2>2. credit' \in [Credits -> CreditType] /\ credit'[c] = x /\ \A q \in Credits \ {c} : credit'[q] = credit[q]
    BY <1>6, <1>7, <2>1
  <2>3. Active(ledger, c) = {}
    BY <1>3, <1>11
  <2>4. ASSUME NEW q \in Credits
        PROVE  /\ credit'[q].status # "none" => credit'[q].days > 0 /\ present'[q]
               /\ \A i, j \in Active(ledger, q) : i = j
               /\ Active(ledger, q) # {} <=> credit'[q].status = "approved"
    <3>1. CASE q = c
      BY <1>6, <1>7, <1>8, <2>2, <2>3, <3>1
    <3>2. CASE q # c
      BY <1>7, <1>8, <2>2, <3>2 DEF Inv, Credited
    <3>3. QED
      BY <3>1, <3>2
  <2>5. Credited'
    BY <1>1, <2>4 DEF Credited
  <2>6. TypeOK'
    BY <1>1, <1>3, <1>8, <2>2 DEF Inv, TypeOK, CreditType
  <2>7. QED
    BY <1>3, <1>9, <2>5, <2>6 DEF Inv
<1>12. QED
  BY <1>10, <1>11

(* A record that is away has neither a request nor an active credit. *)
LEMMA FinishAwayKeeps ==
    ASSUME Inv, NEW t \in open, FinishAway(t)
    PROVE  Inv'
<1>1. Done(t) /\ t.op = "away" /\ UNCHANGED <<booked, leave>>
  BY DEF FinishAway
<1>2. PICK c \in Credits : c = t.on
  BY <1>1 DEF Inv, Held
<1>3. /\ open' = {} /\ Held' /\ UNCHANGED <<day, sweeps>> /\ Signed(ledger)
      /\ Active(View(t), c) = Active(ledger, c)
  BY <1>1, DoneIs, LedgerIs DEF Inv
<1>4. credit \in [Credits -> CreditType] /\ present \in [Credits -> BOOLEAN]
  BY DEF Inv, TypeOK, CreditType
<1>5. /\ present' = [present EXCEPT ![c] = FALSE] /\ credit' = [credit EXCEPT ![c] = Nothing]
      /\ \/ Active(ledger, c) = {} /\ UNCHANGED ledger
         \/ \E i \in Active(ledger, c) :
               ledger' = Append(ledger, [kind |-> "reversal", days |-> - ledger[i].days, ref |-> i, expiry |-> 0])
  BY <1>2, <1>3 DEF FinishAway, Withdrawn
<1>6. Nothing \in CreditType /\ Nothing.status = "none"
  BY DEF Nothing, CreditType
<1>7. /\ credit' \in [Credits -> CreditType] /\ credit'[c] = Nothing
      /\ present' \in [Credits -> BOOLEAN]
      /\ \A q \in Credits \ {c} : credit'[q] = credit[q] /\ present'[q] = present[q]
  BY <1>4, <1>5, <1>6
<1>8. /\ Signed(ledger') /\ Marked(ledger') /\ Known' /\ LeaveBooked'
      /\ Active(ledger', c) = {} /\ \A q \in Credits \ {c} : Active(ledger', q) = Active(ledger, q)
  <2>1. CASE Active(ledger, c) = {} /\ UNCHANGED ledger
    BY <1>1, <1>3, <2>1 DEF Inv, Known, LeaveBooked
  <2>2. CASE \E i \in Active(ledger, c) :
               ledger' = Append(ledger, [kind |-> "reversal", days |-> - ledger[i].days, ref |-> i, expiry |-> 0])
    <3>1. PICK i \in Active(ledger, c) :
               ledger' = Append(ledger, [kind |-> "reversal", days |-> - ledger[i].days, ref |-> i, expiry |-> 0])
      BY <2>2
    <3>2. i \in Earned(ledger) /\ i \in DOMAIN ledger /\ i \in Nat /\ ledger[i].ref = c
      BY <1>3 DEF Active, Earned, Of, Signed
    <3>3. PICK d : d = ledger[i].days
      OBVIOUS
    <3>4. d \in Int /\ d > 0
      BY <1>3, <3>2, <3>3, RowIs
    <3>5. PICK x : x = [kind |-> "reversal", days |-> - d, ref |-> i, expiry |-> 0]
      OBVIOUS
    <3>6. Proper(x) /\ x.kind = "reversal" /\ x.ref = i
      BY <3>2, <3>4, <3>5 DEF Proper, RowType
    <3>7. ledger' = Append(ledger, x)
      BY <3>1, <3>3, <3>5
    <3>8. PICK new, n : new = ledger' /\ n = Len(ledger) + 1
      OBVIOUS
    <3>9. /\ Signed(new) /\ Marked(new) /\ Known' /\ Extends(ledger, new)
          /\ n \in DOMAIN new \ DOMAIN ledger /\ new[n] = x
          /\ \A k \in Kinds : Of(new, k) = Gained(ledger, x, k)
      BY <1>3, <3>2, <3>6, <3>7, <3>8, AppendsIs
    <3>10. /\ Of(new, "earned") = Of(ledger, "earned") /\ Of(new, "reversal") = Of(ledger, "reversal") \cup {n}
           /\ Of(new, "redeemed") = Of(ledger, "redeemed")
      BY <3>6, <3>8, <3>9 DEF Kinds, Gained
    <3>11. LeaveBooked'
      BY <1>1, <3>8, <3>9, <3>10, BookedSame
    <3>12. \A j : Reversed(new, j) <=> Reversed(ledger, j) \/ j = i
      <4>1. \A j \in Of(ledger, "reversal") : new[j] = ledger[j]
        BY <3>9 DEF Extends, Of
      <4>2. QED
        BY <3>6, <3>9, <3>10, <4>1 DEF Reversed
    <3>13. \A j \in Of(ledger, "earned") : new[j] = ledger[j]
      BY <3>9 DEF Extends, Of
    <3>14. \A q : Active(new, q) = Active(ledger, q) \ {i}
      BY <3>10, <3>12, <3>13 DEF Active
    <3>15. Active(ledger, c) = {i}
      BY DEF Inv, Credited
    <3>16. \A q \in Credits \ {c} : i \notin Active(ledger, q)
      BY <3>2 DEF Active
    <3>17. Active(new, c) = {} /\ \A q \in Credits \ {c} : Active(new, q) = Active(ledger, q)
      BY <3>14, <3>15, <3>16
    <3>18. QED
      BY <3>8, <3>9, <3>11, <3>17
  <2>3. QED
    BY <1>5, <2>1, <2>2
<1>9. Credited'
  <2>1. PICK new : new = ledger'
    OBVIOUS
  <2>2. ASSUME NEW q \in Credits
        PROVE  /\ credit'[q].status # "none" => credit'[q].days > 0 /\ present'[q]
               /\ \A i, j \in Active(new, q) : i = j
               /\ Active(new, q) # {} <=> credit'[q].status = "approved"
    <3>1. CASE q = c
      BY <1>6, <1>7, <1>8, <2>1, <3>1
    <3>2. CASE q # c
      BY <1>7, <1>8, <2>1, <3>2 DEF Inv, Credited
    <3>3. QED
      BY <3>1, <3>2
  <2>3. QED
    BY <2>1, <2>2 DEF Credited
<1>10. TypeOK'
  BY <1>1, <1>3, <1>7, <1>8 DEF Inv, TypeOK, Signed, CreditType
<1>11. QED
  BY <1>3, <1>8, <1>9, <1>10 DEF Inv

(* What is forfeited reverses no row. *)
LEMMA FinishTerminateKeeps ==
    ASSUME Inv, NEW t \in open, FinishTerminate(t)
    PROVE  Inv'
<1>1. Done(t) /\ UNCHANGED <<booked, leave, credit, present>>
  BY DEF FinishTerminate
<1>2. open' = {} /\ Held' /\ UNCHANGED <<day, sweeps>> /\ Signed(View(t)) /\ Signed(ledger)
  BY <1>1, DoneIs, LedgerIs DEF Inv
<1>3. PICK b \in Int : b = Balance(View(t))
  BY <1>2, BalanceIs
<1>4. CASE b <= 0
  <2>1. ledger' = ledger
    BY <1>3, <1>4 DEF FinishTerminate
  <2>2. TypeOK' /\ Known'
    BY <1>1, <1>2, <2>1 DEF Inv, TypeOK, Known
  <2>3. QED
    BY <1>1, <1>2, <2>1, <2>2, IdleKeeps
<1>5. CASE ~ b <= 0
  <2>1. PICK x : x = [kind |-> "reversal", days |-> - b, ref |-> 0, expiry |-> 0]
    OBVIOUS
  <2>2. ledger' = Append(ledger, x)
    BY <1>3, <1>5, <2>1 DEF FinishTerminate
  <2>3. Proper(x) /\ x.kind = "reversal" /\ x.ref = 0
    BY <1>3, <1>5, <2>1 DEF Proper, RowType
  <2>4. PICK new, n : new = ledger' /\ n = Len(ledger) + 1
    OBVIOUS
  <2>5. /\ Signed(new) /\ Marked(new) /\ Known' /\ Extends(ledger, new)
        /\ n \in DOMAIN new \ DOMAIN ledger /\ new[n] = x
        /\ \A k \in Kinds : Of(new, k) = Gained(ledger, x, k)
    BY <1>2, <2>2, <2>3, <2>4, AppendsIs
  <2>6. /\ Of(new, "earned") = Of(ledger, "earned") /\ Of(new, "reversal") = Of(ledger, "reversal") \cup {n}
        /\ Of(new, "redeemed") = Of(ledger, "redeemed")
    BY <2>3, <2>4, <2>5 DEF Kinds, Gained
  <2>7. LeaveBooked'
    BY <1>1, <2>4, <2>5, <2>6, BookedSame
  <2>8. \A q : Active(new, q) = Active(ledger, q)
    <3>1. \A j \in Of(ledger, "earned") \cup Of(ledger, "reversal") : new[j] = ledger[j]
      BY <2>5 DEF Extends, Of
    <3>2. \A j \in Of(ledger, "earned") : j # 0
      BY <1>2 DEF Of, Signed
    <3>3. \A j \in Of(ledger, "earned") : Reversed(new, j) <=> Reversed(ledger, j)
      BY <2>3, <2>5, <2>6, <3>1, <3>2 DEF Reversed
    <3>4. QED
      BY <2>6, <3>1, <3>3 DEF Active
  <2>9. Credited'
    BY <1>1, <2>4, <2>8 DEF Inv, Credited
  <2>10. TypeOK'
    BY <1>1, <1>2, <2>4, <2>5 DEF Inv, TypeOK, Signed
  <2>11. QED
    BY <1>2, <2>4, <2>5, <2>7, <2>9, <2>10 DEF Inv
<1>6. QED
  BY <1>4, <1>5

(* Calls that never touch the ledger. *)
LEMMA LeaveCallsKeep ==
    ASSUME Inv, NEW r \in Requests, Submit(r) \/ Decide(r)
    PROVE  Inv'
<1>1. leave \in [Requests -> {"none", "ended"} \cup Live]
  BY DEF Inv, TypeOK
<1>2. UNCHANGED <<day, ledger, booked, credit, present, open, sweeps>>
  BY DEF Submit, Decide
<1>3. PICK s \in {"submitted", "pending_approval", "ended"} :
         /\ leave' = [leave EXCEPT ![r] = s]
         /\ leave[r] = "none" \/ (leave[r] \in Pending /\ RowFree(r))
         /\ leave[r] = "none" => s \in Pending
  BY DEF Submit, Decide, Pending
<1>4. leave' \in [Requests -> {"none", "ended"} \cup Live] /\ leave'[r] = s /\ \A q \in Requests \ {r} : leave'[q] = leave[q]
  BY <1>1, <1>3 DEF Live, Pending
<1>5. TypeOK' /\ Known' /\ Credited' /\ Marked(ledger')
  BY <1>2, <1>4 DEF Inv, TypeOK, Known, Credited
<1>6. Held'
  <2>1. \A t \in open : (t.op = "leave" \/ t.op = "cancel") => t.on \in Requests /\ t.on # r
    BY <1>3 DEF Inv, Held, RowFree, Pending
  <2>2. QED
    BY <1>2, <1>4, <2>1 DEF Inv, Held
<1>7. LeaveBooked'
  <2>1. ASSUME NEW q \in Requests PROVE Booked(q, booked, leave)'
    <3>1. Booked(q, booked, leave)
      BY BookedIs DEF Inv
    <3>2. leave'[q] = "approved" <=> leave[q] = "approved"
      BY <1>3, <1>4 DEF Pending
    <3>3. QED
      BY <1>2, <3>1, <3>2 DEF Booked
  <2>2. QED
    BY <2>1, BookedThen
<1>8. QED
  BY <1>5, <1>6, <1>7 DEF Inv

LEMMA DecideCreditKeeps ==
    ASSUME Inv, NEW c \in Credits, DecideCredit(c)
    PROVE  Inv'
<1>1. UNCHANGED <<day, ledger, booked, leave, present, open, sweeps>> /\ credit[c].status = "submitted" /\ RowFree(c)
  BY DEF DecideCredit
<1>2. credit[c] \in CreditType /\ credit \in [Credits -> CreditType]
  BY CreditIs DEF Inv
<1>3. PICK y \in CreditType : credit' = [credit EXCEPT ![c] = y] /\ (y.status = "none" \/ (y.status = "submitted" /\ y.days > 0))
  <2>1. CASE credit' = [credit EXCEPT ![c] = Nothing]
    <3>1. Nothing \in CreditType /\ Nothing.status = "none"
      BY DEF Nothing, CreditType
    <3>2. QED
      BY <2>1, <3>1
  <2>2. CASE \E w \in WorkDates[c], d \in Amounts[c] : credit' = [credit EXCEPT ![c].date = w, ![c].days = d]
    <3>1. PICK w \in WorkDates[c], d \in Amounts[c] : credit' = [credit EXCEPT ![c].date = w, ![c].days = d]
      BY <2>2
    <3>2. w \in Nat /\ d \in Nat /\ d > 0
      BY RecoveryAssumption
    <3>3. PICK y : y = [status |-> "submitted", date |-> w, days |-> d]
      OBVIOUS
    <3>4. y \in CreditType /\ y.status = "submitted" /\ y.days > 0
      BY <3>2, <3>3 DEF CreditType
    <3>5. PICK x : x = [credit EXCEPT ![c].date = w]
      OBVIOUS
    <3>6. x = [credit EXCEPT ![c] = [credit[c] EXCEPT !.date = w]] /\ credit' = [x EXCEPT ![c].days = d]
      BY <3>1, <3>5
    <3>7. PICK z : z = [credit[c] EXCEPT !.date = w]
      OBVIOUS
    <3>8. z = [status |-> "submitted", date |-> w, days |-> credit[c].days]
      BY <1>1, <1>2, <3>7 DEF CreditType
    <3>9. x[c] = z /\ DOMAIN x = Credits /\ \A q \in Credits \ {c} : x[q] = credit[q]
      BY <1>2, <3>6, <3>7
    <3>10. credit' = [x EXCEPT ![c] = [z EXCEPT !.days = d]]
      BY <3>6, <3>9
    <3>11. [z EXCEPT !.days = d] = y
      BY <3>3, <3>8
    <3>12. credit' = [x EXCEPT ![c] = y]
      BY <3>10, <3>11
    <3>13. [x EXCEPT ![c] = y] = [credit EXCEPT ![c] = y]
      BY <1>2, <3>6, <3>9
    <3>14. QED
      BY <3>4, <3>12, <3>13
  <2>3. QED
    BY <2>1, <2>2 DEF DecideCredit
<1>4. credit' \in [Credits -> CreditType] /\ credit'[c] = y /\ \A q \in Credits \ {c} : credit'[q] = credit[q]
  BY <1>2, <1>3
<1>5. TypeOK' /\ Known' /\ LeaveBooked' /\ Marked(ledger')
  BY <1>1, <1>4 DEF Inv, TypeOK, Known, LeaveBooked, CreditType
<1>6. Held'
  <2>1. \A t \in open : t.op = "credit" => t.on \in Credits /\ t.on # c
    BY <1>1 DEF Inv, Held, RowFree
  <2>2. QED
    BY <1>1, <1>4, <2>1 DEF Inv, Held
<1>7. Credited'
  <2>1. ASSUME NEW q \in Credits
        PROVE  /\ credit'[q].status # "none" => credit'[q].days > 0 /\ present[q]
               /\ \A i, j \in Active(ledger, q) : i = j
               /\ Active(ledger, q) # {} <=> credit'[q].status = "approved"
    <3>1. CASE q = c
      BY <1>1, <1>3, <1>4, <3>1 DEF Inv, Credited
    <3>2. CASE q # c
      BY <1>4, <3>2 DEF Inv, Credited
    <3>3. QED
      BY <3>1, <3>2
  <2>2. QED
    BY <1>1, <2>1 DEF Credited
<1>8. QED
  BY <1>5, <1>6, <1>7 DEF Inv

LEMMA SweepsType ==
    ASSUME Inv
    PROVE  /\ sweeps \in Seq([seen : Nat, day : Nat])
           /\ \A i \in DOMAIN sweeps :
                 sweeps[i].seen \in Nat /\ sweeps[i].day \in Nat /\ sweeps[i].seen <= Len(ledger)
<1>1. sweeps \in Seq([seen : Nat, day : Nat])
  BY DEF Inv, TypeOK
<1>2. \A i \in DOMAIN sweeps : sweeps[i] \in [seen : Nat, day : Nat]
  BY <1>1, ElementIs
<1>3. QED
  BY <1>1, <1>2 DEF Inv, Known

LEMMA SweepReadKeeps ==
    ASSUME Inv, SweepRead
    PROVE  Inv'
<1>1. UNCHANGED <<day, ledger, booked, leave, credit, present, open>>
  BY DEF SweepRead
<1>2. PICK x : x = [seen |-> Len(ledger), day |-> day]
  OBVIOUS
<1>3. Len(ledger) \in Nat /\ day \in Nat
  BY LedgerIs, RecoveryAssumption DEF Inv, TypeOK
<1>4. x \in [seen : Nat, day : Nat] /\ x.seen = Len(ledger)
  BY <1>2, <1>3
<1>5. sweeps' = Append(sweeps, x)
  BY <1>2 DEF SweepRead
<1>6. /\ sweeps' \in Seq([seen : Nat, day : Nat])
      /\ \A i \in DOMAIN sweeps' : sweeps'[i] = x \/ (i \in DOMAIN sweeps /\ sweeps'[i] = sweeps[i])
  <2>1. PICK X, s, z : X = [seen : Nat, day : Nat] /\ s = sweeps /\ z = sweeps'
    OBVIOUS
  <2>2. x \in X /\ s \in Seq(X) /\ z = Append(s, x)
    BY <1>4, <1>5, <2>1, SweepsType
  <2>3. z \in Seq(X) /\ \A i \in DOMAIN z : z[i] = x \/ (i \in DOMAIN s /\ z[i] = s[i])
    BY <2>2
  <2>4. QED
    BY <2>1, <2>3
<1>7. TypeOK'
  BY <1>1, <1>6 DEF Inv, TypeOK
<1>8. Known'
  BY <1>1, <1>3, <1>4, <1>6 DEF Inv, Known
<1>9. Held'
  BY <1>1 DEF Inv, Held
<1>10. QED
  BY <1>1, <1>7, <1>8, <1>9, IdleKeeps

(* A run that posts, or that is lost, is removed. *)
LEMMA RemovedKeeps ==
    ASSUME Inv, NEW i \in DOMAIN sweeps, sweeps' = RemoveAt(sweeps, i)
    PROVE  /\ sweeps' \in Seq([seen : Nat, day : Nat])
           /\ \A k \in DOMAIN sweeps' : sweeps'[k].seen \in Nat /\ sweeps'[k].seen <= Len(ledger)
<1>1. PICK X, s, z : X = [seen : Nat, day : Nat] /\ s = sweeps /\ z = RemoveAt(sweeps, i)
  OBVIOUS
<1>2. s \in Seq(X) /\ i \in DOMAIN s
  BY <1>1, SweepsType
<1>3. Removes(X, s, i, z)
  BY <1>1, <1>2 DEF Removes
<1>4. z \in Seq(X) /\ \A k \in DOMAIN z : \E j \in DOMAIN s : z[k] = s[j]
  BY <1>3, RestIs
<1>5. QED
  BY <1>1, <1>4, SweepsType

LEMMA SweepLostKeeps ==
    ASSUME Inv, NEW i \in DOMAIN sweeps, SweepLost(i)
    PROVE  Inv'
<1>1. UNCHANGED <<day, ledger, booked, leave, credit, present, open>>
  BY DEF SweepLost
<1>2. sweeps' \in Seq([seen : Nat, day : Nat]) /\ \A k \in DOMAIN sweeps' : sweeps'[k].seen <= Len(ledger)
  BY RemovedKeeps DEF SweepLost
<1>3. TypeOK' /\ Known' /\ Held'
  BY <1>1, <1>2 DEF Inv, TypeOK, Known, Held
<1>4. QED
  BY <1>1, <1>3, IdleKeeps

(* What a run posts: from what it read, to the ledger as it is. *)
LEMMA SweepPostIs ==
    ASSUME Inv, NEW i \in DOMAIN sweeps, SweepPost(i)
    PROVE  \E part, posted :
              /\ Signed(part) /\ Extends(part, ledger) /\ DOMAIN part = 1..sweeps[i].seen
              /\ Fresh(i) => part = ledger
              /\ Posts(posted, part, ledger) /\ Sweeps(posted, part, sweeps[i].day, ledger)
              /\ ledger' = ledger \o posted
<1>1. PICK n, d : n = sweeps[i].seen /\ d = sweeps[i].day
  OBVIOUS
<1>2. PICK part : part = SubSeq(ledger, 1, n)
  OBVIOUS
<1>3. n \in Nat /\ d \in Nat /\ n <= Len(ledger) /\ Signed(ledger)
  BY <1>1, SweepsType, LedgerIs DEF Inv
<1>4. Signed(part) /\ Extends(part, ledger) /\ DOMAIN part = 1..n /\ (n = Len(ledger) => part = ledger)
  BY <1>2, <1>3, Prefix
<1>5. PICK posted \in SetToSeqs(Unposted(ledger, Lapsed(part, d))) :
         /\ \A j, k \in DOMAIN posted : j < k => posted[j].ref < posted[k].ref
         /\ ledger' = ledger \o posted
  BY <1>1, <1>2 DEF SweepPost
<1>6. Sweeps(posted, part, d, ledger)
  BY <1>3, <1>4, <1>5, SweepsIs
<1>7. Posts(posted, part, ledger) /\ (Fresh(i) => part = ledger)
  BY <1>1, <1>4, <1>6 DEF Sweeps, Fresh
<1>8. QED
  BY <1>1, <1>4, <1>5, <1>6, <1>7

LEMMA SweepPostKeeps ==
    ASSUME Inv, NEW i \in DOMAIN sweeps, SweepPost(i)
    PROVE  Inv'
<1>1. UNCHANGED <<day, booked, leave, credit, present, open>>
  BY DEF SweepPost
<1>2. sweeps' \in Seq([seen : Nat, day : Nat]) /\ \A k \in DOMAIN sweeps' : sweeps'[k].seen \in Nat /\ sweeps'[k].seen <= Len(ledger)
  BY RemovedKeeps DEF SweepPost
<1>3. PICK part, posted : Signed(part) /\ Extends(part, ledger) /\ Posts(posted, part, ledger) /\ ledger' = ledger \o posted
  BY SweepPostIs
<1>4. Signed(ledger) /\ Marked(ledger)
  BY LedgerIs DEF Inv
<1>5. PICK new, n, m : new = ledger' /\ n = Len(ledger) /\ m = Len(posted)
  OBVIOUS
<1>6. /\ Signed(new) /\ Extends(ledger, new) /\ n \in Nat /\ m \in Nat /\ Len(new) = n + m
      /\ DOMAIN ledger = 1..n /\ DOMAIN new = 1..(n + m)
      /\ \A k \in DOMAIN new \ DOMAIN ledger : k - n \in DOMAIN posted /\ new[k] = posted[k - n]
  <2>1. PICK rows : rows = ledger
    OBVIOUS
  <2>2. Signed(rows) /\ Posts(posted, part, rows) /\ new = rows \o posted
    BY <1>3, <1>4, <1>5, <2>1
  <2>3. /\ Signed(new) /\ Extends(rows, new) /\ Len(rows) \in Nat /\ Len(posted) \in Nat
        /\ Len(new) = Len(rows) + Len(posted)
        /\ DOMAIN rows = 1..Len(rows) /\ DOMAIN new = 1..(Len(rows) + Len(posted))
    BY <2>2, Joined
  <2>4. \A k \in DOMAIN new \ DOMAIN rows : k - Len(rows) \in DOMAIN posted /\ new[k] = posted[k - Len(rows)]
    BY <2>2, Joined
  <2>5. QED
    BY <1>5, <2>1, <2>3, <2>4
<1>7. Marked(new) /\ \A k \in Kinds \ {"expired"} : Of(new, k) = Of(ledger, k)
  <2>1. new = ledger \o posted
    BY <1>3, <1>5
  <2>2. QED
    BY <1>3, <1>4, <2>1, MarkedJoined
<1>8. /\ Of(new, "earned") = Of(ledger, "earned") /\ Of(new, "reversal") = Of(ledger, "reversal")
      /\ Of(new, "redeemed") = Of(ledger, "redeemed")
  BY <1>7 DEF Kinds
<1>9. Credited' /\ LeaveBooked'
  BY <1>1, <1>5, <1>6, <1>8, CreditedSame, BookedSame
<1>10. Known'
  <2>1. \A k \in DOMAIN sweeps' : sweeps'[k].seen <= n + m
    BY <1>2, <1>5, <1>6
  <2>2. QED
    BY <1>5, <1>6, <2>1 DEF Known
<1>11. Held'
  <2>1. ASSUME NEW t \in open PROVE t.seen \in Nat /\ t.seen <= n /\ \A j \in (t.seen + 1)..n : ledger[j].kind = "expired"
    BY <1>5 DEF Inv, Held, TypeOK, TxType
  <2>2. ASSUME NEW t \in open, NEW j \in (t.seen + 1)..(n + m) PROVE new[j].kind = "expired"
    <3>1. t.seen \in Nat /\ j \in Int
      BY <2>1
    <3>2. CASE j <= n
      <4>1. j \in (t.seen + 1)..n /\ j \in DOMAIN ledger
        BY <1>6, <2>1, <2>2, <3>1, <3>2
      <4>2. QED
        BY <1>6, <2>1, <4>1 DEF Extends
    <3>3. CASE ~ j <= n
      <4>1. j \in DOMAIN new \ DOMAIN ledger
        BY <1>6, <2>1, <2>2, <3>1, <3>3
      <4>2. QED
        BY <1>3, <1>6, <4>1 DEF Posts, Lapses
    <3>4. QED
      BY <3>2, <3>3
  <2>3. \A t \in open : t.seen <= n + m /\ \A j \in (t.seen + 1)..(n + m) : new[j].kind = "expired"
    BY <1>6, <2>1, <2>2
  <2>4. QED
    BY <1>1, <1>5, <1>6, <2>3 DEF Inv, Held
<1>12. TypeOK'
  BY <1>1, <1>2, <1>5, <1>6 DEF Inv, TypeOK, Signed
<1>13. QED
  BY <1>5, <1>7, <1>9, <1>10, <1>11, <1>12 DEF Inv

LEMMA TickKeeps ==
    ASSUME Inv, Tick
    PROVE  Inv'
<1>1. UNCHANGED <<ledger, booked, leave, credit, present, open, sweeps>> /\ day' = day + 1 /\ day < LastDay
  BY DEF Tick
<1>2. day' \in 0..LastDay
  BY <1>1, RecoveryAssumption DEF Inv, TypeOK
<1>3. TypeOK' /\ Known' /\ Held'
  BY <1>1, <1>2 DEF Inv, TypeOK, Known, Held
<1>4. QED
  BY <1>1, <1>3, IdleKeeps

LEMMA NextKeeps == Inv /\ [Next]_vars => Inv'
<1> SUFFICES ASSUME Inv, [Next]_vars PROVE Inv'
  OBVIOUS
<1>1. CASE \E r \in Requests : Submit(r) \/ Decide(r)
  BY <1>1, LeaveCallsKeep
<1>2. CASE \E c \in Credits : DecideCredit(c)
  BY <1>2, DecideCreditKeeps
<1>3. CASE \/ \E r \in Requests : EnterLeave(r) \/ EnterCancel(r)
           \/ \E c \in Credits : EnterCredit(c) \/ EnterAway(c) \/ \E d \in Amounts[c] : EnterPresent(c, d)
           \/ EnterTerminate
  BY <1>3, EntersKeep
<1>4. CASE \E t \in open : Finish(t)
  BY <1>4, FinishLeaveKeeps, FinishCancelKeeps, FinishCreditKeeps, FinishPresentKeeps,
     FinishAwayKeeps, FinishTerminateKeeps DEF Finish
<1>5. CASE SweepRead
  BY <1>5, SweepReadKeeps
<1>6. CASE \E i \in DOMAIN sweeps : SweepPost(i) \/ SweepLost(i)
  BY <1>6, SweepPostKeeps, SweepLostKeeps
<1>7. CASE Tick
  BY <1>7, TickKeeps
<1>8. CASE UNCHANGED vars
  <2>1. TypeOK' /\ Known' /\ Held' /\ UNCHANGED <<ledger, booked, leave, credit, present>>
    BY <1>8 DEF vars, Inv, TypeOK, Known, Held
  <2>2. QED
    BY <2>1, IdleKeeps
<1>9. QED
  BY <1>1, <1>2, <1>3, <1>4, <1>5, <1>6, <1>7, <1>8 DEF Next

LEMMA Invariant == Spec => []Inv
BY InitInv, NextKeeps, PTL DEF Spec

------------------------------------------------------------------------------
(* Theorems. *)

(* The tables hold what their columns and checks allow, at all times:
   comp_day_ledger, leave_requests, recovery_credit_requests,
   attendance_records, and the transactions and sweeps under way. *)
THEOREM RecoveryTypes == Spec => []TypeOK
<1>1. Inv => TypeOK
  BY DEF Inv
<1>2. QED
  BY <1>1, Invariant, PTL

(* The two readings of comp_day_ledger agree, whatever was written and in
   whatever order: what the first-in-first-out loop of the expiry job leaves
   of the credits is the balance the decisions read, or nothing below zero. *)
THEOREM ReadingsAgree == Spec => []AvailableIsBalance
<1>1. ASSUME Inv PROVE AvailableIsBalance
  <2>1. Signed(ledger)
    BY <1>1, LedgerIs DEF Inv
  <2>2. Available(ledger) = Above(Balance(ledger)) /\ Balance(ledger) \in Int
    BY <2>1, AvailableSum, BalanceIs
  <2>3. Max({0, Balance(ledger)}) = Above(Balance(ledger))
    BY <2>2, MaxIsAbove
  <2>4. QED
    BY <2>2, <2>3 DEF AvailableIsBalance, Available
<1>2. QED
  BY <1>1, Invariant, PTL

(* Each row of comp_day_ledger is backed by what was decided, through every
   order of approvals, corrections of the register, sweeps and repetitions:
   a credit lapses once and never beyond itself; approved leave has cost the
   days asked for and other leave nothing; a credit counts exactly while its
   request is approved and the register says present. *)
THEOREM RowsAreBacked == Spec => []RowsBacked
<1>1. ASSUME Inv PROVE RowsBacked
  <2>1. Signed(ledger) /\ Marked(ledger) /\ Credited /\ LeaveBooked
    BY <1>1, LedgerIs DEF Inv
  <2>2. ASSUME NEW i \in Of(ledger, "earned"),
               NEW x, x = {j \in Of(ledger, "expired") : ledger[j].ref = i}
        PROVE  Cardinality(x) <= 1 /\ - Total(ledger, x) <= ledger[i].days
    <3>1. i \in DOMAIN ledger /\ i \in Earned(ledger)
      BY DEF Of, Earned
    <3>2. ledger[i].days \in Int /\ ledger[i].days > 0
      BY <2>1, <3>1, RowIs
    <3>3. CASE x = {}
      <4>1. Cardinality(x) = 0 /\ Total(ledger, x) = 0
        <5>1. Cardinality({}) = 0 /\ Total(ledger, {}) = 0
          BY <2>1, FS_EmptySet, TotalNothing
        <5>2. QED
          BY <3>3, <5>1, Zenon
      <4>2. QED
        BY <3>2, <4>1
    <3>4. CASE x # {}
      <4>1. PICK j \in x : TRUE
        BY <3>4
      <4>2. j \in Of(ledger, "expired") /\ ledger[j].ref = i /\ j \in DOMAIN ledger
        BY <2>2, <4>1 DEF Of
      <4>3. x = {j}
        BY <2>1, <2>2, <4>1 DEF Marked
      <4>4. Cardinality(x) = 1
        BY <4>3, FS_Singleton, Zenon
      <4>5. Total(ledger, x) = ledger[j].days
        <5>1. Total(ledger, {j}) = ledger[j].days
          BY <2>1, <4>2, TotalOne
        <5>2. QED
          BY <4>3, <5>1, Zenon
      <4>6. - ledger[j].days <= ledger[i].days /\ ledger[j].days \in Int
        BY <2>1, <4>2, RowIs DEF Marked
      <4>7. QED
        BY <4>4, <4>5, <4>6
    <3>5. QED
      BY <3>3, <3>4
  <2>3. ExpiryOnce
    BY <2>2 DEF ExpiryOnce
  <2>4. ASSUME NEW c \in Credits
        PROVE  /\ Cardinality(Active(ledger, c)) = IF credit[c].status = "approved" THEN 1 ELSE 0
               /\ credit[c].status # "none" => present[c]
    <3>1. credit[c].status # "none" => present[c]
      BY <2>1 DEF Credited
    <3>2. PICK a : a = Active(ledger, c)
      OBVIOUS
    <3>3. (\A i, j \in a : i = j) /\ (a # {} <=> credit[c].status = "approved")
      BY <2>1, <3>2 DEF Credited
    <3>4. CASE a = {}
      <4>1. Cardinality(a) = 0
        BY <3>4, FS_EmptySet, Zenon
      <4>2. QED
        BY <3>1, <3>2, <3>3, <3>4, <4>1
    <3>5. CASE a # {}
      <4>1. PICK i : a = {i}
        BY <3>3, <3>5
      <4>2. Cardinality(a) = 1
        BY <4>1, FS_Singleton, Zenon
      <4>3. QED
        BY <3>1, <3>2, <3>3, <3>5, <4>2
    <3>6. QED
      BY <3>4, <3>5
  <2>5. CreditBacked
    BY <2>4 DEF CreditBacked
  <2>6. QED
    BY <2>1, <2>3, <2>5 DEF RowsBacked
<1>2. QED
  BY <1>1, Invariant, PTL

(* What one transaction or sweep may do to the balance. *)
Overdraws ==
    Balance(ledger) >= 0 /\ Balance(ledger') < 0 =>
          \/ \E i \in DOMAIN sweeps : sweeps' = RemoveAt(sweeps, i) /\ ~ Fresh(i)
          \/ \E t \in open \ open' :
                \/ t.op = "away"
                \/ \E i \in (t.seen + 1)..Len(ledger) : ledger[i].kind = "expired"

(* A transaction behind which nothing was posted reads the ledger as it is. *)
LEMMA NothingSince ==
    ASSUME Inv, NEW t \in open, \A i \in (t.seen + 1)..Len(ledger) : ledger[i].kind # "expired"
    PROVE  View(t) = ledger
<1>1. t.seen \in Nat /\ t.seen <= Len(ledger) /\ \A j \in (t.seen + 1)..Len(ledger) : ledger[j].kind = "expired"
  BY DEF Inv, Held, TypeOK, TxType
<1>2. Len(ledger) \in Nat /\ Signed(ledger)
  BY LedgerIs DEF Inv
<1>3. (t.seen + 1)..Len(ledger) = {}
  BY <1>1
<1>4. ~ Len(ledger) \in (t.seen + 1)..Len(ledger)
  BY <1>3
<1>5. t.seen = Len(ledger)
  BY <1>1, <1>2, <1>4
<1>6. PICK part, n : part = View(t) /\ n = t.seen
  OBVIOUS
<1>7. part = SubSeq(ledger, 1, n)
  BY <1>6 DEF View
<1>8. part = ledger
  BY <1>1, <1>2, <1>5, <1>6, <1>7, Prefix
<1>9. QED
  BY <1>6, <1>8

LEMMA FinishOverdraws ==
    ASSUME Inv, NEW t \in open, Finish(t)
    PROVE  Overdraws
<1>1. Done(t)
  BY DEF Finish, FinishLeave, FinishCancel, FinishCredit, FinishPresent, FinishAway, FinishTerminate
<1>2. t \in open \ open' /\ Signed(View(t)) /\ Signed(ledger)
  BY <1>1, DoneIs, LedgerIs DEF Inv
<1>3. SUFFICES ASSUME Balance(ledger) >= 0, t.op # "away",
                      \A i \in (t.seen + 1)..Len(ledger) : ledger[i].kind # "expired"
               PROVE  ~ Balance(ledger') < 0
  BY <1>2 DEF Overdraws
<1>4. View(t) = ledger
  BY <1>3, NothingSince
<1>5. PICK b \in Int : b = Balance(ledger) /\ b >= 0
  BY <1>2, <1>3, BalanceIs
<1>6. ASSUME ledger' = ledger PROVE ~ Balance(ledger') < 0
  BY <1>5, <1>6
<1>7. ASSUME NEW x, Proper(x), ledger' = Append(ledger, x), b + x.days >= 0, x.days \in Int
      PROVE  ~ Balance(ledger') < 0
  <2>1. PICK new : new = ledger'
    OBVIOUS
  <2>2. new = Append(ledger, x)
    BY <1>7, <2>1
  <2>3. Balance(new) = Balance(ledger) + x.days
    BY <1>2, <1>7, <2>2, Appended
  <2>4. PICK d \in Int : d = x.days
    BY <1>7
  <2>5. Balance(new) = b + d /\ b + d >= 0
    BY <1>5, <1>7, <2>3, <2>4
  <2>6. QED
    BY <1>5, <2>1, <2>4, <2>5
<1>8. CASE FinishLeave(t)
  <2>1. PICK r \in Requests : r = t.on
    BY <1>8 DEF FinishLeave, Inv, Held
  <2>2. PICK p, a : p = Draw(r, ledger) /\ a = p.comp
    OBVIOUS
  <2>3. a \in Nat /\ a <= b
    BY <1>2, <1>5, <2>2, DrawIs DEF Fair, Above
  <2>4. \/ ledger' = ledger
        \/ a # 0 /\ ledger' = Append(ledger, [kind |-> "redeemed", days |-> - a, ref |-> r, expiry |-> 0])
    BY <1>4, <1>8, <2>1, <2>2 DEF FinishLeave
  <2>5. CASE ledger' = ledger
    BY <1>6, <2>5
  <2>6. CASE a # 0 /\ ledger' = Append(ledger, [kind |-> "redeemed", days |-> - a, ref |-> r, expiry |-> 0])
    <3>1. PICK x : x = [kind |-> "redeemed", days |-> - a, ref |-> r, expiry |-> 0]
      OBVIOUS
    <3>2. Proper(x) /\ x.days = -a /\ x.days \in Int
      BY <2>3, <2>6, <3>1 DEF Proper, RowType
    <3>3. b + x.days >= 0 /\ ledger' = Append(ledger, x)
      BY <2>3, <2>6, <3>1, <3>2
    <3>4. QED
      BY <1>7, <3>2, <3>3
  <2>7. QED
    BY <2>4, <2>5, <2>6
<1>9. CASE FinishCancel(t) \/ FinishPresent(t)
  BY <1>6, <1>9 DEF FinishCancel, FinishPresent
<1>10. CASE FinishCredit(t)
  <2>1. PICK c \in Credits : c = t.on /\ credit[c].status = "submitted"
    BY <1>10 DEF FinishCredit, Inv, Held
  <2>2. PICK e, d : e = credit[c].date + Validity /\ d = credit[c].days
    OBVIOUS
  <2>3. e \in Nat /\ d \in Nat /\ d > 0
    BY <2>1, <2>2, CreditIs, RecoveryAssumption DEF Inv, Credited
  <2>4. PICK x : x = [kind |-> "earned", days |-> d, ref |-> c, expiry |-> e]
    OBVIOUS
  <2>5. ledger' = ledger \/ ledger' = Append(ledger, x)
    BY <1>10, <2>1, <2>2, <2>4 DEF FinishCredit
  <2>6. Proper(x) /\ x.days = d
    BY <2>3, <2>4 DEF Proper, RowType
  <2>7. b + x.days >= 0 /\ x.days \in Int
    BY <1>5, <2>3, <2>6
  <2>8. QED
    BY <1>6, <1>7, <2>5, <2>6, <2>7
<1>11. CASE FinishTerminate(t)
  <2>1. PICK x : x = [kind |-> "reversal", days |-> - b, ref |-> 0, expiry |-> 0]
    OBVIOUS
  <2>2. ledger' = ledger \/ (b > 0 /\ ledger' = Append(ledger, x))
    BY <1>4, <1>5, <1>11, <2>1 DEF FinishTerminate
  <2>3. b > 0 => Proper(x) /\ x.days = -b
    BY <1>5, <2>1 DEF Proper, RowType
  <2>4. b > 0 => b + x.days >= 0 /\ x.days \in Int
    BY <1>5, <2>3
  <2>5. QED
    BY <1>6, <1>7, <2>2, <2>3, <2>4
<1>12. CASE FinishAway(t)
  BY <1>3, <1>12 DEF FinishAway
<1>13. QED
  BY <1>8, <1>9, <1>10, <1>11, <1>12 DEF Finish

LEMMA SweepOverdraws ==
    ASSUME Inv, NEW i \in DOMAIN sweeps, SweepPost(i)
    PROVE  Overdraws
<1>1. sweeps' = RemoveAt(sweeps, i)
  BY DEF SweepPost
<1>2. SUFFICES ASSUME Balance(ledger) >= 0, Fresh(i) PROVE ~ Balance(ledger') < 0
  BY <1>1 DEF Overdraws
<1>3. PICK part, posted : part = ledger /\ Posts(posted, part, ledger) /\ ledger' = ledger \o posted
  BY <1>2, SweepPostIs
<1>4. PICK new : new = ledger'
  OBVIOUS
<1>5. Signed(ledger) /\ Posts(posted, ledger, ledger) /\ new = ledger \o posted
  BY <1>3, <1>4, LedgerIs DEF Inv
<1>6. PICK b, m : b = Balance(ledger) /\ m = Balance(new)
  OBVIOUS
<1>7. b \in Int /\ m \in Int /\ m >= b - Above(b) /\ b >= 0
  BY <1>2, <1>5, <1>6, BalanceIs, PostedAtMost
<1>8. m >= 0
  BY <1>7 DEF Above
<1>9. QED
  BY <1>4, <1>6, <1>7, <1>8

(* No decision, however interleaved, spends days that are not there: the
   balance goes below zero only when a sweep posts what it computed before a
   later row, when a decision overlaps such a post, or when the register
   takes back a credit already spent. *)
THEOREM SpendsWhatIsThere == Spec => OverdrawnOnlyBySweep
<1>1. ASSUME Inv, [Next]_vars PROVE [Overdraws]_vars
  <2>1. CASE \E t \in open : Finish(t)
    BY <1>1, <2>1, FinishOverdraws
  <2>2. CASE \E i \in DOMAIN sweeps : SweepPost(i)
    BY <1>1, <2>2, SweepOverdraws
  <2>3. CASE UNCHANGED vars
    BY <2>3
  <2>4. ASSUME ~ (\E t \in open : Finish(t)), ~ (\E i \in DOMAIN sweeps : SweepPost(i)), ~ UNCHANGED vars
        PROVE  UNCHANGED ledger
    BY <1>1, <2>4 DEF Next, Submit, Decide, EnterLeave, EnterCancel, DecideCredit, EnterCredit, EnterAway,
       EnterPresent, EnterTerminate, Enter, SweepRead, SweepLost, Tick
  <2>5. CASE UNCHANGED ledger
    <3>1. Balance(ledger) \in Int
      BY <1>1, LedgerIs, BalanceIs DEF Inv
    <3>2. Overdraws
      BY <2>5, <3>1 DEF Overdraws
    <3>3. QED
      BY <3>2
  <2>6. QED
    BY <2>1, <2>2, <2>3, <2>4, <2>5
<1>2. QED
  BY <1>1, Invariant, PTL DEF Spec, OverdrawnOnlyBySweep, Overdraws

------------------------------------------------------------------------------
(* What HR decides in time. *)

(* Nothing has lapsed by name that the pool has not used up.  A run of the
   sweep has a day behind it, and what was earned since it read lapses after
   that day.  A credit on its way to the ledger has not lapsed. *)
Covered == CoveredIn(ledger, day)
Dated(w, rows) == \A i \in Earned(rows) : i > w.seen => rows[i].expiry > w.day
AllDated == \A k \in DOMAIN sweeps : sweeps[k].day <= day /\ Dated(sweeps[k], ledger)
Timely == \A t \in open : t.op = "credit" => day < credit[t.on].date + Validity

Timed == Inv /\ Covered /\ AllDated /\ Timely

LEMMA InitTimed == Init => Timed
<1> SUFFICES ASSUME Init PROVE Timed
  OBVIOUS
<1>1. Of(ledger, "expired") = {} /\ DOMAIN sweeps = {} /\ open = {}
  BY DEF Init, Of
<1>2. Covered /\ AllDated /\ Timely
  BY <1>1 DEF Covered, CoveredIn, AllDated, Timely
<1>3. QED
  BY <1>2, InitInv DEF Timed

LEMMA DayIs == Inv => day \in Nat
BY RecoveryAssumption DEF Inv, TypeOK

(* What a step writes lapses later, and its runs were there or have read all. *)
LEMMA DatedKeeps ==
    ASSUME Timed, day' \in Nat, day <= day', Signed(ledger'), Later(ledger, ledger', day),
           \A k \in DOMAIN sweeps' :
              \/ \E j \in DOMAIN sweeps : sweeps'[k] = sweeps[j]
              \/ sweeps'[k].day <= day' /\ sweeps'[k].seen = Len(ledger')
    PROVE  AllDated'
<1>1. PICK new, z, e : new = ledger' /\ z = sweeps' /\ e = day'
  OBVIOUS
<1>2. day \in Nat /\ Signed(ledger) /\ Len(ledger) \in Nat /\ DOMAIN ledger = 1..Len(ledger)
  BY DayIs, LedgerIs DEF Timed, Inv, Signed
<1>3. /\ DOMAIN ledger \subseteq DOMAIN new /\ \A i \in DOMAIN ledger : new[i] = ledger[i]
      /\ \A k \in Earned(new) \ DOMAIN ledger : new[k].expiry > day
      /\ Signed(new) /\ DOMAIN new = 1..Len(new) /\ Len(new) \in Nat
  BY <1>1 DEF Later, Extends, Signed
<1>4. ASSUME NEW k \in DOMAIN z PROVE z[k].day <= e /\ Dated(z[k], new)
  <2>1. PICK w : w = z[k]
    OBVIOUS
  <2>2. CASE \E j \in DOMAIN sweeps : w = sweeps[j]
    <3>1. PICK j \in DOMAIN sweeps : w = sweeps[j]
      BY <2>2
    <3>2. w.day \in Nat /\ w.seen \in Nat /\ w.day <= day /\ Dated(w, ledger)
      BY <3>1, SweepsType DEF Timed, AllDated
    <3>3. ASSUME NEW i \in Earned(new), i > w.seen PROVE new[i].expiry > w.day
      <4>1. i \in DOMAIN new /\ new[i].expiry \in Int
        BY <1>3, RowIs DEF Earned, Of
      <4>2. CASE i \in DOMAIN ledger
        <5>1. i \in Earned(ledger) /\ new[i] = ledger[i]
          BY <1>3, <3>3, <4>2 DEF Earned, Of
        <5>2. QED
          BY <3>2, <3>3, <5>1 DEF Dated
      <4>3. CASE i \notin DOMAIN ledger
        <5>1. new[i].expiry > day
          BY <1>3, <3>3, <4>3
        <5>2. QED
          BY <1>2, <3>2, <4>1, <5>1
      <4>4. QED
        BY <4>2, <4>3
    <3>4. w.day <= e
      BY <1>1, <1>2, <3>2
    <3>5. QED
      BY <2>1, <3>3, <3>4 DEF Dated
  <2>3. CASE w.day <= e /\ w.seen = Len(new)
    <3>1. ASSUME NEW i \in Earned(new) PROVE ~ i > w.seen
      <4>1. i \in 1..Len(new)
        BY <1>3 DEF Earned, Of
      <4>2. QED
        BY <1>3, <2>3, <4>1
    <3>2. QED
      BY <2>1, <2>3, <3>1 DEF Dated
  <2>4. QED
    BY <1>1, <2>1, <2>2, <2>3
<1>5. QED
  BY <1>1, <1>4 DEF AllDated

LEMMA CoveredStill ==
    ASSUME Timed, day' \in Nat, day <= day', Signed(ledger'), Later(ledger, ledger', day),
           Of(ledger', "expired") \subseteq DOMAIN ledger
    PROVE  Covered'
<1>1. PICK new, e : new = ledger' /\ e = day'
  OBVIOUS
<1>2. day \in Nat /\ Signed(ledger) /\ CoveredIn(ledger, day)
  BY DayIs, LedgerIs DEF Timed, Inv, Covered
<1>3. /\ Signed(new) /\ Later(ledger, new, day) /\ e \in Nat /\ day <= e
      /\ \A j \in Of(new, "expired") \ DOMAIN ledger : Reached(new, new[j].ref, e)
  BY <1>1
<1>4. CoveredIn(new, e)
  BY <1>2, <1>3, CoveredKeeps, Zenon
<1>5. QED
  BY <1>1, <1>4 DEF Covered

LEMMA SameIsLater ==
    ASSUME NEW rows, NEW e
    PROVE  Later(rows, rows, e) /\ Of(rows, "expired") \subseteq DOMAIN rows
BY DEF Later, Extends, Earned, Of

LEMMA AppendedLater ==
    ASSUME NEW rows, Signed(rows), NEW e, NEW x, x.kind # "expired", x.kind = "earned" => x.expiry > e,
           NEW new, new = Append(rows, x)
    PROVE  Later(rows, new, e) /\ Of(new, "expired") \subseteq DOMAIN rows
<1>1. PICK n : n = Len(rows) + 1
  OBVIOUS
<1>2. DOMAIN new = DOMAIN rows \cup {n} /\ n \notin DOMAIN rows /\ new[n] = x /\ \A i \in DOMAIN rows : new[i] = rows[i]
  BY <1>1 DEF Signed
<1>3. QED
  BY <1>2 DEF Later, Extends, Earned, Of

(* What a transaction writes. *)
LEMMA FinishWrites ==
    ASSUME Timed, NEW t \in open, Finish(t)
    PROVE  Later(ledger, ledger', day) /\ Of(ledger', "expired") \subseteq DOMAIN ledger
<1>1. Signed(ledger) /\ Inv
  BY LedgerIs DEF Timed, Inv
<1>2. CASE ledger' = ledger
  BY <1>2, SameIsLater
<1>3. ASSUME NEW x, x.kind # "expired", x.kind = "earned" => x.expiry > day, ledger' = Append(ledger, x)
      PROVE  Later(ledger, ledger', day) /\ Of(ledger', "expired") \subseteq DOMAIN ledger
  <2>1. PICK new : new = ledger'
    OBVIOUS
  <2>2. new = Append(ledger, x)
    BY <1>3, <2>1
  <2>3. Later(ledger, new, day) /\ Of(new, "expired") \subseteq DOMAIN ledger
    BY <1>1, <1>3, <2>2, AppendedLater
  <2>4. QED
    BY <2>1, <2>3
<1>4. ASSUME NEW k \in {"redeemed", "reversal"}, NEW a, NEW b,
             ledger' = Append(ledger, [kind |-> k, days |-> a, ref |-> b, expiry |-> 0])
      PROVE  Later(ledger, ledger', day) /\ Of(ledger', "expired") \subseteq DOMAIN ledger
  <2>1. PICK x : x = [kind |-> k, days |-> a, ref |-> b, expiry |-> 0]
    OBVIOUS
  <2>2. x.kind # "expired" /\ x.kind # "earned" /\ ledger' = Append(ledger, x)
    BY <1>4, <2>1
  <2>3. QED
    BY <1>3, <2>2
<1>5. CASE FinishLeave(t)
  <2>1. \/ ledger' = ledger
        \/ ledger' = Append(ledger, [kind |-> "redeemed", days |-> - Draw(t.on, View(t)).comp,
                                     ref |-> t.on, expiry |-> 0])
    BY <1>5 DEF FinishLeave
  <2>2. QED
    BY <1>2, <1>4, <2>1
<1>6. CASE FinishCancel(t) \/ FinishPresent(t)
  BY <1>2, <1>6 DEF FinishCancel, FinishPresent
<1>7. CASE FinishCredit(t)
  <2>1. PICK c, e : c = t.on /\ e = credit[c].date + Validity
    OBVIOUS
  <2>2. t.op = "credit" /\ c \in Credits
    BY <1>1, <1>7, <2>1 DEF FinishCredit, Inv, Held
  <2>3. day < e
    BY <2>1, <2>2 DEF Timed, Timely
  <2>4. e > day
    <3>1. e \in Int /\ day \in Int
      BY <1>1, <2>1, <2>2, CreditIs, DayIs, RecoveryAssumption DEF Inv
    <3>2. QED
      BY <2>3, <3>1
  <2>5. PICK x : x = [kind |-> "earned", days |-> credit[c].days, ref |-> c, expiry |-> e]
    OBVIOUS
  <2>6. ledger' = ledger \/ ledger' = Append(ledger, x)
    BY <1>7, <2>1, <2>5 DEF FinishCredit
  <2>7. x.kind # "expired" /\ x.expiry > day
    BY <2>4, <2>5
  <2>8. QED
    BY <1>2, <1>3, <2>6, <2>7
<1>8. CASE FinishAway(t)
  <2>1. \/ ledger' = ledger
        \/ \E i \in Active(View(t), t.on) :
              ledger' = Append(ledger, [kind |-> "reversal", days |-> - ledger[i].days, ref |-> i, expiry |-> 0])
    BY <1>8 DEF FinishAway
  <2>2. QED
    BY <1>2, <1>4, <2>1
<1>9. CASE FinishTerminate(t)
  <2>1. \/ ledger' = ledger
        \/ ledger' = Append(ledger, [kind |-> "reversal", days |-> - Balance(View(t)), ref |-> 0, expiry |-> 0])
    BY <1>9 DEF FinishTerminate
  <2>2. QED
    BY <1>2, <1>4, <2>1
<1>10. QED
  BY <1>5, <1>6, <1>7, <1>8, <1>9 DEF Finish

LEMMA RunsLeft ==
    ASSUME Inv, NEW i \in DOMAIN sweeps, sweeps' = RemoveAt(sweeps, i)
    PROVE  \A k \in DOMAIN sweeps' : \E j \in DOMAIN sweeps : sweeps'[k] = sweeps[j]
<1>1. PICK X, s, z : X = [seen : Nat, day : Nat] /\ s = sweeps /\ z = RemoveAt(sweeps, i)
  OBVIOUS
<1>2. s \in Seq(X) /\ i \in DOMAIN s
  BY <1>1, SweepsType
<1>3. Removes(X, s, i, z)
  BY <1>1, <1>2 DEF Removes
<1>4. \A k \in DOMAIN z : \E j \in DOMAIN s : z[k] = s[j]
  BY <1>3, RestIs
<1>5. QED
  BY <1>1, <1>4

(* Steps that write no expiry. *)
LEMMA QuietKeeps ==
    ASSUME Timed, Inv', day' \in Nat, day <= day', Later(ledger, ledger', day),
           Of(ledger', "expired") \subseteq DOMAIN ledger, Timely',
           \A k \in DOMAIN sweeps' :
              \/ \E j \in DOMAIN sweeps : sweeps'[k] = sweeps[j]
              \/ sweeps'[k].day <= day' /\ sweeps'[k].seen = Len(ledger')
    PROVE  Timed'
<1>1. Signed(ledger')
  BY DEF Inv, TypeOK, Signed
<1>2. Covered' /\ AllDated'
  BY <1>1, CoveredStill, DatedKeeps
<1>3. QED
  BY <1>2 DEF Timed

(* Steps that write nothing. *)
LEMMA StillKeeps ==
    ASSUME Timed, Inv', UNCHANGED <<day, ledger, sweeps>>, Timely'
    PROVE  Timed'
<1>1. day \in Nat /\ day <= day
  BY DayIs DEF Timed
<1>2. Later(ledger, ledger, day) /\ Of(ledger, "expired") \subseteq DOMAIN ledger
  BY SameIsLater
<1>3. \A k \in DOMAIN sweeps' : \E j \in DOMAIN sweeps : sweeps'[k] = sweeps[j]
  OBVIOUS
<1>4. QED
  BY <1>1, <1>2, <1>3, QuietKeeps

LEMMA CallsTimed ==
    ASSUME Timed, Inv', \/ \E r \in Requests : Submit(r) \/ Decide(r)
                        \/ \E c \in Credits : DecideCredit(c)
    PROVE  Timed'
<1>1. CASE \E r \in Requests : Submit(r) \/ Decide(r)
  <2>1. UNCHANGED <<day, ledger, sweeps, credit, open>>
    BY <1>1 DEF Submit, Decide
  <2>2. Timely'
    BY <2>1 DEF Timed, Timely
  <2>3. QED
    BY <2>1, <2>2, StillKeeps
<1>2. CASE \E c \in Credits : DecideCredit(c)
  <2>1. PICK c \in Credits : DecideCredit(c)
    BY <1>2
  <2>2. UNCHANGED <<day, ledger, sweeps, open>>
    BY <2>1 DEF DecideCredit
  <2>3. credit \in [Credits -> CreditType]
    BY CreditIs, <2>1 DEF Timed, Inv
  <2>4. \A q \in Credits \ {c} : credit'[q] = credit[q]
    <3>1. CASE credit' = [credit EXCEPT ![c] = Nothing]
      BY <2>3, <3>1
    <3>2. CASE \E w \in WorkDates[c], d \in Amounts[c] : credit' = [credit EXCEPT ![c].date = w, ![c].days = d]
      <4>1. PICK w, d : credit' = [credit EXCEPT ![c].date = w, ![c].days = d]
        BY <3>2
      <4>2. QED
        BY <2>3, <4>1
    <3>3. QED
      BY <2>1, <3>1, <3>2 DEF DecideCredit
  <2>5. \A t \in open : t.op = "credit" => t.on \in Credits \ {c}
    BY <2>1 DEF DecideCredit, RowFree, Timed, Inv, Held
  <2>6. Timely'
    BY <2>2, <2>4, <2>5 DEF Timed, Timely
  <2>7. QED
    BY <2>2, <2>6, StillKeeps
<1>3. QED
  BY <1>1, <1>2

(* A credit is decided before it would have lapsed. *)
LEMMA EntersTimed ==
    ASSUME InTime, Timed, Inv',
           \/ \E r \in Requests : EnterLeave(r) \/ EnterCancel(r)
           \/ \E c \in Credits : EnterCredit(c) \/ EnterAway(c) \/ \E d \in Amounts[c] : EnterPresent(c, d)
           \/ EnterTerminate
    PROVE  Timed'
<1>1. ASSUME NEW o, NEW x, NEW d, Enter(o, x, d), o = "credit" => day < credit[x].date + Validity
      PROVE  Timed'
  <2>1. PICK t : t = [op |-> o, on |-> x, seen |-> Len(ledger), days |-> d]
    OBVIOUS
  <2>2. open' = {t} /\ UNCHANGED <<day, ledger, booked, leave, credit, present, sweeps>>
    BY <1>1, <2>1 DEF Enter, LockFree
  <2>3. t.op = o /\ t.on = x
    BY <2>1
  <2>4. Timely'
    BY <1>1, <2>2, <2>3 DEF Timely
  <2>5. QED
    BY <2>2, <2>4, StillKeeps
<1>2. ASSUME NEW r \in Requests, EnterLeave(r) \/ EnterCancel(r) PROVE Timed'
  <2>1. \E o \in {"leave", "cancel"} : Enter(o, r, 0)
    BY <1>2 DEF EnterLeave, EnterCancel
  <2>2. QED
    BY <1>1, <2>1
<1>3. ASSUME NEW c \in Credits, EnterCredit(c) PROVE Timed'
  <2>1. Enter("credit", c, 0) /\ day < credit[c].date + Validity
    BY <1>3 DEF EnterCredit
  <2>2. QED
    BY <1>1, <2>1
<1>4. ASSUME NEW c \in Credits, EnterAway(c) \/ \E d \in Amounts[c] : EnterPresent(c, d) PROVE Timed'
  <2>1. \E o \in {"away", "present"}, d \in Amounts[c] \cup {0} : Enter(o, c, d)
    BY <1>4 DEF EnterAway, EnterPresent
  <2>2. QED
    BY <1>1, <2>1
<1>5. ASSUME EnterTerminate PROVE Timed'
  <2>1. Enter("terminate", 0, 0)
    BY <1>5 DEF EnterTerminate
  <2>2. QED
    BY <1>1, <2>1
<1>6. QED
  BY <1>2, <1>3, <1>4, <1>5

LEMMA FinishTimed ==
    ASSUME Timed, Inv', NEW t \in open, Finish(t)
    PROVE  Timed'
<1>1. Done(t) /\ Inv
  BY DEF Finish, FinishLeave, FinishCancel, FinishCredit, FinishPresent, FinishAway, FinishTerminate, Timed
<1>2. open' = {} /\ UNCHANGED <<day, sweeps>>
  BY <1>1, DoneIs
<1>3. Timely'
  BY <1>2 DEF Timely
<1>4. Later(ledger, ledger', day) /\ Of(ledger', "expired") \subseteq DOMAIN ledger
  BY FinishWrites
<1>5. day \in Nat /\ day' \in Nat /\ day <= day'
  BY <1>1, <1>2, DayIs
<1>6. \A k \in DOMAIN sweeps' : \E j \in DOMAIN sweeps : sweeps'[k] = sweeps[j]
  BY <1>2
<1>7. QED
  BY <1>3, <1>4, <1>5, <1>6, QuietKeeps

LEMMA RunsTimed ==
    ASSUME Timed, Inv', SweepRead \/ Tick \/ \E i \in DOMAIN sweeps : SweepLost(i)
    PROVE  Timed'
<1>1. day \in Nat /\ Inv
  BY DayIs DEF Timed
<1>2. Later(ledger, ledger, day) /\ Of(ledger, "expired") \subseteq DOMAIN ledger
  BY SameIsLater
<1>3. CASE SweepRead
  <2>1. UNCHANGED <<day, ledger, credit, open>>
    BY <1>3 DEF SweepRead
  <2>2. PICK x : x = [seen |-> Len(ledger), day |-> day]
    OBVIOUS
  <2>3. sweeps' = Append(sweeps, x) /\ x.seen = Len(ledger) /\ x.day = day
    BY <1>3, <2>2 DEF SweepRead
  <2>4. \A k \in DOMAIN sweeps' : (\E j \in DOMAIN sweeps : sweeps'[k] = sweeps[j]) \/ sweeps'[k] = x
    <3>1. PICK X, s, z : X = [seen : Nat, day : Nat] /\ s = sweeps /\ z = sweeps'
      OBVIOUS
    <3>2. s \in Seq(X) /\ z = Append(s, x)
      BY <1>1, <2>3, <3>1, SweepsType
    <3>3. \A k \in DOMAIN z : (k \in DOMAIN s /\ z[k] = s[k]) \/ z[k] = x
      BY <3>2
    <3>4. QED
      BY <3>1, <3>3
  <2>5. day <= day
    BY <1>1
  <2>6. \A k \in DOMAIN sweeps' : \/ \E j \in DOMAIN sweeps : sweeps'[k] = sweeps[j]
                                  \/ sweeps'[k].day <= day' /\ sweeps'[k].seen = Len(ledger')
    BY <2>1, <2>3, <2>4, <2>5
  <2>7. Timely'
    BY <2>1 DEF Timed, Timely
  <2>8. QED
    BY <1>1, <1>2, <2>1, <2>5, <2>6, <2>7, QuietKeeps
<1>4. CASE Tick
  <2>1. UNCHANGED <<ledger, sweeps, open>> /\ open = {} /\ day' = day + 1
    BY <1>4 DEF Tick
  <2>2. day' \in Nat /\ day <= day'
    BY <1>1, <2>1
  <2>3. Timely'
    BY <2>1 DEF Timely
  <2>4. \A k \in DOMAIN sweeps' : \E j \in DOMAIN sweeps : sweeps'[k] = sweeps[j]
    BY <2>1
  <2>5. QED
    BY <1>2, <2>1, <2>2, <2>3, <2>4, QuietKeeps
<1>5. CASE \E i \in DOMAIN sweeps : SweepLost(i)
  <2>1. PICK i \in DOMAIN sweeps : SweepLost(i)
    BY <1>5
  <2>2. UNCHANGED <<day, ledger, credit, open>> /\ sweeps' = RemoveAt(sweeps, i)
    BY <2>1 DEF SweepLost
  <2>3. \A k \in DOMAIN sweeps' : \E j \in DOMAIN sweeps : sweeps'[k] = sweeps[j]
    BY <1>1, <2>2, RunsLeft
  <2>4. Timely'
    BY <2>2 DEF Timed, Timely
  <2>5. day' \in Nat /\ day <= day'
    BY <1>1, <2>2
  <2>6. QED
    BY <1>2, <2>2, <2>3, <2>4, <2>5, QuietKeeps
<1>6. QED
  BY <1>3, <1>4, <1>5

LEMMA PostTimed ==
    ASSUME Timed, Inv', NEW i \in DOMAIN sweeps, SweepPost(i)
    PROVE  Timed'
<1>1. UNCHANGED <<day, credit, open>> /\ sweeps' = RemoveAt(sweeps, i)
  BY DEF SweepPost
<1>2. day \in Nat /\ Inv /\ Signed(ledger) /\ CoveredIn(ledger, day) /\ day <= day
  BY DayIs, LedgerIs DEF Timed, Covered, Inv
<1>3. PICK n, d : n = sweeps[i].seen /\ d = sweeps[i].day
  OBVIOUS
<1>4. /\ n \in Nat /\ d \in Nat /\ d <= day
      /\ \A k \in Earned(ledger) : k > n => ledger[k].expiry > d
  BY <1>2, <1>3, SweepsType DEF Timed, AllDated, Dated
<1>5. PICK part, posted : /\ Signed(part) /\ Extends(part, ledger) /\ DOMAIN part = 1..n
                          /\ Sweeps(posted, part, d, ledger) /\ ledger' = ledger \o posted
  BY <1>2, <1>3, SweepPostIs
<1>6. Later(part, ledger, d)
  <2>1. ASSUME NEW k \in Earned(ledger) \ DOMAIN part PROVE ledger[k].expiry > d
    <3>1. k \in 1..Len(ledger) /\ Len(ledger) \in Nat /\ k \notin 1..n
      BY <1>2, <1>5 DEF Earned, Of, Signed
    <3>2. k > n
      BY <1>4, <3>1
    <3>3. QED
      BY <1>4, <3>2
  <2>2. QED
    BY <1>5, <2>1 DEF Later
<1>7. PICK new : new = ledger'
  OBVIOUS
<1>8. new = ledger \o posted
  BY <1>5, <1>7
<1>9. CoveredIn(new, day) /\ Later(ledger, new, day) /\ Signed(new)
  BY <1>2, <1>4, <1>5, <1>6, <1>8, CoveredPosted
<1>10. Covered' /\ Timely'
  BY <1>1, <1>7, <1>9 DEF Timed, Covered, Timely
<1>11. AllDated'
  <2>1. \A k \in DOMAIN sweeps' : \E j \in DOMAIN sweeps : sweeps'[k] = sweeps[j]
    BY <1>1, <1>2, RunsLeft
  <2>2. day' \in Nat /\ day <= day' /\ Signed(ledger') /\ Later(ledger, ledger', day)
    BY <1>1, <1>2, <1>7, <1>9
  <2>3. QED
    BY <2>1, <2>2, DatedKeeps
<1>12. QED
  BY <1>10, <1>11 DEF Timed

LEMMA NextTimed == InTime /\ Timed /\ [Next]_vars => Timed'
<1> SUFFICES ASSUME InTime, Timed, [Next]_vars PROVE Timed'
  OBVIOUS
<1>1. Inv'
  BY NextKeeps DEF Timed
<1>2. CASE \/ \E r \in Requests : Submit(r) \/ Decide(r)
           \/ \E c \in Credits : DecideCredit(c)
  BY <1>1, <1>2, CallsTimed
<1>3. CASE \/ \E r \in Requests : EnterLeave(r) \/ EnterCancel(r)
           \/ \E c \in Credits : EnterCredit(c) \/ EnterAway(c) \/ \E d \in Amounts[c] : EnterPresent(c, d)
           \/ EnterTerminate
  BY <1>1, <1>3, EntersTimed
<1>4. CASE \E t \in open : Finish(t)
  BY <1>1, <1>4, FinishTimed
<1>5. CASE SweepRead \/ Tick \/ \E i \in DOMAIN sweeps : SweepLost(i)
  BY <1>1, <1>5, RunsTimed
<1>6. CASE \E i \in DOMAIN sweeps : SweepPost(i)
  BY <1>1, <1>6, PostTimed
<1>7. CASE UNCHANGED vars
  <2>1. UNCHANGED <<day, ledger, sweeps, credit, open>>
    BY <1>7 DEF vars
  <2>2. Timely'
    BY <2>1 DEF Timed, Timely
  <2>3. QED
    BY <1>1, <2>1, <2>2, StillKeeps
<1>8. QED
  BY <1>2, <1>3, <1>4, <1>5, <1>6, <1>7 DEF Next

(* What a run that nothing was written behind adds to what has lapsed. *)
Exact ==
    \A i \in DOMAIN sweeps :
          Fresh(i) /\ sweeps' = RemoveAt(sweeps, i) /\ ledger' # ledger =>
             Swept(ledger') = Max({Swept(ledger),
                                   Total(ledger, Due(ledger, sweeps[i].day)) - Consumed(ledger)})

LEMMA PostExact ==
    ASSUME Timed, NEW j \in DOMAIN sweeps, SweepPost(j)
    PROVE  Exact
<1>1. Inv /\ Signed(ledger) /\ CoveredIn(ledger, day)
  BY LedgerIs DEF Timed, Covered, Inv
<1>2. SUFFICES ASSUME NEW i \in DOMAIN sweeps, Fresh(i), sweeps' = RemoveAt(sweeps, i)
               PROVE  Swept(ledger') = Max({Swept(ledger),
                                            Total(ledger, Due(ledger, sweeps[i].day)) - Consumed(ledger)})
  BY DEF Exact
<1>3. sweeps[i] = sweeps[j]
  <2>1. PICK X, s : X = [seen : Nat, day : Nat] /\ s = sweeps
    OBVIOUS
  <2>2. s \in Seq(X) /\ RemoveAt(s, i) = RemoveAt(s, j)
    BY <1>1, <1>2, <2>1, SweepsType DEF SweepPost
  <2>3. s[i] = s[j]
    BY <2>1, <2>2, SameOne
  <2>4. QED
    BY <2>1, <2>3
<1>4. PICK d \in Nat : d = sweeps[i].day /\ d = sweeps[j].day
  BY <1>1, <1>3, SweepsType
<1>5. Fresh(j)
  BY <1>2, <1>3 DEF Fresh
<1>6. PICK posted : Sweeps(posted, ledger, d, ledger) /\ ledger' = ledger \o posted
  BY <1>1, <1>4, <1>5, SweepPostIs
<1>7. PICK new : new = ledger'
  OBVIOUS
<1>8. new = ledger \o posted
  BY <1>6, <1>7
<1>9. Swept(new) = Max({Swept(ledger), Total(ledger, Due(ledger, d)) - Consumed(ledger)})
  BY <1>1, <1>6, <1>8, FreshTakes
<1>10. QED
  BY <1>4, <1>7, <1>9

(* When HR decides each credit before it would have lapsed, a run of the
   expiry job behind which nothing was written is exact: what has lapsed in
   all is then what fell due by its day less what was spent, or what it was.
   The hypothesis is needed: a credit decided after it should have lapsed
   comes to the ledger before those whose place in the order it takes. *)
THEOREM SweepsAreExact == InTime => (Spec => SweepIsExact)
<1> SUFFICES ASSUME InTime PROVE Spec => SweepIsExact
  OBVIOUS
<1>1. Timed /\ [Next]_vars => Timed'
  BY NextTimed
<1>2. ASSUME Timed, [Next]_vars PROVE [Exact]_vars
  <2>1. CASE \E j \in DOMAIN sweeps : SweepPost(j)
    BY <1>2, <2>1, PostExact
  <2>2. CASE UNCHANGED vars
    BY <2>2
  <2>3. CASE ~ (\E j \in DOMAIN sweeps : SweepPost(j)) /\ ~ UNCHANGED vars
    <3>1. UNCHANGED ledger \/ UNCHANGED sweeps
      <4>1. CASE \E t \in open : Finish(t)
        BY <4>1 DEF Finish, FinishLeave, FinishCancel, FinishCredit, FinishPresent, FinishAway,
           FinishTerminate, Done
      <4>2. QED
        BY <1>2, <2>3, <4>1 DEF Next, Submit, Decide, EnterLeave, EnterCancel, DecideCredit, EnterCredit,
           EnterAway, EnterPresent, EnterTerminate, Enter, SweepRead, SweepLost, Tick
    <3>2. ASSUME NEW i \in DOMAIN sweeps, sweeps' = RemoveAt(sweeps, i) PROVE sweeps' # sweeps
      <4>1. PICK X, s, z : X = [seen : Nat, day : Nat] /\ s = sweeps /\ z = RemoveAt(sweeps, i)
        OBVIOUS
      <4>2. s \in Seq(X) /\ i \in DOMAIN s /\ z = RemoveAt(s, i)
        BY <1>2, <4>1, SweepsType DEF Timed
      <4>3. z # s
        BY <4>2, Shorter
      <4>4. QED
        BY <3>2, <4>1, <4>3
    <3>3. Exact
      BY <3>1, <3>2 DEF Exact
    <3>4. QED
      BY <3>3
  <2>4. QED
    BY <2>1, <2>2, <2>3
<1>3. QED
  BY <1>1, <1>2, InitTimed, PTL DEF Spec, SweepIsExact, Exact

------------------------------------------------------------------------------
(* RecoveryWindows. *)

------------------------------------------------------------------------------
(* Windows of a period. *)

LEMMA RulesAre ==
    /\ WindowLength \in Nat /\ WindowLength > 0 /\ RestGap \in Nat /\ RestGap > 0 /\ RestGap < WindowLength
    /\ ZeroMax \in Nat /\ ZeroMax > 0 /\ RestZeroBelow \in Nat /\ RestZeroBelow > 0
BY RulesAssumption DEF ValidRules

LEMMA Divided ==
    ASSUME NEW d \in Nat, NEW n \in Nat, n > 0
    PROVE  d \div n \in Nat /\ n * (d \div n) <= d /\ d < n * (d \div n) + n /\ d \div n <= d
OBVIOUS

LEMMA QuotientIs ==
    ASSUME NEW d \in Nat, NEW n \in Nat, n > 0, NEW q \in Int, n * q <= d, d < n * q + n
    PROVE  d \div n = q
OBVIOUS

(* An instant lies in its window, and in no other. *)
LEMMA InWindow ==
    ASSUME NEW s \in Nat, NEW t \in Nat, s <= t
    PROVE  /\ WindowOf(s, t) \in Nat /\ WindowOf(s, t) <= t + 1
           /\ WindowStart(s, WindowOf(s, t)) <= t /\ t < WindowEnd(s, WindowOf(s, t))
<1>1. PICK d, q : d = t - s /\ q = d \div WindowLength
  OBVIOUS
<1>2. /\ d \in Nat /\ q \in Nat /\ q <= d
      /\ WindowLength * q <= d /\ d < WindowLength * q + WindowLength
  BY <1>1, Divided, RulesAre
<1>3. WindowOf(s, t) = q + 1
  BY <1>1 DEF WindowOf
<1>4. PICK m : m = WindowLength * q
  OBVIOUS
<1>5. m \in Nat /\ q * WindowLength = m /\ (q + 1) * WindowLength = m + WindowLength
  BY <1>2, <1>4, RulesAre
<1>6. WindowStart(s, q + 1) = s + m /\ WindowEnd(s, q + 1) = s + (m + WindowLength)
  BY <1>2, <1>5, RulesAre DEF WindowStart, WindowEnd
<1>7. QED
  BY <1>1, <1>2, <1>3, <1>4, <1>5, <1>6, RulesAre

LEMMA Ends ==
    ASSUME NEW s \in Nat, NEW k \in Int
    PROVE  WindowStart(s, k) \in Int /\ WindowEnd(s, k) = WindowStart(s, k) + WindowLength
<1>1. PICK m : m = (k - 1) * WindowLength
  OBVIOUS
<1>2. m \in Int /\ k * WindowLength = m + WindowLength
  BY <1>1, RulesAre
<1>3. QED
  BY <1>1, <1>2, RulesAre DEF WindowStart, WindowEnd

LEMMA OfWindow ==
    ASSUME NEW s \in Nat, NEW t \in Nat, s <= t, NEW k \in Int, WindowStart(s, k) <= t, t < WindowEnd(s, k)
    PROVE  WindowOf(s, t) = k
<1>1. PICK d, m : d = t - s /\ m = WindowLength * (k - 1)
  OBVIOUS
<1>2. d \in Nat /\ m \in Int /\ (k - 1) * WindowLength = m
  BY <1>1, RulesAre
<1>3. m <= d /\ d < m + WindowLength
  BY <1>1, <1>2, Ends, RulesAre DEF WindowStart
<1>4. d \div WindowLength = k - 1
  BY <1>1, <1>2, <1>3, QuotientIs, RulesAre
<1>5. QED
  BY <1>1, <1>4 DEF WindowOf

------------------------------------------------------------------------------
(* Recorded work up to the instant t. *)

IntervalOf(s, t) == [in |-> s.in, out |-> IF s.out = Running THEN t ELSE s.out, open |-> s.out = Running, byHr |-> s.byHr]
Real(work, t) ==
    \A i \in work : /\ i.in \in Nat /\ i.out \in Nat /\ i.in < i.out /\ i.out <= t
                    /\ i.open \in BOOLEAN /\ i.byHr \in BOOLEAN /\ (i.open => i.out = t)
Past(log, t) ==
    \A n \in DOMAIN log : /\ log[n].in <= t
                          /\ log[n].out = Running \/ (log[n].in < log[n].out /\ log[n].out <= t)

LEMMA LogIs ==
    ASSUME NEW log \in Seq(Session), NEW n \in DOMAIN log
    PROVE  /\ log[n] \in Session /\ log[n].in \in Nat /\ log[n].byHr \in BOOLEAN
           /\ log[n].out = Running \/ log[n].out \in Nat
           /\ Running \notin Nat
<1>1. log[n] \in Session
  OBVIOUS
<1>2. Instant \subseteq Nat /\ Running \notin Nat
  BY WindowsAssumption DEF Instant, Running
<1>3. QED
  BY <1>1, <1>2 DEF Session

LEMMA WorkIs ==
    ASSUME NEW log, now \in Nat
    PROVE  Work(log) = {i \in {IntervalOf(log[n], now) : n \in DOMAIN log} : i.out > i.in}
<1>1. Range(log) = {log[n] : n \in DOMAIN log}
  BY DEF Range
<1>2. QED
  BY <1>1 DEF Work, IntervalOf

LEMMA WorkReal ==
    ASSUME NEW log \in Seq(Session), Past(log, now), now \in Nat
    PROVE  Real(Work(log), now)
<1>1. SUFFICES ASSUME NEW n \in DOMAIN log, NEW i, i = IntervalOf(log[n], now), i.out > i.in
               PROVE  /\ i.in \in Nat /\ i.out \in Nat /\ i.in < i.out /\ i.out <= now
                      /\ i.open \in BOOLEAN /\ i.byHr \in BOOLEAN /\ (i.open => i.out = now)
  BY WorkIs DEF Real
<1>2. /\ i.in = log[n].in /\ i.byHr = log[n].byHr /\ i.open = (log[n].out = Running)
      /\ i.out = IF log[n].out = Running THEN now ELSE log[n].out
  BY <1>1 DEF IntervalOf
<1>3. log[n].in \in Nat /\ log[n].byHr \in BOOLEAN /\ (log[n].out = Running \/ log[n].out \in Nat)
  BY LogIs
<1>4. log[n].in <= now /\ (log[n].out = Running \/ log[n].out <= now)
  BY DEF Past
<1>5. i.in < i.out
  BY <1>1, <1>2, <1>3
<1>6. i.open \in BOOLEAN /\ (i.open => i.out = now)
  BY <1>2
<1>7. i.out \in Nat /\ i.out <= now
  BY <1>2, <1>3, <1>4
<1>8. QED
  BY <1>2, <1>3, <1>5, <1>6, <1>7

(* The highest of some numbers. *)
LEMMA HighestIs ==
    ASSUME NEW S \in SUBSET Nat, S # {}, NEW t \in Nat, \A n \in S : n <= t
    PROVE  Max(S) \in S /\ \A n \in S : n <= Max(S)
<1> DEFINE D == {t - n : n \in S}
<1>1. D \in SUBSET Nat /\ D # {}
  <2>1. \A n \in S : n \in Nat /\ n <= t /\ t - n \in Nat
    OBVIOUS
  <2>2. \A d \in D : d \in Nat
    BY <2>1
  <2>3. PICK n \in S : TRUE
    OBVIOUS
  <2>4. t - n \in D
    OBVIOUS
  <2>5. QED
    BY <2>2, <2>4
<1>2. PICK d \in D : \A e \in D : d <= e
  <2> HIDE DEF D
  <2>1. QED
    BY <1>1, SmallestNumber
<1>3. PICK m \in S : d = t - m
  OBVIOUS
<1>4. \A n \in S : m >= n
  <2>1. TAKE n \in S
  <2>2. t - n \in D /\ m \in Nat /\ n \in Nat
    OBVIOUS
  <2>3. d <= t - n
    BY <1>2, <2>2
  <2>4. QED
    BY <1>3, <2>2, <2>3
<1>5. QED
  BY <1>4 DEF Max

(* The work of a period. *)
LEMMA PeriodIs ==
    ASSUME NEW t \in Nat, NEW work, Real(work, t), NEW s \in Starts(work)
    PROVE  /\ PeriodWork(work, s) # {} /\ PeriodWork(work, s) \subseteq work
           /\ \A i \in PeriodWork(work, s) : i.in \in Nat /\ i.out \in Nat /\ s <= i.in /\ i.in < i.out /\ i.out <= t
           /\ s \in Nat /\ s < t
           /\ LastWorkEnd(work, s) \in Nat
           /\ \A i \in PeriodWork(work, s) : i.out <= LastWorkEnd(work, s)
           /\ \E i \in PeriodWork(work, s) : i.out = LastWorkEnd(work, s)
<1>1. PICK i \in work : i.in = s
  BY DEF Starts
<1>2. Starts(work) \subseteq Nat
  BY DEF Starts, Real
<1>3. i \in PeriodWork(work, s)
  <2>1. \A u \in Starts(work) : u <= s \/ u > i.in
    BY <1>1, <1>2
  <2>2. QED
    BY <1>1, <1>2, <2>1 DEF PeriodWork
<1>4. /\ PeriodWork(work, s) \subseteq work
      /\ \A j \in PeriodWork(work, s) : s <= j.in
  BY <1>1, <1>2 DEF PeriodWork, Real
<1>5. \A j \in PeriodWork(work, s) : j.in \in Nat /\ j.out \in Nat /\ s <= j.in /\ j.in < j.out /\ j.out <= t
  BY <1>4 DEF Real
<1>6. PICK S : S = {j.out : j \in PeriodWork(work, s)}
  OBVIOUS
<1>7. S \in SUBSET Nat /\ S # {} /\ \A n \in S : n <= t
  BY <1>3, <1>5, <1>6
<1>8. Max(S) \in S /\ \A n \in S : n <= Max(S)
  BY <1>7, HighestIs
<1>9. LastWorkEnd(work, s) = Max(S)
  BY <1>6 DEF LastWorkEnd
<1>10. s \in Nat /\ s < t
  BY <1>1, <1>2, <1>3, <1>5
<1>11. QED
  BY <1>3, <1>4, <1>5, <1>6, <1>7, <1>8, <1>9, <1>10

LEMMA InstantsAre ==
    ASSUME NEW t \in Nat, NEW work, Real(work, t), NEW s \in Starts(work)
    PROVE  /\ \A u : u \in Instants(work, s) <=> u \in Nat /\ \E i \in PeriodWork(work, s) : i.in <= u /\ u < i.out
           /\ \A u \in Instants(work, s) : u \in Nat /\ s <= u /\ u < t
<1>1. \A i \in PeriodWork(work, s) : i.in \in Nat /\ i.out \in Nat /\ s <= i.in /\ i.in < i.out /\ i.out <= t
  BY PeriodIs
<1>2. s \in Nat
  BY PeriodIs
<1>3. \A u : u \in Instants(work, s) <=> \E i \in PeriodWork(work, s) : u \in i.in .. (i.out - 1)
  BY DEF Instants
<1>4. \A u, i : i \in PeriodWork(work, s) => (u \in i.in .. (i.out - 1) <=> u \in Nat /\ i.in <= u /\ u < i.out)
  BY <1>1
<1>5. \A u : u \in Instants(work, s) <=> u \in Nat /\ \E i \in PeriodWork(work, s) : i.in <= u /\ u < i.out
  BY <1>3, <1>4
<1>6. ASSUME NEW u \in Instants(work, s) PROVE u \in Nat /\ s <= u /\ u < t
  <2>1. u \in Nat
    BY <1>5
  <2>2. PICK i \in PeriodWork(work, s) : i.in <= u /\ u < i.out
    BY <1>5
  <2>3. i.in \in Nat /\ i.out \in Nat /\ s <= i.in /\ i.out <= t
    BY <1>1
  <2>4. QED
    BY <1>2, <2>1, <2>2, <2>3
<1>7. QED
  BY <1>5, <1>6

------------------------------------------------------------------------------
(* What a window earns. *)

At(work, s, k) == {t \in Instants(work, s) : WindowOf(s, t) = k}
HrAt(work, s, k) ==
    \E i \in PeriodWork(work, s) : i.byHr /\ i.in < WindowEnd(s, k) /\ i.out > WindowStart(s, k)

LEMMA RecordedIs ==
    ASSUME NEW t \in Nat, NEW work, Real(work, t), NEW s \in Starts(work), NEW k
    PROVE  /\ Recorded(work, s, k) \in Nat
           /\ Recorded(work, s, k) = 0 <=> At(work, s, k) = {}
           /\ k \in Indexes(work, s) <=> At(work, s, k) # {}
<1>1. At(work, s, k) \in SUBSET (0..t)
  BY InstantsAre DEF At
<1>2. IsFiniteSet(At(work, s, k))
  <2>1. IsFiniteSet(0..t)
    BY FS_Interval
  <2>2. QED
    BY <1>1, <2>1, FS_Subset
<1>3. Recorded(work, s, k) = Cardinality(At(work, s, k))
  BY DEF Recorded, At
<1>4. Recorded(work, s, k) \in Nat
  BY <1>2, <1>3, FS_CardinalityType
<1>5. Recorded(work, s, k) = 0 <=> At(work, s, k) = {}
  BY <1>2, <1>3, FS_EmptySet
<1>6. QED
  BY <1>4, <1>5 DEF Indexes, At

LEMMA IndexesAre ==
    ASSUME NEW t \in Nat, NEW work, Real(work, t), NEW s \in Starts(work)
    PROVE  Indexes(work, s) \subseteq 0..(t + 1)
<1>1. SUFFICES ASSUME NEW u \in Instants(work, s) PROVE WindowOf(s, u) \in 0..(t + 1)
  BY DEF Indexes
<1>2. u \in Nat /\ s <= u /\ u < t /\ s \in Nat
  BY InstantsAre, PeriodIs
<1>3. WindowOf(s, u) \in Nat /\ WindowOf(s, u) <= u + 1
  BY <1>2, InWindow
<1>4. QED
  BY <1>2, <1>3

LEMMA EntitlementIs ==
    /\ \A start, recorded : Entitlement(start, recorded) \in 0..2
    /\ \A start : Entitlement(start, 0) = 0
<1>1. \A start, recorded : Entitlement(start, recorded) \in 0..2
  BY DEF Entitlement
<1>2. 0 < RestZeroBelow /\ 0 <= ZeroMax
  BY RulesAre
<1>3. \A start : Entitlement(start, 0) = 0
  BY <1>2 DEF Entitlement
<1>4. QED
  BY <1>1, <1>3

LEMMA FactsAre ==
    ASSUME NEW work, NEW s, NEW k
    PROVE  LET f == Facts(work, s, k)
           IN  /\ f.recorded = Recorded(work, s, k)
               /\ f.days = Entitlement(WindowStart(s, k), Recorded(work, s, k)) /\ f.days \in 0..2
               /\ f.closed = Closed(work, s, k, now) /\ f.closed \in BOOLEAN
               /\ f.byHr = HrAt(work, s, k) /\ f.byHr \in BOOLEAN
<1>1. PICK r, d, c, h : /\ r = Recorded(work, s, k) /\ d = Entitlement(WindowStart(s, k), Recorded(work, s, k))
                        /\ c = Closed(work, s, k, now) /\ h = HrAt(work, s, k)
  OBVIOUS
<1>2. Facts(work, s, k) = [recorded |-> r, days |-> d, closed |-> c, byHr |-> h]
  BY <1>1 DEF Facts, HrAt
<1>3. c \in BOOLEAN /\ h \in BOOLEAN
  BY <1>1 DEF Closed, Ended, HrAt
<1>4. d \in 0..2
  BY <1>1, EntitlementIs
<1>5. QED
  BY <1>1, <1>2, <1>3, <1>4

(* A window without recorded work: nothing is earned, and it is closed once
   the rest after its start has passed. *)
LEMMA NothingAt ==
    ASSUME now \in Nat, NEW work, Real(work, now), NEW s \in Starts(work), NEW k \in Nat, k \notin Indexes(work, s)
    PROVE  LET f == Facts(work, s, k)
           IN  /\ f.recorded = 0 /\ f.days = 0 /\ ~f.byHr
               /\ WindowStart(s, k) + RestGap <= now => f.closed
<1>1. At(work, s, k) = {} /\ Recorded(work, s, k) = 0
  BY RecordedIs
<1>2. /\ \A u : u \in Instants(work, s) <=> u \in Nat /\ \E i \in PeriodWork(work, s) : i.in <= u /\ u < i.out
      /\ s \in Nat
      /\ \A i \in PeriodWork(work, s) : i.in \in Nat /\ i.out \in Nat /\ s <= i.in /\ i.in < i.out /\ i.out <= now
  BY InstantsAre, PeriodIs
<1>3. PICK a, b : a = WindowStart(s, k) /\ b = WindowEnd(s, k) /\ a \in Int /\ b = a + WindowLength
  BY <1>2, Ends
<1>4. ASSUME NEW u \in Nat, NEW i \in PeriodWork(work, s), i.in <= u, u < i.out, a <= u, u < b PROVE FALSE
  <2>1. u \in Instants(work, s) /\ s <= u
    BY <1>2, <1>4
  <2>2. WindowStart(s, k) <= u /\ u < WindowEnd(s, k) /\ s \in Nat /\ k \in Int
    BY <1>2, <1>3, <1>4
  <2>3. WindowOf(s, u) = k
    BY <2>1, <2>2, OfWindow
  <2>4. QED
    BY <1>1, <2>1, <2>3 DEF At
<1>5. ~HrAt(work, s, k)
  <2>1. SUFFICES ASSUME NEW i \in PeriodWork(work, s), i.in < b, i.out > a PROVE FALSE
    BY <1>3 DEF HrAt
  <2>2. PICK u : u = IF a <= i.in THEN i.in ELSE a
    OBVIOUS
  <2>3. u \in Nat /\ i.in <= u /\ u < i.out /\ a <= u /\ u < b
    BY <1>2, <1>3, <2>1, <2>2, RulesAre
  <2>4. QED
    BY <1>4, <2>3
<1>6. ASSUME a + RestGap <= now PROVE Closed(work, s, k, now)
  <2>1. CASE b <= now
    BY <1>3, <2>1 DEF Closed
  <2>2. CASE now < b
    <3>1. \A i \in PeriodWork(work, s) : i.out <= a
      <4>1. SUFFICES ASSUME NEW i \in PeriodWork(work, s), i.out > a PROVE FALSE
        BY <1>2, <1>3
      <4>2. i.out \in Nat /\ i.out <= now /\ i.in < i.out /\ i.in \in Nat
        BY <1>2
      <4>3. i.out - 1 \in Nat /\ i.in <= i.out - 1 /\ i.out - 1 < i.out /\ a <= i.out - 1 /\ i.out - 1 < b
        BY <1>3, <2>2, <4>1, <4>2
      <4>4. QED
        BY <1>4, <4>3
    <3>2. \A i \in PeriodWork(work, s) : ~i.open
      <4>1. \A i \in PeriodWork(work, s) : i \in work
        BY DEF PeriodWork
      <4>2. a < now
        BY <1>3, <1>6, RulesAre
      <4>3. QED
        BY <3>1, <4>1, <4>2, <1>3 DEF Real
    <3>3. PICK e : e = LastWorkEnd(work, s)
      OBVIOUS
    <3>4. e \in Nat /\ \E i \in PeriodWork(work, s) : i.out = e
      BY <3>3, PeriodIs
    <3>5. e <= a
      BY <3>1, <3>4
    <3>6. e + RestGap <= now
      BY <1>3, <1>6, <3>4, <3>5, RulesAre
    <3>7. QED
      BY <3>2, <3>3, <3>6 DEF Closed, Ended
  <2>3. QED
    BY <1>3, <2>1, <2>2, RulesAre
<1>7. QED
  BY <1>1, <1>3, <1>5, <1>6, FactsAre, EntitlementIs

(* A window with recorded work earns by it; when it closes the rest after its
   start has passed. *)
LEMMA SomethingAt ==
    ASSUME now \in Nat, NEW work, Real(work, now), NEW s \in Starts(work), NEW k \in Indexes(work, s)
    PROVE  LET f == Facts(work, s, k)
           IN  f.recorded \in Nat /\ f.recorded > 0 /\ (f.closed => WindowStart(s, k) + RestGap <= now)
<1>1. At(work, s, k) # {} /\ Recorded(work, s, k) \in Nat /\ Recorded(work, s, k) # 0
  BY RecordedIs
<1>2. PICK u \in Instants(work, s) : WindowOf(s, u) = k
  BY <1>1 DEF At
<1>3. s \in Nat /\ u \in Nat /\ s <= u /\ u < now /\ \E i \in PeriodWork(work, s) : i.in <= u /\ u < i.out
  BY InstantsAre, PeriodIs
<1>4. k \in Nat /\ WindowStart(s, k) <= u
  BY <1>2, <1>3, InWindow
<1>5. PICK a : a = WindowStart(s, k) /\ a \in Int /\ WindowEnd(s, k) = a + WindowLength
  BY <1>3, <1>4, Ends
<1>6. ASSUME Closed(work, s, k, now) PROVE a + RestGap <= now
  <2>1. CASE WindowEnd(s, k) <= now
    BY <1>5, <2>1, RulesAre
  <2>2. CASE Ended(work, s, now)
    <3>1. PICK e : e = LastWorkEnd(work, s)
      OBVIOUS
    <3>2. e \in Nat /\ e + RestGap <= now
      BY <2>2, <3>1, PeriodIs DEF Ended
    <3>3. u < e
      <4>1. PICK i \in PeriodWork(work, s) : i.in <= u /\ u < i.out
        BY <1>3
      <4>2. i.out <= e /\ i.out \in Nat
        BY <3>1, PeriodIs
      <4>3. QED
        BY <1>3, <3>2, <4>1, <4>2
    <3>4. QED
      BY <1>3, <1>4, <1>5, <3>2, <3>3, RulesAre
  <2>3. QED
    BY <1>6, <2>1, <2>2 DEF Closed
<1>7. QED
  BY <1>1, <1>5, <1>6, FactsAre

------------------------------------------------------------------------------
(* Time passes: what a running session has recorded grows by an instant. *)

(* Nothing else is recorded once a running session has begun. *)
LastRuns(work) == \A i, j \in work : i.open /\ i # j => j.out <= i.in /\ ~j.open

(* new is the work old an instant after t. *)
Ages(new, old, t) ==
    /\ Real(old, t) /\ Real(new, t + 1) /\ LastRuns(old) /\ LastRuns(new)
    /\ \A i \in old : ~i.open => i \in new
    /\ \A i \in new : ~i.open => i \in old
    /\ \A i \in old : i.open => \E j \in new : j.open /\ j.in = i.in /\ j.byHr = i.byHr
    /\ \A i \in new : i.open /\ i.in < t => \E j \in old : j.open /\ j.in = i.in /\ j.byHr = i.byHr

LEMMA StartsAge ==
    ASSUME NEW t \in Nat, NEW old, NEW new, Ages(new, old, t)
    PROVE  Starts(old) \subseteq Starts(new) /\ Starts(new) \subseteq Starts(old) \cup {t}
<1>1. /\ \A i \in old : i.in \in Nat /\ i.out \in Nat /\ i.in < i.out /\ i.out <= t /\ (i.open => i.out = t)
      /\ \A i \in new : i.in \in Nat /\ i.out \in Nat /\ i.in < i.out /\ i.out <= t + 1 /\ (i.open => i.out = t + 1)
  BY DEF Ages, Real
<1>2. ASSUME NEW i \in old,  \A j \in old : j.in < i.in => i.in - j.out >= RestGap
      PROVE  \E k \in new : k.in = i.in /\ \A j \in new : j.in < k.in => k.in - j.out >= RestGap
  <2>1. PICK k \in new : k.in = i.in
    BY DEF Ages
  <2>2. ASSUME NEW j \in new, j.in < k.in PROVE ~j.open
    <3>1. SUFFICES ASSUME j.open PROVE FALSE
      OBVIOUS
    <3>2. j # k
      BY <2>2, <1>1
    <3>3. k.out <= j.in
      BY <3>1, <3>2 DEF Ages, LastRuns
    <3>4. QED
      BY <1>1, <2>2, <3>3
  <2>3. \A j \in new : j.in < k.in => j \in old
    BY <2>2 DEF Ages
  <2>4. QED
    BY <1>2, <2>1, <2>3
<1>3. ASSUME NEW i \in new, i.in < t, \A j \in new : j.in < i.in => i.in - j.out >= RestGap
      PROVE  \E k \in old : k.in = i.in /\ \A j \in old : j.in < k.in => k.in - j.out >= RestGap
  <2>1. PICK k \in old : k.in = i.in
    BY <1>3 DEF Ages
  <2>2. ASSUME NEW j \in old, j.in < k.in PROVE ~j.open
    <3>1. SUFFICES ASSUME j.open PROVE FALSE
      OBVIOUS
    <3>2. j # k
      BY <2>2, <1>1
    <3>3. k.out <= j.in
      BY <3>1, <3>2 DEF Ages, LastRuns
    <3>4. QED
      BY <1>1, <2>2, <3>3
  <2>3. \A j \in old : j.in < k.in => j \in new
    BY <2>2 DEF Ages
  <2>4. QED
    BY <1>3, <2>1, <2>3
<1>4. \A i \in new : i.in < t \/ i.in = t
  BY <1>1
<1>5. QED
  BY <1>2, <1>3, <1>4 DEF Starts

LEMMA PeriodAges ==
    ASSUME NEW t \in Nat, NEW old, NEW new, Ages(new, old, t), NEW s \in Starts(old), NEW i \in old, NEW j \in new, i.in = j.in
    PROVE  i \in PeriodWork(old, s) <=> j \in PeriodWork(new, s)
<1>1. i.in \in Nat /\ i.in < t
  BY DEF Ages, Real
<1>2. (\A u \in Starts(old) : u <= s \/ u > i.in) <=> (\A u \in Starts(new) : u <= s \/ u > i.in)
  BY <1>1, StartsAge
<1>3. QED
  BY <1>2 DEF PeriodWork

LEMMA InPeriod ==
    ASSUME NEW t \in Nat, NEW old, NEW new, Ages(new, old, t), NEW s \in Starts(old)
    PROVE  /\ s \in Nat /\ s < t /\ s \in Starts(new)
           /\ \A i \in PeriodWork(old, s) : i \in old /\ i.in \in Nat /\ i.out \in Nat /\ s <= i.in /\ i.in < i.out /\ i.out <= t
                                            /\ i.open \in BOOLEAN /\ (i.open => i.out = t)
           /\ \A i \in PeriodWork(new, s) : i \in new /\ i.in \in Nat /\ i.out \in Nat /\ s <= i.in /\ i.in < i.out /\ i.out <= t + 1
                                            /\ i.open \in BOOLEAN /\ (i.open => i.out = t + 1)
<1>1. s \in Starts(new) /\ t + 1 \in Nat
  BY StartsAge
<1>2. PICK t2 \in Nat : t2 = t + 1
  BY <1>1
<1>3. Real(old, t) /\ Real(new, t2)
  BY <1>2 DEF Ages
<1>4. /\ \A i \in PeriodWork(old, s) : i \in old /\ i.in \in Nat /\ i.out \in Nat /\ s <= i.in /\ i.in < i.out /\ i.out <= t
      /\ s \in Nat /\ s < t
  BY <1>3, PeriodIs
<1>5. \A i \in PeriodWork(new, s) : i \in new /\ i.in \in Nat /\ i.out \in Nat /\ s <= i.in /\ i.in < i.out /\ i.out <= t2
  BY <1>1, <1>3, PeriodIs
<1>6. QED
  BY <1>1, <1>2, <1>3, <1>4, <1>5 DEF Real

(* A period whose rest has passed is left alone. *)
LEMMA EndedAges ==
    ASSUME NEW t \in Nat, NEW old, NEW new, Ages(new, old, t), NEW s \in Starts(old), Ended(old, s, t)
    PROVE  PeriodWork(new, s) = PeriodWork(old, s)
<1>1. /\ s \in Nat /\ s < t
      /\ \A i \in PeriodWork(old, s) : i \in old /\ ~i.open /\ i.out \in Nat
      /\ \A i \in PeriodWork(new, s) : i \in new /\ i.in \in Nat /\ i.out \in Nat /\ s <= i.in /\ i.in < i.out /\ i.out <= t + 1
  BY InPeriod DEF Ended
<1>2. \A i \in PeriodWork(old, s) : i \in PeriodWork(new, s)
  <2>1. TAKE i \in PeriodWork(old, s)
  <2>2. i \in old /\ i \in new
    BY <1>1 DEF Ages
  <2>3. QED
    BY <2>2, PeriodAges
<1>3. \A i \in PeriodWork(old, s) : i.out + RestGap <= t
  <2>1. PICK e : e = LastWorkEnd(old, s)
    OBVIOUS
  <2>2. Real(old, t)
    BY DEF Ages
  <2>3. e \in Nat /\ \A i \in PeriodWork(old, s) : i.out <= e
    BY <2>1, <2>2, PeriodIs
  <2>4. e + RestGap <= t
    BY <2>1 DEF Ended
  <2>5. QED
    BY <1>1, <2>3, <2>4, RulesAre
<1>4. ASSUME NEW i \in PeriodWork(new, s), i.open PROVE FALSE
  <2>1. i \in new /\ i.in \in Nat /\ i.in <= t /\ s <= i.in
    BY <1>1
  <2>2. CASE i.in < t
    <3>1. PICK j \in old : j.open /\ j.in = i.in
      BY <1>4, <2>1, <2>2 DEF Ages
    <3>2. j \in PeriodWork(old, s)
      BY <2>1, <3>1, PeriodAges
    <3>3. QED
      BY <1>1, <3>1, <3>2
  <2>3. CASE i.in = t
    <3>1. t \notin Starts(new)
      <4>1. \A u \in Starts(new) : u <= s \/ u > i.in
        BY DEF PeriodWork
      <4>2. QED
        BY <1>1, <2>3, <4>1
    <3>2. PICK j \in new : j.in < t /\ ~(t - j.out >= RestGap)
      BY <2>1, <2>3, <3>1 DEF Starts
    <3>3. ~j.open /\ j \in old
      <4>1. j # i
        BY <2>3, <3>2
      <4>2. QED
        BY <1>4, <2>1, <4>1 DEF Ages, LastRuns
    <3>4. j.in \in Nat /\ j.out \in Nat /\ j.in < j.out
      BY <3>3 DEF Ages, Real
    <3>5. s <= j.in
      <4>1. SUFFICES ASSUME j.in < s PROVE FALSE
        BY <1>1, <3>4
      <4>2. s - j.out >= RestGap
        BY <3>3, <4>1 DEF Starts
      <4>3. QED
        BY <1>1, <3>2, <3>4, <4>2, RulesAre
    <3>6. \A u \in Starts(old) : u <= s \/ u > j.in
      <4>1. \A u \in Starts(new) : u <= s \/ u > t
        BY <2>3 DEF PeriodWork
      <4>2. Starts(old) \subseteq Starts(new)
        BY StartsAge
      <4>3. Starts(old) \subseteq Nat
        BY DEF Starts, Ages, Real
      <4>4. QED
        BY <2>1, <3>2, <3>4, <4>1, <4>2, <4>3
    <3>7. j \in PeriodWork(old, s)
      BY <3>3, <3>5, <3>6 DEF PeriodWork
    <3>8. j.out + RestGap <= t
      BY <1>3, <3>7
    <3>9. QED
      BY <3>2, <3>4, <3>8, RulesAre
  <2>4. QED
    BY <2>1, <2>2, <2>3
<1>5. \A i \in PeriodWork(new, s) : i \in PeriodWork(old, s)
  <2>1. TAKE i \in PeriodWork(new, s)
  <2>2. i \in new /\ ~i.open
    BY <1>1, <1>4
  <2>3. i \in old
    BY <2>2 DEF Ages
  <2>4. QED
    BY <2>2, <2>3, PeriodAges
<1>6. QED
  BY <1>2, <1>5

LEMMA InstantsAge ==
    ASSUME NEW t \in Nat, NEW old, NEW new, Ages(new, old, t), NEW s \in Starts(old), NEW u \in Nat, u < t
    PROVE  u \in Instants(new, s) <=> u \in Instants(old, s)
<1>1. /\ \A i \in PeriodWork(old, s) : i \in old /\ i.open \in BOOLEAN /\ i.out \in Nat /\ i.in \in Nat
      /\ \A i \in PeriodWork(new, s) : i \in new /\ i.open \in BOOLEAN /\ i.out \in Nat /\ i.in \in Nat
      /\ \A i \in old : i.open => i.out = t
      /\ \A i \in new : i.open => i.out = t + 1
  <2>1. /\ \A i \in old : i.open => i.out = t
        /\ \A i \in new : i.open => i.out = t + 1
    BY DEF Ages, Real
  <2>2. QED
    BY <2>1, InPeriod
<1>2. ASSUME NEW i \in PeriodWork(new, s), i.in <= u, u < i.out
      PROVE  \E j \in PeriodWork(old, s) : j.in <= u /\ u < j.out
  <2>1. CASE ~i.open
    <3>1. i \in old
      BY <1>1, <2>1 DEF Ages
    <3>2. i \in PeriodWork(old, s)
      BY <1>1, <3>1, PeriodAges
    <3>3. QED
      BY <1>2, <3>2
  <2>2. CASE i.open
    <3>1. i.in < t
      BY <1>1, <1>2
    <3>2. PICK j \in old : j.open /\ j.in = i.in
      BY <1>1, <2>2, <3>1 DEF Ages
    <3>3. j \in PeriodWork(old, s) /\ j.out = t
      BY <1>1, <3>2, PeriodAges
    <3>4. QED
      BY <1>2, <3>2, <3>3
  <2>3. QED
    BY <2>1, <2>2
<1>3. ASSUME NEW i \in PeriodWork(old, s), i.in <= u, u < i.out
      PROVE  \E j \in PeriodWork(new, s) : j.in <= u /\ u < j.out
  <2>1. CASE ~i.open
    <3>1. i \in new
      BY <1>1, <2>1 DEF Ages
    <3>2. i \in PeriodWork(new, s)
      BY <1>1, <3>1, PeriodAges
    <3>3. QED
      BY <1>3, <3>2
  <2>2. CASE i.open
    <3>1. PICK j \in new : j.open /\ j.in = i.in
      BY <1>1, <2>2 DEF Ages
    <3>2. j \in PeriodWork(new, s) /\ j.out = t + 1
      BY <1>1, <3>1, PeriodAges
    <3>3. QED
      BY <1>3, <3>1, <3>2
  <2>3. QED
    BY <2>1, <2>2
<1>4. u \in Instants(old, s) <=> \E i \in PeriodWork(old, s) : i.in <= u /\ u < i.out
  <2>1. Real(old, t)
    BY DEF Ages
  <2>2. QED
    BY <2>1, InstantsAre
<1>5. u \in Instants(new, s) <=> \E i \in PeriodWork(new, s) : i.in <= u /\ u < i.out
  <2>1. PICK t2 \in Nat : t2 = t + 1
    OBVIOUS
  <2>2. Real(new, t2)
    BY <2>1 DEF Ages
  <2>3. s \in Starts(new)
    BY InPeriod
  <2>4. QED
    BY <2>2, <2>3, InstantsAre
<1>6. QED
  BY <1>2, <1>3, <1>4, <1>5

(* What is known of a closed window does not change by itself. *)
LEMMA FactsAge ==
    ASSUME NEW t \in Nat, NEW old, NEW new, Ages(new, old, t), NEW s \in Starts(old), NEW k \in Nat, Closed(old, s, k, t)
    PROVE  /\ Recorded(new, s, k) = Recorded(old, s, k)
           /\ HrAt(new, s, k) <=> HrAt(old, s, k)
           /\ Closed(new, s, k, t + 1)
<1>1. CASE Ended(old, s, t)
  <2>1. PeriodWork(new, s) = PeriodWork(old, s)
    BY <1>1, EndedAges
  <2>2. Instants(new, s) = Instants(old, s)
    BY <2>1 DEF Instants
  <2>3. Recorded(new, s, k) = Recorded(old, s, k)
    BY <2>2 DEF Recorded
  <2>4. HrAt(new, s, k) <=> HrAt(old, s, k)
    BY <2>1 DEF HrAt
  <2>5. LastWorkEnd(new, s) = LastWorkEnd(old, s)
    BY <2>1 DEF LastWorkEnd
  <2>6. Real(old, t)
    BY DEF Ages
  <2>7. LastWorkEnd(old, s) \in Nat
    BY <2>6, PeriodIs
  <2>8. LastWorkEnd(old, s) + RestGap <= t + 1
    BY <1>1, <2>7, RulesAre DEF Ended
  <2>9. Ended(new, s, t + 1)
    BY <1>1, <2>1, <2>5, <2>8 DEF Ended
  <2>10. QED
    BY <2>3, <2>4, <2>9 DEF Closed
<1>2. CASE WindowEnd(s, k) <= t
  <2>1. s \in Nat /\ s < t /\ s \in Starts(new)
    BY InPeriod
  <2>2. PICK a, b : a = WindowStart(s, k) /\ b = WindowEnd(s, k) /\ a \in Int /\ b = a + WindowLength
    BY <2>1, Ends
  <2>3. PICK t2 \in Nat : t2 = t + 1
    OBVIOUS
  <2>4. Real(old, t) /\ Real(new, t2)
    BY <2>3 DEF Ages
  <2>5. /\ \A u \in Instants(old, s) : u \in Nat /\ s <= u
        /\ \A u \in Instants(new, s) : u \in Nat /\ s <= u
    BY <2>1, <2>4, InstantsAre
  <2>6. \A u \in Nat : s <= u /\ WindowOf(s, u) = k => u < b
    BY <2>1, <2>2, InWindow
  <2>7. At(new, s, k) = At(old, s, k)
    <3>1. \A u \in Nat : u < b => (u \in Instants(new, s) <=> u \in Instants(old, s))
      BY <1>2, <2>2, InstantsAge
    <3>2. QED
      BY <2>5, <2>6, <3>1 DEF At
  <2>8. Recorded(new, s, k) = Recorded(old, s, k)
    BY <2>7 DEF Recorded, At
  <2>9. ASSUME NEW i \in PeriodWork(old, s), i.byHr, i.in < b, i.out > a PROVE HrAt(new, s, k)
    <3>1. i \in old /\ i.open \in BOOLEAN
      BY InPeriod
    <3>2. CASE ~i.open
      <4>1. i \in new
        BY <3>1, <3>2 DEF Ages
      <4>2. i \in PeriodWork(new, s)
        BY <3>1, <4>1, PeriodAges
      <4>3. QED
        BY <2>2, <2>9, <4>2 DEF HrAt
    <3>3. CASE i.open
      <4>1. PICK j \in new : j.open /\ j.in = i.in /\ j.byHr = i.byHr
        BY <3>1, <3>3 DEF Ages
      <4>2. j \in PeriodWork(new, s)
        BY <3>1, <4>1, PeriodAges
      <4>3. j.out = t + 1 /\ j.out > a
        BY <1>2, <2>2, <4>1, RulesAre DEF Ages, Real
      <4>4. QED
        BY <2>2, <2>9, <4>1, <4>2, <4>3 DEF HrAt
    <3>4. QED
      BY <3>1, <3>2, <3>3
  <2>10. ASSUME NEW i \in PeriodWork(new, s), i.byHr, i.in < b, i.out > a PROVE HrAt(old, s, k)
    <3>1. i \in new /\ i.open \in BOOLEAN /\ i.in \in Nat
      BY InPeriod
    <3>2. CASE ~i.open
      <4>1. i \in old
        BY <3>1, <3>2 DEF Ages
      <4>2. i \in PeriodWork(old, s)
        BY <3>1, <4>1, PeriodAges
      <4>3. QED
        BY <2>2, <2>10, <4>2 DEF HrAt
    <3>3. CASE i.open
      <4>1. i.in < t
        BY <1>2, <2>2, <2>10, <3>1, RulesAre
      <4>2. PICK j \in old : j.open /\ j.in = i.in /\ j.byHr = i.byHr
        BY <3>1, <3>3, <4>1 DEF Ages
      <4>3. j \in PeriodWork(old, s)
        BY <3>1, <4>2, PeriodAges
      <4>4. j.out = t /\ j.out > a
        BY <1>2, <2>2, <4>2, RulesAre DEF Ages, Real
      <4>5. QED
        BY <2>2, <2>10, <4>2, <4>3, <4>4 DEF HrAt
    <3>4. QED
      BY <3>1, <3>2, <3>3
  <2>11. HrAt(new, s, k) <=> HrAt(old, s, k)
    <3>1. HrAt(old, s, k) => HrAt(new, s, k)
      BY <2>2, <2>9 DEF HrAt
    <3>2. HrAt(new, s, k) => HrAt(old, s, k)
      BY <2>2, <2>10 DEF HrAt
    <3>3. QED
      BY <3>1, <3>2
  <2>12. Closed(new, s, k, t + 1)
    BY <1>2, <2>2, RulesAre DEF Closed
  <2>13. QED
    BY <2>8, <2>11, <2>12
<1>3. QED
  BY <1>1, <1>2 DEF Closed

------------------------------------------------------------------------------
(* The work of a log. *)

WorkAt(log, t) == {i \in {IntervalOf(log[n], t) : n \in DOMAIN log} : i.out > i.in}

LEMMA WorkNow ==
    ASSUME NEW log
    PROVE  Work(log) = WorkAt(log, now)
<1>1. Range(log) = {log[n] : n \in DOMAIN log}
  BY DEF Range
<1>2. QED
  BY <1>1 DEF Work, WorkAt, IntervalOf

LEMMA IntervalIs ==
    ASSUME NEW log \in Seq(Session), NEW t \in Nat, Past(log, t), NEW n \in DOMAIN log
    PROVE  LET i == IntervalOf(log[n], t)
           IN  /\ i.in = log[n].in /\ i.in \in Nat /\ i.in <= t /\ i.byHr = log[n].byHr /\ i.byHr \in BOOLEAN
               /\ i.open = (log[n].out = Running)
               /\ i.open => i.out = t
               /\ ~i.open => i.out = log[n].out /\ i.out \in Nat /\ i.in < i.out /\ i.out <= t
<1>1. PICK i : i = IntervalOf(log[n], t)
  OBVIOUS
<1>2. /\ i.in = log[n].in /\ i.byHr = log[n].byHr /\ i.open = (log[n].out = Running)
      /\ i.out = IF log[n].out = Running THEN t ELSE log[n].out
  BY <1>1 DEF IntervalOf
<1>3. log[n].in \in Nat /\ log[n].byHr \in BOOLEAN /\ (log[n].out = Running \/ log[n].out \in Nat)
  BY LogIs
<1>4. log[n].in <= t /\ (log[n].out = Running \/ (log[n].in < log[n].out /\ log[n].out <= t))
  BY DEF Past
<1>5. QED
  BY <1>1, <1>2, <1>3, <1>4

LEMMA WorkAtReal ==
    ASSUME NEW log \in Seq(Session), NEW t \in Nat, Past(log, t), Recordable(log)
    PROVE  Real(WorkAt(log, t), t) /\ LastRuns(WorkAt(log, t))
<1>1. Real(WorkAt(log, t), t)
  <2>1. SUFFICES ASSUME NEW n \in DOMAIN log, NEW i, i = IntervalOf(log[n], t), i.out > i.in
                 PROVE  /\ i.in \in Nat /\ i.out \in Nat /\ i.in < i.out /\ i.out <= t
                        /\ i.open \in BOOLEAN /\ i.byHr \in BOOLEAN /\ (i.open => i.out = t)
    BY DEF Real, WorkAt
  <2>2. /\ i.in = log[n].in /\ i.in \in Nat /\ i.in <= t /\ i.byHr = log[n].byHr /\ i.byHr \in BOOLEAN
        /\ i.open = (log[n].out = Running)
        /\ i.open => i.out = t
        /\ ~i.open => i.out = log[n].out /\ i.out \in Nat /\ i.in < i.out /\ i.out <= t
    BY <2>1, IntervalIs
  <2>3. QED
    BY <2>1, <2>2
<1>2. LastRuns(WorkAt(log, t))
  <2>1. SUFFICES ASSUME NEW m \in DOMAIN log, NEW n \in DOMAIN log, NEW i, NEW j,
                        i = IntervalOf(log[m], t), j = IntervalOf(log[n], t), i.open, i # j
                 PROVE  j.out <= i.in /\ ~j.open
    BY DEF LastRuns, WorkAt
  <2>2. /\ i.in = log[m].in /\ i.open = (log[m].out = Running) /\ i.in \in Nat
        /\ j.in = log[n].in /\ j.open = (log[n].out = Running)
        /\ ~j.open => j.out = log[n].out /\ j.out \in Nat
    BY <2>1, IntervalIs
  <2>3. m # n
    BY <2>1
  <2>4. ~Overlapping(log[m], log[n])
    BY <2>3 DEF Recordable
  <2>5. log[m].out = Running /\ log[n].out # Running /\ ~(log[m].in < log[n].out)
    BY <2>1, <2>2, <2>4 DEF Overlapping
  <2>6. ~j.open
    BY <2>2, <2>5
  <2>7. j.out = log[n].out /\ j.out \in Nat /\ log[m].in = i.in /\ i.in \in Nat
    BY <2>2, <2>6
  <2>8. ~(i.in < j.out)
    BY <2>5, <2>7
  <2>9. QED
    BY <2>6, <2>7, <2>8
<1>3. QED
  BY <1>1, <1>2

LEMMA WorkAges ==
    ASSUME NEW log \in Seq(Session), NEW t \in Nat, Past(log, t), Recordable(log)
    PROVE  Past(log, t + 1) /\ Ages(WorkAt(log, t + 1), WorkAt(log, t), t)
<1>1. PICK t2 \in Nat : t2 = t + 1
  OBVIOUS
<1>2. Past(log, t2)
  <2>1. SUFFICES ASSUME NEW n \in DOMAIN log
                 PROVE  /\ log[n].in <= t2
                        /\ log[n].out = Running \/ (log[n].in < log[n].out /\ log[n].out <= t2)
    BY DEF Past
  <2>2. log[n].in \in Nat /\ (log[n].out = Running \/ log[n].out \in Nat)
    BY LogIs
  <2>3. /\ log[n].in <= t
        /\ log[n].out = Running \/ (log[n].in < log[n].out /\ log[n].out <= t)
    BY DEF Past
  <2>4. QED
    BY <1>1, <2>2, <2>3
<1>3. PICK old, new : old = WorkAt(log, t) /\ new = WorkAt(log, t2)
  OBVIOUS
<1>4. Real(old, t) /\ LastRuns(old) /\ Real(new, t2) /\ LastRuns(new)
  BY <1>2, <1>3, WorkAtReal
<1>5. ASSUME NEW n \in DOMAIN log, NEW i, NEW j, i = IntervalOf(log[n], t), j = IntervalOf(log[n], t2)
      PROVE  /\ i.in = j.in /\ i.byHr = j.byHr /\ i.open = j.open /\ i.in \in Nat
             /\ ~i.open => i = j /\ i.out > i.in
             /\ i.open => i.out = t /\ j.out = t2 /\ i.in <= t
  <2>1. /\ i.in = log[n].in /\ i.in \in Nat /\ i.in <= t /\ i.byHr = log[n].byHr
        /\ i.open = (log[n].out = Running)
        /\ i.open => i.out = t
        /\ ~i.open => i.out = log[n].out /\ i.out \in Nat /\ i.in < i.out /\ i.out <= t
    BY <1>5, IntervalIs
  <2>2. /\ j.in = log[n].in /\ j.byHr = log[n].byHr
        /\ j.open = (log[n].out = Running)
        /\ j.open => j.out = t2
    BY <1>2, <1>5, IntervalIs
  <2>3. log[n].out # Running => i = j
    BY <1>5 DEF IntervalOf
  <2>4. QED
    BY <2>1, <2>2, <2>3
<1>6. /\ \A i \in old : ~i.open => i \in new
      /\ \A i \in old : i.open => \E j \in new : j.open /\ j.in = i.in /\ j.byHr = i.byHr
  <2>1. SUFFICES ASSUME NEW n \in DOMAIN log, NEW i, i = IntervalOf(log[n], t), i.out > i.in
                 PROVE  /\ ~i.open => i \in new
                        /\ i.open => \E j \in new : j.open /\ j.in = i.in /\ j.byHr = i.byHr
    BY <1>3 DEF WorkAt
  <2>2. PICK j : j = IntervalOf(log[n], t2)
    OBVIOUS
  <2>3. /\ i.in = j.in /\ i.byHr = j.byHr /\ i.open = j.open /\ i.in \in Nat
        /\ ~i.open => i = j /\ i.out > i.in
        /\ i.open => i.out = t /\ j.out = t2 /\ i.in <= t
    BY <1>5, <2>1, <2>2
  <2>4. i.open \in BOOLEAN
    BY <2>1 DEF IntervalOf
  <2>5. j.out > j.in
    BY <1>1, <2>1, <2>3, <2>4
  <2>6. j \in new
    BY <1>3, <2>2, <2>5 DEF WorkAt
  <2>7. QED
    BY <2>3, <2>6
<1>7. /\ \A i \in new : ~i.open => i \in old
      /\ \A i \in new : i.open /\ i.in < t => \E j \in old : j.open /\ j.in = i.in /\ j.byHr = i.byHr
  <2>1. SUFFICES ASSUME NEW n \in DOMAIN log, NEW j, j = IntervalOf(log[n], t2), j.out > j.in
                 PROVE  /\ ~j.open => j \in old
                        /\ j.open /\ j.in < t => \E i \in old : i.open /\ i.in = j.in /\ i.byHr = j.byHr
    BY <1>3 DEF WorkAt
  <2>2. PICK i : i = IntervalOf(log[n], t)
    OBVIOUS
  <2>3. /\ i.in = j.in /\ i.byHr = j.byHr /\ i.open = j.open /\ i.in \in Nat
        /\ ~i.open => i = j /\ i.out > i.in
        /\ i.open => i.out = t /\ j.out = t2 /\ i.in <= t
    BY <1>5, <2>1, <2>2
  <2>4. i.out > i.in => i \in old
    BY <1>3, <2>2 DEF WorkAt
  <2>5. QED
    BY <2>3, <2>4
<1>8. Ages(new, old, t)
  BY <1>1, <1>4, <1>6, <1>7 DEF Ages
<1>9. QED
  BY <1>1, <1>2, <1>3, <1>8

------------------------------------------------------------------------------
(* What a run writes. *)

Agrees(row, work, s, k, t) ==
    /\ row.recorded = Recorded(work, s, k)
    /\ row.days = Entitlement(WindowStart(s, k), Recorded(work, s, k))
    /\ row.byHr <=> HrAt(work, s, k)
    /\ Closed(work, s, k, t)
RowFits(row, s, k, t) ==
    /\ row \in Window
    /\ row.recorded = 0 => row.days = 0 /\ ~row.byHr
    /\ row.closed => WindowStart(s, k) + RestGap <= t
RowsFit(rows, states, t) ==
    /\ DOMAIN rows \subseteq (DOMAIN states) \X Nat
    /\ IsFiniteSet(DOMAIN rows)
    /\ \A w \in DOMAIN rows : RowFits(rows[w], states[w[1]].start, w[2], t)

LEMMA Listed ==
    ASSUME NEW S, IsFiniteSet(S)
    PROVE  SetToSeq(S) \in Seq(S) /\ IsInjective(SetToSeq(S))
<1>1. PICK n \in Nat : n = Cardinality(S)
  BY FS_CardinalityType
<1>2. \E f \in [1..n -> S] : IsInjective(f)
  <2>1. ExistsBijection(1..n, S)
    BY <1>1, FS_CardinalityType
  <2>2. QED
    BY <2>1 DEF ExistsBijection, Bijection, Injection, IsInjective
<1>3. SetToSeq(S) \in [1..n -> S] /\ IsInjective(SetToSeq(S))
  BY <1>1, <1>2 DEF SetToSeq
<1>4. QED
  BY <1>3

LEMMA SequencesJoin ==
    ASSUME NEW S, NEW a \in Seq(S), NEW b \in Seq(S)
    PROVE  a \o b \in Seq(S) /\ Len(a \o b) = Len(a) + Len(b)
OBVIOUS

LEMMA StartsAre ==
    ASSUME now \in Instant, NEW work, Real(work, now)
    PROVE  /\ now \in Nat /\ Starts(work) \subseteq Instant /\ Starts(work) \subseteq Nat
           /\ \A S \in SUBSET Starts(work) : IsFiniteSet(S)
<1>1. now \in Nat /\ now <= MaxNow /\ MaxNow \in Nat
  BY WindowsAssumption DEF Instant
<1>2. \A i \in work : i.in \in Nat /\ i.in <= now
  BY <1>1 DEF Real
<1>3. Starts(work) \subseteq 0..now
  BY <1>1, <1>2 DEF Starts
<1>4. IsFiniteSet(0..now)
  BY <1>1, FS_Interval
<1>5. \A S \in SUBSET Starts(work) : IsFiniteSet(S)
  BY <1>3, <1>4, FS_Subset
<1>6. QED
  BY <1>1, <1>3, <1>5 DEF Instant

LEMMA StatesAre ==
    ASSUME now \in Instant, periods \in Seq(Period), NEW work, Real(work, now)
    PROVE  /\ NewPeriods(work) \in Seq(Period)
           /\ DOMAIN periods \subseteq DOMAIN NewPeriods(work)
           /\ \A p \in DOMAIN periods : NewPeriods(work)[p].start = periods[p].start
           /\ \A p \in DOMAIN periods : LivePeriod(p) /\ ~NewPeriods(work)[p].live => p \in Superseded(work)
           /\ \A p \in DOMAIN NewPeriods(work) : NewPeriods(work)[p].live => NewPeriods(work)[p].start \in Starts(work)
<1> DEFINE row(s) == [start |-> s, live |-> TRUE, open |-> ~Ended(work, s, now)]
           kept == [p \in DOMAIN periods |->
                      IF p \in Superseded(work) THEN [periods[p] EXCEPT !.live = FALSE]
                      ELSE IF LivePeriod(p) THEN row(periods[p].start) ELSE periods[p]]
           R == {row(s) : s \in NewStarts(work)}
<1>1. NewPeriods(work) = kept \o SetToSeq(R)
  BY DEF NewPeriods
<1>2. \A s \in Instant : row(s) \in Period /\ row(s).start = s /\ row(s).live
  BY DEF Period, Ended
<1>3. \A p \in DOMAIN periods : /\ periods[p] \in Period /\ periods[p].start \in Instant
                                /\ periods[p].live \in BOOLEAN /\ periods[p].open \in BOOLEAN
  <2>1. \A p \in DOMAIN periods : periods[p] \in Period
    OBVIOUS
  <2>2. \A r \in Period : r.start \in Instant /\ r.live \in BOOLEAN /\ r.open \in BOOLEAN
    BY DEF Period
  <2>3. QED
    BY <2>1, <2>2
<1>4. ASSUME NEW p \in DOMAIN periods
      PROVE  /\ kept[p] \in Period /\ kept[p].start = periods[p].start
             /\ LivePeriod(p) /\ ~kept[p].live => p \in Superseded(work)
             /\ kept[p].live => kept[p].start \in Starts(work)
  <2>1. kept[p] = IF p \in Superseded(work) THEN [periods[p] EXCEPT !.live = FALSE]
                  ELSE IF LivePeriod(p) THEN row(periods[p].start) ELSE periods[p]
    OBVIOUS
  <2>2. CASE p \in Superseded(work)
    <3>1. kept[p] = [periods[p] EXCEPT !.live = FALSE]
      BY <2>1, <2>2
    <3>2. QED
      BY <1>3, <2>2, <3>1 DEF Period
  <2>3. CASE p \notin Superseded(work) /\ LivePeriod(p)
    <3>1. kept[p] = row(periods[p].start)
      BY <2>1, <2>3
    <3>2. periods[p].start \in Starts(work)
      BY <2>3 DEF Superseded
    <3>3. QED
      BY <1>2, <1>3, <3>1, <3>2
  <2>4. CASE p \notin Superseded(work) /\ ~LivePeriod(p)
    <3>1. kept[p] = periods[p]
      BY <2>1, <2>4
    <3>2. QED
      BY <1>3, <2>4, <3>1 DEF LivePeriod
  <2>5. QED
    BY <2>2, <2>3, <2>4
<1>5. PICK n \in Nat : DOMAIN periods = 1..n
  OBVIOUS
<1>6. kept \in Seq(Period) /\ DOMAIN kept = 1..n /\ Len(kept) = n
  <2>1. DOMAIN kept = 1..n /\ \A p \in 1..n : kept[p] \in Period
    BY <1>4, <1>5
  <2>2. kept = [p \in 1..n |-> kept[p]]
    BY <1>5
  <2> HIDE DEF kept
  <2>3. kept \in [1..n -> Period]
    BY <2>1, <2>2
  <2>4. QED
    BY <1>5, <2>1, <2>3
<1>7. IsFiniteSet(R)
  <2>1. NewStarts(work) \in SUBSET Starts(work)
    BY DEF NewStarts
  <2>2. IsFiniteSet(NewStarts(work))
    BY <2>1, StartsAre
  <2>3. PICK f : f = [s \in NewStarts(work) |-> row(s)]
    OBVIOUS
  <2>4. f \in Surjection(NewStarts(work), R)
    BY <2>3 DEF Surjection
  <2>5. QED
    BY <2>2, <2>4, FS_Surjection
<1>8. \A r \in R : r \in Period /\ r.start \in Starts(work)
  BY <1>2, StartsAre DEF NewStarts
<1>9. PICK q : q = SetToSeq(R)
  OBVIOUS
<1>10. q \in Seq(R)
  <2> HIDE DEF R
  <2>1. QED
    BY <1>7, <1>9, Listed
<1>11. q \in Seq(Period) /\ \A m \in DOMAIN q : q[m].start \in Starts(work)
  <2> HIDE DEF R
  <2>1. \A m \in 1..Len(q) : q[m] \in R
    BY <1>10
  <2>2. q \in Seq(Period)
    BY <1>8, <1>10, <2>1
  <2>3. QED
    BY <1>8, <2>1, <2>2
<1> HIDE DEF kept, row, R
<1>12. PICK st : st = kept \o q
  OBVIOUS
<1>13. /\ st \in Seq(Period) /\ DOMAIN st = 1..(n + Len(q))
       /\ \A p \in 1..n : st[p] = kept[p]
       /\ \A p \in 1..(n + Len(q)) : p > n => st[p] = q[p - n] /\ p - n \in DOMAIN q
  <2>1. st \in Seq(Period) /\ Len(st) = Len(kept) + Len(q)
    BY <1>6, <1>11, <1>12, SequencesJoin
  <2>2. DOMAIN st = 1..(n + Len(q))
    BY <1>6, <2>1
  <2>3. \A p \in 1..(n + Len(q)) : st[p] = IF p <= n THEN kept[p] ELSE q[p - n]
    BY <1>6, <1>11, <1>12
  <2>4. Len(q) \in Nat /\ DOMAIN q = 1..Len(q)
    BY <1>11
  <2>5. QED
    BY <2>1, <2>2, <2>3, <2>4
<1>14. \A p \in DOMAIN st : st[p].live => st[p].start \in Starts(work)
  <2>1. TAKE p \in DOMAIN st
  <2>2. CASE p <= n
    BY <1>4, <1>5, <1>13, <2>2
  <2>3. CASE p > n
    BY <1>11, <1>13, <2>3
  <2>4. QED
    BY <1>13, <2>2, <2>3
<1>15. \A p \in DOMAIN periods : p \in DOMAIN st /\ st[p] = kept[p]
  BY <1>5, <1>11, <1>13
<1>16. NewPeriods(work) = st
  BY <1>1, <1>9, <1>12
<1>17. QED
  BY <1>4, <1>13, <1>14, <1>15, <1>16

LEMMA WindowIs ==
    ASSUME NEW w \in Window
    PROVE  /\ w.recorded \in Nat /\ w.days \in 0..2 /\ w.closed \in BOOLEAN /\ w.byHr \in BOOLEAN
           /\ w.revision \in Nat /\ w.verified \in BOOLEAN
BY DEF Window

(* What the engine makes of a row. *)
LEMMA RowWrittenIs ==
    ASSUME NEW f, f.recorded \in Nat, f.days \in 0..2, f.closed \in BOOLEAN, f.byHr \in BOOLEAN,
           NEW w \in Window, w.recorded = 0 => w.days = 0 /\ ~w.byHr
    PROVE  /\ \A row \in {Opened(f), Revised(w, f)} :
                row \in Window /\ row.recorded = f.recorded /\ row.days = f.days
                /\ row.closed = f.closed /\ row.byHr = f.byHr
           /\ Emptied(w) \in Window /\ Emptied(w).recorded = 0 /\ Emptied(w).days = 0
              /\ Emptied(w).byHr = FALSE /\ Emptied(w).closed = w.closed
<1>1. /\ w.recorded \in Nat /\ w.days \in 0..2 /\ w.closed \in BOOLEAN /\ w.byHr \in BOOLEAN
      /\ w.revision \in Nat /\ w.verified \in BOOLEAN
  BY WindowIs
<1>2. ASSUME NEW n \in Nat, NEW v \in BOOLEAN, NEW row,
             row = [recorded |-> f.recorded, days |-> f.days, closed |-> f.closed, byHr |-> f.byHr,
                    revision |-> n, verified |-> v]
      PROVE  row \in Window /\ row.recorded = f.recorded /\ row.days = f.days
             /\ row.closed = f.closed /\ row.byHr = f.byHr
  BY <1>2 DEF Window
<1>3. \A row \in {Opened(f)} : row \in Window /\ row.recorded = f.recorded /\ row.days = f.days
                               /\ row.closed = f.closed /\ row.byHr = f.byHr
  <2>1. PICK n : n = IF f.closed THEN 1 ELSE 0
    OBVIOUS
  <2>2. n \in Nat /\ Opened(f) = [recorded |-> f.recorded, days |-> f.days, closed |-> f.closed, byHr |-> f.byHr,
                                  revision |-> n, verified |-> FALSE]
    BY <2>1 DEF Opened
  <2>3. QED
    BY <1>2, <2>2
<1>4. \A row \in {Revised(w, f)} : row \in Window /\ row.recorded = f.recorded /\ row.days = f.days
                                   /\ row.closed = f.closed /\ row.byHr = f.byHr
  <2>1. PICK revise : revise = (f.closed /\ (<<w.recorded, w.days, w.byHr>> # <<f.recorded, f.days, f.byHr>> \/ ~w.closed))
    OBVIOUS
  <2>2. PICK n, v : n = w.revision + (IF revise THEN 1 ELSE 0) /\ v = (w.verified /\ ~(revise /\ w.closed))
    OBVIOUS
  <2>3. n \in Nat
    BY <1>1, <2>2
  <2>4. v \in BOOLEAN
    BY <2>2
  <2>5. Revised(w, f) = [recorded |-> f.recorded, days |-> f.days, closed |-> f.closed, byHr |-> f.byHr,
                         revision |-> n, verified |-> v]
    BY <2>1, <2>2 DEF Revised
  <2>6. QED
    BY <1>2, <2>3, <2>4, <2>5
<1>5. Emptied(w) \in Window /\ Emptied(w).recorded = 0 /\ Emptied(w).days = 0
      /\ Emptied(w).byHr = FALSE /\ Emptied(w).closed = w.closed
  <2>1. CASE w.recorded = 0
    BY <1>1, <2>1 DEF Emptied
  <2>2. CASE w.recorded # 0
    <3>1. PICK n : n = w.revision + (IF w.closed THEN 1 ELSE 0)
      OBVIOUS
    <3>2. n \in Nat
      BY <1>1, <3>1
    <3>3. Emptied(w) = [recorded |-> 0, days |-> 0, closed |-> w.closed, byHr |-> FALSE,
                        revision |-> n, verified |-> FALSE]
      BY <2>2, <3>1 DEF Emptied, Window
    <3>4. QED
      BY <1>1, <3>2, <3>3 DEF Window
  <2>3. QED
    BY <2>1, <2>2
<1>6. QED
  BY <1>3, <1>4, <1>5

LEMMA RowsAre ==
    ASSUME now \in Instant, NEW work, Real(work, now), periods \in Seq(Period), RowsFit(windows, periods, now),
           NEW states \in Seq(Period), DOMAIN periods \subseteq DOMAIN states,
           \A p \in DOMAIN periods : states[p].start = periods[p].start,
           \A p \in DOMAIN states : states[p].live => states[p].start \in Starts(work)
    PROVE  /\ RowsFit(NewWindows(work, states), states, now)
           /\ DOMAIN windows \subseteq DOMAIN NewWindows(work, states)
           /\ \A w \in DOMAIN NewWindows(work, states) : states[w[1]].live /\ NewWindows(work, states)[w].closed =>
                Agrees(NewWindows(work, states)[w], work, states[w[1]].start, w[2], now)
<1> DEFINE live == {p \in DOMAIN states : states[p].live}
           worked == UNION {{<<p, k>> : k \in Indexes(work, states[p].start)} : p \in live}
           row(w) ==
             IF w \in worked
             THEN LET f == Facts(work, states[w[1]].start, w[2])
                  IN  IF w \in DOMAIN windows THEN Revised(windows[w], f) ELSE Opened(f)
             ELSE IF w[1] \in live THEN Emptied(windows[w]) ELSE windows[w]
<1>1. PICK rows : rows = NewWindows(work, states)
  OBVIOUS
<1>2. DOMAIN rows = DOMAIN windows \cup worked /\ \A w \in DOMAIN rows : rows[w] = row(w)
  BY <1>1 DEF NewWindows
<1>3. now \in Nat /\ Starts(work) \subseteq Nat
  BY StartsAre
<1>4. ASSUME NEW w \in worked
      PROVE  /\ w[1] \in DOMAIN states /\ states[w[1]].live /\ w[2] \in 0..(now + 1) /\ w[2] \in Nat
             /\ w[2] \in Indexes(work, states[w[1]].start) /\ w = <<w[1], w[2]>>
             /\ states[w[1]].start \in Starts(work)
  <2>1. PICK p \in live : \E k \in Indexes(work, states[p].start) : w = <<p, k>>
    BY <1>4
  <2>2. PICK k \in Indexes(work, states[p].start) : w = <<p, k>>
    BY <2>1
  <2>3. states[p].start \in Starts(work)
    OBVIOUS
  <2>4. k \in 0..(now + 1)
    BY <1>3, <2>3, IndexesAre
  <2>5. QED
    BY <1>3, <2>2, <2>3, <2>4
<1>5. ASSUME NEW w \in DOMAIN windows
      PROVE  /\ w[1] \in DOMAIN periods /\ w[1] \in DOMAIN states /\ w[2] \in Nat /\ w = <<w[1], w[2]>>
             /\ RowFits(windows[w], periods[w[1]].start, w[2], now)
             /\ states[w[1]].start = periods[w[1]].start
  BY DEF RowsFit
<1>6. DOMAIN rows \subseteq (DOMAIN states) \X Nat
  <2>1. \A w \in DOMAIN rows : w \in DOMAIN windows \/ w \in worked
    BY <1>2
  <2>2. \A w \in DOMAIN rows : w[1] \in DOMAIN states /\ w[2] \in Nat /\ w = <<w[1], w[2]>>
    BY <1>4, <1>5, <2>1
  <2>3. QED
    BY <2>2
<1>7. IsFiniteSet(DOMAIN rows)
  <2>1. PICK n \in Nat : DOMAIN states = 1..n
    OBVIOUS
  <2>2. IsFiniteSet(1..n) /\ IsFiniteSet(0..(now + 1))
    <3>1. 1 \in Int /\ n \in Int /\ 0 \in Int /\ now + 1 \in Int
      BY <1>3
    <3>2. QED
      BY <3>1, FS_Interval
  <2>3. IsFiniteSet((1..n) \X (0..(now + 1)))
    BY <2>2, FS_Product
  <2>4. worked \in SUBSET ((1..n) \X (0..(now + 1)))
    BY <1>4, <2>1
  <2>5. IsFiniteSet(worked)
    BY <2>3, <2>4, FS_Subset
  <2>6. IsFiniteSet(DOMAIN windows)
    BY DEF RowsFit
  <2> HIDE DEF worked
  <2>7. IsFiniteSet(DOMAIN windows \cup worked)
    BY <2>5, <2>6, FS_Union
  <2>8. QED
    BY <1>2, <2>7
<1>8. ASSUME NEW w \in worked
      PROVE  /\ RowFits(row(w), states[w[1]].start, w[2], now)
             /\ row(w).closed => Agrees(row(w), work, states[w[1]].start, w[2], now)
  <2>1. PICK s, k : s = states[w[1]].start /\ k = w[2]
    OBVIOUS
  <2>2. s \in Starts(work) /\ s \in Nat /\ k \in Nat /\ k \in Indexes(work, s)
    BY <1>3, <1>4, <2>1
  <2>3. PICK f : f = Facts(work, s, k)
    OBVIOUS
  <2>4. /\ f.recorded = Recorded(work, s, k)
        /\ f.days = Entitlement(WindowStart(s, k), Recorded(work, s, k)) /\ f.days \in 0..2
        /\ f.closed = Closed(work, s, k, now) /\ f.closed \in BOOLEAN
        /\ f.byHr = HrAt(work, s, k) /\ f.byHr \in BOOLEAN
    BY <2>3, FactsAre
  <2>5. f.recorded \in Nat /\ f.recorded > 0 /\ (f.closed => WindowStart(s, k) + RestGap <= now)
    BY <1>3, <2>2, <2>3, SomethingAt
  <2>6. row(w) \in Window /\ row(w).recorded = f.recorded /\ row(w).days = f.days
        /\ row(w).closed = f.closed /\ row(w).byHr = f.byHr
    <3>1. CASE w \in DOMAIN windows
      <4>1. row(w) = Revised(windows[w], f)
        BY <1>8, <2>1, <2>3, <3>1
      <4>2. windows[w] \in Window /\ (windows[w].recorded = 0 => windows[w].days = 0 /\ ~windows[w].byHr)
        BY <1>5, <3>1 DEF RowFits
      <4>3. PICK v : v = windows[w]
        OBVIOUS
      <4>4. f.recorded \in Nat /\ f.days \in 0..2 /\ f.closed \in BOOLEAN /\ f.byHr \in BOOLEAN
        BY <2>4, <2>5
      <4>5. v \in Window /\ (v.recorded = 0 => v.days = 0 /\ ~v.byHr)
        BY <4>2, <4>3
      <4>6. \A r \in {Opened(f), Revised(v, f)} :
              r \in Window /\ r.recorded = f.recorded /\ r.days = f.days
              /\ r.closed = f.closed /\ r.byHr = f.byHr
        BY <4>4, <4>5, RowWrittenIs
      <4> HIDE DEF row
      <4>7. QED
        BY <4>1, <4>3, <4>6
    <3>2. CASE w \notin DOMAIN windows
      <4>1. row(w) = Opened(f)
        BY <1>8, <2>1, <2>3, <3>2
      <4>2. PICK v : v = [recorded |-> 0, days |-> 0, closed |-> FALSE, byHr |-> FALSE, revision |-> 0, verified |-> FALSE]
        OBVIOUS
      <4>3. v \in Window /\ v.days = 0 /\ ~v.byHr
        BY <4>2 DEF Window
      <4>4. f.recorded \in Nat /\ f.days \in 0..2 /\ f.closed \in BOOLEAN /\ f.byHr \in BOOLEAN
        BY <2>4, <2>5
      <4>5. \A r \in {Opened(f), Revised(v, f)} :
              r \in Window /\ r.recorded = f.recorded /\ r.days = f.days
              /\ r.closed = f.closed /\ r.byHr = f.byHr
        BY <4>3, <4>4, RowWrittenIs
      <4> HIDE DEF row
      <4>6. QED
        BY <4>1, <4>5
    <3>3. QED
      BY <3>1, <3>2
  <2> HIDE DEF row, worked
  <2>7. RowFits(row(w), s, k, now)
    BY <2>5, <2>6 DEF RowFits
  <2>8. row(w).closed => Agrees(row(w), work, s, k, now)
    BY <2>4, <2>6 DEF Agrees
  <2>9. QED
    BY <2>1, <2>7, <2>8
<1>9. ASSUME NEW w \in DOMAIN windows, w \notin worked, states[w[1]].live
      PROVE  /\ RowFits(row(w), states[w[1]].start, w[2], now)
             /\ row(w).closed => Agrees(row(w), work, states[w[1]].start, w[2], now)
  <2>1. PICK s, k : s = states[w[1]].start /\ k = w[2]
    OBVIOUS
  <2>2. /\ s \in Starts(work) /\ s \in Nat /\ k \in Nat /\ w[1] \in DOMAIN states
        /\ RowFits(windows[w], s, k, now) /\ w = <<w[1], k>>
    BY <1>3, <1>5, <1>9, <2>1
  <2>3. k \notin Indexes(work, s)
    BY <1>9, <2>1, <2>2
  <2>4. row(w) = Emptied(windows[w])
    BY <1>9, <2>2
  <2>5. PICK f : f = Facts(work, s, k)
    OBVIOUS
  <2>6. /\ f.recorded = Recorded(work, s, k)
        /\ f.days = Entitlement(WindowStart(s, k), Recorded(work, s, k)) /\ f.days \in 0..2
        /\ f.closed = Closed(work, s, k, now) /\ f.closed \in BOOLEAN
        /\ f.byHr = HrAt(work, s, k) /\ f.byHr \in BOOLEAN
    BY <2>5, FactsAre
  <2>7. f.recorded = 0 /\ f.days = 0 /\ ~f.byHr /\ (WindowStart(s, k) + RestGap <= now => f.closed)
    BY <1>3, <2>2, <2>3, <2>5, NothingAt
  <2>8. windows[w] \in Window /\ (windows[w].recorded = 0 => windows[w].days = 0 /\ ~windows[w].byHr)
        /\ (windows[w].closed => WindowStart(s, k) + RestGap <= now)
    BY <2>2 DEF RowFits
  <2> HIDE DEF row, worked
  <2>9. row(w) \in Window /\ row(w).recorded = 0 /\ row(w).days = 0
        /\ row(w).byHr = FALSE /\ row(w).closed = windows[w].closed
    <3>1. PICK v : v = windows[w]
      OBVIOUS
    <3>2. f.recorded \in Nat /\ f.days \in 0..2 /\ f.closed \in BOOLEAN /\ f.byHr \in BOOLEAN
      BY <2>6, <2>7
    <3>3. v \in Window /\ (v.recorded = 0 => v.days = 0 /\ ~v.byHr)
      BY <2>8, <3>1
    <3>4. Emptied(v) \in Window /\ Emptied(v).recorded = 0 /\ Emptied(v).days = 0
          /\ Emptied(v).byHr = FALSE /\ Emptied(v).closed = v.closed
      BY <3>2, <3>3, RowWrittenIs
    <3>5. QED
      BY <2>4, <3>1, <3>4
  <2>10. RowFits(row(w), s, k, now)
    BY <2>8, <2>9 DEF RowFits
  <2>11. row(w).closed => Agrees(row(w), work, s, k, now)
    BY <2>6, <2>7, <2>8, <2>9 DEF Agrees
  <2>12. QED
    BY <2>1, <2>10, <2>11
<1>10. ASSUME NEW w \in DOMAIN windows, w \notin worked, ~states[w[1]].live
       PROVE  RowFits(row(w), states[w[1]].start, w[2], now)
  <2>1. row(w) = windows[w]
    BY <1>10
  <2> HIDE DEF row, worked
  <2>2. QED
    BY <1>5, <2>1
<1> HIDE DEF row, worked, live
<1>11. \A w \in DOMAIN rows : RowFits(rows[w], states[w[1]].start, w[2], now)
  BY <1>2, <1>8, <1>9, <1>10
<1>12. \A w \in DOMAIN rows : states[w[1]].live /\ rows[w].closed => Agrees(rows[w], work, states[w[1]].start, w[2], now)
  BY <1>2, <1>8, <1>9
<1>13. QED
  BY <1>1, <1>2, <1>6, <1>7, <1>11, <1>12 DEF RowsFit

LEMMA NewRequestIs ==
    ASSUME NEW log, NEW first, NEW w \in Seq(Nat), NEW row \in Window, NEW difference \in Int
    PROVE  /\ IsFiniteSet(NewRequests(log, w, row, difference, first))
           /\ \A r \in NewRequests(log, w, row, difference, first) :
                r \in Request /\ r.window = w /\ (r.kind # "window" => Granted(log, w))
           /\ \A q, r \in NewRequests(log, w, row, difference, first) : q = r
<1> DEFINE new(kind, days) == [window |-> w, kind |-> kind, days |-> days, lead |-> FALSE,
                               revision |-> row.revision, status |-> "pending"]
<1>1. row.days \in Nat /\ row.revision \in Nat
  BY WindowIs
<1>3. ASSUME NEW kind \in {"window", "top_up", "reduction"}, NEW days \in Nat
      PROVE  new(kind, days) \in Request /\ new(kind, days).window = w /\ new(kind, days).kind = kind
  BY <1>1, <1>3 DEF Request
<1>4. Kind(difference) \in {"window", "top_up", "reduction"} /\ Size(difference) \in Nat
  BY DEF Kind, Size
<1>5. \/ NewRequests(log, w, row, difference, first) = {}
      \/ Granted(log, w) /\ NewRequests(log, w, row, difference, first) = {new(Kind(difference), Size(difference))}
      \/ NewRequests(log, w, row, difference, first) = {new("window", row.days)}
  BY DEF NewRequests
<1> HIDE DEF new
<1>6. IsFiniteSet(NewRequests(log, w, row, difference, first))
  BY <1>5, FS_EmptySet, FS_Singleton
<1>7. \A r \in NewRequests(log, w, row, difference, first) :
        r \in Request /\ r.window = w /\ (r.kind # "window" => Granted(log, w))
  BY <1>1, <1>3, <1>4, <1>5
<1>8. \A q, r \in NewRequests(log, w, row, difference, first) : q = r
  BY <1>5
<1>9. QED
  BY <1>6, <1>7, <1>8

Asks(log, rows, touched, due, first) ==
    UNION {NewRequests(log, w, rows[w], due[w], first) : w \in touched}

(* The differences of some of the rows. *)
Differences(due, touched, rows, states, t) ==
    /\ states \in Seq(Period) /\ RowsFit(rows, states, t)
    /\ touched \in SUBSET DOMAIN rows /\ \A w \in touched : due[w] \in Int
(* The requests they call for: one of a window. *)
CalledFor(asked, log, rows) ==
    /\ IsFiniteSet(asked)
    /\ \A r \in asked : /\ r \in Request /\ r.window \in DOMAIN rows
                        /\ r.kind # "window" => Granted(log, r.window)
    /\ \A q, r \in asked : q.window = r.window => q = r

LEMMA AskedAre ==
    ASSUME NEW due, NEW touched, NEW rows, NEW states, NEW t, Differences(due, touched, rows, states, t),
           NEW log, NEW first
    PROVE  CalledFor(Asks(log, rows, touched, due, first), log, rows)
<1>0. /\ states \in Seq(Period) /\ RowsFit(rows, states, t)
      /\ touched \in SUBSET DOMAIN rows /\ \A w \in touched : due[w] \in Int
  BY DEF Differences
<1> DEFINE of(w) == NewRequests(log, w, rows[w], due[w], first)
           F == {of(w) : w \in touched}
<1>1. ASSUME NEW w \in touched
      PROVE  /\ IsFiniteSet(of(w))
             /\ \A r \in of(w) : r \in Request /\ r.window = w /\ (r.kind # "window" => Granted(log, w))
             /\ \A q, r \in of(w) : q = r
  <2>1. w \in (DOMAIN states) \X Nat /\ rows[w] \in Window
    BY <1>0 DEF RowsFit, RowFits
  <2>2. w \in Seq(Nat)
    <3>1. DOMAIN states \subseteq Nat
      BY <1>0
    <3>2. PICK a \in Nat, b \in Nat : w = <<a, b>>
      BY <2>1, <3>1
    <3>3. <<a, b>> \in Seq(Nat)
      OBVIOUS
    <3>4. QED
      BY <3>2, <3>3
  <2>3. PICK row, difference : row = rows[w] /\ difference = due[w]
    OBVIOUS
  <2>4. row \in Window /\ difference \in Int
    BY <1>0, <2>1, <2>3
  <2>5. /\ IsFiniteSet(NewRequests(log, w, row, difference, first))
        /\ \A r \in NewRequests(log, w, row, difference, first) :
             r \in Request /\ r.window = w /\ (r.kind # "window" => Granted(log, w))
        /\ \A q, r \in NewRequests(log, w, row, difference, first) : q = r
    <3>1. row \in Window
      BY <2>4
    <3>2. difference \in Int
      BY <2>4
    <3>3. IsFiniteSet(NewRequests(log, w, row, difference, first))
      BY <2>2, <3>1, <3>2, NewRequestIs
    <3>4. \A r \in NewRequests(log, w, row, difference, first) :
            r \in Request /\ r.window = w /\ (r.kind # "window" => Granted(log, w))
      BY <2>2, <3>1, <3>2, NewRequestIs
    <3>5. \A q, r \in NewRequests(log, w, row, difference, first) : q = r
      BY <2>2, <3>1, <3>2, NewRequestIs
    <3>6. QED
      BY <3>3, <3>4, <3>5
  <2>6. QED
    BY <2>3, <2>5
<1>2. IsFiniteSet(touched)
  <2>1. IsFiniteSet(DOMAIN rows)
    BY <1>0 DEF RowsFit
  <2>2. QED
    BY <1>0, <2>1, FS_Subset
<1> HIDE DEF of
<1>3. IsFiniteSet(F)
  <2>1. PICK f : f = [w \in touched |-> of(w)]
    OBVIOUS
  <2>2. f \in Surjection(touched, F)
    BY <2>1 DEF Surjection
  <2>3. QED
    BY <1>2, <2>2, FS_Surjection
<1>4. \A T \in F : IsFiniteSet(T)
  BY <1>1
<1>5. /\ \A r \in UNION F : r \in Request /\ r.window \in DOMAIN rows /\ (r.kind # "window" => Granted(log, r.window))
      /\ \A q, r \in UNION F : q.window = r.window => q = r
  BY <1>0, <1>1
<1>6. IsFiniteSet(UNION F)
  <2> HIDE DEF F
  <2>1. QED
    BY <1>3, <1>4, FS_UNION
<1>7. Asks(log, rows, touched, due, first) = UNION F
  BY DEF of, Asks
<1>8. QED
  BY <1>5, <1>6, <1>7 DEF CalledFor

LEMMA RequestIs ==
    ASSUME NEW r \in Request
    PROVE  /\ r.window \in Seq(Nat) /\ r.kind \in {"window", "top_up", "reduction"} /\ r.days \in Nat
           /\ r.revision \in Nat /\ r.lead \in BOOLEAN
           /\ r.status \in {"pending", "approved", "rejected", "cancelled"}
BY DEF Request

LEMMA KeptAre ==
    ASSUME requests \in Seq(Request), NEW rows, \A n \in DOMAIN requests : rows[requests[n].window] \in Window,
           NEW dropped, NEW updated
    PROVE  /\ Kept(rows, dropped, updated) \in Seq(Request)
           /\ DOMAIN Kept(rows, dropped, updated) = DOMAIN requests
           /\ \A n \in DOMAIN requests :
                /\ Kept(rows, dropped, updated)[n].window = requests[n].window
                /\ Kept(rows, dropped, updated)[n].kind = requests[n].kind
                /\ requests[n].status = "approved" => Kept(rows, dropped, updated)[n].status = "approved"
                /\ Standing(Kept(rows, dropped, updated)[n]) => Standing(requests[n])
<1> DEFINE row(n) ==
             IF n \in dropped /\ requests[n].status = "pending"
             THEN [requests[n] EXCEPT !.status = "cancelled"]
             ELSE IF n \in updated
             THEN [requests[n] EXCEPT !.days = rows[requests[n].window].days, !.lead = FALSE,
                                      !.revision = rows[requests[n].window].revision]
             ELSE requests[n]
<1>1. PICK kept : kept = [n \in DOMAIN requests |-> row(n)]
  OBVIOUS
<1>2. Kept(rows, dropped, updated) = kept
  BY <1>1 DEF Kept
<1>3. ASSUME NEW n \in DOMAIN requests
      PROVE  /\ row(n) \in Request /\ row(n).window = requests[n].window /\ row(n).kind = requests[n].kind
             /\ requests[n].status = "approved" => row(n).status = "approved"
             /\ Standing(row(n)) => Standing(requests[n])
  <2>1. requests[n] \in Request
    OBVIOUS
  <2>2. PICK r : r = requests[n]
    OBVIOUS
  <2>3. rows[r.window].days \in Nat /\ rows[r.window].revision \in Nat
    BY <2>2, WindowIs
  <2>4. CASE n \in dropped /\ r.status = "pending"
    <3>1. row(n) = [r EXCEPT !.status = "cancelled"]
      BY <2>2, <2>4
    <3>2. QED
      BY <2>1, <2>2, <2>4, <3>1 DEF Request, Standing
  <2>5. CASE ~(n \in dropped /\ r.status = "pending") /\ n \in updated
    <3>1. row(n) = [r EXCEPT !.days = rows[r.window].days, !.lead = FALSE, !.revision = rows[r.window].revision]
      BY <2>2, <2>5
    <3>2. QED
      BY <2>1, <2>2, <2>3, <3>1 DEF Request, Standing
  <2>6. CASE ~(n \in dropped /\ r.status = "pending") /\ n \notin updated
    <3>1. row(n) = r
      BY <2>2, <2>6
    <3>2. QED
      BY <2>1, <2>2, <3>1
  <2>7. QED
    BY <2>4, <2>5, <2>6
<1>4. PICK m \in Nat : DOMAIN requests = 1..m
  OBVIOUS
<1> HIDE DEF row
<1>5. kept \in [1..m -> Request]
  BY <1>1, <1>3, <1>4
<1>6. QED
  BY <1>1, <1>2, <1>3, <1>4, <1>5

------------------------------------------------------------------------------
(* The invariant. *)

GrantedIn(log, w) == \E n \in DOMAIN log : log[n].window = w /\ log[n].kind = "window" /\ log[n].status = "approved"

EvidenceOK ==
    /\ now \in Instant /\ changes \in 0..MaxEdits /\ failed \in BOOLEAN
    /\ sessions \in Seq(Session) /\ Recordable(sessions) /\ Past(sessions, now)
RowsOK == periods \in Seq(Period) /\ RowsFit(windows, periods, now)
(* A window has one request of a kind that stands, and adjustments only once
   its own request is approved. *)
Orderly(log) ==
    /\ \A m, n \in DOMAIN log :
         log[m].window = log[n].window /\ log[m].kind = log[n].kind /\ Standing(log[m]) /\ Standing(log[n]) => m = n
    /\ \A n \in DOMAIN log : log[n].kind # "window" => GrantedIn(log, log[n].window)
RequestsOK ==
    /\ requests \in Seq(Request) /\ Orderly(requests)
    /\ \A n \in DOMAIN requests : requests[n].window \in DOMAIN windows
CreditsOK ==
    /\ DOMAIN credits \subseteq DOMAIN windows
    /\ \A w \in DOMAIN credits : credits[w] \in Nat /\ GrantedIn(requests, w)
RunOK ==
    \/ run = NoRun
    \/ /\ run.by \in {"clock", "hr", "processor"}
       /\ run.sessions \in Seq(Session) /\ Recordable(run.sessions) /\ Past(run.sessions, now)
       /\ \A w \in DOMAIN run.credits : run.credits[w] \in Nat /\ GrantedIn(run.requests, w)
       /\ \A n \in DOMAIN run.requests :
            GrantedIn(run.requests, run.requests[n].window) => GrantedIn(requests, run.requests[n].window)
(* The rows are those the evidence calls for, unless a run has failed. *)
Current(work) ==
    /\ \A p \in DOMAIN periods : periods[p].live => periods[p].start \in Starts(work)
    /\ \A w \in DOMAIN windows : periods[w[1]].live /\ windows[w].closed =>
         Agrees(windows[w], work, periods[w[1]].start, w[2], now)
CurrentOK == failed \/ Current(WorkAt(sessions, now))
WindowsInv == EvidenceOK /\ RowsOK /\ RequestsOK /\ CreditsOK /\ RunOK /\ CurrentOK

------------------------------------------------------------------------------
(* The calls that change the evidence. *)

LEMMA BeginKeeps ==
    ASSUME WindowsInv, NEW log \in Seq(Session), Recordable(log), Past(log, now),
           NEW by \in {"clock", "hr", "processor"}, Begin(log, by), changes' \in 0..MaxEdits,
           UNCHANGED <<now, sessions, periods, windows, requests, credits, failed>>
    PROVE  WindowsInv'
<1>1. run' = [by |-> by, sessions |-> log, requests |-> requests, credits |-> credits]
  BY DEF Begin
<1>2. EvidenceOK' /\ RowsOK' /\ RequestsOK' /\ CreditsOK'
  BY DEF WindowsInv, EvidenceOK, RowsOK, RequestsOK, CreditsOK
<1>3. CurrentOK'
  BY DEF WindowsInv, CurrentOK, Current
<1>4. RunOK'
  <2>1. run'.by = by /\ run'.sessions = log /\ run'.requests = requests /\ run'.credits = credits
    BY <1>1
  <2>2. \A w \in DOMAIN credits : credits[w] \in Nat /\ GrantedIn(requests, w)
    BY DEF WindowsInv, CreditsOK
  <2>3. QED
    BY <2>1, <2>2 DEF RunOK
<1>5. QED
  BY <1>2, <1>3, <1>4 DEF WindowsInv

(* What HR and the clock know of a log. *)
LEMMA LogGrows ==
    ASSUME NEW log \in Seq(Session), NEW t \in Nat, Past(log, t), NEW s \in Session,
           s.in <= t, s.out = Running \/ (s.in < s.out /\ s.out <= t)
    PROVE  Append(log, s) \in Seq(Session) /\ Past(Append(log, s), t)
<1>1. PICK new : new = Append(log, s)
  OBVIOUS
<1>2. new \in Seq(Session) /\ DOMAIN new = 1..(Len(log) + 1) /\ DOMAIN log = 1..Len(log)
      /\ \A n \in 1..(Len(log) + 1) : new[n] = IF n \in DOMAIN log THEN log[n] ELSE s
  BY <1>1
<1>3. Past(new, t)
  BY <1>2 DEF Past
<1>4. QED
  BY <1>1, <1>2, <1>3

LEMMA LogChanges ==
    ASSUME NEW log \in Seq(Session), NEW t \in Nat, Past(log, t), NEW n \in DOMAIN log, NEW s \in Session,
           s.in <= t, s.out = Running \/ (s.in < s.out /\ s.out <= t)
    PROVE  [log EXCEPT ![n] = s] \in Seq(Session) /\ Past([log EXCEPT ![n] = s], t)
<1>1. PICK new : new = [log EXCEPT ![n] = s]
  OBVIOUS
<1>2. new \in Seq(Session) /\ DOMAIN new = DOMAIN log
      /\ \A m \in DOMAIN log : new[m] = IF m = n THEN s ELSE log[m]
  BY <1>1
<1>3. Past(new, t)
  BY <1>2 DEF Past
<1>4. QED
  BY <1>1, <1>2, <1>3

(* A running session that is closed overlaps none of the others. *)
LEMMA CloseKeeps ==
    ASSUME NEW log \in Seq(Session), Recordable(log), NEW t \in Nat, Past(log, t), NEW n \in DOMAIN log,
           log[n].out = Running, NEW s \in Session, s.in = log[n].in, s.out \in Nat
    PROVE  Recordable([log EXCEPT ![n] = s])
<1>1. PICK new : new = [log EXCEPT ![n] = s]
  OBVIOUS
<1>2. DOMAIN new = DOMAIN log /\ \A m \in DOMAIN log : new[m] = IF m = n THEN s ELSE log[m]
  BY <1>1
<1>3. ASSUME NEW m \in DOMAIN log, m # n PROVE ~Overlapping(s, log[m]) /\ ~Overlapping(log[m], s)
  <2>1. ~Overlapping(log[n], log[m])
    BY <1>3 DEF Recordable
  <2>2. log[m].out # Running /\ ~(log[n].in < log[m].out)
    BY <2>1 DEF Overlapping
  <2>3. QED
    BY <2>2 DEF Overlapping
<1>4. \A l, m \in DOMAIN log : l # m => ~Overlapping(new[l], new[m])
  <2>1. TAKE l, m \in DOMAIN log
  <2>2. HAVE l # m
  <2>3. CASE l # n /\ m # n
    BY <1>2, <2>2, <2>3 DEF Recordable
  <2>4. CASE l = n
    BY <1>2, <1>3, <2>2, <2>4
  <2>5. CASE m = n
    BY <1>2, <1>3, <2>2, <2>5
  <2>6. QED
    BY <2>3, <2>4, <2>5
<1>5. QED
  BY <1>1, <1>2, <1>4 DEF Recordable

LEMMA ClockInKeeps ==
    ASSUME WindowsInv, ClockIn
    PROVE  WindowsInv'
<1>1. /\ now \in Instant /\ now \in Nat /\ sessions \in Seq(Session) /\ Recordable(sessions) /\ Past(sessions, now)
      /\ changes \in 0..MaxEdits
  BY WindowsAssumption DEF WindowsInv, EvidenceOK, Instant
<1>2. PICK s : s = [in |-> now, out |-> Running, byHr |-> FALSE]
  OBVIOUS
<1>3. s \in Session /\ s.in = now /\ s.out = Running
  BY <1>1, <1>2 DEF Session
<1>4. PICK log : log = Append(sessions, s)
  OBVIOUS
<1>5. Begin(log, "clock") /\ UNCHANGED <<now, sessions, changes, periods, windows, requests, credits, failed>>
  BY <1>2, <1>4 DEF ClockIn
<1>6. log \in Seq(Session) /\ Past(log, now)
  BY <1>1, <1>3, <1>4, LogGrows
<1>7. Recordable(log)
  <2>1. /\ DOMAIN log = 1..(Len(sessions) + 1) /\ DOMAIN sessions = 1..Len(sessions)
        /\ \A n \in DOMAIN log : log[n] = IF n \in DOMAIN sessions THEN sessions[n] ELSE s
    BY <1>1, <1>4
  <2>2. ASSUME NEW m \in DOMAIN sessions PROVE ~Overlapping(s, sessions[m]) /\ ~Overlapping(sessions[m], s)
    <3>1. sessions[m].out # Running
      BY DEF ClockIn, ClockedIn
    <3>2. sessions[m].out \in Nat
      BY <1>1, <3>1, LogIs
    <3>3. ~(now < sessions[m].out)
      BY <1>1, <3>1, <3>2 DEF Past
    <3>4. QED
      BY <1>3, <3>1, <3>3 DEF Overlapping
  <2>3. \A l, m \in DOMAIN log : l # m => ~Overlapping(log[l], log[m])
    <3>1. TAKE l, m \in DOMAIN log
    <3>2. HAVE l # m
    <3>3. CASE l \in DOMAIN sessions /\ m \in DOMAIN sessions
      BY <1>1, <2>1, <3>2, <3>3 DEF Recordable
    <3>4. CASE l \notin DOMAIN sessions
      BY <2>1, <2>2, <3>2, <3>4
    <3>5. CASE m \notin DOMAIN sessions
      BY <2>1, <2>2, <3>2, <3>5
    <3>6. QED
      BY <3>3, <3>4, <3>5
  <2>4. QED
    BY <2>3 DEF Recordable
<1>8. changes' \in 0..MaxEdits /\ UNCHANGED <<now, sessions, periods, windows, requests, credits, failed>>
  BY <1>1, <1>5
<1>9. QED
  BY <1>5, <1>6, <1>7, <1>8, BeginKeeps

LEMMA ClockOutKeeps ==
    ASSUME WindowsInv, ClockOut
    PROVE  WindowsInv'
<1>1. /\ now \in Instant /\ now \in Nat /\ sessions \in Seq(Session) /\ Recordable(sessions) /\ Past(sessions, now)
      /\ changes \in 0..MaxEdits
  BY WindowsAssumption DEF WindowsInv, EvidenceOK, Instant
<1>2. PICK n \in DOMAIN sessions : sessions[n].out = Running /\ sessions[n].in < now /\ Begin([sessions EXCEPT ![n].out = now], "clock")
  BY DEF ClockOut
<1>3. PICK s : s = [sessions[n] EXCEPT !.out = now]
  OBVIOUS
<1>4. s \in Session /\ s.in = sessions[n].in /\ s.out = now
  <2>1. sessions[n] \in Session
    BY <1>1, LogIs
  <2>2. QED
    BY <1>1, <1>3, <2>1 DEF Session
<1>5. PICK log : log = [sessions EXCEPT ![n] = s]
  OBVIOUS
<1>6. Begin(log, "clock")
  BY <1>2, <1>3, <1>5
<1>7. sessions[n].in \in Nat
  BY <1>1, LogIs
<1>8. log \in Seq(Session) /\ Past(log, now)
  <2>1. s.in <= now /\ s.in < s.out /\ s.out <= now
    BY <1>1, <1>2, <1>4, <1>7
  <2>2. QED
    BY <1>1, <1>4, <1>5, <2>1, LogChanges
<1>9. Recordable(log)
  BY <1>1, <1>2, <1>4, <1>5, CloseKeeps
<1>10. changes' \in 0..MaxEdits /\ UNCHANGED <<now, sessions, periods, windows, requests, credits, failed>>
  BY <1>1 DEF ClockOut
<1>11. QED
  BY <1>6, <1>8, <1>9, <1>10, BeginKeeps

LEMMA HrCloseKeeps ==
    ASSUME WindowsInv, HrClose
    PROVE  WindowsInv'
<1>1. /\ now \in Instant /\ now \in Nat /\ sessions \in Seq(Session) /\ Recordable(sessions) /\ Past(sessions, now)
      /\ changes \in 0..MaxEdits /\ Instant \subseteq Nat
  BY WindowsAssumption DEF WindowsInv, EvidenceOK, Instant
<1>2. PICK n \in DOMAIN sessions, t \in Instant :
        sessions[n].out = Running /\ sessions[n].in < t /\ t <= now /\ Begin([sessions EXCEPT ![n].out = t, ![n].byHr = TRUE], "clock")
  BY DEF HrClose
<1>3. PICK s : s = [sessions[n] EXCEPT !.out = t, !.byHr = TRUE]
  OBVIOUS
<1>4. s \in Session /\ s.in = sessions[n].in /\ s.out = t
  <2>1. sessions[n] \in Session
    BY <1>1, LogIs
  <2>2. QED
    BY <1>1, <1>3, <2>1 DEF Session
<1>5. PICK log : log = [sessions EXCEPT ![n] = s]
  OBVIOUS
<1>6. Begin(log, "clock")
  <2>1. log = [sessions EXCEPT ![n].out = t, ![n].byHr = TRUE]
    BY <1>1, <1>3, <1>5
  <2>2. QED
    BY <1>2, <2>1
<1>7. sessions[n].in \in Nat /\ t \in Nat
  BY <1>1, LogIs
<1>8. log \in Seq(Session) /\ Past(log, now)
  <2>1. s.in <= now /\ s.in < s.out /\ s.out <= now
    BY <1>1, <1>2, <1>4, <1>7
  <2>2. QED
    BY <1>1, <1>4, <1>5, <2>1, LogChanges
<1>9. Recordable(log)
  BY <1>1, <1>2, <1>4, <1>5, <1>7, CloseKeeps
<1>10. changes' \in 0..MaxEdits /\ UNCHANGED <<now, sessions, periods, windows, requests, credits, failed>>
  BY <1>1, WindowsAssumption DEF HrClose, Edits
<1>11. QED
  BY <1>6, <1>8, <1>9, <1>10, BeginKeeps

LEMMA CorrectKeeps ==
    ASSUME WindowsInv, Correct
    PROVE  WindowsInv'
<1>1. /\ now \in Instant /\ now \in Nat /\ sessions \in Seq(Session) /\ Recordable(sessions) /\ Past(sessions, now)
      /\ changes \in 0..MaxEdits /\ Instant \subseteq Nat
  BY WindowsAssumption DEF WindowsInv, EvidenceOK, Instant
<1>2. PICK n \in DOMAIN sessions, from \in Instant, to \in Instant :
        /\ from < to /\ to <= now
        /\ Recordable([sessions EXCEPT ![n].in = from, ![n].out = to])
        /\ Begin([sessions EXCEPT ![n].in = from, ![n].out = to], "hr")
  BY DEF Correct
<1>3. PICK s : s = [sessions[n] EXCEPT !.in = from, !.out = to]
  OBVIOUS
<1>4. s \in Session /\ s.in = from /\ s.out = to
  <2>1. sessions[n] \in Session
    BY <1>1, LogIs
  <2>2. QED
    BY <1>1, <1>3, <2>1 DEF Session
<1>5. PICK log : log = [sessions EXCEPT ![n] = s]
  OBVIOUS
<1>6. Begin(log, "hr") /\ Recordable(log)
  <2>1. log = [sessions EXCEPT ![n].in = from, ![n].out = to]
    BY <1>1, <1>3, <1>5
  <2>2. QED
    BY <1>2, <2>1
<1>7. log \in Seq(Session) /\ Past(log, now)
  <2>1. s.in <= now /\ s.in < s.out /\ s.out <= now
    BY <1>1, <1>2, <1>4
  <2>2. QED
    BY <1>1, <1>4, <1>5, <2>1, LogChanges
<1>8. changes' \in 0..MaxEdits /\ UNCHANGED <<now, sessions, periods, windows, requests, credits, failed>>
  BY <1>1, WindowsAssumption DEF Correct, Edits
<1>9. QED
  BY <1>6, <1>7, <1>8, BeginKeeps

LEMMA AddMissingKeeps ==
    ASSUME WindowsInv, AddMissing
    PROVE  WindowsInv'
<1>1. /\ now \in Instant /\ now \in Nat /\ sessions \in Seq(Session) /\ Recordable(sessions) /\ Past(sessions, now)
      /\ changes \in 0..MaxEdits /\ Instant \subseteq Nat
  BY WindowsAssumption DEF WindowsInv, EvidenceOK, Instant
<1>2. PICK from \in Instant, to \in Instant :
        /\ from < to /\ to <= now
        /\ Recordable(Append(sessions, [in |-> from, out |-> to, byHr |-> FALSE]))
        /\ Begin(Append(sessions, [in |-> from, out |-> to, byHr |-> FALSE]), "hr")
  BY DEF AddMissing
<1>3. PICK s : s = [in |-> from, out |-> to, byHr |-> FALSE]
  OBVIOUS
<1>4. s \in Session /\ s.in = from /\ s.out = to
  BY <1>1, <1>3 DEF Session
<1>5. PICK log : log = Append(sessions, s)
  OBVIOUS
<1>6. Begin(log, "hr") /\ Recordable(log)
  BY <1>2, <1>3, <1>5
<1>7. log \in Seq(Session) /\ Past(log, now)
  <2>1. s.in <= now /\ s.in < s.out /\ s.out <= now
    BY <1>1, <1>2, <1>4
  <2>2. QED
    BY <1>1, <1>4, <1>5, <2>1, LogGrows
<1>8. changes' \in 0..MaxEdits /\ UNCHANGED <<now, sessions, periods, windows, requests, credits, failed>>
  BY <1>1, WindowsAssumption DEF AddMissing, Edits
<1>9. QED
  BY <1>6, <1>7, <1>8, BeginKeeps

LEMMA ProcessKeeps ==
    ASSUME WindowsInv, Process
    PROVE  WindowsInv'
<1>1. sessions \in Seq(Session) /\ Recordable(sessions) /\ Past(sessions, now) /\ changes \in 0..MaxEdits
  BY DEF WindowsInv, EvidenceOK
<1>2. PICK log : log = sessions
  OBVIOUS
<1>3. Begin(log, "processor") /\ changes' \in 0..MaxEdits
      /\ UNCHANGED <<now, sessions, periods, windows, requests, credits, failed>>
  BY <1>1, <1>2 DEF Process
<1>4. QED
  BY <1>1, <1>2, <1>3, BeginKeeps

LEMMA ReadRequestsKeeps ==
    ASSUME WindowsInv, ReadRequests
    PROVE  WindowsInv'
<1>1. /\ run # NoRun
      /\ run' = [by |-> run.by, sessions |-> run.sessions, requests |-> requests, credits |-> run.credits]
      /\ UNCHANGED <<now, sessions, changes, periods, windows, requests, credits, failed>>
  BY DEF ReadRequests
<1>2. EvidenceOK' /\ RowsOK' /\ RequestsOK' /\ CreditsOK' /\ CurrentOK'
  BY <1>1 DEF WindowsInv, EvidenceOK, RowsOK, RequestsOK, CreditsOK, CurrentOK, Current
<1>3. /\ run.by \in {"clock", "hr", "processor"}
      /\ run.sessions \in Seq(Session) /\ Recordable(run.sessions) /\ Past(run.sessions, now)
      /\ \A w \in DOMAIN run.credits : run.credits[w] \in Nat /\ GrantedIn(run.requests, w)
      /\ \A n \in DOMAIN run.requests :
           GrantedIn(run.requests, run.requests[n].window) => GrantedIn(requests, run.requests[n].window)
  BY <1>1 DEF WindowsInv, RunOK
<1>4. \A w \in DOMAIN run.credits : GrantedIn(requests, w)
  <2>1. SUFFICES ASSUME NEW w \in DOMAIN run.credits PROVE GrantedIn(requests, w)
    OBVIOUS
  <2>2. GrantedIn(run.requests, w)
    BY <1>3
  <2>3. PICK n \in DOMAIN run.requests : run.requests[n].window = w
    BY <2>2 DEF GrantedIn
  <2>4. QED
    BY <1>3, <2>2, <2>3
<1>5. /\ run'.by = run.by /\ run'.sessions = run.sessions
      /\ run'.requests = requests /\ run'.credits = run.credits
  BY <1>1
<1>6. RunOK'
  BY <1>1, <1>3, <1>4, <1>5 DEF RunOK
<1>7. QED
  BY <1>2, <1>6 DEF WindowsInv

------------------------------------------------------------------------------
(* The engine run. *)

LEMMA ElementsJoined ==
    ASSUME NEW S, NEW a \in Seq(S), NEW b \in Seq(S)
    PROVE  /\ DOMAIN a \subseteq DOMAIN (a \o b) /\ \A n \in DOMAIN a : (a \o b)[n] = a[n]
           /\ \A n \in DOMAIN (a \o b) :
                \/ n \in DOMAIN a
                \/ n \notin DOMAIN a /\ n - Len(a) \in DOMAIN b /\ (a \o b)[n] = b[n - Len(a)]
<1>1. PICK c : c = a \o b
  OBVIOUS
<1>2. Len(a) \in Nat /\ Len(b) \in Nat /\ DOMAIN a = 1..Len(a) /\ DOMAIN b = 1..Len(b) /\ DOMAIN c = 1..(Len(a) + Len(b))
  BY <1>1
<1>3. \A n \in 1..(Len(a) + Len(b)) : c[n] = IF n <= Len(a) THEN a[n] ELSE b[n - Len(a)]
  BY <1>1
<1>4. QED
  BY <1>1, <1>2, <1>3

LEMMA GrantedIs ==
    ASSUME NEW log, NEW w
    PROVE  /\ GrantedIn(log, w) => IsApproved(log, w)
           /\ Granted(log, w) => GrantedIn(log, w)
<1>1. GrantedIn(log, w) => IsApproved(log, w)
  BY DEF GrantedIn, IsApproved, Range
<1>2. Granted(log, w) => GrantedIn(log, w)
  BY DEF Granted, GrantedIn, Originals, RequestsFor
<1>3. QED
  BY <1>1, <1>2

(* The requests a run leaves: those it keeps and those it adds. *)
LEMMA RequestsAre ==
    ASSUME NEW log \in Seq(Request), Orderly(log), NEW kept \in Seq(Request), DOMAIN kept = DOMAIN log,
           \A n \in DOMAIN log :
              /\ kept[n].window = log[n].window /\ kept[n].kind = log[n].kind
              /\ log[n].status = "approved" => kept[n].status = "approved"
              /\ Standing(kept[n]) => Standing(log[n]),
           NEW asked, IsFiniteSet(asked), \A r \in asked : r \in Request,
           \A q, r \in asked : q.window = r.window => q = r,
           \A r \in asked : RequestsFor(kept, r.window, {r.kind}) = {},
           \A r \in asked : r.kind # "window" => GrantedIn(log, r.window)
    PROVE  LET new == kept \o SetToSeq(asked)
           IN  /\ new \in Seq(Request) /\ Orderly(new)
               /\ \A n \in DOMAIN new : (n \in DOMAIN log /\ new[n].window = log[n].window) \/ new[n] \in asked
               /\ \A w : GrantedIn(log, w) => GrantedIn(new, w)
<1>1. PICK q : q = SetToSeq(asked)
  OBVIOUS
<1>2. q \in Seq(asked) /\ IsInjective(q)
  BY <1>1, Listed
<1>3. q \in Seq(Request) /\ \A m \in DOMAIN q : q[m] \in asked
  BY <1>2
<1>4. PICK new : new = kept \o q
  OBVIOUS
<1>5. new \in Seq(Request)
  BY <1>3, <1>4, SequencesJoin
<1>6. /\ DOMAIN log \subseteq DOMAIN new /\ \A n \in DOMAIN log : new[n] = kept[n]
      /\ \A n \in DOMAIN new :
           \/ n \in DOMAIN log
           \/ n \notin DOMAIN log /\ n - Len(kept) \in DOMAIN q /\ new[n] = q[n - Len(kept)]
  BY <1>3, <1>4, ElementsJoined
<1>7. \A n \in DOMAIN new : (n \in DOMAIN log /\ new[n].window = log[n].window) \/ new[n] \in asked
  BY <1>3, <1>6
<1>8. \A w : GrantedIn(log, w) => GrantedIn(new, w)
  BY <1>6 DEF GrantedIn
<1>9. \A n \in DOMAIN new : new[n].kind # "window" => GrantedIn(new, new[n].window)
  <2>1. TAKE n \in DOMAIN new
  <2>2. CASE n \in DOMAIN log
    BY <1>6, <1>8, <2>2 DEF Orderly
  <2>3. CASE n \notin DOMAIN log
    BY <1>3, <1>6, <1>8, <2>3
  <2>4. QED
    BY <2>2, <2>3
<1>10. ASSUME NEW n \in DOMAIN log, NEW r \in asked, new[n].window = r.window, new[n].kind = r.kind, Standing(new[n])
       PROVE  FALSE
  <2>1. n \in RequestsFor(kept, r.window, {r.kind})
    BY <1>6, <1>10 DEF RequestsFor
  <2>2. QED
    BY <2>1
<1>11. ASSUME NEW m \in DOMAIN new, NEW n \in DOMAIN new, new[m].window = new[n].window, new[m].kind = new[n].kind,
              Standing(new[m]), Standing(new[n])
       PROVE  m = n
  <2>1. CASE m \in DOMAIN log /\ n \in DOMAIN log
    BY <1>6, <1>11, <2>1 DEF Orderly
  <2>2. CASE m \in DOMAIN log /\ n \notin DOMAIN log
    BY <1>3, <1>6, <1>10, <1>11, <2>2
  <2>3. CASE m \notin DOMAIN log /\ n \in DOMAIN log
    BY <1>3, <1>6, <1>10, <1>11, <2>3
  <2>4. CASE m \notin DOMAIN log /\ n \notin DOMAIN log
    <3>1. PICK a, b : a = m - Len(kept) /\ b = n - Len(kept)
      OBVIOUS
    <3>2. a \in DOMAIN q /\ b \in DOMAIN q /\ new[m] = q[a] /\ new[n] = q[b]
      BY <1>6, <2>4, <3>1
    <3>3. q[a] = q[b]
      BY <1>3, <1>11, <3>2
    <3>4. a = b
      BY <1>2, <3>2, <3>3 DEF IsInjective
    <3>5. m \in Int /\ n \in Int /\ Len(kept) \in Int
      BY <1>5
    <3>6. QED
      BY <3>1, <3>4, <3>5
  <2>5. QED
    BY <2>1, <2>2, <2>3, <2>4
<1>12. Orderly(new)
  BY <1>9, <1>11 DEF Orderly
<1>13. QED
  BY <1>1, <1>4, <1>5, <1>7, <1>8, <1>12

(* How a run ends, given what it has worked out. *)
RunEnds(states, rows, undone, asked, kept) ==
    IF Refused(undone, kept, asked)
    THEN /\ sessions' = IF run.by = "hr" THEN sessions ELSE run.sessions
         /\ failed' = (failed \/ run.by # "hr")
         /\ UNCHANGED <<periods, windows, requests>>
    ELSE /\ sessions' = run.sessions
         /\ failed' = FALSE
         /\ periods' = states
         /\ windows' = rows
         /\ requests' = kept \o SetToSeq(asked)
DueFor(rows, touched) == [w \in touched |-> rows[w].days - Paid(w)]
Drops(rows, undone, touched, due, first) ==
    UNION {Dropped(run.requests, w, rows[w], due[w], first) : w \in touched}
      \cup {n \in DOMAIN run.requests : run.requests[n].window \in undone}
Updates(rows, touched) == UNION {Updated(run.requests, w, rows[w]) : w \in touched}

LEMMA RunIs ==
    ASSUME Recalculate
    PROVE  \E work, states, rows, undone, touched, due, first, asked, dropped, updated, kept :
             /\ work = Work(run.sessions) /\ states = NewPeriods(work) /\ rows = NewWindows(work, states)
             /\ undone = Undone(work, rows) /\ touched = Touched(rows, states)
             /\ due = DueFor(rows, touched) /\ asked = Asks(run.requests, rows, touched, due, first)
             /\ kept = Kept(rows, dropped, updated)
             /\ RunEnds(states, rows, undone, asked, kept)
<1>1. \E work \in {Work(run.sessions)} :
      \E states \in {NewPeriods(work)} : \E rows \in {NewWindows(work, states)} :
      \E undone \in {Undone(work, rows)}, touched \in {Touched(rows, states)} :
      \E due \in {DueFor(rows, touched)}, first \in {"pending", "approved"} :
      \E dropped \in {Drops(rows, undone, touched, due, first)}, updated \in {Updates(rows, touched)},
         asked \in {Asks(run.requests, rows, touched, due, first)} :
      \E kept \in {Kept(rows, dropped, updated)} : RunEnds(states, rows, undone, asked, kept)
  BY DEF Recalculate, DueFor, Drops, Updates, Asks, RunEnds
<1>2. QED
  BY <1>1

LEMMA RecalculateKeeps ==
    ASSUME WindowsInv, Recalculate
    PROVE  WindowsInv'
<1>1. PICK work, states, rows, undone, touched, due, first, asked, dropped, updated, kept :
        /\ work = Work(run.sessions) /\ states = NewPeriods(work) /\ rows = NewWindows(work, states)
        /\ undone = Undone(work, rows) /\ touched = Touched(rows, states)
        /\ due = DueFor(rows, touched) /\ asked = Asks(run.requests, rows, touched, due, first)
        /\ kept = Kept(rows, dropped, updated)
        /\ RunEnds(states, rows, undone, asked, kept)
  BY RunIs
<1>4. run # NoRun /\ run' = NoRun /\ now' = now /\ changes' = changes /\ credits' = credits
  BY DEF Recalculate
<1>5. /\ run.by \in {"clock", "hr", "processor"}
      /\ run.sessions \in Seq(Session) /\ Recordable(run.sessions) /\ Past(run.sessions, now)
      /\ \A w \in DOMAIN run.credits : run.credits[w] \in Nat
      /\ \A n \in DOMAIN run.requests :
            GrantedIn(run.requests, run.requests[n].window) => GrantedIn(requests, run.requests[n].window)
  BY <1>4 DEF WindowsInv, RunOK
<1>6. RunOK'
  BY <1>4 DEF RunOK
<1>7. CASE Refused(undone, kept, asked)
  <2>1. /\ sessions' = IF run.by = "hr" THEN sessions ELSE run.sessions
        /\ failed' = (failed \/ run.by # "hr")
        /\ periods' = periods /\ windows' = windows /\ requests' = requests
    BY <1>1, <1>7 DEF RunEnds
  <2>2. RowsOK' /\ RequestsOK' /\ CreditsOK'
    BY <1>4, <2>1 DEF WindowsInv, RowsOK, RequestsOK, CreditsOK
  <2>3. CASE run.by = "hr"
    <3>1. sessions' = sessions /\ failed' = failed
      <4>1. failed \in BOOLEAN
        BY DEF WindowsInv, EvidenceOK
      <4>2. QED
        BY <2>1, <2>3, <4>1
    <3>2. EvidenceOK' /\ CurrentOK'
      BY <1>4, <2>1, <3>1 DEF WindowsInv, EvidenceOK, CurrentOK, Current
    <3>3. QED
      BY <1>6, <2>2, <3>2 DEF WindowsInv
  <2>4. CASE run.by # "hr"
    <3>1. sessions' = run.sessions /\ failed'
      BY <2>1, <2>4
    <3>2. failed' \in BOOLEAN
      BY <2>1
    <3>3. EvidenceOK'
      BY <1>4, <1>5, <3>1, <3>2 DEF WindowsInv, EvidenceOK
    <3>4. CurrentOK'
      BY <3>1 DEF CurrentOK
    <3>5. QED
      BY <1>6, <2>2, <3>3, <3>4 DEF WindowsInv
  <2>5. QED
    BY <2>3, <2>4
<1>8. CASE ~Refused(undone, kept, asked)
  <2>1. sessions' = run.sessions /\ failed' = FALSE /\ periods' = states /\ windows' = rows
        /\ requests' = kept \o SetToSeq(asked)
    BY <1>1, <1>8 DEF RunEnds
  <2>2. /\ now \in Instant /\ now \in Nat /\ periods \in Seq(Period) /\ RowsFit(windows, periods, now)
        /\ requests \in Seq(Request) /\ Orderly(requests)
        /\ \A n \in DOMAIN requests : requests[n].window \in DOMAIN windows
    BY WindowsAssumption DEF WindowsInv, EvidenceOK, RowsOK, RequestsOK, Instant
  <2>3. work = WorkAt(run.sessions, now) /\ Real(work, now)
    BY <1>1, <1>5, <2>2, WorkNow, WorkAtReal
  <2>4. /\ states \in Seq(Period) /\ DOMAIN periods \subseteq DOMAIN states
        /\ \A p \in DOMAIN periods : states[p].start = periods[p].start
        /\ \A p \in DOMAIN states : states[p].live => states[p].start \in Starts(work)
    BY <1>1, <2>2, <2>3, StatesAre
  <2>5. /\ RowsFit(rows, states, now)
        /\ DOMAIN windows \subseteq DOMAIN rows
        /\ \A w \in DOMAIN rows : states[w[1]].live /\ rows[w].closed =>
             Agrees(rows[w], work, states[w[1]].start, w[2], now)
    <3>1. /\ RowsFit(NewWindows(work, states), states, now)
          /\ DOMAIN windows \subseteq DOMAIN NewWindows(work, states)
          /\ \A w \in DOMAIN NewWindows(work, states) : states[w[1]].live /\ NewWindows(work, states)[w].closed =>
               Agrees(NewWindows(work, states)[w], work, states[w[1]].start, w[2], now)
      BY <2>2, <2>3, <2>4, RowsAre
    <3>2. QED
      BY <1>1, <3>1
  <2>6. RowsOK'
    BY <1>4, <2>1, <2>4, <2>5 DEF RowsOK
  <2>7. CurrentOK'
    <3>1. Current(work)'
      BY <1>4, <2>1, <2>4, <2>5 DEF Current
    <3>2. WorkAt(sessions, now)' = work
      BY <1>4, <2>1, <2>3
    <3>3. QED
      BY <3>1, <3>2 DEF CurrentOK
  <2>8. EvidenceOK'
    BY <1>4, <1>5, <2>1 DEF WindowsInv, EvidenceOK
  <2>9. /\ IsFiniteSet(asked)
        /\ \A r \in asked : /\ r \in Request /\ r.window \in DOMAIN rows
                            /\ r.kind # "window" => Granted(run.requests, r.window)
        /\ \A q, r \in asked : q.window = r.window => q = r
    <3>1. touched \in SUBSET DOMAIN rows
      BY <1>1 DEF Touched
    <3>2. \A w \in touched : due[w] \in Int
      <4>1. TAKE w \in touched
      <4>2. due[w] = rows[w].days - Paid(w)
        BY <1>1 DEF DueFor
      <4>3. rows[w].days \in Nat
        BY <2>5, <3>1, WindowIs DEF RowsFit, RowFits
      <4>4. Paid(w) \in Nat
        BY <1>5 DEF Paid
      <4>5. QED
        BY <4>2, <4>3, <4>4
    <3>3. QED
      <4>1. Differences(due, touched, rows, states, now)
        BY <2>4, <2>5, <3>1, <3>2 DEF Differences
      <4>2. PICK log : log = run.requests
        OBVIOUS
      <4>3. CalledFor(Asks(log, rows, touched, due, first), log, rows)
        BY <4>1, AskedAre
      <4>4. CalledFor(asked, run.requests, rows)
        BY <1>1, <4>2, <4>3
      <4>5. QED
        BY <4>4 DEF CalledFor
  <2>10. \A r \in asked : r.kind # "window" => GrantedIn(requests, r.window)
    <3>1. TAKE r \in asked
    <3>2. HAVE r.kind # "window"
    <3>3. GrantedIn(run.requests, r.window)
      BY <2>9, <3>2, GrantedIs
    <3>4. PICK n \in DOMAIN run.requests : run.requests[n].window = r.window
      BY <3>3 DEF GrantedIn
    <3>5. QED
      BY <1>5, <3>3, <3>4
  <2>11. /\ kept \in Seq(Request)
         /\ DOMAIN kept = DOMAIN requests
         /\ \A n \in DOMAIN requests :
              /\ kept[n].window = requests[n].window
              /\ kept[n].kind = requests[n].kind
              /\ requests[n].status = "approved" => kept[n].status = "approved"
              /\ Standing(kept[n]) => Standing(requests[n])
    <3>1. \A n \in DOMAIN requests : rows[requests[n].window] \in Window
      BY <2>2, <2>5 DEF RowsFit, RowFits
    <3>2. requests \in Seq(Request) /\ kept = Kept(rows, dropped, updated)
      BY <1>1, <2>2
    <3>3. kept \in Seq(Request) /\ DOMAIN kept = DOMAIN requests
      BY <3>1, <3>2, KeptAre
    <3>4. \A n \in DOMAIN requests :
            /\ kept[n].window = requests[n].window
            /\ kept[n].kind = requests[n].kind
            /\ requests[n].status = "approved" => kept[n].status = "approved"
            /\ Standing(kept[n]) => Standing(requests[n])
      BY <3>1, <3>2, KeptAre
    <3>5. QED
      BY <3>3, <3>4
  <2>12. \A r \in asked : RequestsFor(kept, r.window, {r.kind}) = {}
    BY <1>8 DEF Refused
  <2>13. PICK new : new = kept \o SetToSeq(asked)
    OBVIOUS
  <2>14. /\ new \in Seq(Request) /\ Orderly(new)
         /\ \A n \in DOMAIN new : (n \in DOMAIN requests /\ new[n].window = requests[n].window) \/ new[n] \in asked
         /\ \A w : GrantedIn(requests, w) => GrantedIn(new, w)
    BY <2>2, <2>9, <2>10, <2>11, <2>12, <2>13, RequestsAre
  <2>15. RequestsOK'
    <3>1. \A n \in DOMAIN new : new[n].window \in DOMAIN rows
      BY <2>2, <2>5, <2>9, <2>14
    <3>2. QED
      BY <2>1, <2>13, <2>14, <3>1 DEF RequestsOK
  <2>16. CreditsOK'
    <3>1. \A w \in DOMAIN credits : credits[w] \in Nat /\ GrantedIn(new, w) /\ w \in DOMAIN rows
      BY <2>5, <2>14 DEF WindowsInv, CreditsOK
    <3>2. QED
      BY <1>4, <2>1, <2>13, <3>1 DEF CreditsOK
  <2>17. QED
    BY <1>6, <2>6, <2>7, <2>8, <2>15, <2>16 DEF WindowsInv
<1>9. QED
  BY <1>7, <1>8

------------------------------------------------------------------------------
(* Decisions, and time. *)

LEMMA InvIs ==
    ASSUME WindowsInv
    PROVE  /\ now \in Instant /\ now \in Nat /\ changes \in 0..MaxEdits
           /\ periods \in Seq(Period) /\ RowsFit(windows, periods, now)
           /\ requests \in Seq(Request) /\ Orderly(requests)
           /\ \A n \in DOMAIN requests : requests[n].window \in DOMAIN windows
           /\ DOMAIN credits \subseteq DOMAIN windows
           /\ \A w \in DOMAIN credits : credits[w] \in Nat /\ GrantedIn(requests, w)
           /\ \A w \in DOMAIN windows : windows[w] \in Window
BY WindowsAssumption DEF WindowsInv, EvidenceOK, RowsOK, RequestsOK, CreditsOK, Instant, RowsFit, RowFits

(* A decision on one request: what was approved stays so. *)
LEMMA DecisionKeeps ==
    ASSUME NEW log \in Seq(Request), Orderly(log), NEW n \in DOMAIN log, log[n].status = "pending",
           NEW r \in Request, r.window = log[n].window, r.kind = log[n].kind
    PROVE  LET new == [log EXCEPT ![n] = r]
           IN  /\ new \in Seq(Request) /\ DOMAIN new = DOMAIN log /\ Orderly(new)
               /\ \A m \in DOMAIN log : new[m] = IF m = n THEN r ELSE log[m]
               /\ \A m \in DOMAIN log : new[m].window = log[m].window
               /\ \A w : GrantedIn(log, w) => GrantedIn(new, w)
<1>1. PICK new : new = [log EXCEPT ![n] = r]
  OBVIOUS
<1>2. new \in Seq(Request) /\ DOMAIN new = DOMAIN log /\ \A m \in DOMAIN log : new[m] = IF m = n THEN r ELSE log[m]
  BY <1>1
<1>3. \A m \in DOMAIN log : new[m].window = log[m].window /\ new[m].kind = log[m].kind
  BY <1>2
<1>4. \A m \in DOMAIN log : (log[m].status = "approved" => new[m].status = "approved")
                            /\ (Standing(new[m]) => Standing(log[m]))
  BY <1>2 DEF Standing
<1>5. \A w : GrantedIn(log, w) => GrantedIn(new, w)
  BY <1>2, <1>3, <1>4 DEF GrantedIn
<1>6. Orderly(new)
  <2>1. \A l, m \in DOMAIN new :
          new[l].window = new[m].window /\ new[l].kind = new[m].kind /\ Standing(new[l]) /\ Standing(new[m]) => l = m
    BY <1>2, <1>3, <1>4 DEF Orderly
  <2>2. \A m \in DOMAIN new : new[m].kind # "window" => GrantedIn(new, new[m].window)
    BY <1>2, <1>3, <1>5 DEF Orderly
  <2>3. QED
    BY <2>1, <2>2 DEF Orderly
<1>7. QED
  BY <1>1, <1>2, <1>3, <1>5, <1>6

LEMMA DecidedKeeps ==
    ASSUME WindowsInv, NEW n \in DOMAIN requests, requests[n].status = "pending",
           NEW r \in Request, r.window = requests[n].window, r.kind = requests[n].kind,
           requests' = [requests EXCEPT ![n] = r],
           UNCHANGED <<now, sessions, changes, periods, windows, run, failed>>
    PROVE  /\ EvidenceOK' /\ RowsOK' /\ RequestsOK' /\ RunOK' /\ CurrentOK'
           /\ \A w : GrantedIn(requests, w) => GrantedIn(requests', w)
           /\ DOMAIN requests' = DOMAIN requests
           /\ \A m \in DOMAIN requests : requests'[m] = IF m = n THEN r ELSE requests[m]
<1>1. requests \in Seq(Request) /\ Orderly(requests) /\ \A m \in DOMAIN requests : requests[m].window \in DOMAIN windows
  BY InvIs
<1>2. PICK log : log = requests
  OBVIOUS
<1>3. PICK new : new = [log EXCEPT ![n] = r]
  OBVIOUS
<1>4. /\ new \in Seq(Request) /\ DOMAIN new = DOMAIN log /\ Orderly(new)
      /\ \A m \in DOMAIN log : new[m] = IF m = n THEN r ELSE log[m]
      /\ \A m \in DOMAIN log : new[m].window = log[m].window
      /\ \A w : GrantedIn(log, w) => GrantedIn(new, w)
  <2>1. log \in Seq(Request) /\ Orderly(log) /\ n \in DOMAIN log /\ log[n].status = "pending"
        /\ r.window = log[n].window /\ r.kind = log[n].kind
    BY <1>1, <1>2
  <2>2. QED
    BY <1>3, <2>1, DecisionKeeps
<1>5. requests' = new
  BY <1>2, <1>3
<1>6. RequestsOK'
  BY <1>1, <1>2, <1>4, <1>5 DEF RequestsOK
<1>7. EvidenceOK' /\ RowsOK'
  BY DEF WindowsInv, EvidenceOK, RowsOK
<1>8. CurrentOK'
  BY DEF WindowsInv, CurrentOK, Current
<1>9. RunOK'
  <2>1. CASE run = NoRun
    BY <2>1 DEF RunOK
  <2>2. CASE run # NoRun
    <3>1. /\ run.by \in {"clock", "hr", "processor"}
          /\ run.sessions \in Seq(Session) /\ Recordable(run.sessions) /\ Past(run.sessions, now)
          /\ \A w \in DOMAIN run.credits : run.credits[w] \in Nat /\ GrantedIn(run.requests, w)
          /\ \A m \in DOMAIN run.requests :
               GrantedIn(run.requests, run.requests[m].window) => GrantedIn(requests, run.requests[m].window)
      BY <2>2 DEF WindowsInv, RunOK
    <3>2. \A m \in DOMAIN run.requests :
            GrantedIn(run.requests, run.requests[m].window) => GrantedIn(new, run.requests[m].window)
      BY <1>2, <1>4, <3>1
    <3>3. QED
      BY <1>5, <3>1, <3>2 DEF RunOK
  <2>3. QED
    BY <2>1, <2>2
<1>10. QED
  BY <1>2, <1>4, <1>5, <1>6, <1>7, <1>8, <1>9

LEMMA LeadApprovesKeeps ==
    ASSUME WindowsInv, LeadApproves
    PROVE  WindowsInv'
<1>1. PICK n \in DOMAIN requests : requests[n].status = "pending" /\ requests' = [requests EXCEPT ![n].lead = TRUE]
  BY DEF LeadApproves
<1>2. PICK r : r = [requests[n] EXCEPT !.lead = TRUE]
  OBVIOUS
<1>3. r \in Request /\ r.window = requests[n].window /\ r.kind = requests[n].kind
  <2>1. requests[n] \in Request
    BY InvIs
  <2>2. QED
    BY <1>2, <2>1 DEF Request
<1>4. requests' = [requests EXCEPT ![n] = r]
  BY <1>1, <1>2
<1>5. UNCHANGED <<now, sessions, changes, periods, windows, run, failed>> /\ credits' = credits
  BY DEF LeadApproves
<1>6. /\ EvidenceOK' /\ RowsOK' /\ RequestsOK' /\ RunOK' /\ CurrentOK'
      /\ \A w : GrantedIn(requests, w) => GrantedIn(requests', w)
  BY <1>1, <1>3, <1>4, <1>5, DecidedKeeps
<1>7. CreditsOK'
  BY <1>5, <1>6, InvIs DEF CreditsOK
<1>8. QED
  BY <1>6, <1>7 DEF WindowsInv

LEMMA RejectKeeps ==
    ASSUME WindowsInv, Reject
    PROVE  WindowsInv'
<1>1. PICK n \in DOMAIN requests : requests[n].status = "pending" /\ requests' = [requests EXCEPT ![n].status = "rejected"]
  BY DEF Reject
<1>2. PICK r : r = [requests[n] EXCEPT !.status = "rejected"]
  OBVIOUS
<1>3. r \in Request /\ r.window = requests[n].window /\ r.kind = requests[n].kind
  <2>1. requests[n] \in Request
    BY InvIs
  <2>2. QED
    BY <1>2, <2>1 DEF Request
<1>4. requests' = [requests EXCEPT ![n] = r]
  BY <1>1, <1>2
<1>5. UNCHANGED <<now, sessions, changes, periods, windows, run, failed>> /\ credits' = credits
  BY DEF Reject
<1>6. /\ EvidenceOK' /\ RowsOK' /\ RequestsOK' /\ RunOK' /\ CurrentOK'
      /\ \A w : GrantedIn(requests, w) => GrantedIn(requests', w)
  BY <1>1, <1>3, <1>4, <1>5, DecidedKeeps
<1>7. CreditsOK'
  BY <1>5, <1>6, InvIs DEF CreditsOK
<1>8. QED
  BY <1>6, <1>7 DEF WindowsInv

(* What approval posts: the days the window's row says. *)
LEMMA PostedIs ==
    ASSUME WindowsInv, NEW n \in DOMAIN requests, requests[n].status = "pending", Approvable(requests[n])
    PROVE  LET w == requests[n].window
           IN  /\ DOMAIN Posted(requests[n]) = DOMAIN credits \cup {w}
               /\ \A v \in DOMAIN credits : v # w => Posted(requests[n])[v] = credits[v]
               /\ Posted(requests[n])[w] = windows[w].days /\ windows[w].days \in Nat
               /\ windows[w].closed /\ periods[w[1]].live /\ (NeedsVerification(w) => windows[w].verified)
               /\ requests[n].kind # "window" => GrantedIn(requests, w)
<1>1. PICK r, w : r = requests[n] /\ w = requests[n].window
  OBVIOUS
<1>2. r \in Request /\ w \in DOMAIN windows /\ windows[w] \in Window /\ r.window = w
  BY <1>1, InvIs
<1>3. r.days \in Nat /\ r.kind \in {"window", "top_up", "reduction"} /\ windows[w].days \in Nat
  BY <1>2, RequestIs, WindowIs
<1>4. CreditOf(w) \in Nat
  BY InvIs DEF CreditOf
<1>5. r.kind = "window" => CreditOf(w) = 0
  <2>1. SUFFICES ASSUME r.kind = "window", w \in DOMAIN credits PROVE FALSE
    BY DEF CreditOf
  <2>2. PICK m \in DOMAIN requests : requests[m].window = w /\ requests[m].kind = "window" /\ requests[m].status = "approved"
    BY <2>1, InvIs DEF GrantedIn
  <2>3. m = n
    BY <1>1, <2>1, <2>2, InvIs DEF Orderly, Standing
  <2>4. QED
    BY <2>2, <2>3
<1>6. PICK expected : expected = CASE r.kind = "window" -> windows[w].days
                                   [] r.kind = "top_up" -> windows[w].days - CreditOf(w)
                                   [] r.kind = "reduction" -> CreditOf(w) - windows[w].days
  OBVIOUS
<1>7. /\ windows[w].closed /\ periods[w[1]].live /\ r.days = expected
      /\ NeedsVerification(w) => windows[w].verified
  BY <1>1, <1>2, <1>6 DEF Approvable, LivePeriod
<1>8. PICK sum : sum = CreditOf(w) + (IF r.kind = "reduction" THEN -r.days ELSE r.days)
  OBVIOUS
<1>9. sum = windows[w].days
  BY <1>3, <1>4, <1>5, <1>6, <1>7, <1>8
<1>10. Posted(r) = [v \in DOMAIN credits \cup {w} |-> IF v = w THEN sum ELSE credits[v]]
  BY <1>2, <1>8 DEF Posted
<1>11. NeedsVerification(w) => windows[w].verified
  BY <1>7
<1>12. r.kind # "window" => GrantedIn(requests, w)
  BY <1>1, InvIs DEF Orderly
<1>13. QED
  BY <1>1, <1>3, <1>7, <1>9, <1>10, <1>11, <1>12

LEMMA HrApprovesKeeps ==
    ASSUME WindowsInv, HrApproves
    PROVE  WindowsInv'
<1>1. PICK n \in DOMAIN requests :
        /\ requests[n].status = "pending" /\ Approvable(requests[n])
        /\ requests' = [requests EXCEPT ![n].status = "approved"]
        /\ credits' = Posted(requests[n])
  BY DEF HrApproves
<1>2. PICK r : r = [requests[n] EXCEPT !.status = "approved"]
  OBVIOUS
<1>3. r \in Request /\ r.window = requests[n].window /\ r.kind = requests[n].kind /\ r.status = "approved"
  <2>1. requests[n] \in Request
    BY InvIs
  <2>2. QED
    BY <1>2, <2>1 DEF Request
<1>4. requests' = [requests EXCEPT ![n] = r]
  BY <1>1, <1>2
<1>5. UNCHANGED <<now, sessions, changes, periods, windows, run, failed>>
  BY DEF HrApproves
<1>6. /\ EvidenceOK' /\ RowsOK' /\ RequestsOK' /\ RunOK' /\ CurrentOK'
      /\ \A w : GrantedIn(requests, w) => GrantedIn(requests', w)
      /\ DOMAIN requests' = DOMAIN requests
      /\ \A m \in DOMAIN requests : requests'[m] = IF m = n THEN r ELSE requests[m]
  BY <1>1, <1>3, <1>4, <1>5, DecidedKeeps
<1>7. PICK w : w = requests[n].window
  OBVIOUS
<1>8. /\ DOMAIN credits' = DOMAIN credits \cup {w}
      /\ \A v \in DOMAIN credits : v # w => credits'[v] = credits[v]
      /\ credits'[w] \in Nat
      /\ requests[n].kind # "window" => GrantedIn(requests, w)
  BY <1>1, <1>7, PostedIs
<1>9. GrantedIn(requests', w)
  <2>1. CASE requests[n].kind # "window"
    BY <1>6, <1>8, <2>1
  <2>2. CASE requests[n].kind = "window"
    <3>1. requests'[n] = r /\ n \in DOMAIN requests'
      BY <1>6
    <3>2. QED
      BY <1>3, <1>7, <2>2, <3>1 DEF GrantedIn
  <2>3. QED
    BY <2>1, <2>2
<1>10. w \in DOMAIN windows
  BY <1>7, InvIs
<1>11. \A v \in DOMAIN credits' : credits'[v] \in Nat /\ GrantedIn(requests', v) /\ v \in DOMAIN windows
  BY <1>6, <1>8, <1>9, <1>10, InvIs
<1>12. CreditsOK'
  BY <1>5, <1>11 DEF CreditsOK
<1>13. QED
  BY <1>6, <1>12 DEF WindowsInv

LEMMA VerifyKeeps ==
    ASSUME WindowsInv, Verify
    PROVE  WindowsInv'
<1>1. PICK w \in DOMAIN windows : windows[w].closed /\ windows' = [windows EXCEPT ![w].verified = TRUE]
  BY DEF Verify
<1>2. UNCHANGED <<now, sessions, changes, periods, requests, credits, run, failed>>
  BY DEF Verify
<1>3. DOMAIN windows' = DOMAIN windows
  BY <1>1
<1>4. ASSUME NEW v \in DOMAIN windows
      PROVE  /\ windows'[v] \in Window /\ windows'[v].recorded = windows[v].recorded /\ windows'[v].days = windows[v].days
             /\ windows'[v].closed = windows[v].closed /\ windows'[v].byHr = windows[v].byHr
  <2>1. windows[v] \in Window
    BY InvIs
  <2>2. CASE v = w
    <3>1. windows'[v] = [windows[v] EXCEPT !.verified = TRUE]
      BY <1>1, <2>2
    <3>2. QED
      BY <2>1, <3>1 DEF Window
  <2>3. CASE v # w
    <3>1. windows'[v] = windows[v]
      BY <1>1, <2>3
    <3>2. QED
      BY <2>1, <3>1
  <2>4. QED
    BY <2>2, <2>3
<1>5. RowsFit(windows, periods, now)'
  BY <1>2, <1>3, <1>4, InvIs DEF RowsFit, RowFits
<1>6. EvidenceOK' /\ RowsOK'
  BY <1>2, <1>5 DEF WindowsInv, EvidenceOK, RowsOK
<1>7. RequestsOK' /\ CreditsOK' /\ RunOK'
  BY <1>2, <1>3 DEF WindowsInv, RequestsOK, CreditsOK, RunOK
<1>8. CurrentOK'
  BY <1>2, <1>3, <1>4 DEF WindowsInv, CurrentOK, Current, Agrees
<1>9. QED
  BY <1>6, <1>7, <1>8 DEF WindowsInv

LEMMA TimeKeeps ==
    ASSUME WindowsInv, TimePasses
    PROVE  WindowsInv'
<1>1. run = NoRun /\ now < MaxNow /\ now' = now + 1
      /\ UNCHANGED <<sessions, changes, periods, windows, requests, credits, run, failed>>
  BY DEF TimePasses
<1>2. /\ now \in Instant /\ now \in Nat /\ sessions \in Seq(Session) /\ Recordable(sessions) /\ Past(sessions, now)
      /\ changes \in 0..MaxEdits /\ failed \in BOOLEAN /\ MaxNow \in Nat
  BY WindowsAssumption DEF WindowsInv, EvidenceOK, Instant
<1>3. now' \in Instant
  BY <1>1, <1>2 DEF Instant
<1>4. PICK old, new : old = WorkAt(sessions, now) /\ new = WorkAt(sessions, now + 1)
  OBVIOUS
<1>5. Past(sessions, now + 1) /\ Ages(new, old, now)
  BY <1>2, <1>4, WorkAges
<1>6. EvidenceOK'
  BY <1>1, <1>2, <1>3, <1>5 DEF EvidenceOK
<1>7. RowsOK'
  <2>1. periods \in Seq(Period) /\ RowsFit(windows, periods, now)
    BY InvIs
  <2>2. ASSUME NEW w \in DOMAIN windows PROVE RowFits(windows[w], periods[w[1]].start, w[2], now + 1)
    <3>1. RowFits(windows[w], periods[w[1]].start, w[2], now) /\ w[1] \in DOMAIN periods /\ w[2] \in Nat
      BY <2>1 DEF RowsFit
    <3>2. periods[w[1]].start \in Nat
      <4>1. periods[w[1]] \in Period
        BY <2>1, <3>1
      <4>2. QED
        BY <4>1, WindowsAssumption DEF Period, Instant
    <3>3. PICK a : a = WindowStart(periods[w[1]].start, w[2]) /\ a \in Int
      BY <3>1, <3>2, Ends
    <3>4. a + RestGap <= now => a + RestGap <= now + 1
      BY <1>2, <3>3, RulesAre
    <3>5. QED
      BY <3>1, <3>3, <3>4 DEF RowFits
  <2>3. RowsFit(windows, periods, now + 1)
    BY <2>1, <2>2 DEF RowsFit
  <2>4. QED
    BY <1>1, <2>1, <2>3 DEF RowsOK
<1>8. RequestsOK' /\ CreditsOK'
  BY <1>1 DEF WindowsInv, RequestsOK, CreditsOK
<1>9. RunOK'
  BY <1>1 DEF RunOK
<1>10. CurrentOK'
  <2>1. CASE failed
    BY <1>1, <2>1 DEF CurrentOK
  <2>2. CASE ~failed
    <3>1. /\ \A p \in DOMAIN periods : periods[p].live => periods[p].start \in Starts(old)
          /\ \A w \in DOMAIN windows : periods[w[1]].live /\ windows[w].closed =>
               Agrees(windows[w], old, periods[w[1]].start, w[2], now)
      BY <1>4, <2>2 DEF WindowsInv, CurrentOK, Current
    <3>2. \A p \in DOMAIN periods : periods[p].live => periods[p].start \in Starts(new)
      BY <1>2, <1>5, <3>1, StartsAge
    <3>3. ASSUME NEW w \in DOMAIN windows, periods[w[1]].live, windows[w].closed
          PROVE  Agrees(windows[w], new, periods[w[1]].start, w[2], now + 1)
      <4>1. PICK s, k : s = periods[w[1]].start /\ k = w[2]
        OBVIOUS
      <4>2. w[1] \in DOMAIN periods /\ k \in Nat
        BY <4>1, InvIs DEF RowsFit
      <4>3. s \in Starts(old) /\ Agrees(windows[w], old, s, k, now)
        BY <3>1, <3>3, <4>1, <4>2
      <4>4. Closed(old, s, k, now)
        BY <4>3 DEF Agrees
      <4>5. /\ Recorded(new, s, k) = Recorded(old, s, k)
            /\ HrAt(new, s, k) <=> HrAt(old, s, k)
            /\ Closed(new, s, k, now + 1)
        BY <1>2, <1>5, <4>2, <4>3, <4>4, FactsAge
      <4>6. Agrees(windows[w], new, s, k, now + 1)
        BY <4>3, <4>5 DEF Agrees
      <4>7. QED
        BY <4>1, <4>6
    <3>4. Current(new)'
      BY <1>1, <3>2, <3>3 DEF Current
    <3>5. WorkAt(sessions, now)' = new
      BY <1>1, <1>4
    <3>6. QED
      BY <3>4, <3>5 DEF CurrentOK
  <2>3. QED
    BY <2>1, <2>2
<1>11. QED
  BY <1>6, <1>7, <1>8, <1>9, <1>10 DEF WindowsInv

LEMMA WindowsStart ==
    ASSUME WindowsInit
    PROVE  WindowsInv
<1>1. /\ now = 0 /\ changes = 0 /\ sessions = <<>> /\ periods = <<>> /\ requests = <<>>
      /\ windows = <<>> /\ credits = <<>> /\ run = NoRun /\ failed = FALSE
  BY DEF WindowsInit
<1>2. DOMAIN <<>> = {} /\ \A S : <<>> \in Seq(S)
  OBVIOUS
<1>3. EvidenceOK
  <2>1. sessions \in Seq(Session) /\ DOMAIN sessions = {}
    BY <1>1, <1>2
  <2>2. Recordable(sessions) /\ Past(sessions, now)
    BY <2>1 DEF Recordable, Past
  <2>3. now \in Instant /\ changes \in 0..MaxEdits /\ failed \in BOOLEAN
    <3>1. MaxNow \in Nat /\ MaxEdits \in Nat
      BY WindowsAssumption
    <3>2. failed \in BOOLEAN
      BY <1>1
    <3>3. now = 0 /\ changes = 0
      BY <1>1
    <3>4. QED
      BY <3>1, <3>2, <3>3 DEF Instant
  <2>4. QED
    BY <2>1, <2>2, <2>3 DEF EvidenceOK
<1>4. RowsOK
  BY <1>1, <1>2, FS_EmptySet DEF RowsOK, RowsFit
<1>5. RequestsOK /\ CreditsOK /\ RunOK
  BY <1>1, <1>2 DEF RequestsOK, CreditsOK, RunOK, Orderly
<1>6. CurrentOK
  BY <1>1, <1>2 DEF CurrentOK, Current
<1>7. QED
  BY <1>3, <1>4, <1>5, <1>6 DEF WindowsInv

LEMMA WindowsStep ==
    ASSUME WindowsInv, [WindowsNext]_windowsVars
    PROVE  WindowsInv'
<1>1. CASE UNCHANGED windowsVars
  BY <1>1 DEF windowsVars, WindowsInv, EvidenceOK, RowsOK, RequestsOK, CreditsOK, RunOK, CurrentOK, Current
<1>2. CASE ClockIn \/ ClockOut \/ HrClose \/ Correct \/ AddMissing \/ Process
  BY <1>2, ClockInKeeps, ClockOutKeeps, HrCloseKeeps, CorrectKeeps, AddMissingKeeps, ProcessKeeps
<1>3. CASE ReadRequests \/ Recalculate
  BY <1>3, ReadRequestsKeeps, RecalculateKeeps
<1>4. CASE LeadApproves \/ HrApproves \/ Reject \/ Verify
  BY <1>4, LeadApprovesKeeps, HrApprovesKeeps, RejectKeeps, VerifyKeeps
<1>5. CASE TimePasses
  BY <1>5, TimeKeeps
<1>6. QED
  BY <1>1, <1>2, <1>3, <1>4, <1>5 DEF WindowsNext

(* The rows of the engine are those the evidence calls for, whenever no run
   has failed; requests stand one of a kind for a window, and credit is posted
   only on an approved request. *)
THEOREM WindowsInvariant == WindowsSpec => []WindowsInv
<1>1. WindowsInit => WindowsInv
  BY WindowsStart
<1>2. WindowsInv /\ [WindowsNext]_windowsVars => WindowsInv'
  BY WindowsStep
<1>3. QED
  BY <1>1, <1>2, PTL DEF WindowsSpec

(* Type correctness of the engine, its rows, its requests and its credit. *)
THEOREM WindowsTyped == WindowsSpec => []WindowsTypeOK
<1>1. WindowsInv => WindowsTypeOK
  <2>1. SUFFICES ASSUME WindowsInv PROVE WindowsTypeOK
    OBVIOUS
  <2>2. /\ now \in Instant /\ changes \in 0..MaxEdits /\ failed \in BOOLEAN
        /\ sessions \in Seq(Session) /\ Recordable(sessions)
    BY <2>1 DEF WindowsInv, EvidenceOK
  <2>3. periods \in Seq(Period) /\ DOMAIN windows \subseteq (DOMAIN periods) \X Nat /\ requests \in Seq(Request)
    BY <2>1, InvIs DEF RowsFit
  <2>4. Range(windows) \subseteq Window
    BY <2>1, InvIs DEF Range
  <2>5. DOMAIN credits \subseteq DOMAIN windows /\ Range(credits) \subseteq Nat
    BY <2>1, InvIs DEF Range
  <2>6. \/ run = NoRun
        \/ /\ run.by \in {"clock", "hr", "processor"}
           /\ run.sessions \in Seq(Session) /\ Recordable(run.sessions)
    BY <2>1 DEF WindowsInv, RunOK
  <2>7. QED
    BY <2>2, <2>3, <2>4, <2>5, <2>6 DEF WindowsTypeOK
<1>2. QED
  BY <1>1, WindowsInvariant, PTL

(* What the rows say of a closed window is what the evidence says of it. *)
LEMMA EvidenceIs ==
    ASSUME WindowsInv, ~failed, NEW w \in DOMAIN windows, periods[w[1]].live, windows[w].closed
    PROVE  /\ Evidence(w).days = windows[w].days /\ Evidence(w).closed
           /\ Evidence(w).byHr = windows[w].byHr /\ Evidence(w).recorded = windows[w].recorded
<1>1. PICK work, s, k : work = Work(sessions) /\ s = periods[w[1]].start /\ k = w[2]
  OBVIOUS
<1>2. work = WorkAt(sessions, now)
  BY <1>1, WorkNow
<1>3. Agrees(windows[w], work, s, k, now)
  BY <1>1, <1>2 DEF WindowsInv, CurrentOK, Current
<1>4. PICK f : f = Facts(work, s, k)
  OBVIOUS
<1>5. /\ f.days = Entitlement(WindowStart(s, k), Recorded(work, s, k))
      /\ f.recorded = Recorded(work, s, k) /\ f.closed = Closed(work, s, k, now)
      /\ f.byHr = HrAt(work, s, k) /\ f.byHr \in BOOLEAN
  BY <1>4, FactsAre
<1>6. Evidence(w) = f
  BY <1>1, <1>4 DEF Evidence
<1>7. windows[w].byHr \in BOOLEAN
  BY InvIs, WindowIs
<1>8. f.days = windows[w].days /\ f.recorded = windows[w].recorded /\ f.closed
  BY <1>3, <1>5 DEF Agrees
<1>9. f.byHr = windows[w].byHr
  BY <1>3, <1>5, <1>7 DEF Agrees
<1>10. QED
  BY <1>6, <1>8, <1>9

(* Approval posts exactly what the recorded evidence earns, of a window that
   has closed, and verified where it needs verifying, unless a run has failed
   and none succeeded since. *)
THEOREM PostedAlwaysEarned == WindowsSpec => PostedIsEarned
<1> DEFINE Step == \A w \in DOMAIN credits' :
                     ~failed /\ (w \notin DOMAIN credits \/ credits[w] # credits'[w]) =>
                       /\ credits'[w] = Evidence(w).days /\ Evidence(w).closed
                       /\ Evidence(w).byHr \/ Evidence(w).recorded >= AlertWork => windows[w].verified
<1>1. WindowsInv /\ [WindowsNext]_windowsVars => [Step]_windowsVars
  <2>1. SUFFICES ASSUME WindowsInv, WindowsNext PROVE Step
    OBVIOUS
  <2>2. CASE HrApproves
    <3>1. PICK n \in DOMAIN requests :
            requests[n].status = "pending" /\ Approvable(requests[n]) /\ credits' = Posted(requests[n])
      BY <2>2 DEF HrApproves
    <3>2. PICK w : w = requests[n].window
      OBVIOUS
    <3>3. /\ DOMAIN credits' = DOMAIN credits \cup {w}
          /\ \A v \in DOMAIN credits : v # w => credits'[v] = credits[v]
          /\ credits'[w] = windows[w].days
          /\ windows[w].closed /\ periods[w[1]].live /\ (NeedsVerification(w) => windows[w].verified)
      BY <2>1, <3>1, <3>2, PostedIs
    <3>4. w \in DOMAIN windows
      BY <2>1, <3>2, InvIs
    <3>5. ~failed => /\ credits'[w] = Evidence(w).days /\ Evidence(w).closed
                     /\ Evidence(w).byHr \/ Evidence(w).recorded >= AlertWork => windows[w].verified
      BY <2>1, <3>3, <3>4, EvidenceIs DEF NeedsVerification
    <3>6. QED
      BY <3>3, <3>5
  <2>3. CASE ~HrApproves
    <3>1. credits' = credits
      BY <2>1, <2>3 DEF WindowsNext, ClockIn, ClockOut, HrClose, Correct, AddMissing, Process, ReadRequests, Recalculate,
                        LeadApproves, Reject, Verify, TimePasses
    <3>2. QED
      BY <3>1
  <2>4. QED
    BY <2>2, <2>3
<1>2. QED
  BY <1>1, WindowsInvariant, PTL DEF WindowsSpec, PostedIsEarned

(* Credit is stranded, its window superseded or open again, only by a run
   inside which its approval landed. *)
THEOREM StrandedByOverlapOnly == WindowsSpec => StrandedOnlyByOverlap
<1> DEFINE Step == \A w \in Stranded' \ Stranded : run # NoRun /\ w \in DOMAIN credits /\ w \notin DOMAIN run.credits
<1>1. WindowsInv /\ [WindowsNext]_windowsVars => [Step]_windowsVars
  <2>1. SUFFICES ASSUME WindowsInv, WindowsNext, NEW w \in Stranded', w \notin Stranded
                 PROVE  run # NoRun /\ w \in DOMAIN credits /\ w \notin DOMAIN run.credits
    OBVIOUS
  <2>2. w \in DOMAIN credits' /\ credits'[w] > 0 /\ ~(periods'[w[1]].live /\ windows'[w].closed)
    BY <2>1 DEF Stranded, LivePeriod
  <2>3. w \in DOMAIN credits => ~(credits[w] > 0) \/ (periods[w[1]].live /\ windows[w].closed)
    BY <2>1 DEF Stranded, LivePeriod
  <2>4. CASE Recalculate
    <3>1. PICK work, states, rows, undone, touched, due, first, asked, dropped, updated, kept :
            /\ work = Work(run.sessions) /\ states = NewPeriods(work) /\ rows = NewWindows(work, states)
            /\ undone = Undone(work, rows) /\ touched = Touched(rows, states)
            /\ due = DueFor(rows, touched) /\ asked = Asks(run.requests, rows, touched, due, first)
            /\ kept = Kept(rows, dropped, updated)
            /\ RunEnds(states, rows, undone, asked, kept)
      BY <2>4, RunIs
    <3>2. run # NoRun /\ credits' = credits
      BY <2>4 DEF Recalculate
    <3>3. w \in DOMAIN credits /\ periods[w[1]].live /\ windows[w].closed
      BY <2>2, <2>3, <3>2
    <3>4. CASE Refused(undone, kept, asked)
      <4>1. periods' = periods /\ windows' = windows
        BY <3>1, <3>4 DEF RunEnds
      <4>2. QED
        BY <2>2, <3>3, <4>1
    <3>5. CASE ~Refused(undone, kept, asked)
      <4>1. periods' = states /\ windows' = rows
        BY <3>1, <3>5 DEF RunEnds
      <4>2. /\ now \in Instant /\ now \in Nat /\ periods \in Seq(Period) /\ RowsFit(windows, periods, now)
            /\ w \in DOMAIN windows
        BY <2>1, <3>3, InvIs
      <4>3. run.sessions \in Seq(Session) /\ Recordable(run.sessions) /\ Past(run.sessions, now)
            /\ \A v \in DOMAIN run.credits : GrantedIn(run.requests, v)
        BY <2>1, <3>2 DEF WindowsInv, RunOK
      <4>4. Real(work, now)
        BY <3>1, <4>2, <4>3, WorkNow, WorkAtReal
      <4>5. w[1] \in DOMAIN periods
        BY <4>2 DEF RowsFit
      <4>6. \A p \in DOMAIN periods : LivePeriod(p) /\ ~states[p].live => p \in Superseded(work)
        BY <3>1, <4>2, <4>4, StatesAre
      <4>7. w \in undone
        <5>1. CASE ~states[w[1]].live
          BY <3>1, <3>3, <4>2, <4>5, <4>6, <5>1 DEF Undone, LivePeriod
        <5>2. CASE states[w[1]].live
          BY <2>2, <3>1, <3>3, <4>1, <4>2, <5>2 DEF Undone, LivePeriod
        <5>3. QED
          BY <5>1, <5>2
      <4>8. ~IsApproved(run.requests, w)
        BY <3>5, <4>7 DEF Refused
      <4>9. w \notin DOMAIN run.credits
        BY <4>3, <4>8, GrantedIs
      <4>10. QED
        BY <3>2, <3>3, <4>9
    <3>6. QED
      BY <3>4, <3>5
  <2>5. CASE HrApproves
    <3>1. PICK n \in DOMAIN requests :
            requests[n].status = "pending" /\ Approvable(requests[n]) /\ credits' = Posted(requests[n])
      BY <2>5 DEF HrApproves
    <3>2. PICK v : v = requests[n].window
      OBVIOUS
    <3>3. /\ DOMAIN credits' = DOMAIN credits \cup {v}
          /\ \A u \in DOMAIN credits : u # v => credits'[u] = credits[u]
          /\ windows[v].closed /\ periods[v[1]].live
      BY <2>1, <3>1, <3>2, PostedIs
    <3>4. periods' = periods /\ windows' = windows
      BY <2>5 DEF HrApproves
    <3>5. QED
      BY <2>2, <2>3, <3>3, <3>4
  <2>6. CASE Verify
    <3>1. credits' = credits /\ periods' = periods
      BY <2>6 DEF Verify
    <3>2. PICK v \in DOMAIN windows : windows' = [windows EXCEPT ![v].verified = TRUE]
      BY <2>6 DEF Verify
    <3>3. w \in DOMAIN windows /\ windows[w] \in Window
      BY <2>1, <2>2, <3>1, InvIs
    <3>4. windows'[w].closed = windows[w].closed
      <4>1. CASE w = v
        <5>1. windows'[w] = [windows[w] EXCEPT !.verified = TRUE]
          BY <3>2, <4>1
        <5>2. QED
          BY <3>3, <5>1 DEF Window
      <4>2. CASE w # v
        BY <3>2, <3>3, <4>2
      <4>3. QED
        BY <4>1, <4>2
    <3>5. QED
      BY <2>2, <2>3, <3>1, <3>4
  <2>7. CASE ~Recalculate /\ ~HrApproves /\ ~Verify
    <3>1. credits' = credits /\ periods' = periods /\ windows' = windows
      BY <2>1, <2>7 DEF WindowsNext, ClockIn, ClockOut, HrClose, Correct, AddMissing, Process, ReadRequests,
                        LeadApproves, Reject, TimePasses
    <3>2. QED
      BY <2>2, <2>3, <3>1
  <2>8. QED
    BY <2>4, <2>5, <2>6, <2>7
<1>2. QED
  BY <1>1, WindowsInvariant, PTL DEF WindowsSpec, StrandedOnlyByOverlap
=============================================================================

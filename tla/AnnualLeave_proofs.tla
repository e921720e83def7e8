-------------------------- MODULE AnnualLeave_proofs --------------------------
(***************************************************************************)
(* Proofs about AnnualLeave, for any countries, contracts, dates and       *)
(* bounds:                                                                 *)
(*                                                                         *)
(*   LeaveIsSound    types, one accrual a month and one settlement, and    *)
(*                   the fraction of a period (LeaveSound);                *)
(*   GrantsBounded   only an overlap grants more than the rules give       *)
(*                   (OvergrantOnlyByOverlap);                             *)
(*   TrueUpsExact    a true-up takes back nothing used (TrueUpExact).      *)
(*                                                                         *)
(* The first part is about the rules, the second about any ledger and a    *)
(* row written into it, the third about the runs and calls that read a     *)
(* ledger and write later.                                                 *)
(***************************************************************************)
EXTENDS AnnualLeave, SumTheorems

------------------------------------------------------------------------------
(* The rules. *)

Larger(a, b) == IF a >= b THEN a ELSE b
Smaller(a, b) == IF a <= b THEN a ELSE b

LEMMA MaxIs == ASSUME NEW a \in Int, NEW b \in Int PROVE Max({a, b}) = Larger(a, b)
<1> DEFINE m == Larger(a, b)
<1>1. m \in {a, b} /\ \A y \in {a, b} : m >= y
  BY DEF Larger
<1>2. \A x \in {a, b} : (\A y \in {a, b} : x >= y) => x = m
  BY DEF Larger
<1> HIDE DEF m
<1>3. Max({a, b}) = m
  BY <1>1, <1>2 DEF Max
<1>4. QED
  BY <1>3 DEF m

LEMMA MinIs == ASSUME NEW a \in Int, NEW b \in Int PROVE Min({a, b}) = Smaller(a, b)
<1> DEFINE m == Smaller(a, b)
<1>1. m \in {a, b} /\ \A y \in {a, b} : m <= y
  BY DEF Smaller
<1>2. \A x \in {a, b} : (\A y \in {a, b} : x <= y) => x = m
  BY DEF Smaller
<1> HIDE DEF m
<1>3. Min({a, b}) = m
  BY <1>1, <1>2 DEF Min
<1>4. QED
  BY <1>3 DEF m

(* A contract history: any set of contracts. *)
Contract == [from : Nat, fte : 1..4]

(* Of the contracts that have started by a date one has started last. *)
LEMMA LatestStarted ==
    ASSUME NEW h \in SUBSET Contract, NEW d \in Nat, \E c \in h : c.from <= d
    PROVE  \E c \in h : c.from <= d /\ \A n \in h : n.from <= d => n.from <= c.from
<1> DEFINE C == {d - c.from : c \in {x \in h : x.from <= d}}
<1>1. \A c \in h : c.from \in Nat
  BY DEF Contract
<1>2. C \in SUBSET Nat /\ C # {}
  BY <1>1
<1>3. \A c \in h : c.from <= d => d - c.from \in C
  OBVIOUS
<1>4. \A n \in C : \E c \in h : c.from <= d /\ n = d - c.from
  OBVIOUS
<1> HIDE DEF C
<1>5. PICK n \in C : \A m \in C : n <= m
  BY <1>2, SmallestNumber
<1>6. PICK c \in h : c.from <= d /\ n = d - c.from
  BY <1>4
<1>7. ASSUME NEW x \in h, x.from <= d PROVE x.from <= c.from
  <2>1. n <= d - x.from
    BY <1>3, <1>5, <1>7
  <2>2. QED
    BY <1>1, <1>6, <2>1
<1>8. QED
  BY <1>6, <1>7

Latest(h, d, c) == c \in h /\ c.from <= d /\ \A n \in h : n.from <= d => n.from <= c.from

(* The fraction in force is the one of the contract that started last. *)
LEMMA InForceIs ==
    ASSUME NEW h \in SUBSET Contract, ValidHistory(h), NEW d \in Nat
    PROVE  /\ (\A c \in h : ~(c.from <= d)) => InForce(h, d) = 0
           /\ \A c : Latest(h, d, c) => InForce(h, d) = c.fte
<1>1. PICK C : C = {x \in h : x.from <= d}
  OBVIOUS
<1>2. InForce(h, d) = IF C = {} THEN 0 ELSE (CHOOSE x \in C : \A y \in C : y.from <= x.from).fte
  BY <1>1 DEF InForce
<1>3. ASSUME NEW c, Latest(h, d, c) PROVE InForce(h, d) = c.fte
  <2>1. c \in C /\ \A y \in C : y.from <= c.from
    BY <1>1, <1>3 DEF Latest
  <2>2. PICK x : x = CHOOSE n \in C : \A y \in C : y.from <= n.from
    OBVIOUS
  <2>3. x \in C /\ \A y \in C : y.from <= x.from
    BY <2>1, <2>2
  <2>4. x.from \in Nat /\ c.from \in Nat /\ x \in h /\ c \in h
    BY <1>1, <2>1, <2>3 DEF Contract
  <2>5. x.from = c.from
    <3>1. x.from <= c.from /\ c.from <= x.from
      BY <2>1, <2>3
    <3>2. QED
      BY <3>1, <2>4
  <2>6. x.fte = c.fte
    BY <2>4, <2>5 DEF ValidHistory
  <2>7. QED
    BY <1>2, <2>1, <2>2, <2>6
<1>4. (\A c \in h : ~(c.from <= d)) => InForce(h, d) = 0
  BY <1>1, <1>2
<1>5. QED
  BY <1>3, <1>4

(* What is in force when the period starts is among what covers it. *)
LEMMA CoveringIs ==
    ASSUME NEW h \in SUBSET Contract, NEW s \in Nat, NEW e \in Nat, s <= e
    PROVE  /\ Covering(h, s, e) \subseteq h
           /\ \A d \in s..e : \A c : Latest(h, d, c) => c \in Covering(h, s, e)
           /\ \A c \in Covering(h, s, e) : \E d \in s..e : Latest(h, d, c)
<1>1. \A c \in h : c.from \in Nat
  BY DEF Contract
<1>2. ASSUME NEW d \in s..e, NEW c, Latest(h, d, c) PROVE c \in Covering(h, s, e)
  <2>1. c \in h /\ c.from <= d /\ d <= e /\ s <= d /\ d \in Nat
    BY <1>2 DEF Latest
  <2>2. \A n \in h : ~(c.from < n.from /\ n.from <= s)
    BY <1>1, <1>2, <2>1 DEF Latest
  <2>3. QED
    BY <1>1, <2>1, <2>2 DEF Covering
<1>3. ASSUME NEW c \in Covering(h, s, e) PROVE \E d \in s..e : Latest(h, d, c)
  <2>1. c \in h /\ c.from <= e /\ \A n \in h : ~(c.from < n.from /\ n.from <= s)
    BY DEF Covering
  <2>2. CASE c.from <= s
    <3>1. Latest(h, s, c)
      BY <1>1, <2>1, <2>2 DEF Latest
    <3>2. s \in s..e
      OBVIOUS
    <3>3. QED
      BY <3>1, <3>2
  <2>3. CASE ~ c.from <= s
    <3>1. Latest(h, c.from, c)
      BY <1>1, <2>1 DEF Latest
    <3>2. c.from \in s..e
      BY <1>1, <2>1, <2>3
    <3>3. QED
      BY <3>1, <3>2
  <2>4. QED
    BY <2>2, <2>3
<1>4. QED
  BY <1>2, <1>3 DEF Covering

(* A fraction is found exactly when one and the same is in force all through
   the period. *)
LEMMA FractionIs ==
    ASSUME NEW h \in SUBSET Contract, ValidHistory(h), NEW s \in Nat, NEW e \in Nat, s <= e
    PROVE  ConstantFte(h, s, e) =
               IF \A d \in s..e : InForce(h, d) = InForce(h, s) THEN InForce(h, s) ELSE 0
<1>1. PICK C : C = Covering(h, s, e)
  OBVIOUS
<1>2. /\ C \subseteq h
      /\ \A d \in s..e : \A c : Latest(h, d, c) => c \in C
      /\ \A c \in C : \E d \in s..e : Latest(h, d, c)
  BY <1>1, CoveringIs
<1>3. ConstantFte(h, s, e) =
        IF (\E c \in h : c.from <= s) /\ \A c, n \in C : c.fte = n.fte THEN (CHOOSE c \in C : TRUE).fte ELSE 0
  BY <1>1 DEF ConstantFte
<1>4. s..e \subseteq Nat /\ s \in s..e
  OBVIOUS
<1>5. CASE ~ \E c \in h : c.from <= s
  <2>1. InForce(h, s) = 0
    BY <1>5, InForceIs
  <2>2. QED
    BY <1>3, <1>5, <2>1
<1>6. CASE \E c \in h : c.from <= s
  <2>1. PICK f \in h : Latest(h, s, f)
    BY <1>6, LatestStarted DEF Latest
  <2>2. f \in C /\ InForce(h, s) = f.fte
    BY <1>2, <1>4, <2>1, InForceIs
  <2>3. CASE \A c, n \in C : c.fte = n.fte
    <3>1. ASSUME NEW d \in s..e PROVE InForce(h, d) = InForce(h, s)
      <4>1. d \in Nat /\ s <= d
        OBVIOUS
      <4>2. \E c \in h : c.from <= d
        <5>1. f.from <= s /\ f.from \in Nat
          BY <2>1 DEF Latest, Contract
        <5>2. QED
          BY <4>1, <5>1
      <4>3. PICK c \in h : Latest(h, d, c)
        BY <4>1, <4>2, LatestStarted DEF Latest
      <4>4. c \in C /\ InForce(h, d) = c.fte
        BY <1>2, <4>1, <4>3, InForceIs
      <4>5. QED
        BY <2>2, <2>3, <4>4
    <3>2. (CHOOSE c \in C : TRUE) \in C
      BY <2>2
    <3>3. (CHOOSE c \in C : TRUE).fte = f.fte
      BY <2>2, <2>3, <3>2
    <3>4. QED
      BY <1>3, <1>6, <2>2, <2>3, <3>1, <3>3
  <2>4. CASE ~ \A c, n \in C : c.fte = n.fte
    <3>1. PICK c \in C : c.fte # f.fte
      BY <2>2, <2>4
    <3>2. PICK d \in s..e : Latest(h, d, c)
      BY <1>2
    <3>3. InForce(h, d) = c.fte
      BY <1>4, <3>2, InForceIs
    <3>4. QED
      BY <1>3, <2>2, <2>4, <3>1, <3>3
  <2>5. QED
    BY <2>3, <2>4
<1>7. QED
  BY <1>5, <1>6

LEMMA WalkIsRight ==
    ASSUME TypeOK PROVE FteIsConstant
<1>1. contracts \in SUBSET Versions /\ contracts \in SUBSET Contract
  BY AnnualAssumption DEF TypeOK, Contract
<1>2. ASSUME ValidHistory(contracts), NEW s \in Days \cup Exits \cup {x.from : x \in contracts},
             NEW e \in Days \cup Exits \cup {x.from : x \in contracts}, s <= e
      PROVE  ConstantFte(contracts, s, e) =
                IF \A d \in s..e : InForce(contracts, d) = InForce(contracts, s) THEN InForce(contracts, s) ELSE 0
  <2>1. s \in Nat /\ e \in Nat
    BY <1>1, AnnualAssumption DEF Contract
  <2>2. QED
    BY <1>1, <1>2, <2>1, FractionIs
<1>3. QED
  BY <1>1, <1>2 DEF FteIsConstant, WalkedRight

(* What the rules give is a number. *)
LEMMA FractionIsNat ==
    ASSUME NEW h \in SUBSET Contract, NEW s \in Nat, NEW e \in Nat, s <= e
    PROVE  ConstantFte(h, s, e) \in Nat
<1>1. PICK C : C = Covering(h, s, e)
  OBVIOUS
<1>2. C \subseteq h /\ \A d \in s..e : \A c : Latest(h, d, c) => c \in C
  BY <1>1, CoveringIs
<1>3. ConstantFte(h, s, e) =
        IF (\E c \in h : c.from <= s) /\ \A c, n \in C : c.fte = n.fte THEN (CHOOSE c \in C : TRUE).fte ELSE 0
  BY <1>1 DEF ConstantFte
<1>4. CASE \E c \in h : c.from <= s
  <2>1. PICK f \in h : Latest(h, s, f)
    BY <1>4, LatestStarted DEF Latest
  <2>2. s \in s..e
    OBVIOUS
  <2>3. (CHOOSE c \in C : TRUE) \in C
    BY <1>2, <2>1, <2>2
  <2>4. (CHOOSE c \in C : TRUE).fte \in Nat
    BY <1>2, <2>3 DEF Contract
  <2>5. QED
    BY <1>3, <2>4
<1>5. QED
  BY <1>3, <1>4

LEMMA PriceIsInt ==
    ASSUME NEW h \in SUBSET Contract, NEW s \in Nat, NEW m \in Nat
    PROVE  PricePeriod(h, s, m) \in Int
<1>1. PICK n : n = m - MonthOf(s) + 1 /\ n \in Int /\ MonthOf(s) \in Nat
  BY DEF MonthOf
<1>2. Max({0, n}) = Larger(0, n)
  BY <1>1, MaxIs
<1>3. PICK k : k = Months(s, m)
  OBVIOUS
<1>4. k = Larger(0, n)
  BY <1>1, <1>2, <1>3 DEF Months
<1>5. k \in Nat /\ (k # 0 => n > 0)
  BY <1>1, <1>4 DEF Larger
<1>6. CASE k = 0
  BY <1>3, <1>6 DEF PricePeriod
<1>7. CASE k # 0
  <2>1. LastDayOf(m) \in Nat /\ s <= LastDayOf(m)
    <3>1. m >= s \div 2
      BY <1>1, <1>5, <1>7 DEF MonthOf
    <3>2. QED
      BY <3>1 DEF LastDayOf
  <2>2. PICK f \in Nat : f = ConstantFte(h, s, LastDayOf(m))
    BY <2>1, FractionIsNat
  <2>3. k * 26 \in Int /\ k * 26 * f \in Int
    BY <1>5
  <2>4. (k * 26 * f + 47) \div 48 \in Int
    BY <2>3
  <2>5. PricePeriod(h, s, m) = IF f = 0 THEN -1 ELSE (k * 26 * f + 47) \div 48
    BY <1>3, <1>7, <2>2 DEF PricePeriod, Blocked
  <2>6. QED
    BY <2>4, <2>5
<1>8. QED
  BY <1>6, <1>7

LEMMA PricesAdd ==
    ASSUME NEW prices, NEW S, S = DOMAIN prices, IsFiniteSet(S), \A y \in S : prices[y] \in Int
    PROVE  SumOf(prices) \in Int
<1> DEFINE Adds(it) == it = [s \in SUBSET S |-> IF s = {} THEN 0
                                ELSE prices[CHOOSE x \in s : TRUE] + it[s \ {CHOOSE x \in s : TRUE}]]
           it == CHOOSE jt : Adds(jt)
<1>1. Adds(it)
  <2>1. PICK jt : AddsUp(jt, prices, S)
    BY SumExists
  <2>2. Adds(jt)
    BY <2>1 DEF AddsUp, First
  <2> HIDE DEF Adds
  <2>3. QED
    BY <2>2
<1>2. AddsUp(it, prices, S)
  <2> HIDE DEF it
  <2>1. QED
    BY <1>1 DEF AddsUp, First
<1>3. MapThenSumSet(LAMBDA y : prices[y], DOMAIN prices) = it[S]
  BY DEF MapThenSumSet, MapThenFoldSet
<1> HIDE DEF it
<1>4. it[S] \in Int
  BY <1>2, SumIs, SumType
<1>5. QED
  BY <1>3, <1>4 DEF SumOf, Blocked

LEMMA StartsAndEnds ==
    ASSUME NEW y \in Nat, NEW d \in Nat
    PROVE  /\ StartIn(y, d) \in Nat /\ ExitMonth(y, d) \in Nat /\ December(y) \in Nat
           /\ YearOf(d) \in Nat /\ MonthOf(d) \in Nat
BY DEF StartIn, ExitMonth, December, YearOf, MonthOf, FirstDayOf

LEMMA PolandIsInt ==
    ASSUME NEW h \in SUBSET Contract, NEW hire \in Nat, NEW d \in Nat
    PROVE  PolandToDate(h, hire, d) \in Int /\ PolandAtExit(h, hire, d) \in Int
<1>1. PICK S : S = YearOf(hire)..YearOf(d)
  OBVIOUS
<1>2. S \subseteq Nat /\ IsFiniteSet(S)
  <2>1. YearOf(hire) \in Nat /\ YearOf(d) \in Nat
    BY StartsAndEnds
  <2>2. IsFiniteSet(S)
    BY <1>1, <2>1, FS_Interval
  <2>3. S \subseteq Nat
    BY <1>1, <2>1
  <2>4. QED
    BY <2>2, <2>3
<1>3. PolandToDate(h, hire, d) \in Int
  <2>1. PICK p : p = [y \in S |-> PricePeriod(h, StartIn(y, hire), December(y))]
    OBVIOUS
  <2>2. \A y \in S : p[y] \in Int
    BY <1>2, <2>1, StartsAndEnds, PriceIsInt
  <2>3. SumOf(p) \in Int
    BY <1>2, <2>1, <2>2, PricesAdd
  <2>4. QED
    BY <1>1, <2>1, <2>3 DEF PolandToDate, Blocked
<1>4. PolandAtExit(h, hire, d) \in Int
  <2>1. PICK p : p = [y \in S |-> PricePeriod(h, StartIn(y, hire), ExitMonth(y, d))]
    OBVIOUS
  <2>2. \A y \in S : p[y] \in Int
    BY <1>2, <2>1, StartsAndEnds, PriceIsInt
  <2>3. SumOf(p) \in Int
    BY <1>2, <2>1, <2>2, PricesAdd
  <2>4. QED
    BY <1>1, <2>1, <2>3 DEF PolandAtExit, Blocked
<1>5. QED
  BY <1>3, <1>4

LEMMA EntitlementIsInt ==
    ASSUME NEW c \in {"AE", "SA", "PL"}, NEW h \in SUBSET Contract, NEW hire \in Nat, NEW d \in Nat
    PROVE  ToDate(c, h, hire, d) \in Int
<1>1. PICK m : m = CompletedMonths(hire, d)
  OBVIOUS
<1>2. m \in Nat
  <2>0. PICK k \in Int : k = IF d % 2 < hire % 2 THEN 1 ELSE 0
    OBVIOUS
  <2>1. PICK n \in Int : n = MonthOf(d) - MonthOf(hire) - k
    BY StartsAndEnds
  <2>2. Max({0, n}) = Larger(0, n)
    BY MaxIs
  <2>3. QED
    BY <1>1, <2>0, <2>1, <2>2 DEF CompletedMonths, Larger
<1>3. PICK y \in Nat : y = CompletedYears(hire, d)
  BY <1>1, <1>2 DEF CompletedYears
<1>4. UaeDays(hire, d) \in Int
  BY <1>1, <1>2, <1>3 DEF UaeDays
<1>5. SaudiDays(hire, d) \in Int
  <2>1. Min({y, 5}) \in Int
    BY MinIs DEF Smaller
  <2>2. Max({0, y - 5}) \in Int
    BY MaxIs DEF Larger
  <2>3. QED
    BY <1>3, <2>1, <2>2 DEF SaudiDays
<1>6. PolandToDate(h, hire, d) \in Int
  BY PolandIsInt
<1>7. QED
  BY <1>4, <1>5, <1>6 DEF ToDate

LEMMA RulesGiveInts ==
    ASSUME TypeOK
    PROVE  /\ Entitled \in Int
           /\ \A d \in Nat : AtExit(d) \in Int
           /\ contracts \in SUBSET Contract /\ today \in Nat /\ MonthOf(today) \in Nat
<1>1. /\ contracts \in SUBSET Contract /\ today \in Nat /\ Hire \in Nat
      /\ country \in {"AE", "SA", "PL"}
  BY AnnualAssumption DEF TypeOK, Contract
<1>2. Entitled \in Int
  BY <1>1, EntitlementIsInt DEF Entitled
<1>3. \A d \in Nat : AtExit(d) \in Int
  BY <1>1, PolandIsInt DEF AtExit
<1>4. QED
  BY <1>1, <1>2, <1>3, StartsAndEnds

------------------------------------------------------------------------------
(* Any ledger. *)

DaysIn(led) == [i \in DOMAIN led |-> led[i].days]
Held(led) == SumOver(DaysIn(led), DOMAIN led)
IsGrant(led, i) == \/ led[i].kind \in GrantKinds
                   \/ led[i].kind = "reversal" /\ led[led[i].ref].kind \in GrantKinds
GrantsIn(led) == {i \in DOMAIN led : IsGrant(led, i)}
Given(led) == SumOver(DaysIn(led), GrantsIn(led))

(* Only what was taken is restored. *)
Restores(led, x) == x.kind = "reversal" => x.ref \in DOMAIN led /\ led[x.ref].kind = "deduction"
Referring(led) == \A i \in DOMAIN led : Restores(led, led[i])

LEMMA RowsAre ==
    ASSUME NEW led, led \in Seq(RowType)
    PROVE  /\ DOMAIN led = 1..Len(led) /\ Len(led) \in Nat
           /\ \A I \in SUBSET DOMAIN led : IsFiniteSet(I)
           /\ \A i \in DOMAIN led : led[i] \in RowType /\ DaysIn(led)[i] = led[i].days /\ DaysIn(led)[i] \in Int
<1>1. DOMAIN led = 1..Len(led) /\ Len(led) \in Nat
  OBVIOUS
<1>2. IsFiniteSet(DOMAIN led)
  BY <1>1, FS_Interval
<1>3. \A I \in SUBSET DOMAIN led : IsFiniteSet(I)
  BY <1>2, FS_Subset
<1>4. \A i \in DOMAIN led : led[i] \in RowType
  OBVIOUS
<1>5. \A i \in DOMAIN led : led[i].days \in Int
  BY <1>4 DEF RowType
<1>6. QED
  BY <1>1, <1>3, <1>4, <1>5 DEF DaysIn

LEMMA TotalIs ==
    ASSUME TypeOK, NEW S, S \in SUBSET DOMAIN ledger
    PROVE  Total(S) = SumOver(DaysIn(ledger), S)
<1>0. IsFiniteSet(S) /\ \A x \in S : DaysIn(ledger)[x] = ledger[x].days
  BY RowsAre DEF TypeOK
<1>1. PICK F : F = DaysIn(ledger) /\ \A x \in S : F[x] = ledger[x].days
  BY <1>0
<1> DEFINE Adds(it) == it = [s \in SUBSET S |-> IF s = {} THEN 0
                                ELSE ledger[CHOOSE x \in s : TRUE].days + it[s \ {CHOOSE x \in s : TRUE}]]
           it == CHOOSE jt : Adds(jt)
<1>2. \A s \in SUBSET S : s # {} => F[First(s)] = ledger[CHOOSE x \in s : TRUE].days
  BY <1>1 DEF First
<1>3. Adds(it)
  <2>1. PICK jt : AddsUp(jt, F, S)
    BY <1>0, SumExists
  <2>2. jt = [s \in SUBSET S |-> IF s = {} THEN 0 ELSE F[First(s)] + jt[s \ {First(s)}]]
    BY <2>1 DEF AddsUp
  <2>3. \A s \in SUBSET S :
          jt[s] = IF s = {} THEN 0
                  ELSE ledger[CHOOSE x \in s : TRUE].days + jt[s \ {CHOOSE x \in s : TRUE}]
    BY <1>2, <2>2 DEF First
  <2>4. Adds(jt)
    BY <2>2, <2>3
  <2> HIDE DEF Adds
  <2>5. QED
    BY <2>4
<1>4. AddsUp(it, F, S)
  <2>1. \A s \in SUBSET S : it[s] = IF s = {} THEN 0 ELSE F[First(s)] + it[s \ {First(s)}]
    <3> HIDE DEF it
    <3>1. \A s \in SUBSET S : it[s] = IF s = {} THEN 0
                                 ELSE ledger[CHOOSE x \in s : TRUE].days + it[s \ {CHOOSE x \in s : TRUE}]
      BY <1>3
    <3>2. QED
      BY <1>2, <3>1 DEF First
  <2>2. it = [s \in SUBSET S |-> it[s]]
    <3> HIDE DEF it
    <3>1. QED
      BY <1>3
  <2> HIDE DEF it
  <2>3. QED
    BY <2>1, <2>2 DEF AddsUp
<1>5. Total(S) = it[S]
  BY DEF Total, MapThenSumSet, MapThenFoldSet
<1>6. QED
  BY <1>0, <1>1, <1>4, <1>5, SumIs

(* The balance and the grants of the model. *)
LEMMA ReadingIs ==
    ASSUME TypeOK
    PROVE  /\ Balance = Held(ledger) /\ Granted = Given(ledger)
           /\ Held(ledger) \in Int /\ Given(ledger) \in Int
<1>1. Grants = GrantsIn(ledger) /\ GrantsIn(ledger) \in SUBSET DOMAIN ledger
  BY DEF Grants, GrantsIn, IsGrant
<1>2. ledger \in Seq(RowType)
  BY DEF TypeOK
<1>3. Balance = Held(ledger)
  BY TotalIs DEF Balance, Held
<1>4. Granted = Given(ledger)
  BY <1>1, TotalIs DEF Granted, Given
<1>5. \A S \in SUBSET DOMAIN ledger : SumOver(DaysIn(ledger), S) \in Int
  <2> SUFFICES ASSUME NEW S \in SUBSET DOMAIN ledger PROVE SumOver(DaysIn(ledger), S) \in Int
    OBVIOUS
  <2>1. PICK F : F = DaysIn(ledger)
    OBVIOUS
  <2>2. IsFiniteSet(S) /\ \A i \in S : F[i] \in Int
    BY <1>2, <2>1, RowsAre
  <2>3. SumOver(F, S) \in Int
    BY <2>2, SumType
  <2>4. QED
    BY <2>1, <2>3
<1>6. QED
  BY <1>1, <1>3, <1>4, <1>5 DEF Held, Given

LEMMA ReadingIsNext ==
    (TypeOK => /\ Balance = Held(ledger) /\ Granted = Given(ledger)
               /\ Held(ledger) \in Int /\ Given(ledger) \in Int)'
BY ReadingIs, PTL

(* new is the ledger led and the row x, the n-th. *)
Follows(led, x, new, n) ==
    led \in Seq(RowType) /\ x \in RowType /\ new = Append(led, x) /\ n = Len(led) + 1

LEMMA Appended ==
    ASSUME NEW led, NEW x, NEW new, NEW n, Follows(led, x, new, n)
    PROVE  /\ new \in Seq(RowType) /\ Len(new) = n /\ n \in Nat /\ n > Len(led) /\ n = Len(led) + 1
           /\ led \in Seq(RowType) /\ x \in RowType /\ x.days \in Int
           /\ DOMAIN new = DOMAIN led \cup {n} /\ n \notin DOMAIN led
           /\ new[n] = x /\ \A i \in DOMAIN led : new[i] = led[i]
<1>1. led \in Seq(RowType) /\ x \in RowType /\ new = Append(led, x) /\ n = Len(led) + 1
  BY DEF Follows
<1>2. new \in Seq(RowType) /\ Len(new) = n /\ n \in Nat /\ n > Len(led)
  BY <1>1
<1>3. DOMAIN new = 1..n /\ DOMAIN led = 1..Len(led) /\ Len(led) \in Nat
  BY <1>1, <1>2
<1>4. DOMAIN new = DOMAIN led \cup {n} /\ n \notin DOMAIN led
  BY <1>1, <1>3
<1>5. new[n] = x /\ \A i \in DOMAIN led : new[i] = led[i]
  BY <1>1, <1>3
<1>6. x.days \in Int
  BY <1>1 DEF RowType
<1>7. QED
  BY <1>1, <1>2, <1>4, <1>5, <1>6

LEMMA OneMore ==
    ASSUME NEW led, NEW x, NEW new, NEW n, Follows(led, x, new, n), NEW S, S \in SUBSET DOMAIN led
    PROVE  /\ SumOver(DaysIn(new), S) = SumOver(DaysIn(led), S)
           /\ SumOver(DaysIn(new), S \cup {n}) = SumOver(DaysIn(led), S) + x.days
           /\ SumOver(DaysIn(led), S) \in Int
<1>0. /\ new \in Seq(RowType) /\ Len(new) = n /\ n \in Nat /\ n > Len(led) /\ n = Len(led) + 1
      /\ led \in Seq(RowType) /\ x \in RowType /\ x.days \in Int
      /\ DOMAIN new = DOMAIN led \cup {n} /\ n \notin DOMAIN led
      /\ new[n] = x /\ \A i \in DOMAIN led : new[i] = led[i]
  BY Appended
<1>1. PICK F, G, T : F = DaysIn(led) /\ G = DaysIn(new) /\ T = S \cup {n}
  OBVIOUS
<1>2. /\ IsFiniteSet(S) /\ IsFiniteSet(T) /\ T \ {n} = S /\ n \in T
      /\ \A i \in S : F[i] = G[i] /\ F[i] \in Int
      /\ \A i \in T : G[i] \in Int
      /\ G[n] = x.days /\ x.days \in Int
  <2>1. led \in Seq(RowType) /\ new \in Seq(RowType) /\ S \in SUBSET DOMAIN led /\ T \in SUBSET DOMAIN new
    BY <1>1, <1>0
  <2>2. IsFiniteSet(S) /\ \A i \in S : F[i] = led[i].days /\ F[i] \in Int
    BY <1>1, <2>1, RowsAre
  <2>3. IsFiniteSet(T) /\ \A i \in T : G[i] = new[i].days /\ G[i] \in Int
    BY <1>1, <2>1, RowsAre
  <2>4. T \ {n} = S /\ n \in T
    BY <1>1, <1>0
  <2>5. \A i \in S : F[i] = G[i]
    BY <1>1, <2>2, <2>3, <2>4, <1>0
  <2>6. G[n] = x.days
    BY <2>3, <2>4, <1>0
  <2>7. QED
    BY <2>2, <2>3, <2>4, <2>5, <2>6, <1>0
<1>3. SumOver(G, S) = SumOver(F, S)
  BY <1>2, SumSame
<1>4. SumOver(G, T) = G[n] + SumOver(G, T \ {n})
  BY <1>2, SumSplit
<1>5. SumOver(F, S) \in Int
  BY <1>2, SumType
<1>6. SumOver(G, T \ {n}) = SumOver(F, S)
  BY <1>2, <1>3, Zenon
<1>7. SumOver(G, T) = SumOver(F, S) + x.days
  BY <1>2, <1>4, <1>5, <1>6
<1>8. QED
  BY <1>1, <1>3, <1>5, <1>7

(* What a row changes. *)
LEMMA RowCounts ==
    ASSUME NEW led, NEW x, NEW new, NEW n, Follows(led, x, new, n), Referring(led), Restores(led, x)
    PROVE  /\ Referring(new)
           /\ Held(new) = Held(led) + x.days
           /\ x.kind \in GrantKinds => Given(new) = Given(led) + x.days
           /\ x.kind \notin GrantKinds => Given(new) = Given(led)
<1>0. /\ new \in Seq(RowType) /\ Len(new) = n /\ n \in Nat /\ n > Len(led) /\ n = Len(led) + 1
      /\ led \in Seq(RowType) /\ x \in RowType /\ x.days \in Int
      /\ DOMAIN new = DOMAIN led \cup {n} /\ n \notin DOMAIN led
      /\ new[n] = x /\ \A i \in DOMAIN led : new[i] = led[i]
  BY Appended, Zenon
<1>1. \A i \in DOMAIN led : new[i] = led[i] /\ i \in DOMAIN new
  BY <1>0
<1>2. ASSUME NEW i \in DOMAIN new PROVE Restores(new, new[i])
  <2>1. CASE i \in DOMAIN led
    BY <1>1, <2>1 DEF Referring, Restores
  <2>2. CASE i = n
    BY <1>1, <2>2, <1>0 DEF Restores
  <2>3. QED
    BY <2>1, <2>2, <1>0
<1>3. \A i \in DOMAIN led : IsGrant(new, i) <=> IsGrant(led, i)
  BY <1>1 DEF IsGrant, Referring, Restores
<1>4. IsGrant(new, n) <=> x.kind \in GrantKinds
  <2>1. "deduction" \notin GrantKinds
    BY DEF GrantKinds
  <2>2. new[n] = x
    BY <1>0
  <2>3. QED
    BY <1>1, <2>1, <2>2 DEF IsGrant, Restores
<1>5. GrantsIn(new) = GrantsIn(led) \cup IF x.kind \in GrantKinds THEN {n} ELSE {}
  BY <1>3, <1>4, <1>0 DEF GrantsIn
<1>6. PICK S : S = GrantsIn(led) /\ S \in SUBSET DOMAIN led
  BY DEF GrantsIn
<1>7. Held(new) = Held(led) + x.days
  <2>1. PICK D : D = DOMAIN led /\ DOMAIN new = D \cup {n}
    BY <1>0
  <2>2. SumOver(DaysIn(new), D \cup {n}) = SumOver(DaysIn(led), D) + x.days
    BY <2>1, OneMore
  <2>3. QED
    BY <2>1, <2>2 DEF Held
<1>8. /\ SumOver(DaysIn(new), S) = SumOver(DaysIn(led), S)
      /\ SumOver(DaysIn(new), S \cup {n}) = SumOver(DaysIn(led), S) + x.days
  BY <1>6, OneMore
<1>9. x.kind \in GrantKinds => Given(new) = Given(led) + x.days
  BY <1>5, <1>6, <1>8 DEF Given
<1>10. x.kind \notin GrantKinds => Given(new) = Given(led)
  <2>1. x.kind \notin GrantKinds => GrantsIn(new) = S
    BY <1>5, <1>6
  <2>2. QED
    BY <1>6, <1>8, <2>1 DEF Given
<1>11. QED
  BY <1>2, <1>7, <1>9, <1>10 DEF Referring

------------------------------------------------------------------------------
(* Readings. *)

(* Rows and contracts are only added: what was read is there. *)
Readable(z) == z \in Reading /\ z[1] <= Len(ledger) /\ z[2] <= Cardinality(contracts)

(* Unless a contract, a settlement or the accrual of the month came in
   between, what a run posts is owed. *)
RunHolds(r) ==
    /\ Readable(r.seen) /\ r.month = MonthOf(today)
    /\ \/ Amended(r.seen) \/ Added("settlement", r.seen) \/ KeyTaken(r.month)
       \/ Given(ledger) + r.days <= Entitled

(* Unless a contract, a settlement or an accrual came in between, what a
   true-up posts makes the grants those of the exit date. *)
CallHolds(c) ==
    /\ Readable(c.seen)
    /\ c.step = "post" =>
         \/ Amended(c.seen) \/ Added("settlement", c.seen) \/ Added("accrual", c.seen)
         \/ Given(ledger) + c.days = AtExit(c.date)

RunsHold == \A i \in DOMAIN runs : RunHolds(runs[i])
CallsHold == \A i \in DOMAIN calls : CallHolds(calls[i])
Settled == \A i \in DOMAIN ledger : ledger[i].kind = "settlement" => Marked

(* A month accrues once, there is one settlement, a row is reversed once. *)
OnceKinds == {"accrual", "settlement", "reversal"}
Unique(led) ==
    \A i, j \in DOMAIN led : led[i].kind = led[j].kind /\ led[i].ref = led[j].ref /\ led[i].kind \in OnceKinds => i = j

IInv ==
    /\ TypeOK /\ IsFiniteSet(contracts)
    /\ Referring(ledger) /\ Settled
    /\ RunsHold /\ CallsHold

LEMMA UniqueIs == TypeOK => Unique(ledger)
BY DEF TypeOK, Unique, OnceKinds

LEMMA CountIsNat == ASSUME IsFiniteSet(contracts) PROVE Cardinality(contracts) \in Nat
BY FS_CardinalityType

LEMMA NowIs ==
    ASSUME TypeOK, IsFiniteSet(contracts)
    PROVE  /\ Readable(Now) /\ ~ Amended(Now) /\ \A k : ~ Added(k, Now)
           /\ Now \in Reading
<1>1. Len(ledger) \in Nat /\ Cardinality(contracts) \in Nat /\ DOMAIN ledger = 1..Len(ledger)
  BY CountIsNat DEF TypeOK
<1>2. Now[1] = Len(ledger) /\ Now[2] = Cardinality(contracts) /\ Now \in Nat \X Nat
  BY <1>1 DEF Now
<1>3. Readable(Now) /\ ~ Amended(Now)
  BY <1>1, <1>2 DEF Readable, Amended, Reading
<1>4. \A k : ~ Added(k, Now)
  BY <1>1, <1>2 DEF Added, Of
<1>5. QED
  BY <1>2, <1>3, <1>4 DEF Reading

(* Nothing that is read changes. *)
Still == UNCHANGED <<country, today, contracts, ledger>>

LEMMA StillHolds ==
    ASSUME Still
    PROVE  /\ \A r : RunHolds(r) => RunHolds(r)'
           /\ \A c : CallHolds(c) => CallHolds(c)'
           /\ Referring(ledger) => Referring(ledger)'
           /\ IsFiniteSet(contracts) => IsFiniteSet(contracts)'
           /\ Given(ledger)' = Given(ledger) /\ Held(ledger)' = Held(ledger)
<1>1. country' = country /\ today' = today /\ contracts' = contracts /\ ledger' = ledger
  BY DEF Still
<1>2. Entitled' = Entitled /\ \A d : AtExit(d)' = AtExit(d)
  BY <1>1 DEF Entitled, AtExit
<1>3. /\ \A z : (Readable(z)' <=> Readable(z)) /\ (Amended(z)' <=> Amended(z))
      /\ \A k, z : Added(k, z)' <=> Added(k, z)
      /\ \A m : KeyTaken(m)' <=> KeyTaken(m)
  BY <1>1 DEF Readable, Amended, Added, KeyTaken, Of
<1>4. Given(ledger)' = Given(ledger) /\ Held(ledger)' = Held(ledger)
  BY <1>1
<1>5. \A r : RunHolds(r) => RunHolds(r)'
  BY <1>1, <1>2, <1>3, <1>4 DEF RunHolds
<1>6. \A c : CallHolds(c) => CallHolds(c)'
  BY <1>1, <1>2, <1>3, <1>4 DEF CallHolds
<1>7. QED
  BY <1>1, <1>4, <1>5, <1>6

(* A row is written. *)
Written(x) == /\ Follows(ledger, x, ledger', Len(ledger) + 1)
              /\ country' = country /\ today' = today /\ contracts' = contracts
(* Rows after which no run or call that read before posts too much. *)
Harmless(x) == \/ x.kind \notin GrantKinds
               \/ x.kind = "accrual" /\ x.ref = MonthOf(today)
               \/ x.kind = "settlement"

LEMMA WrittenIs ==
    ASSUME NEW x, Written(x)
    PROVE  /\ ledger' \in Seq(RowType) /\ ledger \in Seq(RowType) /\ Len(ledger') = Len(ledger) + 1
           /\ Len(ledger) \in Nat /\ Len(ledger) + 1 \in DOMAIN ledger' /\ ledger'[Len(ledger) + 1] = x
           /\ \A i \in DOMAIN ledger : i \in DOMAIN ledger' /\ ledger'[i] = ledger[i]
           /\ \A i \in DOMAIN ledger' : i \in DOMAIN ledger \/ i = Len(ledger) + 1
           /\ x \in RowType
<1>1. PICK n : n = Len(ledger) + 1
  OBVIOUS
<1>2. Follows(ledger, x, ledger', n)
  BY <1>1 DEF Written
<1>3. /\ ledger' \in Seq(RowType) /\ Len(ledger') = n /\ n \in Nat /\ n > Len(ledger) /\ n = Len(ledger) + 1
      /\ ledger \in Seq(RowType) /\ x \in RowType /\ x.days \in Int
      /\ DOMAIN ledger' = DOMAIN ledger \cup {n} /\ n \notin DOMAIN ledger
      /\ ledger'[n] = x /\ \A i \in DOMAIN ledger : ledger'[i] = ledger[i]
  BY <1>2, Appended
<1>4. Len(ledger) \in Nat
  BY <1>3
<1>5. QED
  BY <1>3, <1>4, Zenon

LEMMA StillThere ==
    ASSUME NEW x, Written(x)
    PROVE  /\ \A z : (Readable(z) => Readable(z)') /\ (Amended(z)' <=> Amended(z))
           /\ \A k, z : Added(k, z) => Added(k, z)'
           /\ \A m : KeyTaken(m) => KeyTaken(m)'
           /\ \A z : Readable(z) => Added(x.kind, z)'
           /\ x.kind = "accrual" => KeyTaken(x.ref)'
           /\ Entitled' = Entitled /\ \A d : AtExit(d)' = AtExit(d)
<1>1. country' = country /\ today' = today /\ contracts' = contracts
  BY DEF Written
<1>2. PICK n : n = Len(ledger) + 1
  OBVIOUS
<1>3. /\ Len(ledger') = n /\ n \in DOMAIN ledger' /\ ledger'[n] = x /\ Len(ledger) \in Nat
      /\ \A i \in DOMAIN ledger : i \in DOMAIN ledger' /\ ledger'[i] = ledger[i]
  BY <1>2, WrittenIs
<1>4. \A k : \A i \in Of(k) : i \in Of(k)' /\ ledger'[i] = ledger[i]
  BY <1>3, Zenon DEF Of
<1>5. n \in Of(x.kind)'
  BY <1>3, Zenon DEF Of
<1>6. \A z : (Readable(z) => Readable(z)') /\ (Amended(z)' <=> Amended(z))
  <2>1. \A z : Amended(z)' <=> Amended(z)
    BY <1>1 DEF Amended
  <2>2. ASSUME NEW z, Readable(z) PROVE Readable(z)'
    <3>1. z \in Reading /\ z[1] \in Nat /\ z[1] <= Len(ledger) /\ z[2] <= Cardinality(contracts)
      BY <2>2 DEF Readable, Reading
    <3>2. z[1] <= Len(ledger')
      BY <1>2, <1>3, <3>1
    <3>3. QED
      BY <1>1, <3>1, <3>2 DEF Readable
  <2>3. QED
    BY <2>1, <2>2
<1>7. \A k, z : Added(k, z) => Added(k, z)'
  BY <1>4, Zenon DEF Added
<1>8. \A m : KeyTaken(m) => KeyTaken(m)'
  BY <1>4, Zenon DEF KeyTaken
<1>9. ASSUME NEW z, Readable(z) PROVE Added(x.kind, z)'
  <2>1. z[1] \in Nat /\ z[1] <= Len(ledger)
    BY <1>9 DEF Readable, Reading
  <2>2. n > z[1]
    BY <1>2, <1>3, <2>1
  <2>3. QED
    BY <1>5, <2>2, Zenon DEF Added
<1>10. x.kind = "accrual" => KeyTaken(x.ref)'
  BY <1>3, <1>5, Zenon DEF KeyTaken
<1>11. Entitled' = Entitled /\ \A d : AtExit(d)' = AtExit(d)
  BY <1>1 DEF Entitled, AtExit
<1>12. QED
  BY <1>6, <1>7, <1>8, <1>9, <1>10, <1>11

LEMMA WrittenHolds ==
    ASSUME NEW x, Written(x), Harmless(x), Referring(ledger), Restores(ledger, x)
    PROVE  /\ \A r : RunHolds(r) => RunHolds(r)'
           /\ \A c : CallHolds(c) => CallHolds(c)'
           /\ Referring(ledger)'
<1>1. PICK n : n = Len(ledger) + 1
  OBVIOUS
<1>2. Follows(ledger, x, ledger', n)
  BY <1>1 DEF Written
<1>3. Referring(ledger') /\ (x.kind \notin GrantKinds => Given(ledger') = Given(ledger))
  BY <1>2, RowCounts
<1>4. /\ \A z : (Readable(z) => Readable(z)') /\ (Amended(z)' <=> Amended(z))
      /\ \A k, z : Added(k, z) => Added(k, z)'
      /\ \A m : KeyTaken(m) => KeyTaken(m)'
      /\ \A z : Readable(z) => Added(x.kind, z)'
      /\ x.kind = "accrual" => KeyTaken(x.ref)'
      /\ Entitled' = Entitled /\ \A d : AtExit(d)' = AtExit(d)
  BY StillThere
<1>5. today' = today
  BY DEF Written
<1>6. x.kind \notin GrantKinds \/ (x.kind = "accrual" /\ x.ref = MonthOf(today)) \/ x.kind = "settlement"
  BY DEF Harmless
<1>7. ASSUME NEW r, RunHolds(r) PROVE RunHolds(r)'
  <2>1. /\ Readable(r.seen) /\ r.month = MonthOf(today)
        /\ \/ Amended(r.seen) \/ Added("settlement", r.seen) \/ KeyTaken(r.month)
           \/ Given(ledger) + r.days <= Entitled
    BY <1>7 DEF RunHolds
  <2>2. Readable(r.seen)' /\ r.month = MonthOf(today')
    BY <1>4, <1>5, <2>1
  <2>3. CASE x.kind = "settlement"
    <3>1. Added("settlement", r.seen)'
      BY <1>4, <2>1, <2>3
    <3>2. QED
      BY <2>2, <3>1 DEF RunHolds
  <2>4. CASE x.kind = "accrual" /\ x.ref = MonthOf(today)
    <3>1. KeyTaken(r.month)'
      BY <1>4, <2>1, <2>4
    <3>2. QED
      BY <2>2, <3>1 DEF RunHolds
  <2>5. CASE x.kind \notin GrantKinds
    <3>1. \/ Amended(r.seen)' \/ Added("settlement", r.seen)' \/ KeyTaken(r.month)'
          \/ Given(ledger') + r.days <= Entitled'
      BY <1>3, <1>4, <2>1, <2>5
    <3>2. QED
      BY <2>2, <3>1 DEF RunHolds
  <2>6. QED
    BY <1>6, <2>3, <2>4, <2>5
<1>8. ASSUME NEW c, CallHolds(c) PROVE CallHolds(c)'
  <2>1. /\ Readable(c.seen)
        /\ c.step = "post" =>
             \/ Amended(c.seen) \/ Added("settlement", c.seen) \/ Added("accrual", c.seen)
             \/ Given(ledger) + c.days = AtExit(c.date)
    BY <1>8 DEF CallHolds
  <2>2. Readable(c.seen)'
    BY <1>4, <2>1
  <2>3. CASE x.kind = "settlement" \/ x.kind = "accrual"
    <3>1. Added("settlement", c.seen)' \/ Added("accrual", c.seen)'
      BY <1>4, <2>1, <2>3
    <3>2. QED
      BY <2>2, <3>1 DEF CallHolds
  <2>4. CASE x.kind \notin GrantKinds
    <3>1. c.step = "post" =>
             \/ Amended(c.seen)' \/ Added("settlement", c.seen)' \/ Added("accrual", c.seen)'
             \/ Given(ledger') + c.days = AtExit(c.date)'
      BY <1>3, <1>4, <2>1, <2>4
    <3>2. QED
      BY <2>2, <3>1 DEF CallHolds
  <2>5. QED
    BY <1>6, <2>3, <2>4
<1>9. QED
  BY <1>3, <1>7, <1>8

(* A row of a kind that is written once is the first of its own. *)
FirstOfItsKind(x) ==
    x.kind \in OnceKinds => \A i \in DOMAIN ledger : ~(ledger[i].kind = x.kind /\ ledger[i].ref = x.ref)

LEMMA WrittenTyped ==
    ASSUME NEW x, Written(x), Unique(ledger), FirstOfItsKind(x)
    PROVE  ledger' \in Seq(RowType) /\ Unique(ledger')
<1>1. PICK n : n = Len(ledger) + 1
  OBVIOUS
<1>2. /\ ledger' \in Seq(RowType) /\ ledger'[n] = x
      /\ \A i \in DOMAIN ledger : ledger'[i] = ledger[i]
      /\ \A i \in DOMAIN ledger' : i \in DOMAIN ledger \/ i = n
  BY <1>1, WrittenIs
<1>3. ASSUME NEW i \in DOMAIN ledger', NEW j \in DOMAIN ledger', ledger'[i].kind = ledger'[j].kind,
             ledger'[i].ref = ledger'[j].ref, ledger'[i].kind \in OnceKinds
      PROVE  i = j
  <2>1. CASE i \in DOMAIN ledger /\ j \in DOMAIN ledger
    BY <1>2, <1>3, <2>1, Zenon DEF Unique
  <2>2. CASE i = n /\ j = n
    BY <2>2
  <2>3. CASE i = n /\ j \in DOMAIN ledger
    BY <1>2, <1>3, <2>3, Zenon DEF FirstOfItsKind
  <2>4. CASE i \in DOMAIN ledger /\ j = n
    BY <1>2, <1>3, <2>4, Zenon DEF FirstOfItsKind
  <2>5. QED
    BY <1>2, <2>1, <2>2, <2>3, <2>4, Zenon
<1>4. QED
  BY <1>2, <1>3, Zenon DEF Unique

(* Runs and calls that go on hold what they held. *)
LEMMA RunsGo ==
    ASSUME RunsHold, runs \in Seq(RunType), \A r : RunHolds(r) => RunHolds(r)',
           runs' = runs \/ \E i \in DOMAIN runs : runs' = RemoveAt(runs, i)
    PROVE  RunsHold' /\ runs' \in Seq(RunType)
<1>1. CASE runs' = runs
  BY <1>1 DEF RunsHold
<1>2. CASE \E i \in DOMAIN runs : runs' = RemoveAt(runs, i)
  <2>1. PICK i \in DOMAIN runs : runs' = RemoveAt(runs, i)
    BY <1>2
  <2>2. Removes(RunType, runs, i, runs')
    BY <2>1 DEF Removes
  <2>3. runs' \in Seq(RunType) /\ \A k \in DOMAIN runs' : \E j \in DOMAIN runs : runs'[k] = runs[j]
    BY <2>2, RestIs
  <2>4. ASSUME NEW k \in DOMAIN runs' PROVE RunHolds(runs[k])'
    <3>1. PICK j \in DOMAIN runs : runs'[k] = runs[j]
      BY <2>3
    <3>2. PICK r : r = runs[j]
      OBVIOUS
    <3>3. RunHolds(r)
      BY <3>2, Zenon DEF RunsHold
    <3>4. RunHolds(r)'
      BY <3>3
    <3>5. QED
      BY <3>1, <3>2, <3>4 DEF RunHolds
  <2>5. QED
    BY <2>3, <2>4, Zenon DEF RunsHold
<1>3. QED
  BY <1>1, <1>2

LEMMA CallsGo ==
    ASSUME CallsHold, calls \in Seq(CallType), \A c : CallHolds(c) => CallHolds(c)',
           calls' = calls \/ \E i \in DOMAIN calls : calls' = RemoveAt(calls, i)
    PROVE  CallsHold' /\ calls' \in Seq(CallType)
<1>1. CASE calls' = calls
  BY <1>1 DEF CallsHold
<1>2. CASE \E i \in DOMAIN calls : calls' = RemoveAt(calls, i)
  <2>1. PICK i \in DOMAIN calls : calls' = RemoveAt(calls, i)
    BY <1>2
  <2>2. Removes(CallType, calls, i, calls')
    BY <2>1 DEF Removes
  <2>3. calls' \in Seq(CallType) /\ \A k \in DOMAIN calls' : \E j \in DOMAIN calls : calls'[k] = calls[j]
    BY <2>2, RestIs
  <2>4. ASSUME NEW k \in DOMAIN calls' PROVE CallHolds(calls[k])'
    <3>1. PICK j \in DOMAIN calls : calls'[k] = calls[j]
      BY <2>3
    <3>2. PICK r : r = calls[j]
      OBVIOUS
    <3>3. CallHolds(r)
      BY <3>2, Zenon DEF CallsHold
    <3>4. CallHolds(r)'
      BY <3>3
    <3>5. QED
      BY <3>1, <3>2, <3>4 DEF CallHolds
  <2>5. QED
    BY <2>3, <2>4, Zenon DEF CallsHold
<1>3. QED
  BY <1>1, <1>2

------------------------------------------------------------------------------
(* Steps. *)

Others ==
    /\ country \in Countries /\ today \in Days
    /\ contracts \in SUBSET Versions
    /\ status \in {"active", "terminated"} /\ exit \in Exits \cup {NoDate}
    /\ marker \in [date : Exits \cup {NoDate}, excess : Nat, reviewed : BOOLEAN, auto : BOOLEAN]

LEMMA TypeParts ==
    TypeOK <=> /\ Others /\ ledger \in Seq(RowType) /\ Unique(ledger)
               /\ runs \in Seq(RunType) /\ calls \in Seq(CallType)
BY DEF TypeOK, Others, Unique, OnceKinds

LEMMA TypePartsNext ==
    (TypeOK <=> /\ Others /\ ledger \in Seq(RowType) /\ Unique(ledger)
                /\ runs \in Seq(RunType) /\ calls \in Seq(CallType))'
BY TypeParts, PTL

(* The parts of the state nothing but the ledger and its readers touch. *)
Apart == UNCHANGED <<country, today, contracts, status, exit, marker>>

LEMMA ApartTyped == ASSUME Others, Apart PROVE Others'
BY DEF Others, Apart

LEMMA StillTyped == ASSUME ledger \in Seq(RowType), Unique(ledger), Still PROVE ledger' \in Seq(RowType) /\ Unique(ledger')
BY DEF Still

LEMMA StillSettled == ASSUME Settled, ledger' = ledger, marker' = marker PROVE Settled'
BY DEF Settled, Marked

LEMMA CappedIs ==
    ASSUME NEW n \in Int, NEW balance \in Int
    PROVE  Capped(n, balance) \in Int /\ Capped(n, balance) <= n
<1>1. MaxBalance \in Nat
  BY AnnualAssumption
<1>2. PICK b, m : b = MaxBalance - balance /\ b \in Int /\ m = Larger(0, b)
  BY <1>1
<1>3. m \in Int
  BY <1>2 DEF Larger
<1>4. Max({0, MaxBalance - balance}) = m
  BY <1>2, MaxIs
<1>5. Min({n, m}) = Smaller(n, m)
  BY <1>3, MinIs
<1>6. Capped(n, balance) = IF MaxBalance = 0 THEN n ELSE Smaller(n, m)
  BY <1>4, <1>5 DEF Capped
<1>7. QED
  BY <1>3, <1>6 DEF Smaller

LEMMA AppliedIs ==
    ASSUME TypeOK, NEW n \in Int
    PROVE  /\ Applied(n) \in Int /\ Applied(n) >= n
           /\ n >= 0 => Applied(n) = n
           /\ Min({Balance, 0}) = Smaller(Balance, 0) /\ Balance \in Int
           /\ n < 0 => Applied(n) = Larger(n, Smaller(Balance, 0) - Balance)
<1>1. Balance \in Int
  BY ReadingIs
<1>2. Min({Balance, 0}) = Smaller(Balance, 0) /\ Smaller(Balance, 0) \in Int
  BY <1>1, MinIs DEF Smaller
<1>3. PICK b : b = Smaller(Balance, 0) - Balance /\ b \in Int
  BY <1>1, <1>2
<1>4. Max({n, Min({Balance, 0}) - Balance}) = Larger(n, b)
  BY <1>2, <1>3, MaxIs
<1>5. Applied(n) = IF n >= 0 THEN n ELSE Larger(n, b)
  BY <1>4 DEF Applied
<1>6. QED
  BY <1>1, <1>2, <1>3, <1>5 DEF Larger

LEMMA PostIs ==
    ASSUME ledger \in Seq(RowType), NEW k \in {"opening", "accrual", "manual", "deduction", "reversal", "settlement"},
           NEW n \in Int, NEW r \in Nat, Post(k, n, r), UNCHANGED <<country, today, contracts>>
    PROVE  \E x : x = [kind |-> k, days |-> n, ref |-> r] /\ Written(x)
<1>1. PICK x : x = [kind |-> k, days |-> n, ref |-> r]
  OBVIOUS
<1>2. x \in RowType
  BY <1>1 DEF RowType
<1>3. ledger' = Append(ledger, x)
  BY <1>1 DEF Post
<1>4. QED
  BY <1>1, <1>2, <1>3 DEF Written, Follows

LEMMA RunReadKeeps ==
    ASSUME IInv, NEW listed \in BOOLEAN, NEW balance \in {Balance, 0}, RunRead(listed, balance)
    PROVE  IInv'
<1>0. /\ TypeOK /\ IsFiniteSet(contracts) /\ Referring(ledger) /\ Settled /\ RunsHold /\ CallsHold
  BY DEF IInv
<1>1. UNCHANGED <<country, today, contracts, ledger, status, exit, marker, calls>>
  BY DEF RunRead
<1>2. PICK r : /\ r = [month |-> MonthOf(today), days |-> Capped(Entitled - Granted, balance), seen |-> Now]
               /\ Capped(Entitled - Granted, balance) > 0 /\ runs' = Append(runs, r)
  BY DEF RunRead
<1>3. Still /\ Apart
  BY <1>1 DEF Still, Apart
<1>4. Entitled \in Int /\ Granted \in Int /\ Granted = Given(ledger) /\ MonthOf(today) \in Nat
  BY <1>0, RulesGiveInts, ReadingIs
<1>5. PICK k : k = Capped(Entitled - Granted, balance) /\ k \in Int /\ k > 0 /\ k <= Entitled - Granted
  <2>1. balance \in Int
    BY <1>0, ReadingIs
  <2>2. QED
    BY <1>2, <1>4, <2>1, CappedIs
<1>6. Readable(Now) /\ Now \in Reading
  BY <1>0, NowIs
<1>7. r \in RunType
  BY <1>2, <1>4, <1>5, <1>6 DEF RunType
<1>8. RunHolds(r)
  <2>1. Given(ledger) + k <= Entitled
    BY <1>4, <1>5
  <2>2. r.days = k /\ r.seen = Now /\ r.month = MonthOf(today)
    BY <1>2, <1>5
  <2>3. QED
    BY <1>6, <2>1, <2>2 DEF RunHolds
<1>9. /\ \A q : RunHolds(q) => RunHolds(q)'
      /\ \A c : CallHolds(c) => CallHolds(c)'
      /\ Referring(ledger) => Referring(ledger)'
      /\ IsFiniteSet(contracts) => IsFiniteSet(contracts)'
  BY <1>3, StillHolds
<1>10. runs \in Seq(RunType) /\ calls \in Seq(CallType) /\ Others /\ ledger \in Seq(RowType) /\ Unique(ledger)
  BY <1>0, TypeParts
<1>11. runs' \in Seq(RunType) /\ \A i \in DOMAIN runs' : runs'[i] = r \/ \E j \in DOMAIN runs : runs'[i] = runs[j]
  BY <1>2, <1>7, <1>10
<1>12. RunsHold'
  <2>1. ASSUME NEW i \in DOMAIN runs' PROVE RunHolds(runs[i])'
    <3>1. PICK q : q = runs'[i] /\ RunHolds(q)
      BY <1>0, <1>8, <1>11 DEF RunsHold
    <3>2. RunHolds(q)'
      BY <1>9, <3>1
    <3>3. QED
      BY <3>1, <3>2 DEF RunHolds
  <2>2. QED
    BY <2>1, Zenon DEF RunsHold
<1>13. CallsHold' /\ calls' \in Seq(CallType)
  BY <1>0, <1>1, <1>9, <1>10, CallsGo
<1>14. TypeOK'
  BY <1>3, <1>10, <1>11, <1>13, ApartTyped, StillTyped, TypePartsNext
<1>15. Settled'
  BY <1>0, <1>1, StillSettled
<1>16. QED
  BY <1>0, <1>9, <1>12, <1>13, <1>14, <1>15 DEF IInv

(* Steps that write no row: the runs and calls that go on are as before. *)
LEMMA StillKeeps ==
    ASSUME IInv, Still, Others', Settled',
           runs' = runs \/ \E i \in DOMAIN runs : runs' = RemoveAt(runs, i),
           CallsHold' /\ calls' \in Seq(CallType)
    PROVE  IInv'
<1>0. /\ TypeOK /\ IsFiniteSet(contracts) /\ Referring(ledger) /\ Settled /\ RunsHold /\ CallsHold
  BY DEF IInv
<1>1. /\ \A r : RunHolds(r) => RunHolds(r)'
      /\ Referring(ledger)' /\ IsFiniteSet(contracts)'
  BY <1>0, StillHolds
<1>2. runs \in Seq(RunType) /\ ledger \in Seq(RowType) /\ Unique(ledger)
  BY <1>0, TypeParts
<1>3. RunsHold' /\ runs' \in Seq(RunType)
  BY <1>0, <1>1, <1>2, RunsGo
<1>4. TypeOK'
  BY <1>2, <1>3, StillTyped, TypePartsNext
<1>5. QED
  BY <1>1, <1>3, <1>4 DEF IInv

LEMMA StillCalls ==
    ASSUME IInv, Still, calls' = calls \/ \E i \in DOMAIN calls : calls' = RemoveAt(calls, i)
    PROVE  CallsHold' /\ calls' \in Seq(CallType)
<1>1. CallsHold /\ TypeOK
  BY DEF IInv
<1>2. \A c : CallHolds(c) => CallHolds(c)'
  BY StillHolds
<1>3. calls \in Seq(CallType)
  BY <1>1, TypeParts
<1>4. QED
  BY <1>1, <1>2, <1>3, CallsGo

(* Steps that write a row. *)
LEMMA WrittenKeeps ==
    ASSUME IInv, NEW x, Written(x), Harmless(x), Restores(ledger, x), FirstOfItsKind(x), Others', Settled',
           runs' = runs \/ \E i \in DOMAIN runs : runs' = RemoveAt(runs, i),
           calls' = calls \/ \E i \in DOMAIN calls : calls' = RemoveAt(calls, i)
    PROVE  IInv'
<1>0. /\ TypeOK /\ IsFiniteSet(contracts) /\ Referring(ledger) /\ Settled /\ RunsHold /\ CallsHold
  BY DEF IInv
<1>1. /\ \A r : RunHolds(r) => RunHolds(r)'
      /\ \A c : CallHolds(c) => CallHolds(c)'
      /\ Referring(ledger)'
  BY <1>0, WrittenHolds
<1>2. runs \in Seq(RunType) /\ calls \in Seq(CallType) /\ Unique(ledger)
  BY <1>0, TypeParts
<1>3. RunsHold' /\ runs' \in Seq(RunType)
  BY <1>0, <1>1, <1>2, RunsGo
<1>4. CallsHold' /\ calls' \in Seq(CallType)
  BY <1>0, <1>1, <1>2, CallsGo
<1>5. ledger' \in Seq(RowType) /\ Unique(ledger')
  BY <1>2, WrittenTyped
<1>6. IsFiniteSet(contracts)'
  BY <1>0 DEF Written
<1>7. TypeOK'
  BY <1>3, <1>4, <1>5, TypePartsNext
<1>8. QED
  BY <1>1, <1>3, <1>4, <1>6, <1>7 DEF IInv

LEMMA SettledWith ==
    ASSUME NEW x, Written(x), Settled, Marked => Marked', x.kind = "settlement" => Marked'
    PROVE  Settled'
<1>1. /\ \A i \in DOMAIN ledger : ledger'[i] = ledger[i]
      /\ \A i \in DOMAIN ledger' : i \in DOMAIN ledger \/ i = Len(ledger) + 1
      /\ ledger'[Len(ledger) + 1] = x
  BY WrittenIs
<1>2. ASSUME NEW i \in DOMAIN ledger', ledger'[i].kind = "settlement" PROVE Marked'
  <2>1. CASE i \in DOMAIN ledger
    BY <1>1, <1>2, <2>1, Zenon DEF Settled
  <2>2. CASE i = Len(ledger) + 1
    BY <1>1, <1>2, <2>2
  <2>3. QED
    BY <1>1, <2>1, <2>2, Zenon
<1>3. QED
  BY <1>2, Zenon DEF Settled

LEMMA RunPostKeeps == ASSUME IInv, NEW i \in DOMAIN runs, RunPost(i) PROVE IInv'
<1>0. /\ TypeOK /\ RunsHold /\ Settled
  BY DEF IInv
<1>1. /\ runs' = RemoveAt(runs, i)
      /\ UNCHANGED <<country, today, contracts, status, exit, marker, calls>>
  BY DEF RunPost
<1>2. PICK r : r = runs[i]
  OBVIOUS
<1>3. r \in RunType /\ RunHolds(r)
  BY <1>0, <1>2 DEF TypeOK, RunsHold
<1>4. r.month \in Nat /\ r.days \in Int /\ r.month = MonthOf(today)
  BY <1>3 DEF RunType, RunHolds
<1>5. Others'
  BY <1>0, <1>1, TypeParts, ApartTyped DEF Apart
<1>6. CASE KeyTaken(r.month)
  <2>1. ledger' = ledger
    BY <1>2, <1>6 DEF RunPost
  <2>2. Still
    BY <1>1, <2>1 DEF Still
  <2>3. CallsHold' /\ calls' \in Seq(CallType)
    BY <1>1, <2>2, StillCalls
  <2>4. Settled'
    BY <1>0, <1>1, <2>1, StillSettled
  <2>5. QED
    BY <1>1, <1>5, <2>2, <2>3, <2>4, StillKeeps
<1>7. CASE ~ KeyTaken(r.month)
  <2>1. Post("accrual", r.days, r.month)
    BY <1>2, <1>7 DEF RunPost
  <2>2. PICK x : x = [kind |-> "accrual", days |-> r.days, ref |-> r.month] /\ Written(x)
    BY <1>0, <1>1, <1>4, <2>1, PostIs DEF TypeOK
  <2>3. x.kind = "accrual" /\ x.ref = r.month
    BY <2>2
  <2>4. Harmless(x)
    BY <1>4, <2>3 DEF Harmless
  <2>5. Restores(ledger, x)
    BY <2>3 DEF Restores
  <2>6. FirstOfItsKind(x)
    <3>1. \A j \in DOMAIN ledger : ~(ledger[j].kind = "accrual" /\ ledger[j].ref = r.month)
      BY <1>7 DEF KeyTaken, Of
    <3>2. QED
      BY <2>3, <3>1 DEF FirstOfItsKind
  <2>7. Settled'
    <3>1. Marked => Marked'
      BY <1>1 DEF Marked
    <3>2. QED
      BY <1>0, <2>2, <2>3, <3>1, SettledWith
  <2>8. QED
    BY <1>1, <1>5, <2>2, <2>4, <2>5, <2>6, <2>7, WrittenKeeps
<1>8. QED
  BY <1>6, <1>7

LEMMA RunLostKeeps == ASSUME IInv, NEW i \in DOMAIN runs, RunLost(i) PROVE IInv'
<1>1. /\ runs' = RemoveAt(runs, i)
      /\ UNCHANGED <<country, today, contracts, ledger, status, exit, marker, calls>>
  BY DEF RunLost
<1>2. Still /\ Apart
  BY <1>1 DEF Still, Apart
<1>3. Others' /\ Settled'
  BY <1>1, <1>2, TypeParts, ApartTyped, StillSettled DEF IInv
<1>4. CallsHold' /\ calls' \in Seq(CallType)
  BY <1>1, <1>2, StillCalls
<1>5. QED
  BY <1>1, <1>2, <1>3, <1>4, StillKeeps

LEMMA CallEndsKeeps == ASSUME IInv, NEW i \in DOMAIN calls, CallEnds(i) PROVE IInv'
<1>1. /\ calls' = RemoveAt(calls, i)
      /\ UNCHANGED <<country, today, contracts, ledger, status, exit, marker, runs>>
  BY DEF CallEnds
<1>2. Still /\ Apart
  BY <1>1 DEF Still, Apart
<1>3. Others' /\ Settled'
  BY <1>1, <1>2, TypeParts, ApartTyped, StillSettled DEF IInv
<1>4. CallsHold' /\ calls' \in Seq(CallType)
  BY <1>1, <1>2, StillCalls
<1>5. QED
  BY <1>1, <1>2, <1>3, <1>4, StillKeeps

LEMMA MarkerKeeps ==
    ASSUME IInv, UNCHANGED <<country, today, contracts, ledger, runs, calls>>,
           status' \in {"active", "terminated"}, exit' = exit, Marked => Marked',
           marker' \in [date : Exits \cup {NoDate}, excess : Nat, reviewed : BOOLEAN, auto : BOOLEAN]
    PROVE  IInv'
<1>0. TypeOK /\ Settled
  BY DEF IInv
<1>1. Still
  BY DEF Still
<1>2. Others'
  BY <1>0, TypeParts DEF Others
<1>3. Settled'
  BY <1>0 DEF Settled
<1>4. CallsHold' /\ calls' \in Seq(CallType)
  BY <1>1, StillCalls
<1>5. QED
  BY <1>1, <1>2, <1>3, <1>4, StillKeeps

LEMMA ReactivateKeeps == ASSUME IInv, Reactivate PROVE IInv'
<1>1. status' = "active" /\ UNCHANGED <<country, today, contracts, ledger, exit, marker, runs, calls>>
  BY DEF Reactivate
<1>2. marker \in [date : Exits \cup {NoDate}, excess : Nat, reviewed : BOOLEAN, auto : BOOLEAN]
  BY DEF IInv, TypeOK
<1>3. QED
  BY <1>1, <1>2, MarkerKeeps DEF Marked

LEMMA AcknowledgeKeeps == ASSUME IInv, Acknowledge PROVE IInv'
<1>1. /\ marker' = [marker EXCEPT !.reviewed = TRUE]
      /\ UNCHANGED <<country, today, contracts, ledger, status, exit, runs, calls>>
  BY DEF Acknowledge
<1>2. /\ marker \in [date : Exits \cup {NoDate}, excess : Nat, reviewed : BOOLEAN, auto : BOOLEAN]
      /\ status \in {"active", "terminated"}
  BY DEF IInv, TypeOK
<1>3. marker'.reviewed = TRUE /\ NoMarker.reviewed = FALSE
  BY <1>1, <1>2 DEF NoMarker
<1>4. Marked'
  BY <1>3 DEF Marked
<1>5. marker' \in [date : Exits \cup {NoDate}, excess : Nat, reviewed : BOOLEAN, auto : BOOLEAN]
  BY <1>1, <1>2
<1>6. QED
  BY <1>1, <1>2, <1>4, <1>5, MarkerKeeps

LEMMA ConfirmKeeps == ASSUME IInv, Confirm PROVE IInv'
<1>1. marker' = Confirmed /\ UNCHANGED <<country, today, contracts, ledger, status, exit, runs, calls>>
  BY DEF Confirm
<1>2. /\ marker \in [date : Exits \cup {NoDate}, excess : Nat, reviewed : BOOLEAN, auto : BOOLEAN]
      /\ status \in {"active", "terminated"} /\ exit \in Exits \cup {NoDate}
  BY DEF IInv, TypeOK
<1>3. NoMarker \in [date : Exits \cup {NoDate}, excess : Nat, reviewed : BOOLEAN, auto : BOOLEAN]
  BY DEF NoMarker
<1>4. marker' \in [date : Exits \cup {NoDate}, excess : Nat, reviewed : BOOLEAN, auto : BOOLEAN]
  BY <1>1, <1>2, <1>3 DEF Confirmed
<1>5. Marked => Marked'
  BY <1>1 DEF Confirmed, Marked
<1>6. QED
  BY <1>1, <1>2, <1>4, <1>5, MarkerKeeps

LEMMA AddContractKeeps == ASSUME IInv, NEW c \in Versions \ contracts, AddContract(c) PROVE IInv'
<1>0. /\ TypeOK /\ IsFiniteSet(contracts) /\ Referring(ledger) /\ Settled /\ RunsHold /\ CallsHold
  BY DEF IInv
<1>1. /\ contracts' = contracts \cup {c}
      /\ UNCHANGED <<country, today, ledger, status, exit, marker, runs, calls>>
  BY DEF AddContract
<1>2. PICK m \in Nat : m = Cardinality(contracts)
  BY <1>0, CountIsNat
<1>3. IsFiniteSet(contracts') /\ Cardinality(contracts') = m + 1
  BY <1>0, <1>1, <1>2, FS_AddElement
<1>4. ASSUME NEW z, Readable(z) PROVE Readable(z)' /\ Amended(z)'
  <2>1. z \in Reading /\ z[2] \in Nat /\ z[1] <= Len(ledger) /\ z[2] <= m
    BY <1>2, <1>4 DEF Readable, Reading
  <2>2. z[2] <= m + 1 /\ m + 1 # z[2]
    BY <2>1
  <2>3. z[1] <= Len(ledger')
    BY <1>1, <2>1
  <2>4. QED
    BY <1>3, <2>1, <2>2, <2>3 DEF Readable, Amended
<1>5. \A r : RunHolds(r) => RunHolds(r)'
  BY <1>1, <1>4 DEF RunHolds
<1>6. \A q : CallHolds(q) => CallHolds(q)'
  BY <1>4 DEF CallHolds
<1>7. runs \in Seq(RunType) /\ calls \in Seq(CallType) /\ Others /\ ledger \in Seq(RowType) /\ Unique(ledger)
  BY <1>0, TypeParts
<1>8. RunsHold' /\ runs' \in Seq(RunType)
  BY <1>0, <1>1, <1>5, <1>7, RunsGo
<1>9. CallsHold' /\ calls' \in Seq(CallType)
  BY <1>0, <1>1, <1>6, <1>7, CallsGo
<1>10. Others'
  BY <1>1, <1>7 DEF Others
<1>11. TypeOK'
  <2>1. ledger' \in Seq(RowType) /\ Unique(ledger')
    BY <1>1, <1>7
  <2>2. QED
    BY <1>8, <1>9, <1>10, <2>1, TypePartsNext
<1>12. Settled' /\ Referring(ledger)'
  BY <1>0, <1>1 DEF Settled, Marked
<1>13. QED
  BY <1>3, <1>8, <1>9, <1>11, <1>12 DEF IInv

LEMMA LedgerEntryKeeps == ASSUME IInv, LedgerEntry PROVE IInv'
<1>0. TypeOK /\ Settled /\ ledger \in Seq(RowType)
  BY DEF IInv, TypeOK
<1>1. UNCHANGED <<country, today, contracts, status, exit, marker, runs, calls>>
  BY DEF LedgerEntry
<1>2. Others'
  BY <1>0, <1>1, TypeParts, ApartTyped DEF Apart
<1>3. Marked => Marked'
  BY <1>1 DEF Marked
<1>4. SUFFICES \E x : Written(x) /\ x.kind \in {"deduction", "reversal", "manual"} /\ Restores(ledger, x) /\ FirstOfItsKind(x)
  <2>1. PICK x : Written(x) /\ x.kind \in {"deduction", "reversal", "manual"} /\ Restores(ledger, x) /\ FirstOfItsKind(x)
    BY <1>4
  <2>2. Harmless(x)
    BY <2>1 DEF Harmless, GrantKinds
  <2>3. Settled'
    BY <1>0, <1>3, <2>1, SettledWith
  <2>4. QED
    BY <1>1, <1>2, <2>1, <2>2, <2>3, WrittenKeeps
<1>5. ASSUME NEW n \in Taken, Take(n) PROVE \E x : Written(x) /\ x.kind \in {"deduction", "reversal", "manual"} /\ Restores(ledger, x) /\ FirstOfItsKind(x)
  <2>1. -n \in Int /\ Post("deduction", -n, 0)
    BY <1>5, AnnualAssumption DEF Take
  <2>2. PICK x : x = [kind |-> "deduction", days |-> -n, ref |-> 0] /\ Written(x)
    BY <1>0, <1>1, <2>1, PostIs
  <2>3. QED
    BY <2>2 DEF Restores, FirstOfItsKind, OnceKinds
<1>6. ASSUME NEW n \in Corrections, Adjust(n) PROVE \E x : Written(x) /\ x.kind \in {"deduction", "reversal", "manual"} /\ Restores(ledger, x) /\ FirstOfItsKind(x)
  <2>1. n \in Int /\ Post("manual", n, 0)
    BY <1>6, AnnualAssumption DEF Adjust
  <2>2. PICK x : x = [kind |-> "manual", days |-> n, ref |-> 0] /\ Written(x)
    BY <1>0, <1>1, <2>1, PostIs
  <2>3. QED
    BY <2>2 DEF Restores, FirstOfItsKind, OnceKinds
<1>7. ASSUME NEW i \in Of("deduction"), Restore(i) PROVE \E x : Written(x) /\ x.kind \in {"deduction", "reversal", "manual"} /\ Restores(ledger, x) /\ FirstOfItsKind(x)
  <2>1. i \in DOMAIN ledger /\ ledger[i].kind = "deduction"
    BY <1>7 DEF Of
  <2>2. ledger[i].days \in Int /\ i \in Nat
    <3>1. ledger[i] \in RowType /\ i \in Nat
      BY <1>0, <2>1
    <3>2. QED
      BY <3>1 DEF RowType
  <2>3. PICK n \in Int : n = -ledger[i].days
    BY <2>2
  <2>4. Post("reversal", n, i) /\ ~ Reversed(i)
    BY <1>7, <2>3 DEF Restore
  <2>5. PICK x : x = [kind |-> "reversal", days |-> n, ref |-> i] /\ Written(x)
    BY <1>0, <1>1, <2>2, <2>4, PostIs
  <2>6. \A j \in DOMAIN ledger : ~(ledger[j].kind = "reversal" /\ ledger[j].ref = i)
    BY <2>4 DEF Reversed, Of
  <2>7. x.kind = "reversal" /\ x.ref = i
    BY <2>5
  <2>8. QED
    BY <2>1, <2>5, <2>6, <2>7 DEF Restores, FirstOfItsKind
<1>8. QED
  BY <1>5, <1>6, <1>7 DEF LedgerEntry

LEMMA TerminateKeeps == ASSUME IInv, NEW d \in Exits, Terminate(d) PROVE IInv'
<1>0. /\ TypeOK /\ IsFiniteSet(contracts) /\ CallsHold /\ Settled
  BY DEF IInv
<1>1. PICK c : /\ c = [step |-> "fields", date |-> d, days |-> 0, seen |-> Now]
               /\ calls' = Append(calls, c)
  BY DEF Terminate
<1>2. status' = "terminated" /\ exit' = d /\ UNCHANGED <<country, today, contracts, ledger, marker, runs>>
  BY DEF Terminate
<1>3. Still
  BY <1>2 DEF Still
<1>4. Others /\ calls \in Seq(CallType)
  BY <1>0, TypeParts
<1>5. Others' /\ Settled'
  BY <1>0, <1>2, <1>4, StillSettled DEF Others
<1>6. Readable(Now) /\ Now \in Reading /\ d \in Nat
  BY <1>0, NowIs, AnnualAssumption
<1>7. c \in CallType /\ CallHolds(c)
  BY <1>1, <1>6 DEF CallType, CallHolds
<1>8. calls' \in Seq(CallType) /\ \A i \in DOMAIN calls' : calls'[i] = c \/ \E j \in DOMAIN calls : calls'[i] = calls[j]
  BY <1>1, <1>4, <1>7
<1>9. \A q : CallHolds(q) => CallHolds(q)'
  BY <1>3, StillHolds
<1>10. CallsHold'
  <2>1. ASSUME NEW i \in DOMAIN calls' PROVE CallHolds(calls[i])'
    <3>1. PICK q : q = calls'[i] /\ CallHolds(q)
      BY <1>0, <1>7, <1>8 DEF CallsHold
    <3>2. CallHolds(q)'
      BY <1>9, <3>1
    <3>3. QED
      BY <3>1, <3>2 DEF CallHolds
  <2>2. QED
    BY <2>1, Zenon DEF CallsHold
<1>11. QED
  BY <1>2, <1>3, <1>5, <1>8, <1>10, StillKeeps

LEMMA TrueUpReadKeeps == ASSUME IInv, NEW i \in DOMAIN calls, TrueUpRead(i) PROVE IInv'
<1>0. /\ TypeOK /\ IsFiniteSet(contracts) /\ CallsHold /\ Settled
  BY DEF IInv
<1>1. PICK n : n = AtExit(calls[i].date) - Granted
  OBVIOUS
<1>2. /\ calls' = [calls EXCEPT ![i].step = "post", ![i].days = n, ![i].seen = Now]
      /\ UNCHANGED <<country, today, contracts, ledger, status, exit, marker, runs>>
  BY <1>1 DEF TrueUpRead
<1>3. Still /\ Apart
  BY <1>2 DEF Still, Apart
<1>4. Others' /\ Settled' /\ calls \in Seq(CallType)
  BY <1>0, <1>2, <1>3, TypeParts, ApartTyped, StillSettled
<1>5. Readable(Now) /\ Now \in Reading
  BY <1>0, NowIs
<1>6. calls[i] \in CallType
  BY <1>4
<1>7. calls[i].date \in Nat /\ AtExit(calls[i].date) \in Int /\ Granted \in Int /\ Granted = Given(ledger)
  BY <1>0, <1>6, RulesGiveInts, ReadingIs DEF CallType
<1>8. n \in Int /\ Given(ledger) + n = AtExit(calls[i].date)
  BY <1>1, <1>7
<1>9. PICK c : c = [step |-> "post", date |-> calls[i].date, days |-> n, seen |-> Now]
  OBVIOUS
<1>10. c \in CallType /\ CallHolds(c)
  BY <1>5, <1>7, <1>8, <1>9 DEF CallType, CallHolds
<1>11. calls' = [calls EXCEPT ![i] = c]
  <2>1. PICK q : q = [calls[i] EXCEPT !.step = "post", !.days = n, !.seen = Now]
    OBVIOUS
  <2>2. q = c
    <3>1. PICK o : o = calls[i] /\ o \in CallType
      BY <1>6
    <3>2. o = [step |-> o.step, date |-> o.date, days |-> o.days, seen |-> o.seen]
      BY <3>1 DEF CallType
    <3>3. q = [o EXCEPT !.step = "post", !.days = n, !.seen = Now]
      BY <2>1, <3>1
    <3>4. q = [step |-> "post", date |-> o.date, days |-> n, seen |-> Now]
      BY <3>2, <3>3
    <3>5. QED
      BY <1>9, <3>1, <3>4
  <2>3. calls' = [calls EXCEPT ![i] = q]
    BY <1>2, <1>4, <2>1
  <2>4. QED
    BY <2>2, <2>3
<1>12. calls' \in Seq(CallType) /\ \A k \in DOMAIN calls' : calls'[k] = c \/ \E j \in DOMAIN calls : calls'[k] = calls[j]
  BY <1>4, <1>10, <1>11
<1>13. \A q : CallHolds(q) => CallHolds(q)'
  BY <1>3, StillHolds
<1>14. CallsHold'
  <2>1. ASSUME NEW k \in DOMAIN calls' PROVE CallHolds(calls[k])'
    <3>1. PICK q : q = calls'[k] /\ CallHolds(q)
      BY <1>0, <1>10, <1>12 DEF CallsHold
    <3>2. CallHolds(q)'
      BY <1>13, <3>1
    <3>3. QED
      BY <3>1, <3>2 DEF CallHolds
  <2>2. QED
    BY <2>1, Zenon DEF CallsHold
<1>15. QED
  BY <1>2, <1>3, <1>4, <1>12, <1>14, StillKeeps

(* What a true-up that is not blocked writes. *)
Blocks == status # "terminated" \/ Marked
Settles(c, n) ==
    /\ c \in CallType /\ c.step = "post" /\ CallHolds(c) /\ ~ Marked
    /\ n = Applied(c.days) /\ n \in Int /\ n >= c.days
    /\ marker' = [date |-> exit, excess |-> n - c.days, reviewed |-> FALSE, auto |-> TRUE]
    /\ Held(ledger)' = Held(ledger) + n /\ Given(ledger)' = Given(ledger) + n
    /\ \A z : ~ Added("settlement", z)
    /\ \/ n = 0 /\ ledger' = ledger
       \/ \E x : Written(x) /\ x.kind = "settlement"

LEMMA TrueUpIs ==
    ASSUME IInv, NEW i \in DOMAIN calls, TrueUpPost(i), ~ Blocks
    PROVE  \E n : Settles(calls[i], n)
<1>0. TypeOK /\ CallsHold /\ Settled /\ Referring(ledger) /\ ledger \in Seq(RowType)
  BY DEF IInv, TypeOK
<1>1. PICK c : c = calls[i]
  OBVIOUS
<1>2. c \in CallType /\ CallHolds(c) /\ c.days \in Int
  <2>1. calls \in Seq(CallType)
    BY <1>0 DEF TypeOK
  <2>2. c \in CallType
    BY <1>1, <2>1
  <2>3. CallHolds(c)
    BY <1>0, <1>1, Zenon DEF CallsHold
  <2>4. c.days \in Int
    BY <2>2 DEF CallType
  <2>5. QED
    BY <2>2, <2>3, <2>4
<1>3. PICK n : n = Applied(c.days) /\ n \in Int /\ n >= c.days
  BY <1>0, <1>2, AppliedIs
<1>4. status = "terminated" /\ ~ Marked
  BY DEF Blocks
<1>5. /\ c.step = "post" /\ UNCHANGED <<country, today, contracts>>
      /\ IF n = 0 THEN UNCHANGED ledger ELSE Post("settlement", n, 0)
      /\ marker' = [date |-> exit, excess |-> n - c.days, reviewed |-> FALSE, auto |-> TRUE]
  BY <1>1, <1>3, <1>4 DEF TrueUpPost
<1>6. \A z : ~ Added("settlement", z)
  BY <1>0, <1>4 DEF Settled, Added, Of
<1>7. Held(ledger) \in Int /\ Given(ledger) \in Int
  BY <1>0, ReadingIs
<1>8. /\ Held(ledger)' = Held(ledger) + n /\ Given(ledger)' = Given(ledger) + n
      /\ \/ n = 0 /\ ledger' = ledger
         \/ \E x : Written(x) /\ x.kind = "settlement"
  <2>1. CASE n = 0
    BY <1>5, <1>7, <2>1
  <2>2. CASE n # 0
    <3>1. PICK x : x = [kind |-> "settlement", days |-> n, ref |-> 0] /\ Written(x)
      BY <1>0, <1>3, <1>5, <2>2, PostIs
    <3>2. x.kind = "settlement" /\ x.days = n
      BY <3>1
    <3>3. Restores(ledger, x) /\ x.kind \in GrantKinds
      BY <3>2 DEF Restores, GrantKinds
    <3>4. PICK m, new : m = Len(ledger) + 1 /\ new = ledger'
      OBVIOUS
    <3>5. Follows(ledger, x, new, m)
      BY <3>1, <3>4 DEF Written
    <3>6. Held(new) = Held(ledger) + n /\ Given(new) = Given(ledger) + n
      BY <1>0, <3>2, <3>3, <3>5, RowCounts
    <3>7. QED
      BY <3>1, <3>2, <3>4, <3>6
  <2>3. QED
    BY <2>1, <2>2
<1>9. QED
  BY <1>1, <1>2, <1>3, <1>4, <1>5, <1>6, <1>8 DEF Settles

LEMMA TrueUpPostKeeps == ASSUME IInv, NEW i \in DOMAIN calls, TrueUpPost(i) PROVE IInv'
<1>0. TypeOK /\ Settled /\ Others
  BY TypeParts DEF IInv
<1>1. calls' = RemoveAt(calls, i) /\ UNCHANGED <<country, today, contracts, status, exit, runs>>
  BY DEF TrueUpPost
<1>2. CASE Blocks
  <2>1. UNCHANGED <<ledger, marker>>
    BY <1>2 DEF TrueUpPost, Blocks
  <2>2. Still /\ Apart
    BY <1>1, <2>1 DEF Still, Apart
  <2>3. Others' /\ Settled'
    BY <1>0, <2>1, <2>2, ApartTyped, StillSettled
  <2>4. CallsHold' /\ calls' \in Seq(CallType)
    BY <1>1, <2>2, StillCalls
  <2>5. QED
    BY <1>1, <2>2, <2>3, <2>4, StillKeeps
<1>3. CASE ~ Blocks
  <2>1. PICK n : Settles(calls[i], n)
    BY <1>3, TrueUpIs
  <2>2. PICK c : c = calls[i] /\ Settles(c, n)
    BY <2>1
  <2>3. /\ marker' = [date |-> exit, excess |-> n - c.days, reviewed |-> FALSE, auto |-> TRUE]
        /\ n \in Int /\ c.days \in Int /\ n >= c.days
    BY <2>2 DEF Settles, CallType
  <2>4. Others'
    BY <1>0, <1>1, <2>3 DEF Others
  <2>5. Marked'
    BY <2>3 DEF Marked, NoMarker
  <2>6. CASE ledger' = ledger
    <3>1. Still
      BY <1>1, <2>6 DEF Still
    <3>2. Settled'
      BY <2>5 DEF Settled
    <3>3. CallsHold' /\ calls' \in Seq(CallType)
      BY <1>1, <3>1, StillCalls
    <3>4. QED
      BY <1>1, <2>4, <3>1, <3>2, <3>3, StillKeeps
  <2>7. ASSUME NEW x, Written(x), x.kind = "settlement" PROVE IInv'
    <3>1. Harmless(x) /\ Restores(ledger, x)
      BY <2>7 DEF Harmless, Restores
    <3>2. FirstOfItsKind(x)
      BY <1>0, <2>2, <2>7 DEF FirstOfItsKind, Settled, Settles
    <3>3. Settled'
      BY <2>5 DEF Settled
    <3>4. QED
      BY <1>1, <2>4, <2>7, <3>1, <3>2, <3>3, WrittenKeeps
  <2>8. QED
    BY <2>2, <2>6, <2>7 DEF Settles
<1>4. QED
  BY <1>2, <1>3

LEMMA TickKeeps == ASSUME IInv, Tick PROVE IInv'
<1>0. TypeOK /\ IsFiniteSet(contracts) /\ Referring(ledger) /\ Settled
  BY DEF IInv
<1>1. /\ runs = << >> /\ calls = << >> /\ \E d \in Days : d > today
      /\ today' = Min({d \in Days : d > today})
      /\ UNCHANGED <<country, contracts, ledger, status, exit, marker, runs, calls>>
  BY DEF Tick
<1>2. PICK C : C = {d \in Days : d > today}
  OBVIOUS
<1>3. C \in SUBSET Nat /\ C # {} /\ C \subseteq Days
  BY <1>1, <1>2, AnnualAssumption
<1>4. \E n \in C : \A m \in C : n <= m
  BY <1>3, SmallestNumber
<1>5. Min(C) \in C
  BY <1>4 DEF Min
<1>6. today' \in Days
  BY <1>1, <1>2, <1>3, <1>5
<1>7. TypeOK'
  BY <1>0, <1>1, <1>6 DEF TypeOK
<1>8. RunsHold' /\ CallsHold'
  BY <1>1 DEF RunsHold, CallsHold
<1>9. Settled' /\ Referring(ledger)' /\ IsFiniteSet(contracts)'
  BY <1>0, <1>1 DEF Settled, Marked
<1>10. QED
  BY <1>7, <1>8, <1>9 DEF IInv

LEMMA InitHolds == ASSUME Init PROVE IInv
<1>1. /\ country \in Countries /\ today = Hire
      /\ status = "active" /\ exit = NoDate /\ marker = NoMarker
      /\ runs = << >> /\ calls = << >>
  BY DEF Init
<1>2. contracts \in SUBSET Versions /\ IsFiniteSet(contracts)
  <2>1. contracts = {} \/ \E c \in Versions : contracts = {c}
    BY DEF Init
  <2>2. CASE contracts = {}
    BY <2>2, FS_EmptySet
  <2>3. ASSUME NEW c \in Versions, contracts = {c} PROVE contracts \in SUBSET Versions /\ IsFiniteSet(contracts)
    BY <2>3, FS_Singleton
  <2>4. QED
    BY <2>1, <2>2, <2>3
<1>3. Others
  BY <1>1, <1>2, AnnualAssumption DEF Others, NoMarker
<1>4. /\ ledger \in Seq(RowType)
      /\ \A i \in DOMAIN ledger : i = 1 /\ ledger[i].kind = "opening"
  <2>1. PICK n \in Openings : ledger = IF n = 0 THEN << >> ELSE <<[kind |-> "opening", days |-> n, ref |-> 0]>>
    BY DEF Init
  <2>2. PICK x : x = [kind |-> "opening", days |-> n, ref |-> 0]
    OBVIOUS
  <2>3. x \in RowType /\ x.kind = "opening"
    BY <2>2, AnnualAssumption DEF RowType
  <2>4. CASE ledger = << >>
    BY <2>4
  <2>5. CASE ledger = <<x>>
    <3>1. ledger \in Seq(RowType) /\ Len(ledger) = 1
      BY <2>3, <2>5
    <3>2. DOMAIN ledger = {1} /\ ledger[1] = x
      BY <2>5, <3>1
    <3>3. QED
      BY <2>3, <3>1, <3>2
  <2>6. QED
    BY <2>1, <2>2, <2>4, <2>5
<1>5. Unique(ledger) /\ Referring(ledger) /\ Settled
  BY <1>4 DEF Unique, Referring, Restores, Settled
<1>6. runs \in Seq(RunType) /\ calls \in Seq(CallType) /\ RunsHold /\ CallsHold
  BY <1>1 DEF RunsHold, CallsHold
<1>7. TypeOK
  BY <1>3, <1>4, <1>5, <1>6, TypeParts
<1>8. QED
  BY <1>2, <1>5, <1>6, <1>7 DEF IInv

LEMMA NextKeeps == ASSUME IInv, [Next]_vars PROVE IInv'
<1>1. CASE UNCHANGED vars
  <2>1. UNCHANGED <<country, today, contracts, ledger, status, exit, marker, runs, calls>>
    BY <1>1 DEF vars
  <2>2. TypeOK /\ IsFiniteSet(contracts) /\ Referring(ledger) /\ Settled /\ RunsHold /\ CallsHold
    BY DEF IInv
  <2>3. Still /\ Apart
    BY <2>1 DEF Still, Apart
  <2>4. Others' /\ Settled'
    BY <2>1, <2>2, <2>3, TypeParts, ApartTyped, StillSettled
  <2>5. CallsHold' /\ calls' \in Seq(CallType)
    BY <2>1, <2>3, StillCalls
  <2>6. QED
    BY <2>1, <2>3, <2>4, <2>5, StillKeeps
<1>2. CASE \E listed \in BOOLEAN, balance \in {Balance, 0} : RunRead(listed, balance)
  BY <1>2, RunReadKeeps
<1>3. CASE \E i \in DOMAIN runs : RunPost(i) \/ RunLost(i)
  BY <1>3, RunPostKeeps, RunLostKeeps
<1>4. CASE \E c \in Versions \ contracts : AddContract(c)
  BY <1>4, AddContractKeeps
<1>5. CASE LedgerEntry
  BY <1>5, LedgerEntryKeeps
<1>6. CASE \E d \in Exits : Terminate(d)
  BY <1>6, TerminateKeeps
<1>7. CASE \E i \in DOMAIN calls : TrueUpRead(i) \/ TrueUpPost(i) \/ CallEnds(i)
  BY <1>7, TrueUpReadKeeps, TrueUpPostKeeps, CallEndsKeeps
<1>8. CASE Reactivate \/ Acknowledge \/ Confirm
  BY <1>8, ReactivateKeeps, AcknowledgeKeeps, ConfirmKeeps
<1>9. CASE Tick
  BY <1>9, TickKeeps
<1>10. QED
  BY <1>1, <1>2, <1>3, <1>4, <1>5, <1>6, <1>7, <1>8, <1>9 DEF Next

LEMMA Inductive == Spec => []IInv
<1>1. Init => IInv
  BY InitHolds
<1>2. IInv /\ [Next]_vars => IInv'
  BY NextKeeps
<1>3. QED
  BY <1>1, <1>2, PTL DEF Spec

(* Types hold, each month accrues at most once, each employee has one
   settlement, whatever runs and terminations are repeated, and a part-time
   fraction is found exactly when one is in force all through a period,
   whatever contracts HR adds in whatever order. *)
THEOREM LeaveIsSound == Spec => []LeaveSound
<1>1. IInv => LeaveSound
  BY WalkIsRight DEF IInv, LeaveSound
<1>2. QED
  BY <1>1, Inductive, PTL

------------------------------------------------------------------------------
(* What the steps of a run and of a true-up grant. *)

(* A run is gone because it posted or because it was lost. *)
LEMMA RunGone ==
    ASSUME TypeOK, [Next]_vars, NEW i \in DOMAIN runs, runs' = RemoveAt(runs, i)
    PROVE  \E j \in DOMAIN runs : runs[j] = runs[i] /\ (RunPost(j) \/ RunLost(j))
<1>1. runs \in Seq(RunType)
  BY DEF TypeOK
<1>2. Len(runs') = Len(runs) - 1 /\ Len(runs) \in Nat /\ runs' # runs
  BY <1>1, Shorter
<1>3. \A listed, balance : ~ RunRead(listed, balance)
  <2>1. \A listed, balance : RunRead(listed, balance) => \E r : runs' = Append(runs, r)
    BY DEF RunRead
  <2>2. \A r : Len(Append(runs, r)) = Len(runs) + 1
    BY <1>1
  <2>3. QED
    BY <1>2, <2>1, <2>2
<1>4. PICK j \in DOMAIN runs : RunPost(j) \/ RunLost(j)
  BY <1>2, <1>3 DEF Next, vars, AddContract, LedgerEntry, Terminate, TrueUpRead, TrueUpPost, CallEnds,
                    Reactivate, Acknowledge, Confirm, Tick
<1>5. runs' = RemoveAt(runs, j)
  BY <1>4 DEF RunPost, RunLost
<1>6. runs[j] = runs[i]
  BY <1>1, <1>5, SameOne
<1>7. QED
  BY <1>4, <1>6

(* A call is gone because it settled or because it ended. *)
LEMMA CallGone ==
    ASSUME TypeOK, [Next]_vars, NEW i \in DOMAIN calls, calls' = RemoveAt(calls, i)
    PROVE  \E j \in DOMAIN calls : calls[j] = calls[i] /\ (TrueUpPost(j) \/ CallEnds(j))
<1>1. calls \in Seq(CallType)
  BY DEF TypeOK
<1>2. Len(calls') = Len(calls) - 1 /\ Len(calls) \in Nat /\ calls' # calls
  BY <1>1, Shorter
<1>3. \A d : ~ Terminate(d)
  <2>1. \A d : Terminate(d) => \E r : calls' = Append(calls, r)
    BY DEF Terminate
  <2>2. \A r : Len(Append(calls, r)) = Len(calls) + 1
    BY <1>1
  <2>3. QED
    BY <1>2, <2>1, <2>2
<1>4. ASSUME NEW j \in DOMAIN calls PROVE ~ TrueUpRead(j)
  <2>1. TrueUpRead(j) => \E r : calls' = [calls EXCEPT ![j] = r]
    BY DEF TrueUpRead
  <2>2. \A r : Len([calls EXCEPT ![j] = r]) = Len(calls)
    BY <1>1
  <2>3. QED
    BY <1>2, <2>1, <2>2
<1>5. PICK j \in DOMAIN calls : TrueUpPost(j) \/ CallEnds(j)
  BY <1>2, <1>3, <1>4 DEF Next, vars, RunRead, RunPost, RunLost, AddContract, LedgerEntry,
                          Reactivate, Acknowledge, Confirm, Tick
<1>6. calls' = RemoveAt(calls, j)
  BY <1>5 DEF TrueUpPost, CallEnds
<1>7. calls[j] = calls[i]
  BY <1>1, <1>6, SameOne
<1>8. QED
  BY <1>5, <1>7

LEMMA RunPostGives ==
    ASSUME IInv, NEW j \in DOMAIN runs, RunPost(j)
    PROVE  \/ Given(ledger)' = Given(ledger)
           \/ ~ KeyTaken(runs[j].month) /\ Given(ledger)' = Given(ledger) + runs[j].days
<1>0. TypeOK /\ RunsHold /\ Referring(ledger) /\ ledger \in Seq(RowType)
  BY DEF IInv, TypeOK
<1>1. UNCHANGED <<country, today, contracts>>
  BY DEF RunPost
<1>2. PICK r : r = runs[j]
  OBVIOUS
<1>3. r.month \in Nat /\ r.days \in Int
  <2>1. runs \in Seq(RunType)
    BY <1>0 DEF TypeOK
  <2>2. r \in RunType
    BY <1>2, <2>1
  <2>3. QED
    BY <2>2 DEF RunType
<1>4. CASE KeyTaken(r.month)
  <2>1. ledger' = ledger
    BY <1>2, <1>4 DEF RunPost
  <2>2. QED
    BY <2>1
<1>5. CASE ~ KeyTaken(r.month)
  <2>1. Post("accrual", r.days, r.month)
    BY <1>2, <1>5 DEF RunPost
  <2>2. PICK x : x = [kind |-> "accrual", days |-> r.days, ref |-> r.month] /\ Written(x)
    BY <1>0, <1>1, <1>3, <2>1, PostIs
  <2>3. x.kind = "accrual" /\ x.days = r.days
    BY <2>2
  <2>4. Restores(ledger, x) /\ x.kind \in GrantKinds
    BY <2>3 DEF Restores, GrantKinds
  <2>5. PICK m, new : m = Len(ledger) + 1 /\ new = ledger'
    OBVIOUS
  <2>6. Follows(ledger, x, new, m)
    BY <2>2, <2>5 DEF Written
  <2>7. Given(new) = Given(ledger) + r.days
    BY <1>0, <2>3, <2>4, <2>6, RowCounts
  <2>8. QED
    BY <1>2, <1>5, <2>5, <2>7
<1>6. QED
  BY <1>4, <1>5

LEMMA ReadAgain ==
    ASSUME IInv, IInv'
    PROVE  /\ Balance = Held(ledger) /\ Granted = Given(ledger)
           /\ Balance' = Held(ledger)' /\ Granted' = Given(ledger)'
           /\ Balance \in Int /\ Granted \in Int /\ Entitled \in Int
<1>1. TypeOK /\ TypeOK'
  BY DEF IInv
<1>2. QED
  BY <1>1, ReadingIs, ReadingIsNext, RulesGiveInts

(* Of a run. *)
LEMMA RunBounded ==
    ASSUME IInv, IInv', [Next]_vars, NEW i \in DOMAIN runs, runs' = RemoveAt(runs, i), Granted' > Granted
    PROVE  \/ Granted' <= Entitled \/ Amended(runs[i].seen)
           \/ Added("settlement", runs[i].seen)
<1>0. TypeOK /\ RunsHold
  BY DEF IInv
<1>1. PICK j \in DOMAIN runs : runs[j] = runs[i] /\ (RunPost(j) \/ RunLost(j))
  BY <1>0, RunGone
<1>2. /\ Granted = Given(ledger) /\ Granted' = Given(ledger)'
      /\ Granted \in Int /\ Entitled \in Int
  BY ReadAgain
<1>3. CASE RunLost(j)
  <2>1. ledger' = ledger
    BY <1>3 DEF RunLost
  <2>2. Given(ledger)' = Given(ledger)
    BY <2>1
  <2>3. QED
    BY <1>2, <2>2
<1>4. CASE RunPost(j)
  <2>1. ~ KeyTaken(runs[j].month) /\ Given(ledger)' = Given(ledger) + runs[j].days
    <3>1. \/ Given(ledger)' = Given(ledger)
          \/ ~ KeyTaken(runs[j].month) /\ Given(ledger)' = Given(ledger) + runs[j].days
      BY <1>4, RunPostGives
    <3>2. QED
      BY <1>2, <3>1
  <2>2. RunHolds(runs[j])
    BY <1>0, Zenon DEF RunsHold
  <2>3. \/ Amended(runs[j].seen) \/ Added("settlement", runs[j].seen)
        \/ Given(ledger) + runs[j].days <= Entitled
    BY <2>1, <2>2 DEF RunHolds
  <2>4. QED
    BY <1>1, <1>2, <2>1, <2>3
<1>5. QED
  BY <1>1, <1>3, <1>4

(* What a call that is gone did: nothing, or it settled. *)
LEMMA CallDid ==
    ASSUME IInv, IInv', [Next]_vars, NEW i \in DOMAIN calls, calls' = RemoveAt(calls, i)
    PROVE  \/ ledger' = ledger /\ marker' = marker
           \/ \E n : Settles(calls[i], n)
<1>0. TypeOK
  BY DEF IInv
<1>1. PICK j \in DOMAIN calls : calls[j] = calls[i] /\ (TrueUpPost(j) \/ CallEnds(j))
  BY <1>0, CallGone
<1>2. CASE CallEnds(j)
  BY <1>2 DEF CallEnds
<1>3. CASE TrueUpPost(j) /\ Blocks
  BY <1>3 DEF TrueUpPost, Blocks
<1>4. CASE TrueUpPost(j) /\ ~ Blocks
  <2>1. \E n : Settles(calls[j], n)
    BY <1>4, TrueUpIs
  <2>2. QED
    BY <1>1, <2>1
<1>5. QED
  BY <1>1, <1>2, <1>3, <1>4

LEMMA CallBounded ==
    ASSUME IInv, IInv', [Next]_vars, NEW i \in DOMAIN calls, calls' = RemoveAt(calls, i), Granted' > Granted
    PROVE  \/ Granted' <= AtExit(calls[i].date)
           \/ Amended(calls[i].seen)
           \/ Added("accrual", calls[i].seen)
<1>0. TypeOK
  BY DEF IInv
<1>1. /\ Granted = Given(ledger) /\ Granted' = Given(ledger)'
      /\ Balance = Held(ledger) /\ Balance \in Int /\ Granted \in Int
  BY ReadAgain
<1>2. PICK n : Settles(calls[i], n)
  <2>1. ledger' = ledger => Given(ledger)' = Given(ledger)
    OBVIOUS
  <2>2. ledger' # ledger
    BY <1>1, <2>1
  <2>3. QED
    BY <2>2, CallDid
<1>3. PICK c : c = calls[i] /\ Settles(c, n)
  BY <1>2
<1>4. /\ c \in CallType /\ c.step = "post" /\ CallHolds(c)
      /\ n = Applied(c.days) /\ n \in Int /\ n >= c.days
      /\ Given(ledger)' = Given(ledger) + n
      /\ \A z : ~ Added("settlement", z)
  BY <1>3 DEF Settles
<1>5. c.days \in Int /\ c.date \in Nat
  BY <1>4 DEF CallType
<1>6. n > 0
  BY <1>1, <1>4
<1>7. n = c.days
  <2>1. CASE c.days >= 0
    BY <1>0, <1>4, <1>5, <2>1, AppliedIs
  <2>2. CASE c.days < 0
    <3>1. n = Larger(c.days, Smaller(Balance, 0) - Balance)
      BY <1>0, <1>4, <1>5, <2>2, AppliedIs
    <3>2. n <= 0
      BY <1>1, <1>5, <2>2, <3>1 DEF Larger, Smaller
    <3>3. QED
      BY <1>4, <1>6, <3>2
  <2>3. QED
    BY <1>5, <2>1, <2>2
<1>8. \/ Amended(c.seen) \/ Added("accrual", c.seen)
      \/ Given(ledger) + c.days = AtExit(c.date)
  BY <1>4 DEF CallHolds
<1>9. AtExit(c.date) \in Int
  BY <1>0, <1>5, RulesGiveInts
<1>10. QED
  BY <1>1, <1>3, <1>4, <1>7, <1>8, <1>9

LEMMA CallExact ==
    ASSUME IInv, IInv', [Next]_vars, NEW i \in DOMAIN calls, calls' = RemoveAt(calls, i), marker' # marker
    PROVE  /\ Balance' >= Min({Balance, 0})
           /\ marker'.excess > 0 => Balance' = Min({Balance, 0})
           /\ calls[i].seen = Now =>
                 Granted' - marker'.excess = AtExit(calls[i].date)
<1>0. TypeOK /\ IsFiniteSet(contracts)
  BY DEF IInv
<1>1. /\ Granted = Given(ledger) /\ Granted' = Given(ledger)'
      /\ Balance = Held(ledger) /\ Balance' = Held(ledger)' /\ Balance \in Int /\ Granted \in Int
  BY ReadAgain
<1>2. PICK n : Settles(calls[i], n)
  BY CallDid
<1>3. PICK c : c = calls[i] /\ Settles(c, n)
  BY <1>2
<1>4. /\ c \in CallType /\ c.step = "post" /\ CallHolds(c)
      /\ n = Applied(c.days) /\ n \in Int /\ n >= c.days
      /\ marker' = [date |-> exit, excess |-> n - c.days, reviewed |-> FALSE, auto |-> TRUE]
      /\ Given(ledger)' = Given(ledger) + n /\ Held(ledger)' = Held(ledger) + n
  BY <1>3 DEF Settles
<1>5. c.days \in Int /\ c.date \in Nat
  BY <1>4 DEF CallType
<1>6. marker'.excess = n - c.days
  BY <1>4
<1>7. /\ c.days >= 0 => n = c.days
      /\ c.days < 0 => n = Larger(c.days, Smaller(Balance, 0) - Balance)
      /\ Min({Balance, 0}) = Smaller(Balance, 0)
  BY <1>0, <1>4, <1>5, AppliedIs
<1>8. Balance' = Balance + n
  BY <1>1, <1>4
<1>9. /\ Balance' >= Smaller(Balance, 0)
      /\ n - c.days > 0 => Balance' = Smaller(Balance, 0)
  <2>1. CASE c.days >= 0
    BY <1>1, <1>5, <1>7, <1>8, <2>1 DEF Smaller
  <2>2. CASE c.days < 0
    BY <1>1, <1>4, <1>5, <1>7, <1>8, <2>2 DEF Smaller, Larger
  <2>3. QED
    BY <1>5, <2>1, <2>2
<1>10. ASSUME c.seen = Now PROVE Granted' - marker'.excess = AtExit(c.date)
  <2>1. ~ Amended(c.seen) /\ \A k : ~ Added(k, c.seen)
    <3>1. ~ Amended(Now) /\ \A k : ~ Added(k, Now)
      BY <1>0, NowIs
    <3>2. QED
      BY <1>10, <3>1
  <2>2. Given(ledger) + c.days = AtExit(c.date)
    BY <1>4, <2>1 DEF CallHolds
  <2>3. QED
    BY <1>1, <1>4, <1>5, <1>6, <2>2
<1>11. QED
  BY <1>3, <1>6, <1>7, <1>9, <1>10

Overgrants ==
    /\ \A i \in DOMAIN runs :
          runs' = RemoveAt(runs, i) /\ Granted' > Granted =>
             \/ Granted' <= Entitled \/ Amended(runs[i].seen)
             \/ Added("settlement", runs[i].seen)
    /\ \A i \in DOMAIN calls :
          calls' = RemoveAt(calls, i) /\ Granted' > Granted =>
             \/ Granted' <= AtExit(calls[i].date)
             \/ Amended(calls[i].seen)
             \/ Added("accrual", calls[i].seen)
Exact ==
    \A i \in DOMAIN calls :
       calls' = RemoveAt(calls, i) /\ marker' # marker =>
          /\ Balance' >= Min({Balance, 0})
          /\ marker'.excess > 0 => Balance' = Min({Balance, 0})
          /\ calls[i].seen = Now =>
                Granted' - marker'.excess = AtExit(calls[i].date)

(* Neither repeated runs of the job nor repeated terminations grant more than
   the rules give; it takes a run and a settlement that overlap, or a contract
   added in between: what a run or a true-up computed from its reading is still
   owed when it is posted, unless one of those came after the reading. *)
THEOREM GrantsBounded == Spec => OvergrantOnlyByOverlap
<1>1. ASSUME IInv, IInv', [Next]_vars PROVE [Overgrants]_vars
  BY <1>1, RunBounded, CallBounded, Zenon DEF Overgrants
<1>2. QED
  BY <1>1, Inductive, PTL DEF Spec, OvergrantOnlyByOverlap, Overgrants

(* A true-up takes back nothing that was used; what it could not take back is
   flagged, and then nothing is left; when nothing was written since it read,
   the grants less that excess are what the exit date gives. *)
THEOREM TrueUpsExact == Spec => TrueUpExact
<1>1. ASSUME IInv, IInv', [Next]_vars PROVE [Exact]_vars
  BY <1>1, CallExact, Zenon DEF Exact
<1>2. QED
  BY <1>1, Inductive, PTL DEF Spec, TrueUpExact, Exact
==============================================================================

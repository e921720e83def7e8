--------------------------- MODULE InvStock_proofs ----------------------------
(***************************************************************************)
(* Proofs about InvLedger, for any bins, people, counts and bounds:        *)
(*                                                                         *)
(*   StockIsSound    each shelf row holds, never below zero, what the      *)
(*                   ledger says (StockSound);                             *)
(*   OpeningsFirst   opening stock is the first of its place               *)
(*                   (OpeningIsFirst);                                     *)
(*   NothingReversed corrections never turn a line round (NeverReversed);  *)
(*   CountsDecide    a confirmed count decides what a place holds          *)
(*                   (CountDecides).                                       *)
(*                                                                         *)
(* The first part is about any book and one line written into it; a call   *)
(* that takes from several rows, and a count, write their lines one after  *)
(* another, and the book is sound after each.                              *)
(*                                                                         *)
(* And about InvPlanning, for any depots, projects, requests, lines and    *)
(* dates:                                                                  *)
(*                                                                         *)
(*   PlanningTyped         types and row constraints (PlanningTypeOK);     *)
(*   RowsAgreeAlways       the rows, the lines and what is on the projects *)
(*                         tell one story (RowsAgree);                     *)
(*   StatusTrueAlways      requests are what their status says             *)
(*                         (StatusTrue);                                   *)
(*   ReservationsAlwaysFit what is reserved is covered at every instant of *)
(*                         its window (ReservationsFit);                   *)
(*   NothingIsDisplaced    what leaves without a reservation leaves enough *)
(*                         for every reservation (NothingDisplaced).       *)
(*                                                                         *)
(* A call spreads pieces over rows, cuts rows or moves their dates.  What  *)
(* each of these does to any table of rows comes first, then what that     *)
(* does to the sums per line and per project, then one lemma per call.     *)
(***************************************************************************)
EXTENDS InvLedger, InvPlanning, SumTheorems

------------------------------------------------------------------------------
(* Any ledger. *)

Quantities(led) == [i \in DOMAIN led |-> led[i].qty]
Sum(led, I) == SumOver(Quantities(led), I)
Into(led, r) == {i \in DOMAIN led : led[i].to = r}
OutOf(led, r) == {i \in DOMAIN led : led[i].from = r}

UsedAt(led, i) == led[i].from \in Rows /\ led[i].to = Consumed
CameAt(led, i) == led[i].from \notin Rows /\ led[i].to \in Rows
Original(led, i) == led[i].kind # "correction" /\ (UsedAt(led, i) \/ CameAt(led, i))
(* A correction x of line i says that there was more of it. *)
Raises(led, i, x) == IF UsedAt(led, i) THEN x.to = Consumed ELSE x.from = Adjustment
Own(led, i) == {j \in DOMAIN led : led[j].of = i}
More(led, i) == {j \in Own(led, i) : Raises(led, i, led[j])}
Stands(led, i) == led[i].qty + Sum(led, More(led, i)) - Sum(led, Own(led, i) \ More(led, i))

(* A correction moves what it moves between the row of its line and the place
   the code names for it. *)
Corrects(led, x) ==
    LET i == x.of
    IN  /\ i \in DOMAIN led /\ Original(led, i)
        /\ IF UsedAt(led, i)
           THEN (x.from = led[i].from /\ x.to = Consumed) \/ (x.from = Adjustment /\ x.to = led[i].from)
           ELSE (x.from = Adjustment /\ x.to = led[i].to) \/ (x.from = led[i].to /\ x.to = Adjustment)
Shaped(led) == \A j \in DOMAIN led : IF led[j].kind = "correction" THEN Corrects(led, led[j]) ELSE led[j].of = 0
Kept(led) == \A i \in DOMAIN led : Original(led, i) => Stands(led, i) >= 0
Openings(led) ==
    \A i \in DOMAIN led : led[i].kind = "opening" => \A j \in 1..(i - 1) : led[j].to # led[i].to

(* The line x may follow the ledger. *)
Fits(led, x) ==
    IF x.kind # "correction" THEN x.of = 0
    ELSE /\ Corrects(led, x)
         /\ Stands(led, x.of) + (IF Raises(led, x.of, x) THEN x.qty ELSE -x.qty) >= 0

LEMMA Places == /\ Rows \cap Outside = {}
                /\ External \notin Rows /\ Consumed \notin Rows /\ Adjustment \notin Rows /\ Holder \notin Rows
                /\ Consumed # Adjustment /\ {External, Consumed, Adjustment, Holder} = Outside
  BY DEF Rows, Conditions, Outside, External, Consumed, Adjustment, Holder

LEMMA LineIs ==
    ASSUME NEW led, led \in Seq(MovementLine), NEW i \in DOMAIN led
    PROVE  /\ led[i] \in MovementLine /\ led[i].qty \in Nat /\ led[i].qty > 0 /\ led[i].of \in Nat
           /\ led[i].from \in Rows \cup Outside /\ led[i].to \in Rows \cup Outside
           /\ i \in Nat /\ i >= 1 /\ i <= Len(led) /\ Len(led) \in Nat
<1>1. led[i] \in MovementLine /\ i \in 1..Len(led) /\ Len(led) \in Nat
  OBVIOUS
<1>2. QED
  BY <1>1 DEF MovementLine

LEMMA LinesFinite ==
    ASSUME NEW led, led \in Seq(MovementLine)
    PROVE  /\ DOMAIN led = 1..Len(led) /\ Len(led) \in Nat
           /\ \A I \in SUBSET DOMAIN led : IsFiniteSet(I)
           /\ \A i \in DOMAIN led : Quantities(led)[i] = led[i].qty /\ Quantities(led)[i] \in Nat /\ Quantities(led)[i] \in Int
<1>1. DOMAIN led = 1..Len(led) /\ Len(led) \in Nat
  OBVIOUS
<1>2. IsFiniteSet(DOMAIN led)
  BY <1>1, FS_Interval
<1>3. \A I \in SUBSET DOMAIN led : IsFiniteSet(I)
  BY <1>2, FS_Subset
<1>4. \A i \in DOMAIN led : Quantities(led)[i] = led[i].qty /\ Quantities(led)[i] \in Nat
  BY LineIs DEF Quantities
<1>5. QED
  BY <1>1, <1>3, <1>4

LEMMA SumsAreInt ==
    ASSUME NEW led, led \in Seq(MovementLine), NEW I \in SUBSET DOMAIN led
    PROVE  Sum(led, I) \in Int
  BY LinesFinite, SumType DEF Sum

LEMMA SumWith ==
    ASSUME NEW led, led \in Seq(MovementLine), NEW I \in SUBSET DOMAIN led, NEW i \in DOMAIN led, i \notin I,
           NEW K, K = I \cup {i}
    PROVE  Sum(led, K) = Sum(led, I) + led[i].qty
<1>1. K \in SUBSET DOMAIN led /\ i \in K /\ K \ {i} = I
  OBVIOUS
<1>2. IsFiniteSet(K) /\ \A j \in K : Quantities(led)[j] \in Int
  BY <1>1, LinesFinite
<1>3. PICK F : F = Quantities(led)
  OBVIOUS
<1>4. SumOver(F, K) = F[i] + SumOver(F, K \ {i})
  BY <1>1, <1>2, <1>3, SumSplit
<1>5. SumOver(F, K \ {i}) = SumOver(F, I)
  BY <1>1, Zenon
<1>6. F[i] = led[i].qty /\ F[i] \in Int
  BY <1>3, LinesFinite
<1>7. Sum(led, I) \in Int /\ Sum(led, I) = SumOver(F, I) /\ Sum(led, K) = SumOver(F, K)
  BY <1>3, SumsAreInt DEF Sum
<1>8. QED
  BY <1>4, <1>5, <1>6, <1>7

(* One more line. *)
(* new is the ledger led with the line x, the n-th. *)
After(led, x, new, n) ==
    led \in Seq(MovementLine) /\ x \in MovementLine /\ new = Append(led, x) /\ n = Len(led) + 1

LEMMA Appended ==
    ASSUME NEW led, NEW x, NEW new, NEW n, After(led, x, new, n)
    PROVE  /\ led \in Seq(MovementLine) /\ x \in MovementLine /\ x.qty \in Nat /\ x.qty > 0
           /\ new \in Seq(MovementLine) /\ Len(new) = n /\ n \in Nat /\ n # 0
           /\ DOMAIN new = 1..n /\ DOMAIN new = DOMAIN led \cup {n} /\ n \in DOMAIN new /\ n \notin DOMAIN led
           /\ new[n] = x /\ \A i \in DOMAIN led : new[i] = led[i]
           /\ \A i \in DOMAIN led : i \in DOMAIN new /\ i < n
<1>1. led \in Seq(MovementLine) /\ x \in MovementLine /\ n = Len(led) + 1 /\ new = Append(led, x)
  BY DEF After
<1>2. /\ new \in Seq(MovementLine) /\ Len(new) = Len(led) + 1 /\ Len(led) \in Nat
      /\ DOMAIN led = 1..Len(led) /\ DOMAIN new = 1..(Len(led) + 1)
      /\ new[Len(led) + 1] = x /\ \A i \in DOMAIN led : new[i] = led[i]
  BY <1>1
<1>3. x.qty \in Nat /\ x.qty > 0
  BY <1>1 DEF MovementLine
<1>4. QED
  BY <1>1, <1>2, <1>3

LEMMA SumAfter ==
    ASSUME NEW led, NEW x, NEW new, NEW n, After(led, x, new, n), NEW I, I \in SUBSET DOMAIN led
    PROVE  /\ Sum(new, I) = Sum(led, I) /\ Sum(led, I) \in Int
           /\ Sum(new, I \cup {n}) = Sum(led, I) + x.qty
<1>1. /\ new \in Seq(MovementLine) /\ n \in DOMAIN new /\ n \notin DOMAIN led /\ new[n] = x
      /\ \A i \in DOMAIN led : new[i] = led[i]
      /\ DOMAIN new = DOMAIN led \cup {n} /\ led \in Seq(MovementLine)
  BY Appended
<1>2. IsFiniteSet(I) /\ \A i \in I : Quantities(new)[i] = Quantities(led)[i]
  BY <1>1, LinesFinite DEF Quantities
<1>3. SumOver(Quantities(new), I) = SumOver(Quantities(led), I)
  BY <1>2, SumSame
<1>4. Sum(new, I) = Sum(led, I) /\ Sum(led, I) \in Int
  <2>1. led \in Seq(MovementLine)
    BY Appended
  <2>2. Sum(led, I) \in Int
    BY <2>1, SumsAreInt
  <2>3. QED
    BY <1>3, <2>2 DEF Sum
<1>5. I \in SUBSET DOMAIN new /\ n \notin I
  BY <1>1
<1>6. PICK K : K = I \cup {n}
  OBVIOUS
<1>7. Sum(new, K) = Sum(new, I) + new[n].qty
  BY <1>1, <1>5, <1>6, SumWith
<1>8. Sum(new, K) = Sum(led, I) + x.qty
  BY <1>1, <1>4, <1>7
<1>9. QED
  BY <1>4, <1>6, <1>8, Zenon

(* The sets a sum is taken over, with one line more. *)
LEMMA SetsAfter ==
    ASSUME NEW led, NEW x, NEW new, NEW n, After(led, x, new, n)
    PROVE  /\ \A r : Into(new, r) = IF x.to = r THEN Into(led, r) \cup {n} ELSE Into(led, r)
           /\ \A r : OutOf(new, r) = IF x.from = r THEN OutOf(led, r) \cup {n} ELSE OutOf(led, r)
           /\ \A i \in DOMAIN led :
                 /\ UsedAt(new, i) = UsedAt(led, i) /\ CameAt(new, i) = CameAt(led, i)
                 /\ Original(new, i) = Original(led, i)
                 /\ Own(new, i) = IF x.of = i THEN Own(led, i) \cup {n} ELSE Own(led, i)
                 /\ More(new, i) = IF x.of = i /\ Raises(led, i, x) THEN More(led, i) \cup {n} ELSE More(led, i)
<1>1. /\ DOMAIN new = DOMAIN led \cup {n} /\ n \notin DOMAIN led /\ new[n] = x
      /\ \A i \in DOMAIN led : new[i] = led[i]
  BY Appended
<1>2. \A r : Into(new, r) = IF x.to = r THEN Into(led, r) \cup {n} ELSE Into(led, r)
  BY <1>1 DEF Into
<1>3. \A r : OutOf(new, r) = IF x.from = r THEN OutOf(led, r) \cup {n} ELSE OutOf(led, r)
  BY <1>1 DEF OutOf
<1>4. ASSUME NEW i \in DOMAIN led
      PROVE  /\ UsedAt(new, i) = UsedAt(led, i) /\ CameAt(new, i) = CameAt(led, i)
             /\ Original(new, i) = Original(led, i)
             /\ Own(new, i) = IF x.of = i THEN Own(led, i) \cup {n} ELSE Own(led, i)
             /\ More(new, i) = IF x.of = i /\ Raises(led, i, x) THEN More(led, i) \cup {n} ELSE More(led, i)
  <2>1. new[i] = led[i]
    BY <1>1
  <2>2. UsedAt(new, i) = UsedAt(led, i) /\ CameAt(new, i) = CameAt(led, i)
    BY <2>1 DEF UsedAt, CameAt
  <2>3. Original(new, i) = Original(led, i)
    BY <2>1, <2>2 DEF Original
  <2>4. Own(new, i) = IF x.of = i THEN Own(led, i) \cup {n} ELSE Own(led, i)
    BY <1>1 DEF Own
  <2>5. \A y : Raises(new, i, y) = Raises(led, i, y)
    BY <2>2 DEF Raises
  <2>6. Own(led, i) \subseteq DOMAIN led
    BY DEF Own
  <2>7. More(new, i) = IF x.of = i /\ Raises(led, i, x) THEN More(led, i) \cup {n} ELSE More(led, i)
    <3>1. \A j \in Own(led, i) : Raises(new, i, new[j]) = Raises(led, i, led[j])
      BY <1>1, <2>5, <2>6
    <3>2. Raises(new, i, new[n]) = Raises(led, i, x)
      BY <1>1, <2>5
    <3>3. CASE x.of = i
      BY <2>4, <3>1, <3>2, <3>3 DEF More
    <3>4. CASE x.of # i
      BY <2>4, <3>1, <3>4 DEF More
    <3>5. QED
      BY <3>3, <3>4
  <2>8. QED
    BY <2>2, <2>3, <2>4, <2>7
<1>5. QED
  BY <1>2, <1>3, <1>4

LEMMA SetsAre ==
    ASSUME NEW led, led \in Seq(MovementLine), NEW i, NEW r
    PROVE  /\ Into(led, r) \in SUBSET DOMAIN led /\ OutOf(led, r) \in SUBSET DOMAIN led
           /\ Own(led, i) \in SUBSET DOMAIN led /\ More(led, i) \in SUBSET DOMAIN led
           /\ Own(led, i) \ More(led, i) \in SUBSET DOMAIN led
           /\ More(led, i) \subseteq Own(led, i)
  BY DEF Into, OutOf, Own, More

(* A new correction changes what its line stands for; other lines stand. *)
LEMMA StandsAfter ==
    ASSUME NEW led, NEW x, NEW new, NEW n, After(led, x, new, n), NEW i \in DOMAIN led
    PROVE  /\ Stands(led, i) \in Int
           /\ Stands(new, i) = IF x.of # i THEN Stands(led, i)
                               ELSE Stands(led, i) + (IF Raises(led, i, x) THEN x.qty ELSE -x.qty)
<1>0. \A I \in SUBSET DOMAIN led : Sum(new, I) = Sum(led, I) /\ Sum(new, I \cup {n}) = Sum(led, I) + x.qty
  <2>1. SUFFICES ASSUME NEW I, I \in SUBSET DOMAIN led
                 PROVE  Sum(new, I) = Sum(led, I) /\ Sum(new, I \cup {n}) = Sum(led, I) + x.qty
    OBVIOUS
  <2>2. /\ Sum(new, I) = Sum(led, I) /\ Sum(led, I) \in Int
        /\ Sum(new, I \cup {n}) = Sum(led, I) + x.qty
    BY <2>1, SumAfter
  <2>3. QED
    BY <2>2, Zenon
<1>1. led \in Seq(MovementLine) /\ x.qty \in Nat
  BY Appended
<1>2. PICK M, L, N, D : /\ M = More(led, i) /\ L = Own(led, i) \ More(led, i)
                        /\ N = More(new, i) /\ D = Own(new, i) \ More(new, i)
  OBVIOUS
<1>3. M \in SUBSET DOMAIN led /\ L \in SUBSET DOMAIN led /\ M \subseteq Own(led, i)
  BY <1>1, <1>2, SetsAre
<1>4. /\ Own(new, i) = IF x.of = i THEN Own(led, i) \cup {n} ELSE Own(led, i)
      /\ N = IF x.of = i /\ Raises(led, i, x) THEN M \cup {n} ELSE M
  BY <1>1, <1>2, SetsAfter
<1>5. n \notin DOMAIN led /\ new[i] = led[i]
  BY <1>1, Appended
<1>6. PICK a, b, q, z : a = Sum(led, M) /\ b = Sum(led, L) /\ q = led[i].qty /\ z = x.qty
  OBVIOUS
<1>7. a \in Int /\ b \in Int /\ q \in Int /\ z \in Int
  <2>1. a \in Int /\ b \in Int
    BY <1>1, <1>3, <1>6, SumsAreInt
  <2>2. led[i].qty \in Nat /\ x.qty \in Nat
    BY <1>1, LineIs
  <2>3. QED
    BY <1>6, <2>1, <2>2
<1>8. /\ Sum(new, M) = a /\ Sum(new, L) = b
      /\ Sum(new, M \cup {n}) = a + z /\ Sum(new, L \cup {n}) = b + z
  <2>1. Sum(new, M) = Sum(led, M) /\ Sum(new, M \cup {n}) = Sum(led, M) + x.qty
    BY <1>0, <1>3
  <2>2. Sum(new, L) = Sum(led, L) /\ Sum(new, L \cup {n}) = Sum(led, L) + x.qty
    BY <1>0, <1>3
  <2>3. QED
    BY <1>6, <2>1, <2>2
<1>9. Stands(led, i) = q + a - b /\ Stands(new, i) = q + Sum(new, N) - Sum(new, D)
  BY <1>2, <1>5, <1>6 DEF Stands
<1>10. CASE x.of # i
  <2>1. N = M /\ D = L
    BY <1>2, <1>4, <1>10
  <2>2. QED
    BY <1>7, <1>8, <1>9, <1>10, <2>1
<1>11. CASE x.of = i /\ Raises(led, i, x)
  <2>1. N = M \cup {n} /\ D = L
    BY <1>2, <1>3, <1>4, <1>5, <1>11
  <2>2. Stands(new, i) = Stands(led, i) + z
    BY <1>7, <1>8, <1>9, <2>1
  <2>3. Stands(led, i) \in Int
    BY <1>7, <1>9
  <2>4. QED
    BY <1>6, <1>11, <2>2, <2>3
<1>12. CASE x.of = i /\ ~Raises(led, i, x)
  <2>1. N = M /\ D = L \cup {n}
    BY <1>2, <1>3, <1>4, <1>5, <1>12
  <2>2. Stands(new, i) = Stands(led, i) + (-z)
    BY <1>7, <1>8, <1>9, <2>1
  <2>3. Stands(led, i) \in Int
    BY <1>7, <1>9
  <2>4. QED
    BY <1>6, <1>12, <2>2, <2>3
<1>13. QED
  BY <1>10, <1>11, <1>12

(* Nothing corrects a line that has just been written. *)
LEMMA StandsNew ==
    ASSUME NEW led, NEW x, NEW new, NEW n, After(led, x, new, n), Shaped(led), Fits(led, x)
    PROVE  Stands(new, n) = x.qty
<1>1. /\ DOMAIN new = DOMAIN led \cup {n} /\ n \notin DOMAIN led /\ new[n] = x
      /\ \A i \in DOMAIN led : new[i] = led[i]
  BY Appended
<1>2. n # 0 /\ led \in Seq(MovementLine)
  BY Appended
<1>3. ASSUME NEW j \in DOMAIN new PROVE new[j].of # n
  <2>1. CASE j = n
    <3>1. x.of \in DOMAIN led \/ x.of = 0
      BY DEF Fits, Corrects
    <3>2. QED
      BY <1>1, <1>2, <2>1, <3>1
  <2>2. CASE j \in DOMAIN led
    <3>1. led[j].of \in DOMAIN led \/ led[j].of = 0
      BY <2>2 DEF Shaped, Corrects
    <3>2. QED
      BY <1>1, <1>2, <2>2, <3>1
  <2>3. QED
    BY <1>1, <2>1, <2>2
<1>4. Own(new, n) = {}
  BY <1>3 DEF Own
<1>5. More(new, n) = {} /\ Own(new, n) \ More(new, n) = {}
  BY <1>4 DEF More
<1>6. Sum(new, {}) = 0
  BY SumNone DEF Sum
<1>7. Stands(new, n) = x.qty + Sum(new, {}) - Sum(new, {})
  BY <1>1, <1>5 DEF Stands
<1>8. x.qty \in Nat
  BY Appended
<1>9. QED
  BY <1>6, <1>7, <1>8

------------------------------------------------------------------------------
(* Any book. *)

(* What line x does to row r. *)
Effect(x, r) == (IF x.to = r THEN x.qty ELSE 0) - (IF x.from = r THEN x.qty ELSE 0)

Typed(b) ==
    /\ b \in Book /\ b.verified \subseteq b.known
Even(b) == \A r \in Rows : b.qty[r] = Sum(b.ledger, Into(b.ledger, r)) - Sum(b.ledger, OutOf(b.ledger, r))
Seen(b) == \A i \in DOMAIN b.ledger : b.ledger[i].to \in Rows => b.ledger[i].to \in b.verified
Sound(b) ==
    Typed(b) /\ Even(b) /\ Seen(b) /\ Shaped(b.ledger) /\ Kept(b.ledger) /\ Openings(b.ledger)

(* The line x is written into book b, and new is what comes out. *)
Posts(b, x, new) ==
    /\ new \in [qty : [Rows -> Int], known : SUBSET Rows, verified : SUBSET Rows, ledger : {Append(b.ledger, x)}]
    /\ \A r \in Rows : new.qty[r] = b.qty[r] + Effect(x, r)
    /\ new.verified = b.verified \cup ({x.to} \cap Rows)
    /\ new.known = b.known \cup ({x.from, x.to} \cap Rows)

(* What a call must see to before it writes x. *)
Allowed(b, x) ==
    /\ x \in MovementLine /\ x.from # x.to
    /\ x.from \in Rows => x.qty <= b.qty[x.from]
    /\ x.kind = "opening" => x.to \in Rows /\ x.to \notin b.verified
    /\ Fits(b.ledger, x)

LEMMA BookIs ==
    ASSUME NEW b, Typed(b)
    PROVE  /\ b.qty \in [Rows -> Nat] /\ b.known \in SUBSET Rows /\ b.verified \in SUBSET Rows
           /\ b.ledger \in Seq(MovementLine) /\ b.verified \subseteq b.known
           /\ b = [qty |-> b.qty, known |-> b.known, verified |-> b.verified, ledger |-> b.ledger]
  BY DEF Typed, Book

LEMMA BookMade ==
    ASSUME NEW b, NEW q, q \in [Rows -> Nat], NEW k, k \in SUBSET Rows, NEW v, v \in SUBSET k,
           NEW l, l \in Seq(MovementLine), b = [qty |-> q, known |-> k, verified |-> v, ledger |-> l]
    PROVE  Typed(b)
  BY DEF Typed, Book

LEMMA PostsIs ==
    ASSUME NEW b, NEW x, NEW new, Posts(b, x, new)
    PROVE  /\ new = [qty |-> new.qty, known |-> new.known, verified |-> new.verified, ledger |-> new.ledger]
           /\ new.qty \in [Rows -> Int] /\ new.known \in SUBSET Rows /\ new.ledger = Append(b.ledger, x)
           /\ \A r \in Rows : new.qty[r] = b.qty[r] + Effect(x, r)
           /\ new.verified = b.verified \cup ({x.to} \cap Rows)
           /\ new.known = b.known \cup ({x.from, x.to} \cap Rows)
  BY DEF Posts

(* A line a call may write leaves the book sound. *)
LEMMA Posting ==
    ASSUME NEW b, Sound(b), NEW x, Allowed(b, x), NEW new, Posts(b, x, new)
    PROVE  Sound(new)
<1>1. PICK led, nled, n : led = b.ledger /\ nled = new.ledger /\ n = Len(led) + 1
  OBVIOUS
<1>2. /\ b.qty \in [Rows -> Nat] /\ led \in Seq(MovementLine) /\ b.verified \subseteq b.known
      /\ b.known \in SUBSET Rows
  BY <1>1, BookIs DEF Sound
<1>3. After(led, x, nled, n)
  BY <1>1, <1>2, PostsIs DEF After, Allowed
<1>4. /\ new = [qty |-> new.qty, known |-> new.known, verified |-> new.verified, ledger |-> nled]
      /\ new.qty \in [Rows -> Int] /\ new.known \in SUBSET Rows
      /\ \A r \in Rows : new.qty[r] = b.qty[r] + Effect(x, r)
      /\ new.verified = b.verified \cup ({x.to} \cap Rows)
      /\ new.known = b.known \cup ({x.from, x.to} \cap Rows)
  BY <1>1, PostsIs
<1>5. /\ x \in MovementLine /\ x.qty \in Nat /\ nled \in Seq(MovementLine) /\ n \in Nat
      /\ DOMAIN nled = DOMAIN led \cup {n} /\ DOMAIN nled = 1..n /\ n \notin DOMAIN led /\ nled[n] = x
      /\ \A i \in DOMAIN led : nled[i] = led[i]
  BY <1>3, Appended
<1>6. /\ x.from # x.to /\ (x.from \in Rows => x.qty <= b.qty[x.from])
      /\ (x.kind = "opening" => x.to \in Rows /\ x.to \notin b.verified) /\ Fits(led, x)
  BY <1>1 DEF Allowed
<1>7. /\ Shaped(led) /\ Kept(led) /\ Openings(led)
      /\ \A i \in DOMAIN led : led[i].to \in Rows => led[i].to \in b.verified
      /\ \A r \in Rows : b.qty[r] = Sum(led, Into(led, r)) - Sum(led, OutOf(led, r))
  BY <1>1 DEF Sound, Even, Seen
<1>8. Typed(new)
  <2>1. ASSUME NEW r \in Rows PROVE new.qty[r] \in Nat
    <3>1. b.qty[r] \in Nat /\ new.qty[r] = b.qty[r] + Effect(x, r)
      BY <1>2, <1>4
    <3>2. CASE x.from = r
      BY <1>5, <1>6, <3>1, <3>2 DEF Effect
    <3>3. CASE x.from # r
      BY <1>5, <3>1, <3>3 DEF Effect
    <3>4. QED
      BY <3>2, <3>3
  <2>2. new.qty \in [Rows -> Nat]
    BY <1>4, <2>1
  <2>3. new.verified \in SUBSET new.known
    BY <1>2, <1>4
  <2>4. QED
    BY <1>4, <1>5, <2>2, <2>3, BookMade
<1>9. Even(new)
  <2>1. ASSUME NEW r \in Rows PROVE new.qty[r] = Sum(nled, Into(nled, r)) - Sum(nled, OutOf(nled, r))
    <3>1. PICK I, O : I = Into(led, r) /\ O = OutOf(led, r)
      OBVIOUS
    <3>2. I \in SUBSET DOMAIN led
      BY <1>2, <3>1, SetsAre
    <3>3. O \in SUBSET DOMAIN led
      BY <1>2, <3>1, SetsAre
    <3>4. Sum(nled, I) = Sum(led, I) /\ Sum(nled, I \cup {n}) = Sum(led, I) + x.qty
      BY <1>3, <3>2, SumAfter
    <3>5. Sum(nled, O) = Sum(led, O) /\ Sum(nled, O \cup {n}) = Sum(led, O) + x.qty
      BY <1>3, <3>3, SumAfter
    <3>6. /\ Into(nled, r) = IF x.to = r THEN I \cup {n} ELSE I
          /\ OutOf(nled, r) = IF x.from = r THEN O \cup {n} ELSE O
      BY <1>3, <3>1, SetsAfter
    <3>7. PICK a, c, q, d : a = Sum(led, I) /\ c = Sum(led, O) /\ q = x.qty /\ d = new.qty[r]
      OBVIOUS
    <3>8. d = a - c + Effect(x, r) /\ a \in Int /\ c \in Int /\ q \in Int
      <4>1. a \in Int
        BY <1>2, <3>2, <3>7, SumsAreInt
      <4>2. c \in Int
        BY <1>2, <3>3, <3>7, SumsAreInt
      <4>3. QED
        BY <1>4, <1>5, <1>7, <3>1, <3>7, <4>1, <4>2
    <3>9. Sum(nled, Into(nled, r)) = a + (IF x.to = r THEN q ELSE 0)
      BY <3>4, <3>6, <3>7, <3>8
    <3>10. Sum(nled, OutOf(nled, r)) = c + (IF x.from = r THEN q ELSE 0)
      BY <3>5, <3>6, <3>7, <3>8
    <3>11. Effect(x, r) = (IF x.to = r THEN q ELSE 0) - (IF x.from = r THEN q ELSE 0)
      BY <3>7 DEF Effect
    <3>12. PICK t, f : t = (IF x.to = r THEN q ELSE 0) /\ f = (IF x.from = r THEN q ELSE 0)
      OBVIOUS
    <3>13. t \in Int /\ f \in Int
      BY <3>8, <3>12
    <3>14. d = a - c + (t - f) /\ Sum(nled, Into(nled, r)) = a + t /\ Sum(nled, OutOf(nled, r)) = c + f
      BY <3>8, <3>9, <3>10, <3>11, <3>12
    <3>15. QED
      BY <3>7, <3>8, <3>13, <3>14
  <2>2. QED
    BY <1>1, <2>1 DEF Even
<1>10. Seen(new)
  <2>1. \A i \in DOMAIN nled : nled[i].to \in Rows => nled[i].to \in new.verified
    BY <1>4, <1>5, <1>7
  <2>2. QED
    BY <1>1, <2>1 DEF Seen
<1>11. Shaped(nled)
  <2>1. \A y : Corrects(led, y) => Corrects(nled, y)
    <3>1. \A i \in DOMAIN led : Original(nled, i) = Original(led, i) /\ UsedAt(nled, i) = UsedAt(led, i)
      BY <1>3, SetsAfter
    <3>2. QED
      BY <1>5, <3>1 DEF Corrects
  <2>2. IF x.kind = "correction" THEN Corrects(led, x) ELSE x.of = 0
    BY <1>6 DEF Fits
  <2>3. \A j \in DOMAIN led : IF led[j].kind = "correction" THEN Corrects(led, led[j]) ELSE led[j].of = 0
    BY <1>7 DEF Shaped
  <2>4. ASSUME NEW j \in DOMAIN nled
        PROVE  IF nled[j].kind = "correction" THEN Corrects(nled, nled[j]) ELSE nled[j].of = 0
    <3>1. CASE j = n
      BY <1>5, <2>1, <2>2, <3>1
    <3>2. CASE j # n
      BY <1>5, <2>1, <2>3, <3>2
    <3>3. QED
      BY <3>1, <3>2
  <2>5. QED
    BY <2>4 DEF Shaped
<1>12. Kept(nled)
  <2>1. ASSUME NEW i \in DOMAIN nled, Original(nled, i) PROVE Stands(nled, i) >= 0
    <3>1. CASE i = n
      <4>1. Stands(nled, n) = x.qty
        BY <1>3, <1>6, <1>7, StandsNew
      <4>2. QED
        BY <1>5, <3>1, <4>1
    <3>2. CASE i \in DOMAIN led
      <4>1. Original(led, i)
        BY <1>3, <2>1, <3>2, SetsAfter
      <4>2. /\ Stands(led, i) \in Int
            /\ Stands(nled, i) = IF x.of # i THEN Stands(led, i)
                                 ELSE Stands(led, i) + (IF Raises(led, i, x) THEN x.qty ELSE -x.qty)
        BY <1>3, <3>2, StandsAfter
      <4>3. Stands(led, i) >= 0
        BY <1>7, <3>2, <4>1 DEF Kept
      <4>4. CASE x.of # i
        BY <4>2, <4>3, <4>4
      <4>5. CASE x.of = i
        <5>1. x.kind = "correction"
          BY <1>2, <1>6, <3>2, <4>5, LineIs DEF Fits
        <5>2. Stands(led, i) + (IF Raises(led, i, x) THEN x.qty ELSE -x.qty) >= 0
          BY <1>6, <4>5, <5>1 DEF Fits
        <5>3. QED
          BY <4>2, <4>5, <5>2
      <4>6. QED
        BY <4>4, <4>5
    <3>3. QED
      BY <1>5, <3>1, <3>2
  <2>2. QED
    BY <2>1 DEF Kept
<1>13. Openings(nled)
  <2>1. ASSUME NEW i \in DOMAIN nled, nled[i].kind = "opening", NEW j \in 1..(i - 1)
        PROVE  nled[j].to # nled[i].to
    <3>1. CASE i = n
      <4>1. j \in DOMAIN led
        BY <1>5, <2>1, <3>1
      <4>2. x.to \in Rows /\ x.to \notin b.verified
        BY <1>5, <1>6, <2>1, <3>1
      <4>3. QED
        BY <1>5, <1>7, <3>1, <4>1, <4>2
    <3>2. CASE i \in DOMAIN led
      <4>1. j \in DOMAIN led /\ nled[i] = led[i]
        BY <1>2, <1>5, <2>1, <3>2
      <4>2. led[j].to # led[i].to
        BY <1>7, <2>1, <3>2, <4>1 DEF Openings
      <4>3. QED
        BY <1>5, <4>1, <4>2
    <3>3. QED
      BY <1>5, <3>1, <3>2
  <2>2. QED
    BY <2>1 DEF Openings
<1>14. QED
  BY <1>1, <1>8, <1>9, <1>10, <1>11, <1>12, <1>13 DEF Sound

(* The three ways the code writes a line. *)
Whole(b) == b = [qty |-> b.qty, known |-> b.known, verified |-> b.verified, ledger |-> b.ledger]
Writes(b, x, w) == Whole(b) /\ x \in MovementLine /\ w = Write(b, x.kind, x.qty, x.from, x.to, x.who, x.of)

LEMMA WriteIs ==
    ASSUME NEW b, NEW x, NEW w, Writes(b, x, w)
    PROVE  w = [qty |-> b.qty, known |-> b.known, verified |-> b.verified, ledger |-> Append(b.ledger, x)]
<1>1. x = [kind |-> x.kind, qty |-> x.qty, from |-> x.from, to |-> x.to, who |-> x.who, of |-> x.of]
  BY DEF MovementLine, Writes
<1>2. w = [b EXCEPT !.ledger = Append(@, x)]
  BY <1>1, Zenon DEF Writes, Write
<1>3. Whole(b)
  BY DEF Writes
<1>4. QED
  BY <1>2, <1>3 DEF Whole

(* c is the book b with d more pieces on row r. *)
Changes(b, r, d, c) == Typed(b) /\ r \in Rows /\ d \in Int /\ c = Change(b, r, d)
Gained(q, r, d, p) == IF p = r THEN q[p] + d ELSE q[p]

LEMMA ChangeIs ==
    ASSUME NEW b, NEW r, NEW d, NEW c, Changes(b, r, d, c)
    PROVE  /\ c = [qty |-> c.qty, known |-> b.known \cup {r}, verified |-> c.verified, ledger |-> b.ledger]
           /\ c.qty \in [Rows -> Int]
           /\ \A p \in Rows : c.qty[p] = Gained(b.qty, r, d, p)
           /\ d > 0 => c.verified = b.verified \cup {r}
           /\ ~(d > 0) => c.verified = b.verified
<1>1. b.qty \in [Rows -> Nat]
  BY BookIs DEF Changes
<1>2. r \in Rows /\ d \in Int /\ c = Change(b, r, d)
  BY DEF Changes
<1>3. c.qty = [b.qty EXCEPT ![r] = @ + d]
  BY <1>2 DEF Change
<1>4. c = [qty |-> c.qty, known |-> b.known \cup {r}, verified |-> c.verified, ledger |-> b.ledger]
  BY <1>2 DEF Change
<1>5. c.verified = IF d > 0 THEN b.verified \cup {r} ELSE b.verified
  BY <1>2 DEF Change
<1>6. \A p \in Rows : c.qty[p] = Gained(b.qty, r, d, p)
  BY <1>1, <1>2, <1>3 DEF Gained
<1>7. c.qty \in [Rows -> Int]
  BY <1>1, <1>2, <1>3
<1>8. QED
  BY <1>4, <1>5, <1>6, <1>7

LEMMA WriteIn ==
    ASSUME NEW b, Typed(b), NEW r \in Rows, NEW x, x \in MovementLine, x.to = r, x.from \notin Rows
    PROVE  Posts(b, x, Write(Change(b, r, x.qty), x.kind, x.qty, x.from, r, x.who, x.of))
<1>1. PICK c, w : c = Change(b, r, x.qty) /\ w = Write(c, x.kind, x.qty, x.from, r, x.who, x.of)
  OBVIOUS
<1>2. x.qty \in Int /\ x.qty > 0
  BY DEF MovementLine
<1>3. /\ c = [qty |-> c.qty, known |-> b.known \cup {r}, verified |-> c.verified, ledger |-> b.ledger]
      /\ c.qty \in [Rows -> Int] /\ c.verified = b.verified \cup {r}
      /\ \A p \in Rows : c.qty[p] = Gained(b.qty, r, x.qty, p)
  <2>1. Changes(b, r, x.qty, c)
    BY <1>1, <1>2 DEF Changes
  <2>2. QED
    BY <1>2, <2>1, ChangeIs
<1>4. w = [qty |-> c.qty, known |-> b.known \cup {r}, verified |-> c.verified, ledger |-> Append(b.ledger, x)]
  <2>1. Writes(c, x, w) /\ c.known = b.known \cup {r} /\ c.ledger = b.ledger
    BY <1>1, <1>3 DEF Whole, Writes
  <2>2. w = [qty |-> c.qty, known |-> c.known, verified |-> c.verified, ledger |-> Append(c.ledger, x)]
    BY <2>1, WriteIs
  <2>3. QED
    BY <2>1, <2>2
<1>5. b.qty \in [Rows -> Nat] /\ b.known \in SUBSET Rows /\ b.verified \in SUBSET Rows
  BY BookIs
<1>6. \A p \in Rows : c.qty[p] = b.qty[p] + Effect(x, p)
  BY <1>2, <1>3, <1>5 DEF Effect, Gained
<1>7. Posts(b, x, w)
  BY <1>3, <1>4, <1>5, <1>6 DEF Posts
<1>8. QED
  BY <1>1, <1>7

LEMMA WriteOut ==
    ASSUME NEW b, Typed(b), NEW r \in Rows, NEW x, x \in MovementLine, x.from = r, x.to \notin Rows
    PROVE  Posts(b, x, Write(Change(b, r, -x.qty), x.kind, x.qty, r, x.to, x.who, x.of))
<1>1. PICK c, w : c = Change(b, r, -x.qty) /\ w = Write(c, x.kind, x.qty, r, x.to, x.who, x.of)
  OBVIOUS
<1>2. x.qty \in Int /\ x.qty > 0 /\ -x.qty \in Int /\ ~(-x.qty > 0)
  BY DEF MovementLine
<1>3. /\ c = [qty |-> c.qty, known |-> b.known \cup {r}, verified |-> c.verified, ledger |-> b.ledger]
      /\ c.qty \in [Rows -> Int] /\ c.verified = b.verified
      /\ \A p \in Rows : c.qty[p] = Gained(b.qty, r, -x.qty, p)
  <2>1. Changes(b, r, -x.qty, c)
    BY <1>1, <1>2 DEF Changes
  <2>2. QED
    BY <1>2, <2>1, ChangeIs
<1>4. w = [qty |-> c.qty, known |-> b.known \cup {r}, verified |-> c.verified, ledger |-> Append(b.ledger, x)]
  <2>1. Writes(c, x, w) /\ c.known = b.known \cup {r} /\ c.ledger = b.ledger
    BY <1>1, <1>3 DEF Whole, Writes
  <2>2. w = [qty |-> c.qty, known |-> c.known, verified |-> c.verified, ledger |-> Append(c.ledger, x)]
    BY <2>1, WriteIs
  <2>3. QED
    BY <2>1, <2>2
<1>5. b.qty \in [Rows -> Nat] /\ b.known \in SUBSET Rows /\ b.verified \in SUBSET Rows
  BY BookIs
<1>6. \A p \in Rows : c.qty[p] = b.qty[p] + Effect(x, p)
  BY <1>2, <1>3, <1>5 DEF Effect, Gained
<1>7. Posts(b, x, w)
  BY <1>3, <1>4, <1>5, <1>6 DEF Posts
<1>8. QED
  BY <1>1, <1>7

LEMMA WriteCarried ==
    ASSUME NEW b, Typed(b), NEW r \in Rows, NEW x, x \in MovementLine, x.from = r, x.to # r,
           x.qty <= b.qty[r]
    PROVE  Posts(b, x, Write(Carried(b, r, x.qty, x.to), x.kind, x.qty, r, x.to, x.who, x.of))
<1>1. CASE x.to \notin Rows
  BY <1>1, WriteOut DEF Carried
<1>2. CASE x.to \in Rows
  <2>1. PICK s, c, e, w : /\ s = x.to /\ c = Change(b, r, -x.qty) /\ e = Change(c, s, x.qty)
                          /\ w = Write(e, x.kind, x.qty, r, s, x.who, x.of)
    OBVIOUS
  <2>2. x.qty \in Int /\ x.qty > 0 /\ -x.qty \in Int /\ ~(-x.qty > 0)
    BY DEF MovementLine
  <2>3. /\ c = [qty |-> c.qty, known |-> b.known \cup {r}, verified |-> c.verified, ledger |-> b.ledger]
        /\ c.qty \in [Rows -> Int] /\ c.verified = b.verified
        /\ \A p \in Rows : c.qty[p] = Gained(b.qty, r, -x.qty, p)
    <3>1. Changes(b, r, -x.qty, c)
      BY <2>1, <2>2 DEF Changes
    <3>2. QED
      BY <2>2, <3>1, ChangeIs
  <2>4. /\ b.qty \in [Rows -> Nat] /\ b.known \in SUBSET Rows /\ b.verified \in SUBSET Rows
        /\ b.ledger \in Seq(MovementLine) /\ b.verified \subseteq b.known
    BY BookIs
  <2>5. \A p \in Rows : c.qty[p] \in Nat
    <3>1. ASSUME NEW p \in Rows PROVE c.qty[p] \in Nat
      <4>1. c.qty[p] = Gained(b.qty, r, -x.qty, p) /\ b.qty[p] \in Nat
        BY <2>3, <2>4
      <4>2. CASE p = r
        BY <2>2, <4>1, <4>2 DEF Gained
      <4>3. CASE p # r
        BY <4>1, <4>3 DEF Gained
      <4>4. QED
        BY <4>2, <4>3
    <3>2. QED
      BY <3>1
  <2>6. Typed(c)
    <3>1. c.qty \in [Rows -> Nat]
      BY <2>3, <2>5
    <3>2. b.known \cup {r} \in SUBSET Rows /\ c.verified \in SUBSET (b.known \cup {r})
      BY <2>3, <2>4
    <3>3. QED
      BY <2>3, <2>4, <3>1, <3>2, BookMade
  <2>7. /\ e = [qty |-> e.qty, known |-> c.known \cup {s}, verified |-> e.verified, ledger |-> c.ledger]
        /\ e.qty \in [Rows -> Int] /\ e.verified = c.verified \cup {s}
        /\ \A p \in Rows : e.qty[p] = Gained(c.qty, s, x.qty, p)
    <3>1. Changes(c, s, x.qty, e)
      BY <1>2, <2>1, <2>2, <2>6 DEF Changes
    <3>2. QED
      BY <2>2, <3>1, ChangeIs
  <2>8. /\ c.ledger = b.ledger /\ c.known = b.known \cup {r}
    BY <2>3
  <2>9. w = [qty |-> e.qty, known |-> c.known \cup {s}, verified |-> e.verified, ledger |-> Append(b.ledger, x)]
    <3>1. Writes(e, x, w) /\ e.known = c.known \cup {s} /\ e.ledger = b.ledger
      BY <2>1, <2>7, <2>8 DEF Whole, Writes
    <3>2. w = [qty |-> e.qty, known |-> e.known, verified |-> e.verified, ledger |-> Append(e.ledger, x)]
      BY <3>1, WriteIs
    <3>3. QED
      BY <3>1, <3>2
  <2>10. \A p \in Rows : e.qty[p] = b.qty[p] + Effect(x, p)
    BY <2>1, <2>2, <2>3, <2>4, <2>7 DEF Effect, Gained
  <2>11. Posts(b, x, w)
    <3>1. PICK k, v : k = c.known \cup {s} /\ v = e.verified
      OBVIOUS
    <3>2. k = b.known \cup ({x.from, x.to} \cap Rows) /\ k \in SUBSET Rows
      BY <1>2, <2>1, <2>4, <2>8, <3>1
    <3>3. v = b.verified \cup ({x.to} \cap Rows) /\ v \in SUBSET Rows
      BY <1>2, <2>1, <2>3, <2>4, <2>7, <3>1
    <3>4. w = [qty |-> e.qty, known |-> k, verified |-> v, ledger |-> Append(b.ledger, x)]
      BY <2>9, <3>1
    <3>5. QED
      BY <2>7, <2>10, <3>2, <3>3, <3>4 DEF Posts
  <2>12. QED
    BY <1>2, <2>1, <2>11 DEF Carried
<1>3. QED
  BY <1>1, <1>2

(* A row that is made, or looked at, with nothing put on it. *)
LEMMA Labelled ==
    ASSUME NEW b, Sound(b), NEW r \in Rows, NEW c, c = Change(b, r, 0)
    PROVE  Sound(c) /\ c.qty = b.qty /\ c.ledger = b.ledger
<1>1. /\ b.qty \in [Rows -> Nat] /\ b.known \in SUBSET Rows /\ b.ledger \in Seq(MovementLine)
      /\ b.verified \subseteq b.known /\ Typed(b)
  BY BookIs DEF Sound
<1>2. /\ c = [qty |-> c.qty, known |-> b.known \cup {r}, verified |-> c.verified, ledger |-> b.ledger]
      /\ c.qty \in [Rows -> Int] /\ c.verified = b.verified
      /\ \A p \in Rows : c.qty[p] = Gained(b.qty, r, 0, p)
  <2>1. Changes(b, r, 0, c)
    BY <1>1 DEF Changes
  <2>2. QED
    BY <2>1, ChangeIs
<1>3. \A p \in Rows : c.qty[p] = b.qty[p]
  BY <1>1, <1>2 DEF Gained
<1>4. c.qty = b.qty /\ c.qty \in [Rows -> Nat]
  BY <1>1, <1>2, <1>3
<1>5. c.ledger = b.ledger
  BY <1>2
<1>6. b.known \cup {r} \in SUBSET Rows /\ c.verified \in SUBSET (b.known \cup {r})
  BY <1>1, <1>2
<1>7. Typed(c)
  BY <1>1, <1>2, <1>4, <1>6, BookMade
<1>8. Even(c) /\ Seen(c)
  BY <1>2, <1>4, <1>5 DEF Sound, Even, Seen
<1>9. QED
  BY <1>4, <1>5, <1>7, <1>8 DEF Sound

(* What a call that is allowed to write x makes of the book. *)
Outcome(b, x, new) == Sound(new) /\ \A p \in Rows : new.qty[p] = b.qty[p] + Effect(x, p)
Entry(kind, n, from, to, who, of) == [kind |-> kind, qty |-> n, from |-> from, to |-> to, who |-> who, of |-> of]
(* The kinds that are neither opening stock nor a correction. *)
Plain == {"receipt", "count_adjust", "consume", "return_unused", "condition_check",
          "adjust_missing", "adjust_found", "adjust_retire"}

LEMMA EntryIs ==
    ASSUME NEW kind, NEW n, NEW from, NEW to, NEW who, NEW of, NEW x, x = Entry(kind, n, from, to, who, of)
    PROVE  /\ x.kind = kind /\ x.qty = n /\ x.from = from /\ x.to = to /\ x.who = who /\ x.of = of
  BY DEF Entry

LEMMA EntryType ==
    ASSUME NEW kind \in Plain \cup {"opening", "correction"}, NEW n \in Nat \ {0},
           NEW from \in Rows \cup Outside, NEW to \in Rows \cup Outside, NEW who \in People \cup {Nobody}, NEW of \in Nat
    PROVE  Entry(kind, n, from, to, who, of) \in MovementLine
  BY DEF Entry, MovementLine, Plain

LEMMA Received ==
    ASSUME NEW b, Sound(b), NEW kind \in Plain \cup {"opening"}, NEW r \in Rows, NEW n \in Nat \ {0},
           NEW from \in Outside, NEW who \in People \cup {Nobody}, kind = "opening" => r \notin b.verified
    PROVE  Outcome(b, Entry(kind, n, from, r, who, 0), Write(Change(b, r, n), kind, n, from, r, who, 0))
<1>1. PICK x : x = Entry(kind, n, from, r, who, 0)
  OBVIOUS
<1>2. x.kind = kind /\ x.qty = n /\ x.from = from /\ x.to = r /\ x.who = who /\ x.of = 0
  BY <1>1, EntryIs
<1>3. x \in MovementLine
  BY <1>1, EntryType
<1>4. from \notin Rows /\ from # r
  BY Places
<1>5. kind # "correction"
  BY DEF Plain
<1>6. Typed(b)
  BY DEF Sound
<1>7. Allowed(b, x)
  BY <1>2, <1>3, <1>4, <1>5 DEF Allowed, Fits
<1>8. PICK w : w = Write(Change(b, r, n), kind, n, from, r, who, 0)
  OBVIOUS
<1>9. Posts(b, x, Write(Change(b, r, x.qty), x.kind, x.qty, x.from, r, x.who, x.of))
  BY <1>2, <1>3, <1>4, <1>6, WriteIn
<1>10. Posts(b, x, w)
  BY <1>2, <1>8, <1>9
<1>11. Outcome(b, x, w)
  BY <1>7, <1>10, Posting, PostsIs DEF Outcome
<1>12. QED
  BY <1>1, <1>8, <1>11

LEMMA TakenFrom ==
    ASSUME NEW b, Sound(b), NEW kind \in Plain, NEW r \in Rows, NEW n \in Nat \ {0}, n <= b.qty[r],
           NEW to \in Rows \cup Outside, to # r, NEW who \in People \cup {Nobody}
    PROVE  Outcome(b, Entry(kind, n, r, to, who, 0), Write(Carried(b, r, n, to), kind, n, r, to, who, 0))
<1>1. PICK x : x = Entry(kind, n, r, to, who, 0)
  OBVIOUS
<1>2. x.kind = kind /\ x.qty = n /\ x.from = r /\ x.to = to /\ x.who = who /\ x.of = 0
  BY <1>1, EntryIs
<1>3. x \in MovementLine
  BY <1>1, EntryType
<1>4. kind # "correction" /\ kind # "opening"
  BY DEF Plain
<1>5. Typed(b)
  BY DEF Sound
<1>6. Allowed(b, x)
  BY <1>2, <1>3, <1>4 DEF Allowed, Fits
<1>7. PICK w : w = Write(Carried(b, r, n, to), kind, n, r, to, who, 0)
  OBVIOUS
<1>8. Posts(b, x, Write(Carried(b, r, x.qty, x.to), x.kind, x.qty, r, x.to, x.who, x.of))
  BY <1>2, <1>3, <1>5, WriteCarried
<1>9. Posts(b, x, w)
  BY <1>2, <1>7, <1>8
<1>10. Outcome(b, x, w)
  BY <1>6, <1>9, Posting, PostsIs DEF Outcome
<1>11. QED
  BY <1>1, <1>7, <1>10

(* The sums of the model. *)
LEMMA MovedIs ==
    ASSUME book.ledger \in Seq(MovementLine), NEW I, I \in SUBSET DOMAIN book.ledger
    PROVE  Moved(I) = Sum(book.ledger, I)
<1>1. PICK S, F : /\ S = I /\ F = Quantities(book.ledger) /\ IsFiniteSet(S)
                  /\ \A i \in S : F[i] = book.ledger[i].qty
  BY LinesFinite
<1> DEFINE Adds(it) == it = [s \in SUBSET S |-> IF s = {} THEN 0
                                ELSE book.ledger[CHOOSE x \in s : TRUE].qty + it[s \ {CHOOSE x \in s : TRUE}]]
           it == CHOOSE jt : Adds(jt)
<1>2. \A s \in SUBSET S : s # {} => F[First(s)] = book.ledger[CHOOSE x \in s : TRUE].qty
  BY <1>1 DEF First
<1>3. Adds(it)
  <2>1. PICK jt : AddsUp(jt, F, S)
    BY <1>1, SumExists
  <2>2. jt = [s \in SUBSET S |-> IF s = {} THEN 0 ELSE F[First(s)] + jt[s \ {First(s)}]]
    BY <2>1 DEF AddsUp
  <2>3. \A s \in SUBSET S :
          jt[s] = IF s = {} THEN 0 ELSE book.ledger[CHOOSE x \in s : TRUE].qty + jt[s \ {CHOOSE x \in s : TRUE}]
    BY <1>2, <2>2 DEF First
  <2>4. Adds(jt)
    BY <2>2, <2>3
  <2> HIDE DEF Adds
  <2>5. QED
    BY <2>4
<1>4. AddsUp(it, F, S)
  <2> HIDE DEF it
  <2>1. QED
    BY <1>2, <1>3 DEF AddsUp, First
<1>5. Moved(I) = it[S]
  BY <1>1 DEF Moved, Quantity, Ln, MapThenSumSet, MapThenFoldSet
<1>6. QED
  BY <1>1, <1>4, <1>5, SumIs DEF Sum

LEMMA HeldIs ==
    ASSUME book.qty \in [Rows -> Nat], NEW o, NEW K, IsFiniteSet(K), \A k \in K : o[k] \in Rows
    PROVE  Held(o, K) \in Int
<1>1. PICK S, F : S = K /\ F = [k \in K |-> book.qty[o[k]]]
  OBVIOUS
<1>2. \A k \in S : F[k] = book.qty[o[k]] /\ F[k] \in Int
  BY <1>1
<1> DEFINE Adds(it) == it = [s \in SUBSET S |-> IF s = {} THEN 0
                                ELSE book.qty[o[CHOOSE x \in s : TRUE]] + it[s \ {CHOOSE x \in s : TRUE}]]
           it == CHOOSE jt : Adds(jt)
<1>3. \A s \in SUBSET S : s # {} => F[First(s)] = book.qty[o[CHOOSE x \in s : TRUE]]
  BY <1>2 DEF First
<1>4. Adds(it)
  <2>1. PICK jt : AddsUp(jt, F, S)
    BY <1>1, SumExists
  <2>2. jt = [s \in SUBSET S |-> IF s = {} THEN 0 ELSE F[First(s)] + jt[s \ {First(s)}]]
    BY <2>1 DEF AddsUp
  <2>3. \A s \in SUBSET S :
          jt[s] = IF s = {} THEN 0 ELSE book.qty[o[CHOOSE x \in s : TRUE]] + jt[s \ {CHOOSE x \in s : TRUE}]
    BY <1>3, <2>2 DEF First
  <2>4. Adds(jt)
    BY <2>2, <2>3
  <2> HIDE DEF Adds
  <2>5. QED
    BY <2>4
<1>5. AddsUp(it, F, S)
  <2> HIDE DEF it
  <2>1. QED
    BY <1>3, <1>4 DEF AddsUp, First
<1>6. Held(o, K) = it[S]
  BY <1>1 DEF Held, MapThenSumSet, MapThenFoldSet
<1>7. SumOver(F, S) \in Int
  BY <1>1, <1>2, SumType
<1>8. SumOver(F, S) = it[S]
  BY <1>1, <1>5, SumIs
<1>9. QED
  BY <1>6, <1>7, <1>8

(* A row gives no more than it holds. *)
LEMMA GivesIs ==
    ASSUME Typed(book), NEW o, NEW k \in Nat, \A j \in 1..k : o[j] \in Rows, k > 0, NEW n \in Nat
    PROVE  /\ Gives(o, k, n) \in Nat /\ Gives(o, k, n) <= book.qty[o[k]]
<1>1. book.qty \in [Rows -> Nat]
  BY BookIs
<1>2. IsFiniteSet(1..(k - 1)) /\ 1..(k - 1) \subseteq 1..k
  BY FS_Interval
<1>3. Held(o, 1..(k - 1)) \in Int
  BY <1>1, <1>2, HeldIs
<1>4. book.qty[o[k]] \in Nat
  BY <1>1
<1>5. QED
  BY <1>3, <1>4 DEF Gives

------------------------------------------------------------------------------
(* A call that takes from several rows. *)

LEMMA Listed ==
    ASSUME NEW S, IsFiniteSet(S), NEW o \in SetToSeqs(S)
    PROVE  \E n \in Nat : /\ n = Cardinality(S) /\ o \in [1..n -> S] /\ Len(o) = n /\ DOMAIN o = 1..n
                          /\ \A i, j \in 1..n : i # j => o[i] # o[j]
<1>1. PICK n : n = Cardinality(S)
  OBVIOUS
<1>2. n \in Nat
  BY <1>1, FS_CardinalityType
<1>3. o \in [1..n -> S] /\ \A i, j \in 1..n : i # j => o[i] # o[j]
  BY <1>1 DEF SetToSeqs
<1>4. Len(o) = n
  BY <1>2, <1>3
<1>5. QED
  BY <1>1, <1>2, <1>3, <1>4

LEMMA RowsAreFinite == IsFiniteSet(Rows)
<1>1. IsFiniteSet(Conditions)
  <2>1. IsFiniteSet({"good"})
    BY FS_Singleton
  <2>2. IsFiniteSet({"good"} \cup {"needs_inspection"})
    BY <2>1, FS_AddElement
  <2>3. Conditions = {"good"} \cup {"needs_inspection"}
    BY DEF Conditions
  <2>4. QED
    BY <2>2, <2>3
<1>2. QED
  BY <1>1, LedgerAssumption, FS_Product DEF Rows

(* The book after row k of the order o has given. *)
Given(b, k, o, m, kind, to, who) ==
    IF m[k] = 0 THEN b ELSE Write(Carried(b, o[k], m[k], to[o[k]]), kind, m[k], o[k], to[o[k]], who, 0)

Taken(kind, rows, n, to, who) ==
    \E o \in SetToSeqs(rows) : \E m : \E f :
       /\ m = [k \in DOMAIN o |-> Gives(o, k, n)]
       /\ Len(o) \in Nat /\ DOMAIN o = 1..Len(o) =>
             /\ f[0] = book
             /\ \A k \in 1..Len(o) : f[k] = Given(f[k - 1], k, o, m, kind, to, who)
       /\ book' = f[Len(o)]

LEMMA TakeSteps ==
    ASSUME NEW kind, NEW rows, NEW n, NEW to, NEW who, Take(kind, rows, n, to, who)
    PROVE  Taken(kind, rows, n, to, who)
<1>1. PICK o \in Fullest(rows) :
         book' = (LET gives(k) == Gives(o, k, n)
                      after[k \in 0..Len(o)] ==
                         IF k = 0 THEN book
                         ELSE IF gives(k) = 0 THEN after[k - 1]
                         ELSE Write(Carried(after[k - 1], o[k], gives(k), to[o[k]]), kind, gives(k), o[k], to[o[k]], who, 0)
                  IN  after[Len(o)])
  BY Zenon DEF Take
<1> DEFINE Body(f, k) == IF k = 0 THEN book
                         ELSE IF Gives(o, k, n) = 0 THEN f[k - 1]
                         ELSE Write(Carried(f[k - 1], o[k], Gives(o, k, n), to[o[k]]), kind, Gives(o, k, n), o[k],
                                    to[o[k]], who, 0)
           Is(f) == f = [k \in 0..Len(o) |-> Body(f, k)]
           after == CHOOSE f : Is(f)
<1>2. o \in SetToSeqs(rows)
  BY DEF Fullest
<1>3. book' = after[Len(o)]
  BY <1>1
<1>4. PICK m : m = [k \in DOMAIN o |-> Gives(o, k, n)]
  OBVIOUS
<1>5. SUFFICES ASSUME Len(o) \in Nat, DOMAIN o = 1..Len(o)
               PROVE  /\ after[0] = book
                      /\ \A k \in 1..Len(o) : after[k] = Given(after[k - 1], k, o, m, kind, to, who)
  <2> HIDE DEF after
  <2>1. QED
    BY <1>2, <1>3, <1>4 DEF Taken
<1>6. PICK N \in Nat : N = Len(o)
  BY <1>5
<1>7. \E f : Is(f)
  <2> DEFINE Right(f, k) == f = [i \in 0..N |-> f[i]] /\ \A i \in 0..N : i <= k => f[i] = Body(f, i)
             T == {k \in Nat : \E f : Right(f, k)}
  <2>1. 0 \in T
    <3> DEFINE f == [i \in 0..N |-> book]
    <3>1. f = [i \in 0..N |-> f[i]] /\ f[0] = book
      OBVIOUS
    <3> HIDE DEF f
    <3>2. \A i \in 0..N : i <= 0 => f[i] = Body(f, i)
      BY <3>1
    <3>3. QED
      BY <3>1, <3>2
  <2>2. ASSUME NEW k \in T PROVE k + 1 \in T
    <3>1. PICK f : Right(f, k)
      BY <2>2
    <3>2. k \in Nat /\ k + 1 \in Nat
      OBVIOUS
    <3> DEFINE g == [i \in 0..N |-> Body(f, i)]
    <3>3. ASSUME NEW i \in 0..N, i <= k + 1 PROVE g[i] = Body(g, i)
      <4>1. CASE i = 0
        BY <4>1
      <4>2. CASE i # 0
        <5>1. i - 1 \in 0..N /\ i - 1 <= k
          BY <3>2, <3>3, <4>2
        <5>2. g[i - 1] = f[i - 1]
          <6>1. f[i - 1] = Body(f, i - 1)
            <7> HIDE DEF Body
            <7>1. QED
              BY <3>1, <5>1
          <6>2. g[i - 1] = Body(f, i - 1)
            <7> HIDE DEF Body
            <7>1. QED
              BY <5>1
          <6>3. QED
            BY <6>1, <6>2
        <5>3. g[i] = Body(f, i)
          <6> HIDE DEF Body
          <6>1. QED
            BY <3>3
        <5>4. QED
          BY <4>2, <5>2, <5>3
      <4>3. QED
        BY <4>1, <4>2
    <3>4. g = [i \in 0..N |-> g[i]]
      OBVIOUS
    <3> HIDE DEF g
    <3>5. Right(g, k + 1)
      BY <3>3, <3>4
    <3> HIDE DEF Right
    <3>6. QED
      BY <3>2, <3>5
  <2>3. T = Nat
    <3>1. T \in SUBSET Nat
      OBVIOUS
    <3> HIDE DEF T
    <3>2. QED
      BY <2>1, <2>2, <3>1, NumberInduction
  <2>4. PICK f : Right(f, N)
    BY <1>6, <2>3
  <2>5. f = [i \in 0..N |-> f[i]] /\ \A i \in 0..N : f[i] = Body(f, i)
    <3> HIDE DEF Body
    <3>1. f = [i \in 0..N |-> f[i]] /\ \A i \in 0..N : i <= N => f[i] = Body(f, i)
      BY <2>4, Zenon
    <3>2. \A i \in 0..N : i <= N
      BY <1>6
    <3>3. QED
      BY <3>1, <3>2, Zenon
  <2>6. f = [i \in 0..N |-> Body(f, i)]
    <3> HIDE DEF Body
    <3>1. QED
      BY <2>5
  <2>7. QED
    BY <1>6, <2>6
<1>8. Is(after)
  <2> HIDE DEF Is
  <2>1. QED
    BY <1>7
<1>9. \A k \in 0..N : after[k] = Body(after, k)
  <2> HIDE DEF after, Body
  <2>1. QED
    BY <1>6, <1>8
<1> HIDE DEF after
<1>10. after[0] = book
  <2>1. 0 \in 0..N
    OBVIOUS
  <2>2. after[0] = Body(after, 0)
    <3> HIDE DEF Body
    <3>1. QED
      BY <1>9, <2>1
  <2>3. QED
    BY <2>2
<1>11. ASSUME NEW k \in 1..N PROVE after[k] = Given(after[k - 1], k, o, m, kind, to, who)
  <2>1. k \in 0..N /\ k # 0 /\ m[k] = Gives(o, k, n)
    BY <1>4, <1>5, <1>6
  <2>2. after[k] = Body(after, k)
    <3> HIDE DEF Body
    <3>1. QED
      BY <1>9, <2>1
  <2>3. QED
    BY <2>1, <2>2 DEF Given
<1>12. QED
  BY <1>6, <1>10, <1>11

(* The rows give one after another; the pieces go elsewhere, so that what a row
   still has to give is there. *)
LEMMA TakeKeeps ==
    ASSUME Sound(book), NEW kind, kind \in Plain, NEW rows, rows \in SUBSET Rows, NEW n, n \in Nat,
           NEW to, to \in [Rows -> Rows \cup Outside], \A r \in rows : to[r] \notin rows,
           NEW who, who \in People \cup {Nobody}, Take(kind, rows, n, to, who)
    PROVE  Sound(book') /\ UNCHANGED counts
<1>1. PICK o \in SetToSeqs(rows) : \E m : \E f :
              /\ m = [k \in DOMAIN o |-> Gives(o, k, n)]
              /\ Len(o) \in Nat /\ DOMAIN o = 1..Len(o) =>
                    /\ f[0] = book
                    /\ \A k \in 1..Len(o) : f[k] = Given(f[k - 1], k, o, m, kind, to, who)
              /\ book' = f[Len(o)]
  <2>1. Taken(kind, rows, n, to, who)
    BY TakeSteps
  <2>2. QED
    BY <2>1, Zenon DEF Taken
<1>2. IsFiniteSet(rows)
  BY RowsAreFinite, FS_Subset
<1>3. PICK N \in Nat : /\ o \in [1..N -> rows] /\ Len(o) = N /\ DOMAIN o = 1..N
                       /\ \A i, j \in 1..N : i # j => o[i] # o[j]
  BY <1>2, Listed
<1>4. PICK m, f : /\ m = [k \in 1..N |-> Gives(o, k, n)] /\ f[0] = book
                  /\ \A k \in 1..N : f[k] = Given(f[k - 1], k, o, m, kind, to, who)
                  /\ book' = f[N]
  BY <1>1, <1>3
<1>5. \A k \in 1..N : m[k] \in Nat /\ m[k] <= book.qty[o[k]] /\ o[k] \in rows
  <2>1. ASSUME NEW k \in 1..N PROVE m[k] \in Nat /\ m[k] <= book.qty[o[k]] /\ o[k] \in rows
    <3>1. k \in Nat /\ k > 0 /\ \A j \in 1..k : o[j] \in Rows
      BY <1>3
    <3>2. Typed(book)
      BY DEF Sound
    <3>3. Gives(o, k, n) \in Nat /\ Gives(o, k, n) <= book.qty[o[k]]
      BY <3>1, <3>2, GivesIs
    <3>4. QED
      BY <1>3, <1>4, <3>3
  <2>2. QED
    BY <2>1
<1> DEFINE Fine(k) == Sound(f[k]) /\ \A j \in 1..N : j > k => f[k].qty[o[j]] = book.qty[o[j]]
           G == {k \in Nat : k <= N => Fine(k)}
<1>6. 0 \in G
  BY <1>4
<1>7. ASSUME NEW k \in G PROVE k + 1 \in G
  <2>1. SUFFICES ASSUME k + 1 <= N PROVE Fine(k + 1)
    OBVIOUS
  <2>2. Fine(k) /\ k \in Nat
    BY <2>1
  <2>3. PICK i : i = k + 1
    OBVIOUS
  <2>4. i \in 1..N /\ i - 1 = k /\ i \in Nat
    BY <2>1, <2>2, <2>3
  <2>5. f[i] = Given(f[k], i, o, m, kind, to, who)
    BY <1>4, <2>4
  <2>6. Sound(f[k]) /\ f[k].qty[o[i]] = book.qty[o[i]]
    BY <2>2, <2>3, <2>4
  <2>7. \A j \in 1..N : j > i => f[k].qty[o[j]] = book.qty[o[j]]
    BY <2>2, <2>3
  <2>8. CASE m[i] = 0
    <3>1. f[i] = f[k]
      BY <2>5, <2>8 DEF Given
    <3>2. Sound(f[i]) /\ \A j \in 1..N : j > i => f[i].qty[o[j]] = book.qty[o[j]]
      BY <2>6, <2>7, <3>1
    <3>3. QED
      BY <2>3, <3>2
  <2>9. CASE m[i] # 0
    <3>1. PICK r, t, q, b, new : r = o[i] /\ t = to[o[i]] /\ q = m[i] /\ b = f[k] /\ new = f[i]
      OBVIOUS
    <3>2. new = Write(Carried(b, r, q, t), kind, q, r, t, who, 0)
      BY <2>5, <2>9, <3>1 DEF Given
    <3>3. r \in Rows /\ q \in Nat \ {0} /\ q <= b.qty[r] /\ t \in Rows \cup Outside /\ t \notin rows /\ t # r
      BY <1>5, <2>4, <2>6, <2>9, <3>1
    <3>4. Sound(b)
      BY <2>6, <3>1
    <3>5. Outcome(b, Entry(kind, q, r, t, who, 0), new)
      BY <3>2, <3>3, <3>4, TakenFrom
    <3>6. ASSUME NEW j \in 1..N, j > i PROVE new.qty[o[j]] = book.qty[o[j]]
      <4>1. o[j] \in rows /\ o[j] # r /\ o[j] # t
        BY <1>3, <2>4, <3>1, <3>3, <3>6
      <4>2. PICK x : x = Entry(kind, q, r, t, who, 0)
        OBVIOUS
      <4>3. x.from = r /\ x.to = t
        BY <4>2, EntryIs
      <4>4. Effect(x, o[j]) = 0
        BY <4>1, <4>3 DEF Effect
      <4>5. new.qty[o[j]] = b.qty[o[j]] + Effect(x, o[j])
        BY <3>5, <4>1, <4>2 DEF Outcome
      <4>6. b.qty[o[j]] = book.qty[o[j]]
        BY <2>7, <3>1, <3>6
      <4>7. b.qty[o[j]] \in Nat
        BY <3>4, <4>1, BookIs DEF Sound
      <4>8. QED
        BY <4>4, <4>5, <4>6, <4>7
    <3>7. Sound(f[i]) /\ \A j \in 1..N : j > i => f[i].qty[o[j]] = book.qty[o[j]]
      BY <3>1, <3>5, <3>6 DEF Outcome
    <3>8. QED
      BY <2>3, <3>7
  <2>10. QED
    BY <2>8, <2>9
<1>8. G = Nat
  <2>1. G \in SUBSET Nat
    OBVIOUS
  <2> HIDE DEF G
  <2>2. QED
    BY <1>6, <1>7, <2>1, NumberInduction
<1>9. Sound(book')
  <2>1. N \in G
    BY <1>8
  <2>2. Sound(f[N])
    BY <2>1
  <2>3. QED
    BY <1>4, <2>2
<1>10. UNCHANGED counts
  BY DEF Take
<1>11. QED
  BY <1>9, <1>10

LEMMA ReceiptKeeps ==
    ASSUME Sound(book), NEW kind \in Plain, NEW r \in Rows, NEW n \in Nat \ {0}, NEW from \in Outside,
           NEW who \in People \cup {Nobody}, Receipt(kind, r, n, from, who)
    PROVE  Sound(book') /\ UNCHANGED counts
<1>1. book' = Write(Change(book, r, n), kind, n, from, r, who, 0) /\ UNCHANGED counts
  BY DEF Receipt
<1>2. kind # "opening"
  BY DEF Plain
<1>3. Outcome(book, Entry(kind, n, from, r, who, 0), book')
  BY <1>1, <1>2, Received
<1>4. QED
  BY <1>1, <1>3 DEF Outcome

(* Corrections. *)
LEMMA EffectiveIs ==
    ASSUME Sound(book), NEW i \in DOMAIN book.ledger
    PROVE  Effective(i) = Stands(book.ledger, i) /\ Stands(book.ledger, i) \in Int
<1>1. PICK led : led = book.ledger
  OBVIOUS
<1>2. led \in Seq(MovementLine)
  BY <1>1, BookIs DEF Sound
<1>3. Own(led, i) = {j \in Lines : Ln(j).of = i}
  BY <1>1 DEF Own, Lines, Ln
<1>4. Used(i) = UsedAt(led, i)
  BY <1>1 DEF Used, UsedAt, Ln
<1>5. More(led, i) = {j \in Own(led, i) : IF Used(i) THEN Ln(j).to = Consumed ELSE Ln(j).from = Adjustment}
  BY <1>1, <1>4 DEF More, Raises, Ln
<1>6. Effective(i) = Quantity(i) + Moved(More(led, i)) - Moved(Own(led, i) \ More(led, i))
  BY <1>3, <1>5 DEF Effective
<1>7. PICK M, L : M = More(led, i) /\ L = Own(led, i) \ More(led, i)
  OBVIOUS
<1>8. M \in SUBSET DOMAIN led /\ L \in SUBSET DOMAIN led
  BY <1>2, <1>7, SetsAre
<1>9. Moved(M) = Sum(led, M) /\ Moved(L) = Sum(led, L)
  BY <1>1, <1>2, <1>8, MovedIs
<1>10. Sum(led, M) \in Int /\ Sum(led, L) \in Int
  BY <1>2, <1>8, SumsAreInt
<1>11. Quantity(i) = led[i].qty /\ led[i].qty \in Nat
  BY <1>1, <1>2, LineIs DEF Quantity, Ln
<1>12. QED
  BY <1>1, <1>6, <1>7, <1>9, <1>10, <1>11 DEF Stands

LEMMA CorrectKeeps ==
    ASSUME Sound(book), NEW i \in DOMAIN book.ledger, NEW v \in Nat, Correct(i, v)
    PROVE  Sound(book') /\ UNCHANGED counts
<1>1. PICK led, e, d, n, r : /\ led = book.ledger /\ e = Effective(i) /\ d = v - Effective(i)
                             /\ n = (IF d > 0 THEN d ELSE -d)
                             /\ r = (IF Used(i) THEN Ln(i).from ELSE Ln(i).to)
  OBVIOUS
<1>2. led \in Seq(MovementLine) /\ e = Stands(led, i) /\ e \in Int /\ Typed(book)
  BY <1>1, EffectiveIs, BookIs DEF Sound
<1>3. /\ led[i].kind # "correction" /\ (Used(i) \/ Came(i)) /\ d # 0 /\ UNCHANGED counts
      /\ book.qty[r] + OnShelf(i, d) >= 0
      /\ book' = Write(Change(book, r, OnShelf(i, d)), "correction", n,
                       IF (d > 0 /\ Came(i)) \/ (d < 0 /\ Used(i)) THEN Adjustment ELSE r,
                       IF (d > 0 /\ Came(i)) \/ (d < 0 /\ Used(i)) THEN r
                       ELSE IF Used(i) THEN Consumed ELSE Adjustment, Nobody, i)
  BY <1>1 DEF Correct, Ln
<1>4. (Used(i) <=> UsedAt(led, i)) /\ (Came(i) <=> CameAt(led, i)) /\ ~(Used(i) /\ Came(i))
  BY <1>1 DEF Used, UsedAt, Came, CameAt, Ln
<1>5. Original(led, i)
  BY <1>3, <1>4 DEF Original
<1>6. r \in Rows /\ (UsedAt(led, i) => r = led[i].from) /\ (CameAt(led, i) => r = led[i].to)
  BY <1>1, <1>3, <1>4 DEF Used, Came, Ln
<1>7. n \in Nat \ {0} /\ d \in Int /\ i \in Nat /\ book.qty[r] \in Nat
  BY <1>1, <1>2, <1>3, <1>6, LineIs, BookIs
<1>8. Consumed \notin Rows /\ Adjustment \notin Rows /\ Consumed # Adjustment /\ Consumed \in Outside /\ Adjustment \in Outside
  BY Places
<1>9. e >= 0
  BY <1>1, <1>2, <1>5 DEF Sound, Kept
<1>10. CASE (d > 0 /\ Came(i)) \/ (d < 0 /\ Used(i))
  <2>1. OnShelf(i, d) = n
    BY <1>1, <1>4, <1>7, <1>10 DEF OnShelf
  <2>2. PICK x : x = Entry("correction", n, Adjustment, r, Nobody, i)
    OBVIOUS
  <2>3. x.kind = "correction" /\ x.qty = n /\ x.from = Adjustment /\ x.to = r /\ x.who = Nobody /\ x.of = i
    BY <2>2, EntryIs
  <2>4. x \in MovementLine
    BY <1>6, <1>7, <1>8, <2>2, EntryType
  <2>5. Corrects(led, x)
    BY <1>1, <1>5, <1>6, <2>3 DEF Corrects, Original
  <2>6. Raises(led, i, x) <=> Came(i)
    BY <1>3, <1>4, <1>6, <1>8, <2>3 DEF Raises
  <2>7. Stands(led, i) + (IF Raises(led, i, x) THEN x.qty ELSE -x.qty) >= 0
    <3>1. CASE Came(i)
      BY <1>2, <1>7, <1>9, <2>3, <2>6, <3>1
    <3>2. CASE ~Came(i)
      <4>1. e - n = v
        BY <1>1, <1>2, <1>7, <1>10, <3>2
      <4>2. QED
        BY <1>2, <1>7, <2>3, <2>6, <3>2, <4>1
    <3>3. QED
      BY <3>1, <3>2
  <2>8. Allowed(book, x)
    BY <1>1, <1>6, <1>8, <2>3, <2>4, <2>5, <2>7 DEF Allowed, Fits
  <2>9. Posts(book, x, Write(Change(book, r, x.qty), x.kind, x.qty, x.from, r, x.who, x.of))
    BY <1>2, <1>6, <1>8, <2>3, <2>4, WriteIn
  <2>10. book' = Write(Change(book, r, n), "correction", n, Adjustment, r, Nobody, i)
    BY <1>3, <1>10, <2>1
  <2>11. Posts(book, x, book')
    BY <2>3, <2>9, <2>10
  <2>12. QED
    BY <1>3, <2>8, <2>11, Posting
<1>11. CASE ~((d > 0 /\ Came(i)) \/ (d < 0 /\ Used(i)))
  <2>1. OnShelf(i, d) = -n /\ n <= book.qty[r]
    BY <1>1, <1>3, <1>4, <1>7, <1>11 DEF OnShelf
  <2>2. PICK x, to : to = (IF Used(i) THEN Consumed ELSE Adjustment) /\ x = Entry("correction", n, r, to, Nobody, i)
    OBVIOUS
  <2>3. x.kind = "correction" /\ x.qty = n /\ x.from = r /\ x.to = to /\ x.who = Nobody /\ x.of = i
    BY <2>2, EntryIs
  <2>4. x \in MovementLine /\ to \notin Rows
    BY <1>6, <1>7, <1>8, <2>2, EntryType
  <2>5. Corrects(led, x)
    BY <1>1, <1>3, <1>4, <1>5, <1>6, <2>2, <2>3 DEF Corrects
  <2>6. Raises(led, i, x) <=> Used(i)
    BY <1>3, <1>4, <1>6, <1>8, <2>2, <2>3 DEF Raises
  <2>7. Stands(led, i) + (IF Raises(led, i, x) THEN x.qty ELSE -x.qty) >= 0
    <3>1. CASE Used(i)
      BY <1>2, <1>7, <1>9, <2>3, <2>6, <3>1
    <3>2. CASE ~Used(i)
      <4>1. e - n = v
        BY <1>1, <1>2, <1>3, <1>7, <1>11, <3>2
      <4>2. QED
        BY <1>2, <1>7, <2>3, <2>6, <3>2, <4>1
    <3>3. QED
      BY <3>1, <3>2
  <2>8. Allowed(book, x)
    BY <1>1, <1>6, <2>1, <2>3, <2>4, <2>5, <2>7 DEF Allowed, Fits
  <2>9. Posts(book, x, Write(Change(book, r, -x.qty), x.kind, x.qty, r, x.to, x.who, x.of))
    BY <1>2, <1>6, <2>3, <2>4, WriteOut
  <2>10. book' = Write(Change(book, r, -n), "correction", n, r, to, Nobody, i)
    BY <1>3, <1>11, <2>1, <2>2
  <2>11. Posts(book, x, book')
    BY <2>3, <2>9, <2>10
  <2>12. QED
    BY <1>3, <2>8, <2>11, Posting
<1>12. QED
  BY <1>10, <1>11

------------------------------------------------------------------------------
(* Counts. *)

(* What inv_counts says of one count. *)
Entered(e) ==
    /\ e.status \in {"none", "open", "confirmed", "cancelled"}
    /\ e.kind \in {"opening", "cycle"}
    /\ DOMAIN e.lines \subseteq Rows \X BOOLEAN
    /\ \A s \in DOMAIN e.lines : e.lines[s] \in CountLine
    /\ e.kind = "opening" => \A s \in DOMAIN e.lines : e.lines[s].counted > 0
CountsHold == DOMAIN counts = Counts /\ \A c \in Counts : Entered(counts[c])

IInv == Sound(book) /\ CountsHold

LEMMA CountsFrame == ASSUME CountsHold, UNCHANGED counts PROVE CountsHold'
  BY DEF CountsHold

(* A step that writes one count. *)
LEMMA CountsUpdate ==
    ASSUME CountsHold, NEW c \in Counts, NEW e, Entered(e), counts' = [counts EXCEPT ![c] = e]
    PROVE  CountsHold'
<1>1. DOMAIN counts = Counts /\ \A d \in Counts : Entered(counts[d])
  BY DEF CountsHold
<1>2. DOMAIN counts' = Counts
  BY <1>1
<1>3. ASSUME NEW d \in Counts PROVE Entered(counts'[d])
  <2>1. CASE d = c
    BY <1>1, <2>1
  <2>2. CASE d # c
    BY <1>1, <2>2
  <2>3. QED
    BY <2>1, <2>2
<1>4. QED
  BY <1>2, <1>3 DEF CountsHold

LEMMA EnteredNone ==
    ASSUME NEW state \in {"none", "confirmed", "cancelled"}
    PROVE  Entered(Closed(state))
<1>1. DOMAIN <<>> = {}
  OBVIOUS
<1>2. PICK l : l = <<>>
  OBVIOUS
<1>3. DOMAIN l = {}
  BY <1>1, <1>2
<1>4. Closed(state) = [status |-> state, kind |-> "cycle", lines |-> l]
  BY <1>2 DEF Closed
<1>5. QED
  BY <1>3, <1>4 DEF Entered

LEMMA ListingEntered ==
    ASSUME NEW c, NEW lines, NEW kind, kind = counts[c].kind, kind \in {"opening", "cycle"},
           DOMAIN lines \subseteq Rows \X BOOLEAN, \A s \in DOMAIN lines : lines[s] \in CountLine,
           kind = "opening" => \A s \in DOMAIN lines : lines[s].counted > 0
    PROVE  Entered(Listing(c, lines))
<1>1. PICK e : e = [status |-> "open", kind |-> kind, lines |-> lines]
  OBVIOUS
<1>2. e.status = "open" /\ e.kind = kind /\ e.lines = lines
  BY <1>1
<1>3. Listing(c, lines) = e
  BY <1>1 DEF Listing
<1>4. Entered(e)
  BY <1>2 DEF Entered
<1>5. QED
  BY <1>3, <1>4

LEMMA StartKeeps ==
    ASSUME IInv, NEW c \in Counts, NEW kind \in {"opening", "cycle"}, StartCount(c, kind)
    PROVE  IInv'
<1>1. PICK e, l : l = <<>> /\ e = [status |-> "open", kind |-> kind, lines |-> l]
  OBVIOUS
<1>2. DOMAIN l = {} /\ e.status = "open" /\ e.kind = kind /\ e.lines = l
  BY <1>1
<1>3. Entered(e)
  BY <1>2 DEF Entered
<1>4. counts' = [counts EXCEPT ![c] = e] /\ UNCHANGED book
  BY <1>1 DEF StartCount
<1>5. CountsHold'
  BY <1>3, <1>4, CountsUpdate DEF IInv
<1>6. QED
  BY <1>4, <1>5 DEF IInv

LEMMA SaveKeeps ==
    ASSUME IInv, NEW c \in Counts, NEW r \in Rows, NEW n \in Nat, SaveCountLine(c, r, n)
    PROVE  IInv'
<1>1. PICK s, x, old : s = Subject(r) /\ x = [counted |-> n, expected |-> book.qty[r]] /\ old = counts[c].lines
  OBVIOUS
<1>2. Entered(counts[c]) /\ book.qty \in [Rows -> Nat]
  BY BookIs DEF IInv, CountsHold, Sound
<1>3. PICK kind : kind = counts[c].kind
  OBVIOUS
<1>4. /\ kind \in {"opening", "cycle"} /\ DOMAIN old \subseteq Rows \X BOOLEAN
      /\ \A t \in DOMAIN old : old[t] \in CountLine
      /\ kind = "opening" => \A t \in DOMAIN old : old[t].counted > 0
  BY <1>1, <1>2, <1>3 DEF Entered
<1>5. s \in Rows \X BOOLEAN /\ x \in CountLine /\ x.counted = n
  <2>1. s \in Rows \X BOOLEAN
    <3>1. (r \in book.known) \in BOOLEAN
      OBVIOUS
    <3>2. s = <<r, r \in book.known>>
      BY <1>1 DEF Subject
    <3>3. QED
      BY <3>1, <3>2, Zenon
  <2>2. x \in CountLine /\ x.counted = n
    BY <1>1, <1>2 DEF CountLine
  <2>3. QED
    BY <2>1, <2>2
<1>6. PICK new : new = [t \in DOMAIN old \cup {s} |-> IF t = s THEN x ELSE old[t]]
  OBVIOUS
<1>7. /\ DOMAIN new = {s} \cup DOMAIN old
      /\ \A t \in DOMAIN new : new[t] = IF t = s THEN x ELSE old[t]
  BY <1>6
<1>8. /\ kind = "opening" => n > 0
      /\ counts' = [counts EXCEPT ![c] = Listing(c, new)] /\ UNCHANGED book
  BY <1>1, <1>3, <1>6 DEF SaveCountLine
<1>9. DOMAIN new \subseteq Rows \X BOOLEAN /\ \A t \in DOMAIN new : new[t] \in CountLine
  BY <1>4, <1>5, <1>7
<1>10. kind = "opening" => \A t \in DOMAIN new : new[t].counted > 0
  BY <1>4, <1>5, <1>7, <1>8
<1>11. Entered(Listing(c, new))
  BY <1>3, <1>4, <1>9, <1>10, ListingEntered
<1>12. CountsHold'
  BY <1>8, <1>11, CountsUpdate DEF IInv
<1>13. QED
  BY <1>8, <1>12 DEF IInv

LEMMA RemoveKeeps ==
    ASSUME IInv, NEW c \in Counts, NEW s, RemoveCountLine(c, s)
    PROVE  IInv'
<1>1. PICK old, kind : old = counts[c].lines /\ kind = counts[c].kind
  OBVIOUS
<1>2. Entered(counts[c])
  BY DEF IInv, CountsHold
<1>3. /\ kind \in {"opening", "cycle"} /\ DOMAIN old \subseteq Rows \X BOOLEAN
      /\ \A t \in DOMAIN old : old[t] \in CountLine
      /\ kind = "opening" => \A t \in DOMAIN old : old[t].counted > 0
  BY <1>1, <1>2 DEF Entered
<1>4. PICK new : new = Restrict(old, DOMAIN old \ {s})
  OBVIOUS
<1>5. DOMAIN new = DOMAIN old \ {s} /\ \A t \in DOMAIN new : new[t] = old[t]
  BY <1>4 DEF Restrict
<1>6. counts' = [counts EXCEPT ![c] = Listing(c, new)] /\ UNCHANGED book
  BY <1>1, <1>4 DEF RemoveCountLine
<1>7. Entered(Listing(c, new))
  BY <1>1, <1>3, <1>5, ListingEntered
<1>8. CountsHold'
  BY <1>6, <1>7, CountsUpdate DEF IInv
<1>9. QED
  BY <1>6, <1>8 DEF IInv

LEMMA CancelKeeps ==
    ASSUME IInv, NEW c \in Counts, CancelCount(c)
    PROVE  IInv'
<1>1. counts' = [counts EXCEPT ![c] = Closed("cancelled")] /\ UNCHANGED book
  BY DEF CancelCount
<1>2. Entered(Closed("cancelled"))
  BY EnteredNone
<1>3. CountsHold'
  BY <1>1, <1>2, CountsUpdate DEF IInv
<1>4. QED
  BY <1>1, <1>3 DEF IInv

(* A count that is confirmed. *)
Counted(q, r, n, p) == IF p = r THEN n ELSE q[p]

LEMMA OneKeeps ==
    ASSUME NEW b, Sound(b), NEW e, Entered(e), NEW s, s \in DOMAIN e.lines,
           e.kind = "opening" => s[1] \notin b.verified
    PROVE  /\ Sound(Posted(b, e, s))
           /\ e.kind = "cycle" => \A p \in Rows : Posted(b, e, s).qty[p] = Counted(b.qty, s[1], e.lines[s].counted, p)
<1>1. PICK r, x, m : r = s[1] /\ x = e.lines[s] /\ m = x.counted
  OBVIOUS
<1>2. s \in Rows \X BOOLEAN /\ x \in CountLine /\ (e.kind = "opening" => m > 0) /\ e.kind \in {"opening", "cycle"}
  BY <1>1 DEF Entered
<1>3. r \in Rows /\ m \in Nat
  BY <1>1, <1>2 DEF CountLine
<1>4. b.qty \in [Rows -> Nat]
  BY BookIs DEF Sound
<1>5. External \in Outside /\ Adjustment \in Outside /\ Adjustment \notin Rows
  BY Places
<1>6. CASE e.kind = "opening"
  <2>1. Posted(b, e, s) = Write(Change(b, r, m), "opening", m, External, r, Nobody, 0)
    BY <1>1, <1>6 DEF Posted, Opened
  <2>2. m \in Nat \ {0} /\ "opening" \in Plain \cup {"opening"} /\ r \notin b.verified
    BY <1>1, <1>2, <1>3, <1>6
  <2>3. Outcome(b, Entry("opening", m, External, r, Nobody, 0), Posted(b, e, s))
    BY <1>3, <1>5, <2>1, <2>2, Received
  <2>4. QED
    BY <1>6, <2>3 DEF Outcome
<1>7. CASE e.kind = "cycle"
  <2>1. PICK d, n : d = Difference(b, r, x) /\ n = (IF d > 0 THEN d ELSE -d)
    OBVIOUS
  <2>2. d = m - b.qty[r] /\ d \in Int /\ b.qty[r] \in Nat
    BY <1>1, <1>3, <1>4, <2>1 DEF Difference
  <2>3. Posted(b, e, s) = Adjusted(b, r, x)
    BY <1>1, <1>7 DEF Posted
  <2>4. CASE d = 0
    <3>1. Posted(b, e, s) = Change(b, r, 0)
      BY <2>1, <2>3, <2>4 DEF Adjusted
    <3>2. PICK w : w = Change(b, r, 0)
      OBVIOUS
    <3>3. Sound(w) /\ w.qty = b.qty
      BY <1>3, <3>2, Labelled
    <3>4. \A p \in Rows : w.qty[p] = Counted(b.qty, r, m, p)
      BY <1>3, <2>2, <2>4, <3>3 DEF Counted
    <3>5. QED
      BY <1>1, <3>1, <3>2, <3>3, <3>4
  <2>5. CASE d > 0
    <3>1. Posted(b, e, s) = Write(Change(b, r, n), "count_adjust", n, Adjustment, r, Nobody, 0) /\ n = d
      <4>1. n = d /\ d # 0
        BY <2>1, <2>2, <2>5
      <4>2. QED
        BY <2>1, <2>3, <2>5, <4>1, Zenon DEF Adjusted
    <3>2. n \in Nat \ {0} /\ "count_adjust" \in Plain \cup {"opening"}
      BY <2>2, <2>5, <3>1 DEF Plain
    <3>3. PICK w, y : w = Posted(b, e, s) /\ y = Entry("count_adjust", n, Adjustment, r, Nobody, 0)
      OBVIOUS
    <3>4. Outcome(b, y, w)
      BY <1>3, <1>5, <3>1, <3>2, <3>3, Received
    <3>5. y.from = Adjustment /\ y.to = r /\ y.qty = n
      BY <3>3, EntryIs
    <3>6. ASSUME NEW p \in Rows PROVE w.qty[p] = Counted(b.qty, r, m, p)
      <4>1. w.qty[p] = b.qty[p] + Effect(y, p) /\ b.qty[p] \in Nat /\ p # Adjustment
        BY <1>4, <1>5, <3>4, <3>6 DEF Outcome
      <4>2. CASE p = r
        <5>1. Effect(y, p) = n - 0
          BY <1>3, <1>5, <3>5, <4>2 DEF Effect
        <5>2. b.qty[p] + (n - 0) = m
          BY <1>3, <2>2, <3>1, <4>2
        <5>3. QED
          BY <4>1, <4>2, <5>1, <5>2 DEF Counted
      <4>3. CASE p # r
        BY <3>5, <4>1, <4>3 DEF Effect, Counted
      <4>4. QED
        BY <4>2, <4>3
    <3>7. QED
      BY <1>1, <3>3, <3>4, <3>6 DEF Outcome
  <2>6. CASE d < 0
    <3>1. Posted(b, e, s) = Write(Change(b, r, d), "count_adjust", n, r, Adjustment, Nobody, 0) /\ n = -d
      <4>1. n = -d /\ d # 0 /\ ~(d > 0)
        BY <2>1, <2>2, <2>6
      <4>2. QED
        BY <2>1, <2>3, <4>1, Zenon DEF Adjusted
    <3>2. n \in Nat \ {0} /\ n <= b.qty[r] /\ d = -n /\ "count_adjust" \in Plain
      BY <1>3, <2>2, <2>6, <3>1 DEF Plain
    <3>3. PICK w, y : w = Posted(b, e, s) /\ y = Entry("count_adjust", n, r, Adjustment, Nobody, 0)
      OBVIOUS
    <3>4. w = Write(Carried(b, r, n, Adjustment), "count_adjust", n, r, Adjustment, Nobody, 0)
      BY <1>5, <3>1, <3>2, <3>3 DEF Carried
    <3>5. Outcome(b, y, w)
      BY <1>3, <1>5, <3>2, <3>3, <3>4, TakenFrom
    <3>6. y.from = r /\ y.to = Adjustment /\ y.qty = n
      BY <3>3, EntryIs
    <3>7. ASSUME NEW p \in Rows PROVE w.qty[p] = Counted(b.qty, r, m, p)
      <4>1. w.qty[p] = b.qty[p] + Effect(y, p) /\ b.qty[p] \in Nat /\ p # Adjustment
        BY <1>4, <1>5, <3>5, <3>7 DEF Outcome
      <4>2. CASE p = r
        BY <1>3, <2>2, <3>2, <3>6, <4>1, <4>2 DEF Effect, Counted
      <4>3. CASE p # r
        BY <3>6, <4>1, <4>3 DEF Effect, Counted
      <4>4. QED
        BY <4>2, <4>3
    <3>8. QED
      BY <1>1, <3>3, <3>5, <3>7 DEF Outcome
  <2>7. QED
    BY <2>2, <2>4, <2>5, <2>6
<1>8. QED
  BY <1>2, <1>6, <1>7

Confirms(c, e) ==
    \E o \in SetToSeqs(DOMAIN e.lines) : \E f :
       /\ Len(o) \in Nat /\ DOMAIN o = 1..Len(o) =>
             f[0] = book /\ \A k \in 1..Len(o) : f[k] = Posted(f[k - 1], e, o[k])
       /\ e.kind = "opening" => \A k \in DOMAIN o : o[k][1] \notin f[k - 1].verified
       /\ book' = f[Len(o)]

LEMMA ConfirmSteps ==
    ASSUME NEW c, NEW e, e = counts[c], ConfirmCount(c)
    PROVE  Confirms(c, e) /\ counts' = [counts EXCEPT ![c] = Closed("confirmed")]
<1> DEFINE Body(f, o, k) == IF k = 0 THEN book ELSE Posted(f[k - 1], e, o[k])
           Is(f, o) == f = [k \in 0..Len(o) |-> Body(f, o, k)]
<1>1. PICK o \in SetToSeqs(DOMAIN counts[c].lines) :
         LET after[k \in 0..Len(o)] == IF k = 0 THEN book ELSE Posted(after[k - 1], counts[c], o[k])
         IN  /\ counts[c].kind = "opening" => \A k \in DOMAIN o : MayOpen(after[k - 1], o[k][1])
             /\ \A k \in DOMAIN o : after[k].qty[o[k][1]] >= 0
             /\ book' = after[Len(o)]
  BY Zenon DEF ConfirmCount
<1> DEFINE after == CHOOSE f : Is(f, o)
<1>2. /\ e.kind = "opening" => \A k \in DOMAIN o : o[k][1] \notin after[k - 1].verified
      /\ book' = after[Len(o)] /\ o \in SetToSeqs(DOMAIN e.lines)
  BY <1>1 DEF MayOpen
<1>3. counts' = [counts EXCEPT ![c] = Closed("confirmed")]
  BY DEF ConfirmCount
<1>4. SUFFICES ASSUME Len(o) \in Nat, DOMAIN o = 1..Len(o)
               PROVE  after[0] = book /\ \A k \in 1..Len(o) : after[k] = Posted(after[k - 1], e, o[k])
  <2> HIDE DEF after
  <2>1. QED
    BY <1>2, <1>3 DEF Confirms
<1>5. PICK N \in Nat : N = Len(o)
  BY <1>4
<1>6. \E f : Is(f, o)
  <2> DEFINE Right(f, k) == f = [i \in 0..N |-> f[i]] /\ \A i \in 0..N : i <= k => f[i] = Body(f, o, i)
             T == {k \in Nat : \E f : Right(f, k)}
  <2>1. 0 \in T
    <3> DEFINE f == [i \in 0..N |-> book]
    <3>1. f = [i \in 0..N |-> f[i]] /\ f[0] = book
      OBVIOUS
    <3> HIDE DEF f
    <3>2. \A i \in 0..N : i <= 0 => f[i] = Body(f, o, i)
      BY <3>1
    <3>3. QED
      BY <3>1, <3>2
  <2>2. ASSUME NEW k \in T PROVE k + 1 \in T
    <3>1. PICK f : Right(f, k)
      BY <2>2
    <3>2. k \in Nat /\ k + 1 \in Nat
      OBVIOUS
    <3> DEFINE g == [i \in 0..N |-> Body(f, o, i)]
    <3>3. ASSUME NEW i \in 0..N, i <= k + 1 PROVE g[i] = Body(g, o, i)
      <4>1. CASE i = 0
        BY <4>1
      <4>2. CASE i # 0
        <5>1. i - 1 \in 0..N /\ i - 1 <= k
          BY <3>2, <3>3, <4>2
        <5>2. g[i - 1] = f[i - 1]
          <6>1. f[i - 1] = Body(f, o, i - 1)
            <7> HIDE DEF Body
            <7>1. QED
              BY <3>1, <5>1
          <6>2. g[i - 1] = Body(f, o, i - 1)
            <7> HIDE DEF Body
            <7>1. QED
              BY <5>1
          <6>3. QED
            BY <6>1, <6>2
        <5>3. g[i] = Body(f, o, i)
          <6> HIDE DEF Body
          <6>1. QED
            BY <3>3
        <5>4. QED
          BY <4>2, <5>2, <5>3
      <4>3. QED
        BY <4>1, <4>2
    <3>4. g = [i \in 0..N |-> g[i]]
      OBVIOUS
    <3> HIDE DEF g
    <3>5. Right(g, k + 1)
      BY <3>3, <3>4
    <3> HIDE DEF Right
    <3>6. QED
      BY <3>2, <3>5
  <2>3. T = Nat
    <3>1. T \in SUBSET Nat
      OBVIOUS
    <3> HIDE DEF T
    <3>2. QED
      BY <2>1, <2>2, <3>1, NumberInduction
  <2>4. PICK f : Right(f, N)
    BY <1>5, <2>3
  <2>5. f = [i \in 0..N |-> f[i]] /\ \A i \in 0..N : f[i] = Body(f, o, i)
    <3> HIDE DEF Body
    <3>1. f = [i \in 0..N |-> f[i]] /\ \A i \in 0..N : i <= N => f[i] = Body(f, o, i)
      BY <2>4, Zenon
    <3>2. \A i \in 0..N : i <= N
      BY <1>5
    <3>3. QED
      BY <3>1, <3>2, Zenon
  <2>6. f = [i \in 0..N |-> Body(f, o, i)]
    <3> HIDE DEF Body
    <3>1. QED
      BY <2>5
  <2>7. QED
    BY <1>5, <2>6
<1>7. Is(after, o)
  <2> HIDE DEF Is
  <2>1. QED
    BY <1>6
<1>8. \A k \in 0..N : after[k] = Body(after, o, k)
  <2> HIDE DEF after, Body
  <2>1. QED
    BY <1>5, <1>7
<1> HIDE DEF after
<1>9. after[0] = book
  <2>1. 0 \in 0..N
    OBVIOUS
  <2>2. after[0] = Body(after, o, 0)
    <3> HIDE DEF Body
    <3>1. QED
      BY <1>8, <2>1
  <2>3. QED
    BY <2>2
<1>10. ASSUME NEW k \in 1..N PROVE after[k] = Posted(after[k - 1], e, o[k])
  <2>1. k \in 0..N /\ k # 0
    BY <1>5
  <2>2. after[k] = Body(after, o, k)
    <3> HIDE DEF Body
    <3>1. QED
      BY <1>8, <2>1
  <2>3. QED
    BY <2>1, <2>2
<1>11. QED
  BY <1>5, <1>9, <1>10

(* Every line is applied, and each finds the book sound.  A place that is not
   on the count keeps its pieces; a place that is holds what a line said. *)
ConfirmResult(e) ==
    e.kind = "cycle" =>
       \A p \in Rows :
          LET said == {s \in DOMAIN e.lines : s[1] = p}
          IN  IF said = {} THEN book'.qty[p] = book.qty[p]
              ELSE book'.qty[p] \in {e.lines[s].counted : s \in said}

LEMMA ConfirmBook ==
    ASSUME Sound(book), NEW c, NEW e, e = counts[c], Entered(e), ConfirmCount(c)
    PROVE  Sound(book') /\ ConfirmResult(e)
<1>1. PICK o \in SetToSeqs(DOMAIN e.lines) : \E f :
              /\ Len(o) \in Nat /\ DOMAIN o = 1..Len(o) =>
                    f[0] = book /\ \A k \in 1..Len(o) : f[k] = Posted(f[k - 1], e, o[k])
              /\ e.kind = "opening" => \A k \in DOMAIN o : o[k][1] \notin f[k - 1].verified
              /\ book' = f[Len(o)]
  <2>1. Confirms(c, e)
    BY ConfirmSteps
  <2>2. QED
    BY <2>1, Zenon DEF Confirms
<1>2. PICK S : S = DOMAIN e.lines
  OBVIOUS
<1>3. IsFiniteSet(S) /\ S \subseteq Rows \X BOOLEAN
  <2>1. S \in SUBSET (Rows \X BOOLEAN)
    BY <1>2 DEF Entered
  <2>2. IsFiniteSet({TRUE}) /\ {TRUE} \cup {FALSE} = BOOLEAN
    BY FS_Singleton
  <2>3. IsFiniteSet(BOOLEAN)
    BY <2>2, FS_AddElement
  <2>4. IsFiniteSet(Rows \X BOOLEAN)
    BY <2>3, RowsAreFinite, FS_Product
  <2>5. QED
    BY <2>1, <2>4, FS_Subset
<1>4. PICK N \in Nat : /\ N = Cardinality(S) /\ o \in [1..N -> S] /\ Len(o) = N /\ DOMAIN o = 1..N
                       /\ \A i, j \in 1..N : i # j => o[i] # o[j]
  BY <1>2, <1>3, Listed
<1>5. PICK f : /\ f[0] = book
               /\ \A k \in 1..N : f[k] = Posted(f[k - 1], e, o[k])
               /\ e.kind = "opening" => \A k \in 1..N : o[k][1] \notin f[k - 1].verified
               /\ book' = f[N]
  BY <1>1, <1>4
<1>6. \A s \in S : \E j \in 1..N : o[j] = s
  <2>1. o \in Injection(1..N, S)
    BY <1>4 DEF Injection, IsInjective
  <2>2. Cardinality(1..N) = N
    BY FS_Interval
  <2>3. o \in Surjection(1..N, S)
    BY <1>3, <1>4, <2>1, <2>2, FS_Injection
  <2>4. QED
    BY <2>3 DEF Surjection
<1>7. \A k \in 1..N : o[k] \in S /\ o[k] \in DOMAIN e.lines /\ o[k][1] \in Rows
  BY <1>2, <1>3, <1>4
<1> DEFINE Hit(k, p) == \E j \in 1..N : j <= k /\ o[j][1] = p /\ f[k].qty[p] = e.lines[o[j]].counted
           Left(k, p) == (\A j \in 1..N : j <= k => o[j][1] # p) /\ f[k].qty[p] = book.qty[p]
           Fine(k) == Sound(f[k]) /\ (e.kind = "cycle" => \A p \in Rows : Hit(k, p) \/ Left(k, p))
           G == {k \in Nat : k <= N => Fine(k)}
<1>8. 0 \in G
  <2>1. Fine(0)
    BY <1>5
  <2> HIDE DEF Fine
  <2>2. QED
    BY <2>1
<1>9. ASSUME NEW k \in G PROVE k + 1 \in G
  <2>1. SUFFICES ASSUME k + 1 <= N PROVE Fine(k + 1)
    <3> HIDE DEF Fine
    <3>1. QED
      OBVIOUS
  <2>2. PICK i : i = k + 1
    OBVIOUS
  <2>3. i \in 1..N /\ i - 1 = k /\ k \in Nat /\ k <= N
    BY <2>1, <2>2
  <2>4. Fine(k)
    <3> HIDE DEF Fine
    <3>1. QED
      BY <2>3
  <2>5. PICK b, s, w, m : b = f[k] /\ s = o[i] /\ w = f[i] /\ m = e.lines[s].counted
    OBVIOUS
  <2>6. w = Posted(b, e, s) /\ s \in DOMAIN e.lines /\ Sound(b) /\ (e.kind = "opening" => s[1] \notin b.verified)
    BY <1>5, <1>7, <2>3, <2>4, <2>5
  <2>7. /\ Sound(w)
        /\ e.kind = "cycle" => \A p \in Rows : w.qty[p] = Counted(b.qty, s[1], m, p)
    <3>1. /\ Sound(Posted(b, e, s))
          /\ e.kind = "cycle" => \A p \in Rows : Posted(b, e, s).qty[p] = Counted(b.qty, s[1], e.lines[s].counted, p)
      BY <2>6, OneKeeps
    <3>2. QED
      BY <2>5, <2>6, <3>1
  <2>8. ASSUME e.kind = "cycle", NEW p \in Rows PROVE Hit(i, p) \/ Left(i, p)
    <3>1. w.qty[p] = Counted(b.qty, s[1], m, p)
      BY <2>7, <2>8
    <3>2. CASE p = s[1]
      <4>1. i <= i /\ o[i][1] = p /\ f[i].qty[p] = e.lines[o[i]].counted
        BY <2>3, <2>5, <3>1, <3>2 DEF Counted
      <4>2. QED
        BY <2>3, <4>1
    <3>3. CASE p # s[1]
      <4>1. f[i].qty[p] = f[k].qty[p]
        BY <2>5, <3>1, <3>3 DEF Counted
      <4>2. Hit(k, p) \/ Left(k, p)
        BY <2>4, <2>8
      <4>3. CASE Hit(k, p)
        <5>1. PICK j \in 1..N : j <= k /\ o[j][1] = p /\ f[k].qty[p] = e.lines[o[j]].counted
          BY <4>3
        <5>2. j <= i /\ f[i].qty[p] = e.lines[o[j]].counted
          BY <2>2, <2>3, <4>1, <5>1
        <5>3. QED
          BY <5>1, <5>2
      <4>4. CASE Left(k, p)
        <5>1. \A j \in 1..N : j <= i => o[j][1] # p
          BY <2>2, <2>3, <2>5, <3>3, <4>4
        <5>2. QED
          BY <4>1, <4>4, <5>1
      <4>5. QED
        BY <4>2, <4>3, <4>4
    <3>4. QED
      BY <3>2, <3>3
  <2>9. Fine(i)
    BY <2>5, <2>7, <2>8
  <2> HIDE DEF Fine
  <2>10. QED
    BY <2>2, <2>9
<1>10. N \in G
  <2>1. G \in SUBSET Nat
    OBVIOUS
  <2> HIDE DEF G
  <2>2. QED
    BY <1>8, <1>9, <2>1, NumberInduction
<1>11. Fine(N)
  <2> HIDE DEF Fine
  <2>1. QED
    BY <1>10
<1>12. ASSUME e.kind = "cycle", NEW p \in Rows, NEW said, said = {s \in DOMAIN e.lines : s[1] = p}
       PROVE  IF said = {} THEN book'.qty[p] = book.qty[p]
              ELSE book'.qty[p] \in {e.lines[s].counted : s \in said}
  <2>1. Hit(N, p) \/ Left(N, p)
    BY <1>11, <1>12
  <2>2. CASE Hit(N, p)
    <3>1. PICK j \in 1..N : o[j][1] = p /\ f[N].qty[p] = e.lines[o[j]].counted
      BY <2>2
    <3>2. o[j] \in said
      BY <1>7, <1>12, <3>1
    <3>3. QED
      BY <1>5, <3>1, <3>2
  <2>3. CASE Left(N, p)
    <3>1. said = {}
      <4>1. ASSUME NEW s \in said PROVE FALSE
        <5>1. PICK j \in 1..N : o[j] = s
          BY <1>2, <1>6, <1>12
        <5>2. j <= N
          OBVIOUS
        <5>3. QED
          BY <1>12, <2>3, <5>1, <5>2
      <4>2. QED
        BY <4>1
    <3>2. QED
      BY <1>5, <2>3, <3>1
  <2>4. QED
    BY <2>1, <2>2, <2>3
<1>13. QED
  BY <1>5, <1>11, <1>12 DEF ConfirmResult

LEMMA ConfirmKeeps ==
    ASSUME IInv, NEW c \in Counts, ConfirmCount(c)
    PROVE  IInv'
<1>1. PICK e : e = counts[c]
  OBVIOUS
<1>2. Sound(book) /\ CountsHold /\ Entered(e)
  BY <1>1 DEF IInv, CountsHold
<1>3. Sound(book')
  BY <1>1, <1>2, ConfirmBook
<1>4. counts' = [counts EXCEPT ![c] = Closed("confirmed")]
  BY DEF ConfirmCount
<1>5. Entered(Closed("confirmed"))
  BY EnteredNone
<1>6. CountsHold'
  BY <1>2, <1>4, <1>5, CountsUpdate
<1>7. QED
  BY <1>3, <1>6 DEF IInv
------------------------------------------------------------------------------
(* The calls. *)

LEMMA OutwardIs ==
    ASSUME NEW place \in {Consumed, Adjustment}
    PROVE  Outward(place) \in [Rows -> Rows \cup Outside] /\ \A rows \in SUBSET Rows : \A r \in rows : Outward(place)[r] \notin rows
<1>1. place \in Outside /\ place \notin Rows
  BY Places
<1>2. QED
  BY <1>1 DEF Outward

LEMMA OutwardKeeps ==
    ASSUME Sound(book), NEW kind \in Plain, NEW rows \in SUBSET Rows, NEW n \in Nat,
           NEW place \in {Consumed, Adjustment}, NEW who \in People \cup {Nobody},
           Take(kind, rows, n, Outward(place), who)
    PROVE  Sound(book') /\ UNCHANGED counts
<1>1. PICK to : to = Outward(place)
  OBVIOUS
<1>2. to \in [Rows -> Rows \cup Outside] /\ \A r \in rows : to[r] \notin rows
  BY <1>1, OutwardIs
<1>3. Take(kind, rows, n, to, who)
  BY <1>1
<1>4. QED
  BY <1>2, <1>3, TakeKeeps

LEMMA BinRows ==
    ASSUME NEW bins \in Where, NEW conds \in SUBSET Conditions
    PROVE  bins \X conds \in SUBSET Rows
  BY DEF Where, Rows

LEMMA CheckKeeps ==
    ASSUME Sound(book), NEW bins \in Where, NEW c \in Conditions, NEW d \in Conditions, NEW n \in Nat,
           CheckCondition(bins, c, d, n)
    PROVE  Sound(book') /\ UNCHANGED counts
<1>1. PICK to, rows : to = [r \in Rows |-> <<r[1], d>>] /\ rows = bins \X {c}
  OBVIOUS
<1>2. c # d /\ Take("condition_check", rows, n, to, Nobody)
  BY <1>1 DEF CheckCondition
<1>3. rows \in SUBSET Rows
  BY <1>1, BinRows
<1>4. to \in [Rows -> Rows \cup Outside]
  <2>1. ASSUME NEW r \in Rows PROVE <<r[1], d>> \in Rows
    BY DEF Rows
  <2>2. QED
    BY <1>1, <2>1
<1>5. \A r \in rows : to[r] \notin rows
  BY <1>1, <1>2, <1>3
<1>6. "condition_check" \in Plain
  BY DEF Plain
<1>7. QED
  BY <1>2, <1>3, <1>4, <1>5, <1>6, TakeKeeps

LEMMA MoveKeeps ==
    ASSUME IInv, Move
    PROVE  Sound(book') /\ UNCHANGED counts
<1>1. Sound(book) /\ Typed(book)
  BY DEF IInv, Sound
<1>2. MaxPieces \in Nat /\ MaxTaken \in Nat
  BY LedgerAssumption
<1>3. {"receipt", "adjust_found", "return_unused", "consume", "adjust_missing", "adjust_retire"} \subseteq Plain
  BY DEF Plain
<1>4. Nobody \in People \cup {Nobody} /\ External \in Outside /\ Adjustment \in Outside /\ Holder \in Outside
  BY Places
<1>5. CASE \E r \in Rows, n \in Pieces :
              Receive(r, n) \/ Found(r, n) \/ \E w \in People : ReturnUnused(r, n, w)
  <2>1. PICK r \in Rows, n \in Pieces : Receive(r, n) \/ Found(r, n) \/ \E w \in People : ReturnUnused(r, n, w)
    BY <1>5
  <2>2. n \in Nat \ {0}
    BY <1>2 DEF Pieces
  <2>3. CASE Receive(r, n)
    BY <1>1, <1>3, <1>4, <2>2, <2>3, ReceiptKeeps DEF Receive
  <2>4. CASE Found(r, n)
    BY <1>1, <1>3, <1>4, <2>2, <2>4, ReceiptKeeps DEF Found
  <2>5. CASE \E w \in People : ReturnUnused(r, n, w)
    <3>1. PICK w \in People : ReturnUnused(r, n, w)
      BY <2>5
    <3>2. Receipt("return_unused", r, n, Holder, w) /\ w \in People \cup {Nobody}
      BY <3>1 DEF ReturnUnused
    <3>3. QED
      BY <1>1, <1>3, <1>4, <2>2, <3>2, ReceiptKeeps
  <2>6. QED
    BY <2>1, <2>3, <2>4, <2>5
<1>6. CASE \E bins \in Where, n \in 1..MaxTaken :
              \/ \E w \in People \cup {Nobody} : Consume(bins, n, w)
              \/ \E conds \in {Conditions, {"good"}, {"needs_inspection"}} : Missing(bins, conds, n) \/ Retire(bins, conds, n)
              \/ \E c, d \in Conditions : CheckCondition(bins, c, d, n)
  <2>1. PICK bins \in Where, n \in 1..MaxTaken :
              \/ \E w \in People \cup {Nobody} : Consume(bins, n, w)
              \/ \E conds \in {Conditions, {"good"}, {"needs_inspection"}} : Missing(bins, conds, n) \/ Retire(bins, conds, n)
              \/ \E c, d \in Conditions : CheckCondition(bins, c, d, n)
    BY <1>6
  <2>2. n \in Nat
    BY <1>2
  <2>3. ASSUME NEW w \in People \cup {Nobody}, Consume(bins, n, w) PROVE Sound(book') /\ UNCHANGED counts
    <3>1. Take("consume", bins \X {"good"}, n, Outward(Consumed), w)
      BY <2>3 DEF Consume
    <3>2. bins \X {"good"} \in SUBSET Rows
      BY BinRows DEF Conditions
    <3>3. QED
      BY <1>1, <1>3, <2>2, <3>1, <3>2, OutwardKeeps
  <2>4. ASSUME NEW conds \in {Conditions, {"good"}, {"needs_inspection"}}, Missing(bins, conds, n) \/ Retire(bins, conds, n)
        PROVE  Sound(book') /\ UNCHANGED counts
    <3>1. bins \X conds \in SUBSET Rows
      BY BinRows DEF Conditions
    <3>2. CASE Take("adjust_missing", bins \X conds, n, Outward(Adjustment), Nobody)
      BY <1>1, <1>3, <1>4, <2>2, <3>1, <3>2, OutwardKeeps
    <3>3. CASE Take("adjust_retire", bins \X conds, n, Outward(Adjustment), Nobody)
      BY <1>1, <1>3, <1>4, <2>2, <3>1, <3>3, OutwardKeeps
    <3>4. QED
      BY <2>4, <3>2, <3>3 DEF Missing, Retire
  <2>5. ASSUME NEW c \in Conditions, NEW d \in Conditions, CheckCondition(bins, c, d, n)
        PROVE  Sound(book') /\ UNCHANGED counts
    BY <1>1, <2>2, <2>5, CheckKeeps
  <2>6. QED
    BY <2>1, <2>3, <2>4, <2>5
<1>7. CASE \E i \in Lines, v \in {0} \cup Pieces : Correct(i, v)
  <2>1. PICK i \in Lines, v \in {0} \cup Pieces : Correct(i, v)
    BY <1>7
  <2>2. i \in DOMAIN book.ledger /\ v \in Nat
    BY <1>2, <2>1 DEF Lines, Pieces
  <2>3. QED
    BY <1>1, <2>1, <2>2, CorrectKeeps
<1>8. CASE \E p \in Bins : EnsureBinLabel(p)
  <2>1. PICK p \in Bins : EnsureBinLabel(p)
    BY <1>8
  <2>2. book' = Change(book, <<p, "good">>, 0) /\ UNCHANGED counts
    BY <2>1 DEF EnsureBinLabel
  <2>3. <<p, "good">> \in Rows
    BY DEF Rows, Conditions
  <2>4. QED
    BY <1>1, <2>2, <2>3, Labelled
<1>9. QED
  BY <1>5, <1>6, <1>7, <1>8 DEF Move

LEMMA CountKeeps ==
    ASSUME IInv, Count
    PROVE  IInv'
<1>1. MaxPieces \in Nat
  BY LedgerAssumption
<1>2. PICK c \in Counts :
         \/ \E kind \in {"opening", "cycle"} : StartCount(c, kind)
         \/ \E r \in Rows, n \in {0} \cup Pieces : SaveCountLine(c, r, n)
         \/ \E s \in DOMAIN counts[c].lines : RemoveCountLine(c, s)
         \/ ConfirmCount(c) \/ CancelCount(c)
  BY DEF Count
<1>3. ASSUME NEW kind \in {"opening", "cycle"}, StartCount(c, kind) PROVE IInv'
  BY <1>3, StartKeeps
<1>4. ASSUME NEW r \in Rows, NEW n \in {0} \cup Pieces, SaveCountLine(c, r, n) PROVE IInv'
  <2>1. n \in Nat
    BY <1>1 DEF Pieces
  <2>2. QED
    BY <1>4, <2>1, SaveKeeps
<1>5. ASSUME NEW s \in DOMAIN counts[c].lines, RemoveCountLine(c, s) PROVE IInv'
  BY <1>5, RemoveKeeps
<1>6. QED
  BY <1>2, <1>3, <1>4, <1>5, ConfirmKeeps, CancelKeeps

LEMMA Start == Init => IInv
<1>1. SUFFICES ASSUME Init PROVE IInv
  OBVIOUS
<1>2. PICK led : led = <<>>
  OBVIOUS
<1>3. led \in Seq(MovementLine) /\ DOMAIN led = {}
  BY <1>2
<1>4. book = [qty |-> [r \in Rows |-> 0], known |-> {}, verified |-> {}, ledger |-> led]
  BY <1>1, <1>2 DEF Init
<1>5. /\ book.qty = [r \in Rows |-> 0] /\ book.known = {} /\ book.verified = {} /\ book.ledger = led
  BY <1>4
<1>6. Typed(book)
  <2>1. [r \in Rows |-> 0] \in [Rows -> Nat]
    OBVIOUS
  <2>2. QED
    BY <1>3, <1>4, <2>1 DEF Typed, Book
<1>7. Even(book)
  <2>1. \A r : Into(led, r) = {} /\ OutOf(led, r) = {}
    BY <1>3 DEF Into, OutOf
  <2>2. Sum(led, {}) = 0
    BY SumNone DEF Sum
  <2>3. QED
    BY <1>5, <2>1, <2>2 DEF Even
<1>8. Seen(book) /\ Shaped(led) /\ Kept(led) /\ Openings(led)
  BY <1>3, <1>5 DEF Seen, Shaped, Kept, Openings
<1>9. CountsHold
  <2>1. DOMAIN counts = Counts /\ \A c \in Counts : counts[c] = Closed("none")
    BY <1>1 DEF Init
  <2>2. Entered(Closed("none"))
    BY EnteredNone
  <2>3. QED
    BY <2>1, <2>2 DEF CountsHold
<1>10. QED
  BY <1>5, <1>6, <1>7, <1>8, <1>9 DEF IInv, Sound

LEMMA Step == IInv /\ [Next]_vars => IInv'
<1>1. SUFFICES ASSUME IInv, [Next]_vars PROVE IInv'
  OBVIOUS
<1>2. CASE Move
  <2>1. Sound(book') /\ UNCHANGED counts
    BY <1>1, <1>2, MoveKeeps
  <2>2. CountsHold'
    BY <1>1, <2>1, CountsFrame DEF IInv
  <2>3. QED
    BY <2>1, <2>2 DEF IInv
<1>3. CASE Count
  BY <1>1, <1>3, CountKeeps
<1>4. CASE UNCHANGED vars
  BY <1>1, <1>4 DEF vars, IInv, Sound, Typed, Even, Seen, CountsHold
<1>5. QED
  BY <1>1, <1>2, <1>3, <1>4 DEF Next

LEMMA IsIInv == Spec => []IInv
  BY Start, Step, PTL DEF Spec
------------------------------------------------------------------------------
(* What follows. *)

LEMMA TypeIs == IInv => TypeOK
  BY DEF IInv, Sound, Typed, CountsHold, Entered, TypeOK

LEMMA BooksAre == IInv => BooksAgree
<1>1. SUFFICES ASSUME IInv, NEW r \in Rows PROVE book.qty[r] = Brought(Lines, r)
  BY DEF BooksAgree
<1>2. PICK led, I, O : led = book.ledger /\ I = Into(led, r) /\ O = OutOf(led, r)
  OBVIOUS
<1>3. led \in Seq(MovementLine) /\ book.qty[r] = Sum(led, I) - Sum(led, O)
  BY <1>1, <1>2, BookIs DEF IInv, Sound, Even
<1>4. I \in SUBSET DOMAIN led /\ O \in SUBSET DOMAIN led
  BY <1>2, <1>3, SetsAre
<1>5. I = {i \in Lines : Ln(i).to = r} /\ O = {i \in Lines : Ln(i).from = r}
  BY <1>2 DEF Into, OutOf, Lines, Ln
<1>6. Moved(I) = Sum(led, I) /\ Moved(O) = Sum(led, O)
  <2>1. Moved(I) = Sum(led, I)
    BY <1>2, <1>3, <1>4, MovedIs
  <2>2. Moved(O) = Sum(led, O)
    BY <1>2, <1>3, <1>4, MovedIs
  <2>3. QED
    BY <2>1, <2>2
<1>7. QED
  BY <1>3, <1>5, <1>6 DEF Brought

LEMMA OpeningsAre == IInv => OpeningIsFirst
  BY DEF IInv, Sound, Openings, OpeningIsFirst, Lines, Ln

(* What the corrections of a line brought to its row: those that say there was
   more of it on one side, the others on the other. *)
LEMMA RowOfLine ==
    ASSUME IInv, NEW i \in Lines, Ln(i).kind # "correction", NEW r \in Rows,
           \/ Came(i) /\ r = Ln(i).to
           \/ Used(i) /\ r = Ln(i).from
    PROVE  /\ Came(i) => OnItsRow(i, r) = Stands(book.ledger, i)
           /\ Used(i) => OnItsRow(i, r) = -Stands(book.ledger, i)
           /\ Stands(book.ledger, i) \in Int /\ Stands(book.ledger, i) >= 0
<1>1. PICK led : led = book.ledger
  OBVIOUS
<1>2. Sound(book) /\ led \in Seq(MovementLine) /\ i \in DOMAIN led /\ Shaped(led) /\ Kept(led)
  BY <1>1, BookIs DEF IInv, Sound, Lines
<1>3. /\ led[i].kind # "correction" /\ (Came(i) \/ Used(i)) /\ ~(Came(i) /\ Used(i))
      /\ (Came(i) <=> CameAt(led, i)) /\ (Used(i) <=> UsedAt(led, i))
  BY <1>1 DEF Came, Used, CameAt, UsedAt, Ln
<1>4. Stands(led, i) >= 0 /\ Stands(led, i) \in Int
  <2>1. Original(led, i)
    BY <1>3 DEF Original
  <2>2. Stands(led, i) \in Int
    BY <1>1, <1>2, EffectiveIs
  <2>3. QED
    BY <1>2, <2>1, <2>2 DEF Kept
<1>5. PICK M, L : M = More(led, i) /\ L = Own(led, i) \ More(led, i)
  OBVIOUS
<1>6. M \in SUBSET DOMAIN led /\ L \in SUBSET DOMAIN led
  BY <1>2, <1>5, SetsAre
<1>7. led[i].of = 0 /\ i # 0
  BY <1>2, <1>3, LineIs DEF Shaped
<1>8. i \notin M /\ i \notin L
  BY <1>5, <1>7 DEF Own, More
<1>9. Adjustment \notin Rows /\ Consumed \notin Rows /\ Adjustment # Consumed
  BY Places
<1>10. \A j \in Own(led, i) : Corrects(led, led[j]) /\ led[j].of = i
  BY <1>2, <1>7 DEF Own, Shaped
<1>11. PICK MI : MI = M \cup {i}
  OBVIOUS
<1>12. MI \in SUBSET DOMAIN led
  BY <1>2, <1>6, <1>11
<1>13. Sum(led, MI) = Sum(led, M) + led[i].qty
  BY <1>2, <1>6, <1>8, <1>11, SumWith
<1>14. Sum(led, M) \in Int /\ Sum(led, L) \in Int /\ led[i].qty \in Int
  <2>1. Sum(led, M) \in Int /\ Sum(led, L) \in Int
    BY <1>2, <1>6, SumsAreInt
  <2>2. QED
    BY <1>2, <2>1, LineIs
<1>15. Moved(MI) = Sum(led, MI) /\ Moved(L) = Sum(led, L)
  <2>1. Moved(MI) = Sum(led, MI)
    BY <1>1, <1>2, <1>12, MovedIs
  <2>2. Moved(L) = Sum(led, L)
    BY <1>1, <1>2, <1>6, MovedIs
  <2>3. QED
    BY <2>1, <2>2
<1>16. Stands(led, i) = led[i].qty + Sum(led, M) - Sum(led, L)
  BY <1>5 DEF Stands
<1>17. PICK J, T, F : /\ J = {i} \cup {j \in Lines : Ln(j).of = i}
                      /\ T = {j \in J : Ln(j).to = r} /\ F = {j \in J : Ln(j).from = r}
  OBVIOUS
<1>18. OnItsRow(i, r) = Moved(T) - Moved(F)
  BY <1>17 DEF OnItsRow, Brought
<1>19. J = {i} \cup Own(led, i) /\ \A j \in J : Ln(j) = led[j]
  BY <1>1, <1>17 DEF Own, Lines, Ln
<1>20. CASE Came(i)
  <2>1. r = led[i].to /\ led[i].from \notin Rows /\ ~UsedAt(led, i)
    BY <1>1, <1>3, <1>20 DEF Came, CameAt, Ln
  <2>2. \A j \in Own(led, i) :
           IF led[j].from = Adjustment THEN led[j].to = r /\ led[j].from # r
           ELSE led[j].from = r /\ led[j].to # r
    BY <1>9, <1>10, <2>1 DEF Corrects
  <2>3. M = {j \in Own(led, i) : led[j].from = Adjustment}
    BY <1>5, <2>1 DEF More, Raises
  <2>4. T = MI
    BY <1>5, <1>11, <1>17, <1>19, <2>1, <2>2, <2>3
  <2>5. F = L
    BY <1>5, <1>17, <1>19, <2>1, <2>2, <2>3
  <2>6. QED
    BY <1>1, <1>3, <1>4, <1>13, <1>14, <1>15, <1>16, <1>18, <1>20, <2>4, <2>5
<1>21. CASE Used(i)
  <2>1. r = led[i].from /\ led[i].to = Consumed /\ UsedAt(led, i)
    BY <1>1, <1>3, <1>21 DEF Used, UsedAt, Ln
  <2>2. \A j \in Own(led, i) :
           IF led[j].to = Consumed THEN led[j].from = r /\ led[j].to # r
           ELSE led[j].to = r /\ led[j].from # r
    BY <1>9, <1>10, <2>1 DEF Corrects
  <2>3. M = {j \in Own(led, i) : led[j].to = Consumed}
    BY <1>5, <2>1 DEF More, Raises
  <2>4. F = MI
    BY <1>5, <1>9, <1>11, <1>17, <1>19, <2>1, <2>2, <2>3
  <2>5. T = L
    BY <1>5, <1>9, <1>17, <1>19, <2>1, <2>2, <2>3
  <2>6. QED
    BY <1>1, <1>3, <1>4, <1>13, <1>14, <1>15, <1>16, <1>18, <1>21, <2>4, <2>5
<1>22. QED
  BY <1>3, <1>20, <1>21

LEMMA NoneReversed == IInv => NeverReversed
<1>1. SUFFICES ASSUME IInv, NEW i \in Lines, Ln(i).kind # "correction"
               PROVE  /\ Came(i) => OnItsRow(i, Ln(i).to) >= 0
                      /\ Used(i) => OnItsRow(i, Ln(i).from) <= 0
  BY DEF NeverReversed
<1>2. ASSUME Came(i) PROVE OnItsRow(i, Ln(i).to) >= 0
  <2>1. PICK r : r = Ln(i).to
    OBVIOUS
  <2>2. r \in Rows
    BY <1>2, <2>1 DEF Came
  <2>3. OnItsRow(i, r) = Stands(book.ledger, i) /\ Stands(book.ledger, i) >= 0
    BY <1>1, <1>2, <2>1, <2>2, RowOfLine
  <2>4. QED
    BY <2>1, <2>3
<1>3. ASSUME Used(i) PROVE OnItsRow(i, Ln(i).from) <= 0
  <2>1. PICK r : r = Ln(i).from
    OBVIOUS
  <2>2. r \in Rows
    BY <1>3, <2>1 DEF Used
  <2>3. OnItsRow(i, r) = -Stands(book.ledger, i) /\ Stands(book.ledger, i) >= 0 /\ Stands(book.ledger, i) \in Int
    BY <1>1, <1>3, <2>1, <2>2, RowOfLine
  <2>4. QED
    BY <2>1, <2>3
<1>4. QED
  BY <1>2, <1>3

(* Only the confirmation of a count confirms it. *)
LEMMA ConfirmedBy ==
    ASSUME IInv, [Next]_vars, NEW c \in Counts, Confirmed(c)
    PROVE  ConfirmCount(c)
<1>1. counts[c].status = "open" /\ counts'[c].status = "confirmed"
  BY DEF Confirmed, Open
<1>2. counts' # counts
  BY <1>1
<1>3. Count
  BY <1>2, MoveKeeps DEF Next, vars
<1>4. PICK d \in Counts :
         \/ \E kind \in {"opening", "cycle"} : StartCount(d, kind)
         \/ \E r \in Rows, n \in {0} \cup Pieces : SaveCountLine(d, r, n)
         \/ \E s \in DOMAIN counts[d].lines : RemoveCountLine(d, s)
         \/ ConfirmCount(d) \/ CancelCount(d)
  BY <1>3 DEF Count
<1>5. DOMAIN counts = Counts
  BY DEF IInv, CountsHold
<1>6. \E e : counts' = [counts EXCEPT ![d] = e]
  BY <1>4 DEF StartCount, SaveCountLine, RemoveCountLine, ConfirmCount, CancelCount
<1>7. d = c
  BY <1>1, <1>5, <1>6
<1>8. ASSUME NEW kind, StartCount(c, kind) PROVE FALSE
  BY <1>1, <1>8 DEF StartCount
<1>9. ASSUME NEW lines, counts' = [counts EXCEPT ![c] = Listing(c, lines)] PROVE FALSE
  BY <1>1, <1>5, <1>9 DEF Listing
<1>10. ASSUME NEW r, NEW n, SaveCountLine(c, r, n) PROVE FALSE
  <2>1. \E lines : counts' = [counts EXCEPT ![c] = Listing(c, lines)]
    BY <1>10, Zenon DEF SaveCountLine
  <2>2. QED
    BY <1>9, <2>1
<1>11. ASSUME NEW s, RemoveCountLine(c, s) PROVE FALSE
  <2>1. \E lines : counts' = [counts EXCEPT ![c] = Listing(c, lines)]
    BY <1>11, Zenon DEF RemoveCountLine
  <2>2. QED
    BY <1>9, <2>1
<1>12. ASSUME CancelCount(c) PROVE FALSE
  BY <1>1, <1>5, <1>12 DEF CancelCount, Closed
<1>13. QED
  BY <1>4, <1>7, <1>8, <1>10, <1>11, <1>12

LEMMA CountsStep ==
    ASSUME IInv, [Next]_vars, NEW c \in Counts, Confirmed(c), NEW r \in Rows
    PROVE  LET said == {s \in DOMAIN counts[c].lines : s[1] = r}
           IN  IF said = {} THEN book'.qty[r] = book.qty[r]
               ELSE book'.qty[r] \in {counts[c].lines[s].counted : s \in said}
<1>1. PICK e : e = counts[c]
  OBVIOUS
<1>2. ConfirmCount(c)
  BY ConfirmedBy
<1>3. Sound(book) /\ Entered(e)
  BY <1>1 DEF IInv, CountsHold
<1>4. ConfirmResult(e)
  BY <1>1, <1>2, <1>3, ConfirmBook
<1>5. e.kind = "cycle"
  BY <1>1 DEF Confirmed
<1>6. QED
  BY <1>1, <1>4, <1>5 DEF ConfirmResult

(* Every shelf row holds, never less than nothing, what the ledger says it
   holds: after receipts, returns, consumption from several rows at once,
   condition checks, write-offs, corrections of lines already corrected, and
   counts confirmed after other movements (inv_bal_change with inv_ml, and what
   inv_ledger_problems would report). *)
THEOREM StockIsSound == Spec => []StockSound
<1>1. IInv => StockSound
  BY TypeIs, BooksAre DEF StockSound
<1>2. QED
  BY <1>1, IsIInv, PTL

(* A line of opening stock is the first that brought anything to its place,
   however long the count lay open (inv_confirm_count). *)
THEOREM OpeningsFirst == Spec => []OpeningIsFirst
  BY OpeningsAre, IsIInv, PTL

(* The corrections of a line never add up to more than the line: what came to
   the shelf is not turned into a withdrawal, nor what was used into a receipt
   (inv_correct_movement, inv_effective_line_qty). *)
THEOREM NothingReversed == Spec => []NeverReversed
  BY NoneReversed, IsIInv, PTL

(* A cycle count that is confirmed leaves on each of its places a number
   somebody counted there, and no other place changes (inv_confirm_count). *)
THEOREM CountsDecide == Spec => CountDecides
<1>1. ASSUME IInv, [Next]_vars
      PROVE  \A c \in Counts : Confirmed(c) =>
                \A r \in Rows :
                   LET said == {s \in DOMAIN counts[c].lines : s[1] = r}
                   IN  IF said = {} THEN book'.qty[r] = book.qty[r]
                       ELSE book'.qty[r] \in {counts[c].lines[s].counted : s \in said}
  BY <1>1, CountsStep
<1>2. QED
  BY <1>1, IsIInv, PTL DEF Spec, CountDecides

------------------------------------------------------------------------------
(* Reservations (InvPlanning): sums. *)

LEMMA SumOfIs ==
    ASSUME NEW S, IsFiniteSet(S), NEW F
    PROVE  SumOf(F, S) = SumOver(F, S)
BY DEF SumOf, MapThenSumSet, MapThenFoldSet, SumOver, AddsUp, First

------------------------------------------------------------------------------
(* One reservation. *)

SoundRow(x) == x.back <= x.out /\ x.out <= x.qty /\ x.lo < x.hi /\ (x.done \/ x.qty > 0)
Row(x) == x \in Reservation /\ SoundRow(x)
Table(rs) == rs \in Seq(Reservation) /\ \A i \in DOMAIN rs : SoundRow(rs[i])

LEMMA TableIs ==
    ASSUME NEW rs, Table(rs)
    PROVE  /\ Len(rs) \in Nat /\ DOMAIN rs = 1..Len(rs)
           /\ \A i \in DOMAIN rs : Row(rs[i]) /\ i \in Nat
BY DEF Table, Row

(* Rows in their order make a table. *)
LEMMA MakesTable ==
    ASSUME NEW n \in Nat, NEW rs, rs = [i \in 1..n |-> rs[i]], \A i \in 1..n : Row(rs[i])
    PROVE  Table(rs) /\ Len(rs) = n /\ DOMAIN rs = 1..n
<1>1. rs \in [1..n -> Reservation]
  BY DEF Row
<1>2. rs \in Seq(Reservation) /\ Len(rs) = n /\ DOMAIN rs = 1..n
  BY <1>1
<1>3. QED
  BY <1>2 DEF Table, Row

LEMMA FieldsAre ==
    ASSUME NEW x, Row(x)
    PROVE  /\ x.line \in LineSet /\ x.depot \in Depots /\ x.qty \in Nat /\ x.out \in Nat /\ x.back \in Nat
           /\ x.lo \in 0..MaxTime /\ x.hi \in Dates /\ x.done \in BOOLEAN
           /\ x.back <= x.out /\ x.out <= x.qty /\ x.lo < x.hi
           /\ Unused(x) \in Nat /\ x.out - x.back \in Nat /\ RequestOf(x) \in Requests
           /\ x = [line |-> x.line, depot |-> x.depot, qty |-> x.qty, out |-> x.out, back |-> x.back,
                   lo |-> x.lo, hi |-> x.hi, done |-> x.done]
<1>1. x \in Reservation /\ SoundRow(x)
  BY DEF Row
<1>2. /\ x.line \in LineSet /\ x.depot \in Depots /\ x.qty \in Nat /\ x.out \in Nat /\ x.back \in Nat
      /\ x.lo \in 0..MaxTime /\ x.hi \in Dates /\ x.done \in BOOLEAN
  BY <1>1 DEF Reservation
<1>3. x.back <= x.out /\ x.out <= x.qty /\ x.lo < x.hi
  BY <1>1 DEF SoundRow
<1>4. Unused(x) \in Nat /\ x.out - x.back \in Nat
  BY <1>2, <1>3 DEF Unused
<1>5. RequestOf(x) \in Requests
  BY <1>2, PlanningData DEF RequestOf
<1>6. x = [line |-> x.line, depot |-> x.depot, qty |-> x.qty, out |-> x.out, back |-> x.back,
                   lo |-> x.lo, hi |-> x.hi, done |-> x.done]
  BY <1>1 DEF Reservation
<1>7. QED
  BY <1>2, <1>3, <1>4, <1>5, <1>6

(* One reservation as the code leaves it. *)
LEMMA CutToIs ==
    ASSUME NEW x, Row(x)
    PROVE  LET y == CutTo(x, x.out)
           IN  /\ Row(y) /\ y.line = x.line /\ y.depot = x.depot /\ y.qty = x.out /\ y.out = x.out /\ y.back = x.back
               /\ y.done = (x.out = 0)
<1>1. PICK l, d, q, o, b, lo, hi, e : x = [line |-> l, depot |-> d, qty |-> q, out |-> o, back |-> b,
                   lo |-> lo, hi |-> hi, done |-> e]
  BY FieldsAre
<1>2. /\ l \in LineSet /\ d \in Depots /\ o \in Nat /\ b \in Nat
      /\ lo \in 0..MaxTime /\ hi \in Dates /\ b <= o /\ lo < hi
  BY <1>1, FieldsAre
<1>3. PICK y, f : y = CutTo(x, x.out) /\ f = (o = 0)
  OBVIOUS
<1>4. f \in BOOLEAN /\ (f \/ o > 0)
  <2>1. CASE o = 0
    <3>1. f = TRUE
      BY <1>3, <2>1, Zenon
    <3>2. QED
      BY <3>1
  <2>2. CASE o # 0
    <3>1. f = FALSE
      BY <1>3, <2>2, Zenon
    <3>2. o > 0
      BY <1>2, <2>2
    <3>3. QED
      BY <3>1, <3>2
  <2>3. QED
    BY <2>1, <2>2
<1>5. y = [line |-> l, depot |-> d, qty |-> o, out |-> o, back |-> b, lo |-> lo, hi |-> hi, done |-> f]
  BY <1>1, <1>3 DEF CutTo
<1>6. Row(y)
  BY <1>2, <1>4, <1>5 DEF Row, Reservation, SoundRow
<1>7. QED
  BY <1>1, <1>3, <1>5, <1>6

Taking(x, s) == [x EXCEPT !.out = @ + s]
LEMMA TakingIs ==
    ASSUME NEW x, Row(x), NEW s \in Nat, s <= Unused(x)
    PROVE  LET y == Taking(x, s)
           IN  /\ Row(y) /\ y.line = x.line /\ y.depot = x.depot /\ y.qty = x.qty /\ y.out = x.out + s /\ y.back = x.back
               /\ y.done = x.done /\ y.lo = x.lo /\ y.hi = x.hi
<1>1. PICK l, d, q, o, b, lo, hi, e : x = [line |-> l, depot |-> d, qty |-> q, out |-> o, back |-> b,
                   lo |-> lo, hi |-> hi, done |-> e]
  BY FieldsAre
<1>2. /\ l \in LineSet /\ d \in Depots /\ q \in Nat /\ o \in Nat /\ b \in Nat
      /\ lo \in 0..MaxTime /\ hi \in Dates /\ b <= o /\ o <= q /\ lo < hi /\ e \in BOOLEAN
  BY <1>1, FieldsAre
<1>3. o + s <= q /\ b <= o + s /\ o + s \in Nat /\ (e \/ q > 0)
  BY <1>1, <1>2 DEF Unused, Row, SoundRow
<1>4. PICK y : y = Taking(x, s)
  OBVIOUS
<1>5. y = [line |-> l, depot |-> d, qty |-> q, out |-> o + s, back |-> b, lo |-> lo, hi |-> hi, done |-> e]
  BY <1>1, <1>4 DEF Taking
<1>6. Row(y)
  BY <1>2, <1>3, <1>5 DEF Row, Reservation, SoundRow
<1>7. QED
  BY <1>1, <1>4, <1>5, <1>6

Returning(x, s) == [x EXCEPT !.back = @ + s, !.done = @ \/ (s > 0 /\ x.back + s = x.qty)]
LEMMA ReturningIs ==
    ASSUME NEW x, Row(x), NEW s \in Nat, s <= x.out - x.back
    PROVE  LET y == Returning(x, s)
           IN  /\ Row(y) /\ y.line = x.line /\ y.depot = x.depot /\ y.qty = x.qty /\ y.out = x.out /\ y.back = x.back + s
               /\ y.done => x.done \/ y.back = y.out
               /\ x.done => y.done
<1>1. PICK l, d, q, o, b, lo, hi, e : x = [line |-> l, depot |-> d, qty |-> q, out |-> o, back |-> b,
                   lo |-> lo, hi |-> hi, done |-> e]
  BY FieldsAre
<1>2. /\ l \in LineSet /\ d \in Depots /\ q \in Nat /\ o \in Nat /\ b \in Nat
      /\ lo \in 0..MaxTime /\ hi \in Dates /\ b <= o /\ o <= q /\ lo < hi /\ e \in BOOLEAN
  BY <1>1, FieldsAre
<1>3. b + s <= o /\ b + s \in Nat /\ (e \/ q > 0)
  BY <1>1, <1>2 DEF Row, SoundRow
<1>4. PICK y, f : y = Returning(x, s) /\ f = (e \/ (s > 0 /\ b + s = q))
  OBVIOUS
<1>5. f \in BOOLEAN /\ (e => f) /\ (f => e \/ b + s = o)
  BY <1>2, <1>3, <1>4
<1>6. y = [line |-> l, depot |-> d, qty |-> q, out |-> o, back |-> b + s, lo |-> lo, hi |-> hi, done |-> f]
  BY <1>1, <1>4 DEF Returning
<1>7. Row(y)
  BY <1>2, <1>3, <1>5, <1>6 DEF Row, Reservation, SoundRow
<1>8. QED
  BY <1>1, <1>4, <1>5, <1>6, <1>7

------------------------------------------------------------------------------
(* Pieces spread over rows. *)

Lesser(a, b) == IF a <= b THEN a ELSE b
Above(n) == IF n > 0 THEN n ELSE 0

LEMMA MinOfTwo == ASSUME NEW a \in Int, NEW b \in Int PROVE Min({a, b}) = Lesser(a, b)
<1>1. PICK m : m = Lesser(a, b)
  OBVIOUS
<1>2. m \in {a, b} /\ \A y \in {a, b} : m <= y
  BY <1>1 DEF Lesser
<1>3. \A x \in {a, b} : (\A y \in {a, b} : x <= y) => x = m
  BY <1>2
<1>4. QED
  BY <1>1, <1>2, <1>3 DEF Min

LEMMA MaxOfTwo == ASSUME NEW a \in Int, NEW b \in Int PROVE Max({a, b}) = IF a <= b THEN b ELSE a
<1>1. PICK m : m = IF a <= b THEN b ELSE a
  OBVIOUS
<1>2. m \in {a, b} /\ \A y \in {a, b} : y <= m
  BY <1>1
<1>3. \A x \in {a, b} : (\A y \in {a, b} : y <= x) => x = m
  BY <1>2
<1>4. QED
  BY <1>1, <1>2, <1>3 DEF Max

LEMMA MaxIsAbove == ASSUME NEW n \in Int PROVE Max({0, n}) = Above(n)
<1>1. Max({0, n}) = IF 0 <= n THEN n ELSE 0
  BY MaxOfTwo
<1>2. QED
  BY <1>1 DEF Above

LEMMA PrefixSum ==
    ASSUME NEW n \in Nat, NEW F \in [1..n -> Int], NEW k \in 0..n
    PROVE  /\ IsFiniteSet(1..k) /\ SumOver(F, 1..k) \in Int
           /\ k < n => SumOver(F, 1..(k + 1)) = SumOver(F, 1..k) + F[k + 1]
<1>1. IsFiniteSet(1..k) /\ IsFiniteSet(1..(k + 1))
  BY FS_Interval
<1>2. SumOver(F, 1..k) \in Int
  BY <1>1, SumType
<1>3. ASSUME k < n PROVE SumOver(F, 1..(k + 1)) = SumOver(F, 1..k) + F[k + 1]
  <2>1. k + 1 \in 1..(k + 1) /\ (1..(k + 1)) \ {k + 1} = 1..k /\ \A x \in 1..(k + 1) : F[x] \in Int
    BY <1>3
  <2>2. SumOver(F, 1..(k + 1)) = F[k + 1] + SumOver(F, (1..(k + 1)) \ {k + 1})
    BY <1>1, <2>1, SumSplit
  <2>3. SumOver(F, 1..(k + 1)) = F[k + 1] + SumOver(F, 1..k)
    BY <2>1, <2>2
  <2>4. F[k + 1] \in Int
    BY <2>1
  <2>5. QED
    BY <1>2, <2>3, <2>4
<1>4. QED
  BY <1>1, <1>2, <1>3

(* What is spread never exceeds the room, and is in all the pieces there are
   or the room there is. *)
LEMMA SpreadIs ==
    ASSUME NEW n \in Nat, NEW room \in [1..n -> Nat], NEW q \in Nat
    PROVE  /\ Spread(room, q) \in [1..n -> Nat] /\ \A i \in 1..n : Spread(room, q)[i] <= room[i]
           /\ Spreads(room) = SumOver(room, 1..n) /\ Spreads(room) \in Nat
           /\ SumOver(Spread(room, q), 1..n) = Lesser(q, Spreads(room))
<1>1. room \in [1..n -> Int] /\ DOMAIN room = 1..n
  OBVIOUS
<1> DEFINE R(k) == SumOver(room, 1..k)
<1>2. \A k \in 0..n : R(k) \in Nat
  <2> DEFINE T == {k \in Nat : k \in 0..n => R(k) \in Nat}
  <2>1. 0 \in T
    <3>1. 1..0 = {}
      OBVIOUS
    <3>2. R(0) = 0
      BY <3>1, SumNone
    <3>3. QED
      BY <3>2
  <2>2. ASSUME NEW k \in T PROVE k + 1 \in T
    <3>1. SUFFICES ASSUME k + 1 \in 0..n PROVE R(k + 1) \in Nat
      OBVIOUS
    <3>2. k \in 0..n /\ k < n /\ k + 1 \in 1..n /\ k \in Nat
      BY <3>1
    <3>3. R(k) \in Nat
      BY <2>2, <3>2
    <3>4. R(k + 1) = R(k) + room[k + 1]
      BY <1>1, <3>2, PrefixSum
    <3>5. room[k + 1] \in Nat
      BY <3>2
    <3> HIDE DEF R
    <3>6. QED
      BY <3>3, <3>4, <3>5
  <2>3. T = Nat
    <3>1. T \in SUBSET Nat
      OBVIOUS
    <3> HIDE DEF T
    <3>2. QED
      BY <2>1, <2>2, <3>1, NumberInduction
  <2>4. QED
    BY <2>3
<1>3. \A k \in 0..n : SumOf(room, 1..k) = R(k)
  BY <1>1, PrefixSum, SumOfIs
<1>4. Spreads(room) = R(n) /\ Spreads(room) \in Nat
  BY <1>1, <1>2, <1>3 DEF Spreads
<1>5. PICK share : share = Spread(room, q)
  OBVIOUS
<1>6. ASSUME NEW i \in 1..n
      PROVE  share[i] = Lesser(room[i], Above(q - R(i - 1)))
  <2>1. i - 1 \in 0..n /\ room[i] \in Nat
    OBVIOUS
  <2>2. R(i - 1) \in Nat /\ SumOf(room, 1..(i - 1)) = R(i - 1)
    BY <1>2, <1>3, <2>1
  <2> HIDE DEF R
  <2>3. PICK b : b = R(i - 1)
    OBVIOUS
  <2>4. share[i] = Min({room[i], Max({0, q - b})})
    BY <1>1, <1>5, <2>2, <2>3 DEF Spread
  <2>5. b \in Nat
    BY <2>2, <2>3
  <2>6. Max({0, q - b}) = Above(q - b) /\ Above(q - b) \in Int
    BY <2>5, MaxIsAbove DEF Above
  <2>7. Min({room[i], Above(q - b)}) = Lesser(room[i], Above(q - b))
    BY <2>1, <2>6, MinOfTwo
  <2>8. QED
    BY <2>3, <2>4, <2>6, <2>7
<1>7. \A i \in 1..n : share[i] \in Nat /\ share[i] <= room[i]
  <2> SUFFICES ASSUME NEW i \in 1..n PROVE share[i] \in Nat /\ share[i] <= room[i]
    OBVIOUS
  <2>1. room[i] \in Nat /\ R(i - 1) \in Nat
    BY <1>2
  <2>2. share[i] = Lesser(room[i], Above(q - R(i - 1)))
    BY <1>6
  <2> HIDE DEF R
  <2>3. PICK a, b : a = room[i] /\ b = R(i - 1)
    OBVIOUS
  <2>4. share[i] = Lesser(a, Above(q - b)) /\ a \in Nat /\ b \in Nat
    BY <2>1, <2>2, <2>3
  <2>5. QED
    BY <2>3, <2>4 DEF Lesser, Above
<1>8. share \in [1..n -> Nat]
  BY <1>1, <1>5, <1>7 DEF Spread
<1>9. SumOver(share, 1..n) = Lesser(q, R(n))
  <2> DEFINE T == {k \in Nat : k \in 0..n => SumOver(share, 1..k) = Lesser(q, R(k))}
  <2>1. 0 \in T
    <3>1. 1..0 = {}
      OBVIOUS
    <3>2. R(0) = 0 /\ SumOver(share, 1..0) = 0
      BY <3>1, SumNone
    <3> HIDE DEF R
    <3>3. QED
      BY <3>2 DEF Lesser
  <2>2. ASSUME NEW k \in T PROVE k + 1 \in T
    <3>1. SUFFICES ASSUME k + 1 \in 0..n PROVE SumOver(share, 1..(k + 1)) = Lesser(q, R(k + 1))
      OBVIOUS
    <3>2. k \in 0..n /\ k < n /\ k + 1 \in 1..n /\ k \in Nat
      BY <3>1
    <3>3. SumOver(share, 1..k) = Lesser(q, R(k))
      BY <2>2, <3>2
    <3>4. R(k) \in Nat /\ room[k + 1] \in Nat
      BY <1>2, <3>2
    <3>5. R(k + 1) = R(k) + room[k + 1]
      BY <1>1, <3>2, PrefixSum
    <3>6. share[k + 1] = Lesser(room[k + 1], Above(q - R((k + 1) - 1)))
      BY <1>6, <3>2
    <3>7. (k + 1) - 1 = k
      BY <3>2
    <3>8. share \in [1..n -> Int]
      BY <1>8
    <3>9. SumOver(share, 1..(k + 1)) = SumOver(share, 1..k) + share[k + 1]
      BY <3>2, <3>8, PrefixSum
    <3> HIDE DEF R
    <3>10. PICK a, b, m : a = R(k) /\ b = room[k + 1] /\ m = R(k + 1)
      OBVIOUS
    <3>11. SumOver(share, 1..(k + 1)) = Lesser(q, a) + Lesser(b, Above(q - a)) /\ m = a + b
      BY <3>3, <3>5, <3>6, <3>7, <3>9, <3>10
    <3>12. a \in Nat /\ b \in Nat
      BY <3>4, <3>10
    <3>13. Lesser(q, a) + Lesser(b, Above(q - a)) = Lesser(q, a + b)
      BY <3>12 DEF Lesser, Above
    <3>14. QED
      BY <3>10, <3>11, <3>13
  <2>3. T = Nat
    <3>1. T \in SUBSET Nat
      OBVIOUS
    <3> HIDE DEF T
    <3>2. QED
      BY <2>1, <2>2, <3>1, NumberInduction
  <2>4. n \in T /\ n \in 0..n
    BY <2>3
  <2>5. QED
    BY <2>4
<1>10. QED
  BY <1>4, <1>5, <1>7, <1>8, <1>9

------------------------------------------------------------------------------
(* What the functions on reservations leave of a table. *)

(* new has the rows of rs, changed. *)
Same(new, rs) == Table(new) /\ DOMAIN new = DOMAIN rs /\ Len(new) = Len(rs)

(* share[i] pieces are taken on row i of rs for request r at the depots D. *)
Takes(new, rs, r, D, share) ==
    \A i \in DOMAIN rs :
        /\ new[i] = Taking(rs[i], share[i]) /\ share[i] <= Unused(rs[i])
        /\ share[i] > 0 => ~rs[i].done /\ RequestOf(rs[i]) = r /\ rs[i].depot \in D

LEMMA TookIs ==
    ASSUME NEW rs, Table(rs), NEW r, NEW D, NEW q \in Nat
    PROVE  /\ Same(Took(rs, r, D, q), rs) /\ Covered(rs, r, D, q) \in 0..q
           /\ \E share \in [DOMAIN rs -> Nat] :
                 /\ Takes(Took(rs, r, D, q), rs, r, D, share)
                 /\ SumOver(share, DOMAIN rs) = Covered(rs, r, D, q)
<1>1. PICK n \in Nat : n = Len(rs) /\ DOMAIN rs = 1..n
  BY TableIs
<1>2. PICK room : room = RoomToTake(rs, r, D)
  OBVIOUS
<1>3. \A i \in 1..n : Unused(rs[i]) \in Nat
  BY <1>1, TableIs, FieldsAre
<1>4. /\ room \in [1..n -> Nat]
      /\ \A i \in 1..n : /\ room[i] <= Unused(rs[i])
                         /\ room[i] > 0 => ~rs[i].done /\ RequestOf(rs[i]) = r /\ rs[i].depot \in D
  <2>1. room = [i \in 1..n |-> IF ~rs[i].done /\ RequestOf(rs[i]) = r /\ rs[i].depot \in D THEN Unused(rs[i]) ELSE 0]
    BY <1>1, <1>2 DEF RoomToTake
  <2>2. QED
    BY <1>3, <2>1
<1>5. PICK share : share = Spread(room, q)
  OBVIOUS
<1>6. /\ share \in [1..n -> Nat] /\ \A i \in 1..n : share[i] <= room[i]
      /\ Spreads(room) \in Nat /\ SumOver(share, 1..n) = Lesser(q, Spreads(room))
  BY <1>4, <1>5, SpreadIs
<1>7. PICK s : s = Spreads(room)
  OBVIOUS
<1>8. Covered(rs, r, D, q) = Lesser(q, s) /\ Lesser(q, s) \in 0..q
  <2>1. s \in Nat
    BY <1>6, <1>7
  <2>2. Covered(rs, r, D, q) = Min({q, s})
    BY <1>2, <1>7 DEF Covered
  <2>3. QED
    BY <2>1, <2>2, MinOfTwo DEF Lesser
<1>9. PICK new : new = Took(rs, r, D, q)
  OBVIOUS
<1>10. new = [i \in 1..n |-> Taking(rs[i], share[i])]
  BY <1>1, <1>2, <1>5, <1>9 DEF Took, Taking
<1>11. \A i \in 1..n : /\ share[i] \in Nat /\ share[i] <= Unused(rs[i]) /\ new[i] = Taking(rs[i], share[i])
                       /\ share[i] > 0 => ~rs[i].done /\ RequestOf(rs[i]) = r /\ rs[i].depot \in D
  <2> SUFFICES ASSUME NEW i \in 1..n
               PROVE  /\ share[i] \in Nat /\ share[i] <= Unused(rs[i]) /\ new[i] = Taking(rs[i], share[i])
                      /\ share[i] > 0 => ~rs[i].done /\ RequestOf(rs[i]) = r /\ rs[i].depot \in D
    OBVIOUS
  <2>1. PICK a, b, u : a = share[i] /\ b = room[i] /\ u = Unused(rs[i])
    OBVIOUS
  <2>2. a \in Nat /\ b \in Nat /\ u \in Nat /\ a <= b /\ b <= u
    BY <1>3, <1>4, <1>6, <2>1
  <2>3. a <= u /\ (a > 0 => b > 0)
    BY <2>2
  <2>4. new[i] = Taking(rs[i], share[i])
    BY <1>10
  <2>5. QED
    BY <1>4, <2>1, <2>2, <2>3, <2>4
<1>12. \A i \in 1..n : Row(new[i])
  BY <1>1, <1>11, TableIs, TakingIs
<1>13. Table(new) /\ Len(new) = n /\ DOMAIN new = 1..n
  <2>1. new = [i \in 1..n |-> new[i]]
    BY <1>10
  <2>2. QED
    BY <1>12, <2>1, MakesTable
<1>14. Takes(new, rs, r, D, share) /\ share \in [DOMAIN rs -> Nat] /\ SumOver(share, DOMAIN rs) = Covered(rs, r, D, q)
  BY <1>1, <1>6, <1>7, <1>8, <1>11 DEF Takes
<1>15. QED
  BY <1>1, <1>8, <1>9, <1>13, <1>14 DEF Same

(* share[i] pieces come back from project p on row i of rs. *)
Returns(new, rs, p, share) ==
    \A i \in DOMAIN rs :
        /\ new[i] = Returning(rs[i], share[i]) /\ share[i] <= rs[i].out - rs[i].back
        /\ share[i] > 0 => ~rs[i].done /\ RequestSites[RequestOf(rs[i])] = p

LEMMA GaveBackIs ==
    ASSUME NEW rs, Table(rs), NEW p, NEW q \in Nat
    PROVE  /\ Same(GaveBack(rs, p, q), rs) /\ Spreads(RoomToReturn(rs, p)) \in Nat
           /\ Spreads(RoomToReturn(rs, p)) = SumOver(RoomToReturn(rs, p), DOMAIN rs)
           /\ \E share \in [DOMAIN rs -> Nat] :
                 /\ Returns(GaveBack(rs, p, q), rs, p, share)
                 /\ SumOver(share, DOMAIN rs) = Lesser(q, Spreads(RoomToReturn(rs, p)))
<1>1. PICK n \in Nat : n = Len(rs) /\ DOMAIN rs = 1..n
  BY TableIs
<1>2. PICK room : room = RoomToReturn(rs, p)
  OBVIOUS
<1>3. \A i \in 1..n : rs[i].out - rs[i].back \in Nat
  BY <1>1, TableIs, FieldsAre
<1>4. /\ room \in [1..n -> Nat]
      /\ \A i \in 1..n : /\ room[i] <= rs[i].out - rs[i].back
                         /\ room[i] > 0 => ~rs[i].done /\ RequestSites[RequestOf(rs[i])] = p
  <2>1. room = [i \in 1..n |-> IF ~rs[i].done /\ RequestSites[RequestOf(rs[i])] = p THEN rs[i].out - rs[i].back ELSE 0]
    BY <1>1, <1>2 DEF RoomToReturn
  <2>2. QED
    BY <1>3, <2>1
<1>5. PICK share : share = Spread(room, q)
  OBVIOUS
<1>6. /\ share \in [1..n -> Nat] /\ \A i \in 1..n : share[i] <= room[i]
      /\ Spreads(room) \in Nat /\ SumOver(share, 1..n) = Lesser(q, Spreads(room))
      /\ Spreads(room) = SumOver(room, 1..n)
  BY <1>4, <1>5, SpreadIs
<1>9. PICK new : new = GaveBack(rs, p, q)
  OBVIOUS
<1>10. new = [i \in 1..n |-> Returning(rs[i], share[i])]
  BY <1>1, <1>2, <1>5, <1>9 DEF GaveBack, Returning
<1>11. \A i \in 1..n : /\ share[i] \in Nat /\ share[i] <= rs[i].out - rs[i].back /\ new[i] = Returning(rs[i], share[i])
                       /\ share[i] > 0 => ~rs[i].done /\ RequestSites[RequestOf(rs[i])] = p
  <2> SUFFICES ASSUME NEW i \in 1..n
               PROVE  /\ share[i] \in Nat /\ share[i] <= rs[i].out - rs[i].back /\ new[i] = Returning(rs[i], share[i])
                      /\ share[i] > 0 => ~rs[i].done /\ RequestSites[RequestOf(rs[i])] = p
    OBVIOUS
  <2>1. PICK a, b, u : a = share[i] /\ b = room[i] /\ u = rs[i].out - rs[i].back
    OBVIOUS
  <2>2. a \in Nat /\ b \in Nat /\ u \in Nat /\ a <= b /\ b <= u
    BY <1>3, <1>4, <1>6, <2>1
  <2>3. a <= u /\ (a > 0 => b > 0)
    BY <2>2
  <2>4. new[i] = Returning(rs[i], share[i])
    BY <1>10
  <2>5. QED
    BY <1>4, <2>1, <2>2, <2>3, <2>4
<1>12. \A i \in 1..n : Row(new[i])
  BY <1>1, <1>11, TableIs, ReturningIs
<1>13. Table(new) /\ Len(new) = n /\ DOMAIN new = 1..n
  <2>1. new = [i \in 1..n |-> new[i]]
    BY <1>10
  <2>2. QED
    BY <1>12, <2>1, MakesTable
<1>14. Returns(new, rs, p, share) /\ share \in [DOMAIN rs -> Nat]
  BY <1>1, <1>6, <1>11 DEF Returns
<1>15. QED
  BY <1>1, <1>2, <1>6, <1>9, <1>13, <1>14 DEF Same

(* Rows I let go: what is out of them stays. *)
Releases(new, rs, I) ==
    \A i \in DOMAIN rs :
        /\ new[i].line = rs[i].line /\ new[i].depot = rs[i].depot
        /\ new[i].out = rs[i].out /\ new[i].back = rs[i].back /\ new[i].qty <= rs[i].qty
        /\ rs[i].done => new[i].done
        /\ new[i].done => rs[i].done \/ rs[i].out = 0
        /\ rs[i].done \/ Unused(rs[i]) = 0 => new[i].done \/ Unused(new[i]) = 0
        /\ i \in I => new[i].done \/ Unused(new[i]) = 0
        /\ i \notin I => new[i] = rs[i]

LEMMA ReleasedIs ==
    ASSUME NEW rs, Table(rs), NEW I
    PROVE  Same(Released(rs, I), rs) /\ Releases(Released(rs, I), rs, I)
<1>1. PICK n \in Nat : n = Len(rs) /\ DOMAIN rs = 1..n
  BY TableIs
<1>2. PICK new : new = Released(rs, I)
  OBVIOUS
<1>3. new = [i \in 1..n |-> IF i \in I /\ ~rs[i].done THEN CutTo(rs[i], rs[i].out) ELSE rs[i]]
  BY <1>1, <1>2 DEF Released
<1> DEFINE Good(y, x, i) ==
      /\ y.line = x.line /\ y.depot = x.depot /\ y.out = x.out /\ y.back = x.back /\ y.qty <= x.qty
      /\ x.done => y.done
      /\ y.done => x.done \/ x.out = 0
      /\ x.done \/ Unused(x) = 0 => y.done \/ Unused(y) = 0
      /\ i \in I => y.done \/ Unused(y) = 0
      /\ i \notin I => y = x
<1>4. ASSUME NEW i \in 1..n PROVE Row(new[i]) /\ Good(new[i], rs[i], i)
  <2>1. PICK x, y : x = rs[i] /\ y = new[i]
    OBVIOUS
  <2>2. Row(x) /\ x.qty \in Nat /\ x.out \in Nat /\ x.out <= x.qty
    BY <1>1, <2>1, TableIs, FieldsAre
  <2>3. y = IF i \in I /\ ~x.done THEN CutTo(x, x.out) ELSE x
    BY <1>3, <2>1
  <2>4. CASE i \in I /\ ~x.done
    <3>1. PICK z : z = CutTo(x, x.out)
      OBVIOUS
    <3>2. /\ Row(z) /\ z.line = x.line /\ z.depot = x.depot /\ z.qty = x.out /\ z.out = x.out /\ z.back = x.back
          /\ z.done = (x.out = 0)
      BY <2>2, <3>1, CutToIs
    <3>3. Unused(z) = 0
      BY <2>2, <3>2 DEF Unused
    <3>4. Row(z) /\ Good(z, x, i)
      BY <2>2, <2>4, <3>2, <3>3
    <3>5. QED
      BY <2>1, <2>3, <2>4, <3>1, <3>4
  <2>5. CASE ~(i \in I /\ ~x.done)
    <3>1. y = x
      BY <2>3, <2>5
    <3>2. Good(x, x, i)
      BY <2>2, <2>5
    <3>3. QED
      BY <2>1, <2>2, <3>1, <3>2
  <2>6. QED
    BY <2>4, <2>5
<1>5. Table(new) /\ Len(new) = n /\ DOMAIN new = 1..n
  <2>1. new = [i \in 1..n |-> new[i]]
    BY <1>3
  <2>2. QED
    BY <1>4, <2>1, MakesTable
<1>6. QED
  BY <1>1, <1>2, <1>4, <1>5 DEF Same, Releases

(* Rows whose dates move. *)
Replans(new, rs) ==
    /\ Same(new, rs)
    /\ \A i \in DOMAIN rs :
          /\ new[i].line = rs[i].line /\ new[i].depot = rs[i].depot /\ new[i].qty = rs[i].qty
          /\ new[i].out = rs[i].out /\ new[i].back = rs[i].back /\ new[i].done = rs[i].done

LEMMA RescheduledIs ==
    ASSUME NEW x, Row(x), NEW w \in Windows
    PROVE  LET y == Rescheduled(x, w)
           IN  /\ Row(y) /\ y.line = x.line /\ y.depot = x.depot /\ y.qty = x.qty /\ y.out = x.out /\ y.back = x.back
               /\ y.done = x.done
<1>1. PICK l, d, q, o, b, lo, hi, e : x = [line |-> l, depot |-> d, qty |-> q, out |-> o, back |-> b,
                   lo |-> lo, hi |-> hi, done |-> e]
  BY FieldsAre
<1>2. /\ l \in LineSet /\ d \in Depots /\ q \in Nat /\ o \in Nat /\ b \in Nat
      /\ lo \in 0..MaxTime /\ hi \in Dates /\ b <= o /\ o <= q /\ lo < hi /\ e \in BOOLEAN /\ (e \/ q > 0)
  BY <1>1, FieldsAre DEF Row, SoundRow
<1>3. PICK from, until : from = w[1] /\ until = w[2]
  OBVIOUS
<1>4. from \in Dates /\ until \in Dates /\ from < until /\ MaxTime \in Nat
  BY <1>3, PlanningData
<1>5. PICK y : y = Rescheduled(x, w)
  OBVIOUS
<1>6. CASE o > 0
  <2>1. PICK m : m = Max({hi, until})
    OBVIOUS
  <2>2. m \in Dates /\ hi <= m
    BY <1>2, <1>4, <2>1, MaxOfTwo DEF Dates
  <2>3. y = [line |-> l, depot |-> d, qty |-> q, out |-> o, back |-> b, lo |-> lo, hi |-> m, done |-> e]
    BY <1>1, <1>3, <1>5, <1>6, <2>1 DEF Rescheduled
  <2>4. lo < m
    BY <1>2, <2>2 DEF Dates
  <2>5. Row(y)
    BY <1>2, <2>2, <2>3, <2>4 DEF Row, Reservation, SoundRow
  <2>6. QED
    BY <1>1, <1>5, <2>3, <2>5
<1>7. CASE ~(o > 0)
  <2>1. y = [line |-> l, depot |-> d, qty |-> q, out |-> o, back |-> b, lo |-> from, hi |-> until, done |-> e]
    BY <1>1, <1>3, <1>5, <1>7 DEF Rescheduled
  <2>2. from \in 0..MaxTime
    BY <1>4 DEF Dates
  <2>3. Row(y)
    BY <1>2, <1>4, <2>1, <2>2 DEF Row, Reservation, SoundRow
  <2>4. QED
    BY <1>1, <1>5, <2>1, <2>3
<1>8. QED
  BY <1>6, <1>7

LEMMA ReplansStill == ASSUME NEW rs, Table(rs) PROVE Replans(rs, rs)
BY DEF Replans, Same

LEMMA MoveLineIs ==
    ASSUME NEW rs, NEW old, Table(old), Replans(rs, old), NEW l, NEW w \in Windows
    PROVE  Replans(MoveLine(rs, l, w), old)
<1>1. PICK n \in Nat : n = Len(rs) /\ DOMAIN rs = 1..n /\ n = Len(old) /\ DOMAIN old = 1..n
  BY TableIs DEF Replans, Same
<1>2. PICK new : new = MoveLine(rs, l, w)
  OBVIOUS
<1>3. CASE new = rs
  BY <1>2, <1>3
<1>4. CASE new # rs
  <2>1. new = [i \in 1..n |-> IF i \in Planned(rs, l, w) THEN Rescheduled(rs[i], w) ELSE rs[i]]
    BY <1>1, <1>2, <1>4 DEF MoveLine
  <2> DEFINE Good(y, x) == /\ y.line = x.line /\ y.depot = x.depot /\ y.qty = x.qty /\ y.out = x.out
                           /\ y.back = x.back /\ y.done = x.done
  <2>2. ASSUME NEW i \in 1..n PROVE Row(new[i]) /\ Good(new[i], old[i])
    <3>1. PICK x, y : x = rs[i] /\ y = new[i]
      OBVIOUS
    <3>2. Row(x) /\ Good(x, old[i])
      BY <1>1, <3>1, TableIs DEF Replans, Same
    <3>3. y = Rescheduled(x, w) \/ y = x
      BY <2>1, <3>1
    <3>4. PICK z : z = Rescheduled(x, w)
      OBVIOUS
    <3>5. Row(z) /\ Good(z, x)
      BY <3>2, <3>4, RescheduledIs
    <3>6. Row(y) /\ Good(y, x)
      BY <3>2, <3>3, <3>4, <3>5
    <3>7. QED
      BY <3>1, <3>2, <3>6
  <2>3. Table(new) /\ Len(new) = n /\ DOMAIN new = 1..n
    <3>1. new = [i \in 1..n |-> new[i]]
      BY <2>1
    <3>2. QED
      BY <2>2, <3>1, MakesTable
  <2>4. QED
    BY <1>1, <1>2, <2>2, <2>3 DEF Replans, Same
<1>5. QED
  BY <1>3, <1>4

LEMMA MoveLinesIs ==
    ASSUME Table(res), NEW r, NEW w \in Windows
    PROVE  Replans(MoveLines(r, w), res)
<1>1. PICK n \in Nat : n = Len(LineOrder)
  BY PlanningData
<1> DEFINE Body(f, k) == IF k = 0 THEN res
                         ELSE IF LineOrder[k] \in OpenLines(line, r) THEN MoveLine(f[k - 1], LineOrder[k], w)
                         ELSE f[k - 1]
           Is(f) == f = [k \in 0..n |-> Body(f, k)]
           moved == CHOOSE f : Is(f)
<1>2. \E f : Is(f)
  <2> DEFINE Right(f, k) == f = [i \in 0..n |-> f[i]] /\ \A i \in 0..n : i <= k => f[i] = Body(f, i)
             T == {k \in Nat : \E f : Right(f, k)}
  <2>1. 0 \in T
    <3> DEFINE f == [i \in 0..n |-> res]
    <3>1. f = [i \in 0..n |-> f[i]] /\ f[0] = res
      OBVIOUS
    <3> HIDE DEF f
    <3>2. QED
      BY <3>1
  <2>2. ASSUME NEW k \in T PROVE k + 1 \in T
    <3>1. PICK f : Right(f, k)
      BY <2>2
    <3>2. k \in Nat /\ k + 1 \in Nat
      OBVIOUS
    <3> DEFINE g == [i \in 0..n |-> Body(f, i)]
    <3>3. ASSUME NEW i \in 0..n, i <= k + 1 PROVE g[i] = Body(g, i)
      <4>1. CASE i = 0
        BY <4>1
      <4>2. CASE i # 0
        <5>1. i - 1 \in 0..n /\ i - 1 <= k
          BY <3>2, <3>3, <4>2
        <5>2. g[i - 1] = f[i - 1]
          BY <3>1, <5>1
        <5>3. QED
          BY <4>2, <5>2
      <4>3. QED
        BY <4>1, <4>2
    <3>4. g = [i \in 0..n |-> g[i]]
      OBVIOUS
    <3> HIDE DEF g
    <3>5. Right(g, k + 1)
      BY <3>3, <3>4
    <3> HIDE DEF Right
    <3>6. QED
      BY <3>2, <3>5
  <2>3. T = Nat
    <3>1. T \in SUBSET Nat
      OBVIOUS
    <3> HIDE DEF T
    <3>2. QED
      BY <2>1, <2>2, <3>1, NumberInduction
  <2>4. PICK f : Right(f, n)
    BY <2>3
  <2>5. f = [i \in 0..n |-> f[i]] /\ \A i \in 0..n : f[i] = Body(f, i)
    <3>1. f = [i \in 0..n |-> f[i]] /\ \A i \in 0..n : i <= n => f[i] = Body(f, i)
      BY <2>4, Zenon
    <3>2. \A i \in 0..n : i <= n
      BY <1>1
    <3>3. QED
      BY <3>1, <3>2, Zenon
  <2>6. f = [i \in 0..n |-> Body(f, i)]
    <3> HIDE DEF Body
    <3>1. QED
      BY <2>5
  <2>7. QED
    BY <2>6
<1>3. Is(moved)
  <2> HIDE DEF Is
  <2>1. QED
    BY <1>2
<1>4. MoveLines(r, w) = moved[n]
  BY <1>1 DEF MoveLines
<1>5. \A k \in 0..n : moved[k] = Body(moved, k)
  <2> HIDE DEF moved
  <2>1. QED
    BY <1>3
<1> HIDE DEF moved
<1> DEFINE G == {k \in Nat : k \in 0..n => Replans(moved[k], res)}
<1>6. 0 \in G
  <2>1. 0 \in 0..n
    BY <1>1
  <2>2. moved[0] = res
    BY <1>5, <2>1
  <2>3. QED
    BY <2>2, ReplansStill
<1>7. ASSUME NEW k \in G PROVE k + 1 \in G
  <2>1. SUFFICES ASSUME k + 1 \in 0..n PROVE Replans(moved[k + 1], res)
    OBVIOUS
  <2>2. k \in 0..n /\ Replans(moved[k], res) /\ k + 1 # 0 /\ (k + 1) - 1 = k
    BY <1>7, <2>1
  <2>3. moved[k + 1] \in {moved[k], MoveLine(moved[k], LineOrder[k + 1], w)}
    BY <1>5, <2>1, <2>2
  <2>4. Replans(MoveLine(moved[k], LineOrder[k + 1], w), res)
    BY <2>2, MoveLineIs
  <2>5. QED
    BY <2>2, <2>3, <2>4
<1>8. G = Nat
  <2>1. G \in SUBSET Nat
    OBVIOUS
  <2> HIDE DEF G
  <2>2. QED
    BY <1>6, <1>7, <2>1, NumberInduction
<1>9. QED
  BY <1>4, <1>8

------------------------------------------------------------------------------
(* What the rows add up to. *)

LEMMA SumNat ==
    ASSUME NEW S, IsFiniteSet(S), NEW F, \A x \in S : F[x] \in Nat
    PROVE  SumOver(F, S) \in Nat
<1> DEFINE Z == [x \in S |-> 0]
<1>1. \A x \in S : Z[x] = 0 /\ Z[x] \in Int /\ F[x] \in Int /\ Z[x] <= F[x]
  OBVIOUS
<1> HIDE DEF Z
<1>2. SumOver(Z, S) = 0 /\ SumOver(Z, S) <= SumOver(F, S) /\ SumOver(F, S) \in Int
  BY <1>1, SumZero, SumAtMost, SumType
<1>3. QED
  BY <1>2

Qtys(rs) == [i \in DOMAIN rs |-> rs[i].qty]
Outs(rs) == [i \in DOMAIN rs |-> rs[i].out]
Backs(rs) == [i \in DOMAIN rs |-> rs[i].back]
Aways(rs) == [i \in DOMAIN rs |-> rs[i].out - rs[i].back]

RowsOf(rs, l) == {i \in DOMAIN rs : rs[i].line = l}
RowsAt(rs, p) == {i \in DOMAIN rs : RequestSites[RequestOf(rs[i])] = p}
Outstanding(rs, p) == Total(rs, LAMBDA x : x.out - x.back, LAMBDA x : RequestSites[RequestOf(x)] = p)

LEMMA RowsFinite ==
    ASSUME NEW rs, Table(rs), NEW I \in SUBSET DOMAIN rs
    PROVE  /\ IsFiniteSet(I)
           /\ \A i \in I : /\ Qtys(rs)[i] = rs[i].qty /\ Qtys(rs)[i] \in Nat
                           /\ Outs(rs)[i] = rs[i].out /\ Outs(rs)[i] \in Nat
                           /\ Backs(rs)[i] = rs[i].back /\ Backs(rs)[i] \in Nat /\ Backs(rs)[i] <= Outs(rs)[i]
                           /\ Aways(rs)[i] = rs[i].out - rs[i].back /\ Aways(rs)[i] \in Nat
<1>1. IsFiniteSet(I)
  BY TableIs, FS_Interval, FS_Subset
<1>2. ASSUME NEW i \in I
      PROVE  /\ Qtys(rs)[i] = rs[i].qty /\ Qtys(rs)[i] \in Nat
             /\ Outs(rs)[i] = rs[i].out /\ Outs(rs)[i] \in Nat
             /\ Backs(rs)[i] = rs[i].back /\ Backs(rs)[i] \in Nat /\ Backs(rs)[i] <= Outs(rs)[i]
             /\ Aways(rs)[i] = rs[i].out - rs[i].back /\ Aways(rs)[i] \in Nat
  <2>1. i \in DOMAIN rs /\ Row(rs[i])
    BY TableIs
  <2>2. /\ rs[i].qty \in Nat /\ rs[i].out \in Nat /\ rs[i].back \in Nat /\ rs[i].back <= rs[i].out
        /\ rs[i].out - rs[i].back \in Nat
    BY <2>1, FieldsAre
  <2>3. QED
    BY <2>1, <2>2 DEF Qtys, Outs, Backs, Aways
<1>3. QED
  BY <1>1, <1>2

LEMMA LineSums ==
    ASSUME NEW rs, Table(rs), NEW l
    PROVE  /\ LineReserved(rs, l) = SumOver(Qtys(rs), RowsOf(rs, l)) /\ LineReserved(rs, l) \in Nat
           /\ LineOut(rs, l) = SumOver(Outs(rs), RowsOf(rs, l)) /\ LineOut(rs, l) \in Nat
           /\ LineBack(rs, l) = SumOver(Backs(rs), RowsOf(rs, l)) /\ LineBack(rs, l) \in Nat
           /\ LineBack(rs, l) <= LineOut(rs, l)
<1>1. PICK I : I = RowsOf(rs, l) /\ I \in SUBSET DOMAIN rs
  BY DEF RowsOf
<1>2. IsFiniteSet(I)
  BY <1>1, RowsFinite
<1>3. LineReserved(rs, l) = SumOf(Qtys(rs), I)
  BY <1>1 DEF LineReserved, Total, Qtys, RowsOf
<1>4. LineOut(rs, l) = SumOf(Outs(rs), I)
  BY <1>1 DEF LineOut, Total, Outs, RowsOf
<1>5. LineBack(rs, l) = SumOf(Backs(rs), I)
  BY <1>1 DEF LineBack, Total, Backs, RowsOf
<1>6. SumOver(Qtys(rs), I) \in Nat
  BY <1>1, <1>2, RowsFinite, SumNat
<1>7. SumOver(Outs(rs), I) \in Nat
  BY <1>1, <1>2, RowsFinite, SumNat
<1>8. SumOver(Backs(rs), I) \in Nat
  BY <1>1, <1>2, RowsFinite, SumNat
<1>9. SumOver(Backs(rs), I) <= SumOver(Outs(rs), I)
  <2>1. \A i \in I : Backs(rs)[i] \in Int /\ Outs(rs)[i] \in Int /\ Backs(rs)[i] <= Outs(rs)[i]
    BY <1>1, RowsFinite
  <2>2. QED
    BY <1>2, <2>1, SumAtMost
<1>10. /\ LineReserved(rs, l) = SumOver(Qtys(rs), I) /\ LineOut(rs, l) = SumOver(Outs(rs), I)
       /\ LineBack(rs, l) = SumOver(Backs(rs), I)
  BY <1>2, <1>3, <1>4, <1>5, SumOfIs
<1>11. QED
  BY <1>1, <1>6, <1>7, <1>8, <1>9, <1>10

LEMMA OutstandingIs ==
    ASSUME NEW rs, Table(rs), NEW p
    PROVE  Outstanding(rs, p) = SumOver(Aways(rs), RowsAt(rs, p)) /\ Outstanding(rs, p) \in Nat
<1>1. PICK I : I = RowsAt(rs, p) /\ I \in SUBSET DOMAIN rs
  BY DEF RowsAt
<1>2. IsFiniteSet(I) /\ \A i \in I : Aways(rs)[i] \in Nat
  BY <1>1, RowsFinite
<1>3. Outstanding(rs, p) = SumOf(Aways(rs), I)
  BY <1>1 DEF Outstanding, Total, Aways, RowsAt
<1>4. SumOver(Aways(rs), I) \in Nat /\ SumOf(Aways(rs), I) = SumOver(Aways(rs), I)
  BY <1>2, SumNat, SumOfIs
<1>5. QED
  BY <1>1, <1>3, <1>4

(* The rows stay on their lines. *)
Aligned(new, rs) == Same(new, rs) /\ \A i \in DOMAIN rs : new[i].line = rs[i].line

LEMMA AlignedIs ==
    ASSUME NEW rs, Table(rs), NEW new, Aligned(new, rs), NEW l
    PROVE  Table(new) /\ RowsOf(new, l) = RowsOf(rs, l) /\ RowsAt(new, l) = RowsAt(rs, l)
           /\ RowsOf(rs, l) \in SUBSET DOMAIN rs /\ RowsAt(rs, l) \in SUBSET DOMAIN rs /\ DOMAIN new = DOMAIN rs
BY DEF Aligned, Same, RowsOf, RowsAt, RequestOf

LEMMA ReservedFalls ==
    ASSUME NEW rs, Table(rs), NEW new, Aligned(new, rs), \A i \in DOMAIN rs : new[i].qty <= rs[i].qty, NEW l
    PROVE  LineReserved(new, l) <= LineReserved(rs, l)
<1>1. PICK I \in SUBSET DOMAIN rs : I = RowsOf(rs, l) /\ I = RowsOf(new, l) /\ I \in SUBSET DOMAIN new
  BY AlignedIs
<1>2. Table(new) /\ IsFiniteSet(I)
  BY <1>1, AlignedIs, RowsFinite
<1>3. \A i \in I : Qtys(new)[i] \in Int /\ Qtys(rs)[i] \in Int /\ Qtys(new)[i] <= Qtys(rs)[i]
  BY <1>1, <1>2, RowsFinite
<1>4. SumOver(Qtys(new), I) <= SumOver(Qtys(rs), I)
  BY <1>2, <1>3, SumAtMost
<1>5. LineReserved(rs, l) = SumOver(Qtys(rs), I) /\ LineReserved(new, l) = SumOver(Qtys(new), I)
  BY <1>1, <1>2, LineSums
<1>6. QED
  BY <1>4, <1>5

LEMMA OutGrows ==
    ASSUME NEW rs, Table(rs), NEW new, Aligned(new, rs), NEW l,
           \A i \in RowsOf(rs, l) : rs[i].out <= new[i].out
    PROVE  LineOut(rs, l) <= LineOut(new, l)
<1>1. PICK I \in SUBSET DOMAIN rs : I = RowsOf(rs, l) /\ I = RowsOf(new, l) /\ I \in SUBSET DOMAIN new
  BY AlignedIs
<1>2. Table(new) /\ IsFiniteSet(I)
  BY <1>1, AlignedIs, RowsFinite
<1>3. \A i \in I : Outs(new)[i] \in Int /\ Outs(rs)[i] \in Int /\ Outs(rs)[i] <= Outs(new)[i]
  BY <1>1, <1>2, RowsFinite
<1>4. SumOver(Outs(rs), I) <= SumOver(Outs(new), I)
  BY <1>2, <1>3, SumAtMost
<1>5. LineOut(rs, l) = SumOver(Outs(rs), I) /\ LineOut(new, l) = SumOver(Outs(new), I)
  BY <1>1, <1>2, LineSums
<1>6. QED
  BY <1>4, <1>5

LEMMA OutSame ==
    ASSUME NEW rs, Table(rs), NEW new, Aligned(new, rs), NEW l,
           \A i \in RowsOf(rs, l) : rs[i].out = new[i].out
    PROVE  LineOut(rs, l) = LineOut(new, l)
<1>1. PICK I \in SUBSET DOMAIN rs : I = RowsOf(rs, l) /\ I = RowsOf(new, l) /\ I \in SUBSET DOMAIN new
  BY AlignedIs
<1>2. Table(new) /\ IsFiniteSet(I)
  BY <1>1, AlignedIs, RowsFinite
<1>3. \A i \in I : Outs(rs)[i] = Outs(new)[i]
  BY <1>1, <1>2, RowsFinite
<1>4. SumOver(Outs(rs), I) = SumOver(Outs(new), I)
  BY <1>2, <1>3, SumSame
<1>5. LineOut(rs, l) = SumOver(Outs(rs), I) /\ LineOut(new, l) = SumOver(Outs(new), I)
  BY <1>1, <1>2, LineSums
<1>6. QED
  BY <1>4, <1>5

LEMMA BackGrows ==
    ASSUME NEW rs, Table(rs), NEW new, Aligned(new, rs), NEW l,
           \A i \in RowsOf(rs, l) : rs[i].back <= new[i].back
    PROVE  LineBack(rs, l) <= LineBack(new, l)
<1>1. PICK I \in SUBSET DOMAIN rs : I = RowsOf(rs, l) /\ I = RowsOf(new, l) /\ I \in SUBSET DOMAIN new
  BY AlignedIs
<1>2. Table(new) /\ IsFiniteSet(I)
  BY <1>1, AlignedIs, RowsFinite
<1>3. \A i \in I : Backs(new)[i] \in Int /\ Backs(rs)[i] \in Int /\ Backs(rs)[i] <= Backs(new)[i]
  BY <1>1, <1>2, RowsFinite
<1>4. SumOver(Backs(rs), I) <= SumOver(Backs(new), I)
  BY <1>2, <1>3, SumAtMost
<1>5. LineBack(rs, l) = SumOver(Backs(rs), I) /\ LineBack(new, l) = SumOver(Backs(new), I)
  BY <1>1, <1>2, LineSums
<1>6. QED
  BY <1>4, <1>5

LEMMA OutstandingSame ==
    ASSUME NEW rs, Table(rs), NEW new, Aligned(new, rs), NEW p,
           \A i \in RowsAt(rs, p) : new[i].out - new[i].back = rs[i].out - rs[i].back
    PROVE  Outstanding(new, p) = Outstanding(rs, p)
<1>1. PICK I \in SUBSET DOMAIN rs : I = RowsAt(rs, p) /\ I = RowsAt(new, p) /\ I \in SUBSET DOMAIN new
  BY AlignedIs
<1>2. Table(new) /\ IsFiniteSet(I)
  BY <1>1, AlignedIs, RowsFinite
<1>3. \A i \in I : Aways(new)[i] = Aways(rs)[i]
  <2>1. \A i \in I : Aways(rs)[i] = rs[i].out - rs[i].back
    BY <1>1, RowsFinite
  <2>2. \A i \in I : Aways(new)[i] = new[i].out - new[i].back
    BY <1>1, <1>2, RowsFinite
  <2>3. QED
    BY <1>1, <2>1, <2>2
<1>4. SumOver(Aways(new), I) = SumOver(Aways(rs), I)
  BY <1>2, <1>3, SumSame
<1>5. QED
  BY <1>1, <1>2, <1>4, OutstandingIs

------------------------------------------------------------------------------
(* One row more. *)

Continues(G, F, I, k) == k \notin I /\ G[k] \in Int /\ \A i \in I : F[i] \in Int /\ G[i] = F[i]

LEMMA OneMore ==
    ASSUME NEW I, IsFiniteSet(I), NEW k, NEW F, NEW G, Continues(G, F, I, k)
    PROVE  SumOver(G, I) = SumOver(F, I) /\ SumOver(G, I \cup {k}) = SumOver(F, I) + G[k]
<1>0. k \notin I /\ G[k] \in Int /\ \A i \in I : F[i] \in Int /\ G[i] = F[i]
  BY DEF Continues
<1>1. SumOver(G, I) = SumOver(F, I)
  BY <1>0, SumSame
<1>2. PICK J : J = I \cup {k}
  OBVIOUS
<1>3. IsFiniteSet(J) /\ k \in J /\ J \ {k} = I
  BY <1>0, <1>2, FS_AddElement
<1>4. \A i \in J : G[i] \in Int
  BY <1>0, <1>2
<1>5. SumOver(G, J) = G[k] + SumOver(G, J \ {k}) /\ SumOver(G, J \ {k}) \in Int
  BY <1>3, <1>4, SumSplit
<1>6. PICK g : g = SumOver(G, J \ {k})
  OBVIOUS
<1>7. PICK v : v = G[k]
  OBVIOUS
<1>8. SumOver(G, J) = v + g /\ g \in Int /\ v \in Int /\ g = SumOver(F, I)
  BY <1>0, <1>1, <1>3, <1>5, <1>6, <1>7
<1>9. SumOver(G, J) = g + v
  BY <1>8
<1>10. QED
  BY <1>1, <1>2, <1>7, <1>8, <1>9

(* new is rs with the row x at its end. *)
Longer(new, rs, x) ==
    /\ Table(new) /\ Len(new) = Len(rs) + 1
    /\ DOMAIN new = DOMAIN rs \cup {Len(new)} /\ Len(new) \notin DOMAIN rs /\ new[Len(new)] = x
    /\ \A i \in DOMAIN rs : new[i] = rs[i]

LEMMA AppendIs ==
    ASSUME NEW rs, Table(rs), NEW x, Row(x)
    PROVE  Longer(Append(rs, x), rs, x)
<1>1. PICK n \in Nat : n = Len(rs) /\ DOMAIN rs = 1..n
  BY TableIs
<1>2. PICK new : new = Append(rs, x)
  OBVIOUS
<1>3. rs \in Seq(Reservation) /\ x \in Reservation
  BY DEF Table, Row
<1>4. /\ new \in Seq(Reservation) /\ Len(new) = n + 1 /\ DOMAIN new = 1..(n + 1) /\ new[n + 1] = x
      /\ \A i \in 1..n : new[i] = rs[i]
  BY <1>1, <1>2, <1>3
<1>5. 1..(n + 1) = 1..n \cup {n + 1} /\ n + 1 \notin 1..n
  OBVIOUS
<1>6. \A i \in DOMAIN new : SoundRow(new[i])
  BY <1>1, <1>4, <1>5 DEF Table, Row
<1>7. QED
  BY <1>1, <1>2, <1>4, <1>5, <1>6 DEF Longer, Table

LEMMA LongerSums ==
    ASSUME NEW rs, Table(rs), NEW x, Row(x), NEW new, Longer(new, rs, x), NEW l
    PROVE  /\ LineReserved(new, l) = IF x.line = l THEN LineReserved(rs, l) + x.qty ELSE LineReserved(rs, l)
           /\ LineOut(new, l) = IF x.line = l THEN LineOut(rs, l) + x.out ELSE LineOut(rs, l)
           /\ LineBack(new, l) = IF x.line = l THEN LineBack(rs, l) + x.back ELSE LineBack(rs, l)
<1>1. PICK k : k = Len(new)
  OBVIOUS
<1>2. /\ Table(new) /\ DOMAIN new = DOMAIN rs \cup {k} /\ k \notin DOMAIN rs /\ new[k] = x
      /\ \A i \in DOMAIN rs : new[i] = rs[i]
  BY <1>1 DEF Longer
<1>3. PICK I \in SUBSET DOMAIN rs : I = RowsOf(rs, l)
  BY DEF RowsOf
<1>4. I \in SUBSET DOMAIN new /\ k \notin I /\ IsFiniteSet(I) /\ k \in DOMAIN new /\ {k} \in SUBSET DOMAIN new
  BY <1>2, RowsFinite
<1>5. RowsOf(new, l) = IF x.line = l THEN I \cup {k} ELSE I
  BY <1>2, <1>3 DEF RowsOf
<1>6. \A i \in I : /\ Qtys(rs)[i] \in Int /\ Qtys(new)[i] = Qtys(rs)[i]
                   /\ Outs(rs)[i] \in Int /\ Outs(new)[i] = Outs(rs)[i]
                   /\ Backs(rs)[i] \in Int /\ Backs(new)[i] = Backs(rs)[i]
  <2>1. \A i \in I : Qtys(rs)[i] \in Int /\ Outs(rs)[i] \in Int /\ Backs(rs)[i] \in Int
    BY <1>3, RowsFinite
  <2>2. \A i \in I : /\ Qtys(new)[i] = Qtys(rs)[i] /\ Outs(new)[i] = Outs(rs)[i] /\ Backs(new)[i] = Backs(rs)[i]
    BY <1>2, <1>4 DEF Qtys, Outs, Backs
  <2>3. QED
    BY <2>1, <2>2
<1>7. /\ Qtys(new)[k] = x.qty /\ Outs(new)[k] = x.out /\ Backs(new)[k] = x.back
      /\ Qtys(new)[k] \in Int /\ Outs(new)[k] \in Int /\ Backs(new)[k] \in Int
  BY <1>2, <1>4, FieldsAre DEF Qtys, Outs, Backs
<1>8. /\ SumOver(Qtys(new), I) = SumOver(Qtys(rs), I) /\ SumOver(Qtys(new), I \cup {k}) = SumOver(Qtys(rs), I) + x.qty
  <2>1. PICK F, G : F = Qtys(rs) /\ G = Qtys(new)
    OBVIOUS
  <2>2. G[k] = x.qty /\ Continues(G, F, I, k)
    BY <1>4, <1>6, <1>7, <2>1 DEF Continues
  <2>3. SumOver(G, I) = SumOver(F, I) /\ SumOver(G, I \cup {k}) = SumOver(F, I) + G[k]
    BY <1>4, <2>2, OneMore
  <2>4. QED
    BY <2>1, <2>2, <2>3
<1>9. /\ SumOver(Outs(new), I) = SumOver(Outs(rs), I) /\ SumOver(Outs(new), I \cup {k}) = SumOver(Outs(rs), I) + x.out
  <2>1. PICK F, G : F = Outs(rs) /\ G = Outs(new)
    OBVIOUS
  <2>2. G[k] = x.out /\ Continues(G, F, I, k)
    BY <1>4, <1>6, <1>7, <2>1 DEF Continues
  <2>3. SumOver(G, I) = SumOver(F, I) /\ SumOver(G, I \cup {k}) = SumOver(F, I) + G[k]
    BY <1>4, <2>2, OneMore
  <2>4. QED
    BY <2>1, <2>2, <2>3
<1>10. /\ SumOver(Backs(new), I) = SumOver(Backs(rs), I) /\ SumOver(Backs(new), I \cup {k}) = SumOver(Backs(rs), I) + x.back
  <2>1. PICK F, G : F = Backs(rs) /\ G = Backs(new)
    OBVIOUS
  <2>2. G[k] = x.back /\ Continues(G, F, I, k)
    BY <1>4, <1>6, <1>7, <2>1 DEF Continues
  <2>3. SumOver(G, I) = SumOver(F, I) /\ SumOver(G, I \cup {k}) = SumOver(F, I) + G[k]
    BY <1>4, <2>2, OneMore
  <2>4. QED
    BY <2>1, <2>2, <2>3
<1>11. /\ LineReserved(rs, l) = SumOver(Qtys(rs), I) /\ LineReserved(new, l) = SumOver(Qtys(new), RowsOf(new, l))
       /\ LineOut(rs, l) = SumOver(Outs(rs), I) /\ LineOut(new, l) = SumOver(Outs(new), RowsOf(new, l))
       /\ LineBack(rs, l) = SumOver(Backs(rs), I) /\ LineBack(new, l) = SumOver(Backs(new), RowsOf(new, l))
  BY <1>2, <1>3, LineSums
<1>12. CASE x.line = l
  BY <1>5, <1>8, <1>9, <1>10, <1>11, <1>12
<1>13. CASE x.line # l
  BY <1>5, <1>8, <1>9, <1>10, <1>11, <1>13
<1>14. QED
  BY <1>12, <1>13

LEMMA LongerOutstanding ==
    ASSUME NEW rs, Table(rs), NEW x, Row(x), NEW new, Longer(new, rs, x), NEW p
    PROVE  Outstanding(new, p) = IF RequestSites[RequestOf(x)] = p THEN Outstanding(rs, p) + (x.out - x.back)
                                 ELSE Outstanding(rs, p)
<1>1. PICK k : k = Len(new)
  OBVIOUS
<1>2. /\ Table(new) /\ DOMAIN new = DOMAIN rs \cup {k} /\ k \notin DOMAIN rs /\ new[k] = x
      /\ \A i \in DOMAIN rs : new[i] = rs[i]
  BY <1>1 DEF Longer
<1>3. PICK I \in SUBSET DOMAIN rs : I = RowsAt(rs, p)
  BY DEF RowsAt
<1>4. I \in SUBSET DOMAIN new /\ k \notin I /\ IsFiniteSet(I) /\ k \in DOMAIN new
  BY <1>2, RowsFinite
<1>5. RowsAt(new, p) = IF RequestSites[RequestOf(x)] = p THEN I \cup {k} ELSE I
  BY <1>2, <1>3 DEF RowsAt
<1>6. PICK F, G : F = Aways(rs) /\ G = Aways(new)
  OBVIOUS
<1>7. \A i \in I : F[i] \in Int /\ G[i] = F[i]
  <2>1. \A i \in I : F[i] \in Int
    BY <1>3, <1>6, RowsFinite
  <2>2. QED
    BY <1>2, <1>4, <1>6, <2>1 DEF Aways
<1>8. G[k] = x.out - x.back /\ Continues(G, F, I, k)
  <2>1. G[k] = x.out - x.back /\ x.out - x.back \in Int
    BY <1>2, <1>4, <1>6, FieldsAre DEF Aways
  <2>2. QED
    BY <1>4, <1>7, <2>1 DEF Continues
<1>9. SumOver(G, I) = SumOver(F, I) /\ SumOver(G, I \cup {k}) = SumOver(F, I) + G[k]
  BY <1>4, <1>7, <1>8, OneMore
<1>10. Outstanding(rs, p) = SumOver(F, I) /\ Outstanding(new, p) = SumOver(G, RowsAt(new, p))
  BY <1>2, <1>3, <1>6, OutstandingIs
<1>11. QED
  BY <1>5, <1>8, <1>9, <1>10

------------------------------------------------------------------------------
(* What is out and not back, after pieces were taken or came back. *)

(* The pieces share of the rows of rs, all on rows of project p. *)
SharesOf(share, rs, p) ==
    share \in [DOMAIN rs -> Nat] /\ \A i \in DOMAIN rs : share[i] > 0 => i \in RowsAt(rs, p)

LEMMA ShareSums ==
    ASSUME NEW rs, Table(rs), NEW p, NEW share, SharesOf(share, rs, p), NEW s
    PROVE  /\ SumOver(share, DOMAIN rs) \in Nat
           /\ SumOver(share, RowsAt(rs, s)) = IF s = p THEN SumOver(share, DOMAIN rs) ELSE 0
<1>1. PICK E : E = DOMAIN rs
  OBVIOUS
<1>2. PICK I : I = RowsAt(rs, s) /\ I \in SUBSET E
  BY <1>1 DEF RowsAt
<1>3. IsFiniteSet(E) /\ IsFiniteSet(I)
  BY <1>1, <1>2, RowsFinite
<1>4. \A i \in E : share[i] \in Nat /\ share[i] \in Int /\ share[i] >= 0
  BY <1>1 DEF SharesOf
<1>5. SumOver(share, E) \in Nat
  BY <1>3, <1>4, SumNat
<1>6. CASE s = p
  <2>1. \A i \in E \ I : share[i] = 0
    BY <1>1, <1>2, <1>4, <1>6 DEF SharesOf
  <2>2. SumOver(share, E) <= SumOver(share, I) /\ SumOver(share, I) \in Int
    BY <1>2, <1>3, <1>4, <2>1, SumCovers
  <2>3. SumOver(share, I) <= SumOver(share, E)
    BY <1>2, <1>3, <1>4, SumCovers
  <2>4. SumOver(share, I) = SumOver(share, E)
    BY <1>5, <2>2, <2>3
  <2>5. QED
    BY <1>1, <1>2, <1>5, <1>6, <2>4
<1>7. CASE s # p
  <2>1. \A i \in I : i \notin RowsAt(rs, p)
    BY <1>2, <1>7 DEF RowsAt
  <2>2. \A i \in I : share[i] = 0
    BY <1>1, <1>2, <1>4, <2>1 DEF SharesOf
  <2>3. SumOver(share, I) = 0
    BY <1>3, <2>2, SumZero
  <2>4. QED
    BY <1>1, <1>2, <1>5, <1>7, <2>3
<1>8. QED
  BY <1>6, <1>7

(* Pieces of project p are added to what is out of the rows. *)
Adds(new, rs, share) == \A i \in DOMAIN rs : new[i].out - new[i].back = (rs[i].out - rs[i].back) + share[i]

LEMMA AddsUpTo ==
    ASSUME NEW rs, Table(rs), NEW new, Aligned(new, rs), NEW p, NEW share, SharesOf(share, rs, p),
           Adds(new, rs, share), NEW s
    PROVE  Outstanding(new, s) = IF s = p THEN Outstanding(rs, s) + SumOver(share, DOMAIN rs) ELSE Outstanding(rs, s)
<1>1. PICK I \in SUBSET DOMAIN rs : I = RowsAt(rs, s) /\ I = RowsAt(new, s) /\ I \in SUBSET DOMAIN new
  BY AlignedIs
<1>2. Table(new) /\ IsFiniteSet(I)
  BY <1>1, AlignedIs, RowsFinite
<1>3. PICK F, G : F = Aways(rs) /\ G = Aways(new)
  OBVIOUS
<1>4. \A i \in I : F[i] \in Int /\ share[i] \in Int /\ G[i] = F[i] + share[i]
  <2>1. \A i \in I : F[i] = rs[i].out - rs[i].back /\ F[i] \in Int
    BY <1>1, <1>3, RowsFinite
  <2>2. \A i \in I : G[i] = new[i].out - new[i].back
    BY <1>1, <1>2, <1>3, RowsFinite
  <2>3. \A i \in I : share[i] \in Int
    BY <1>1 DEF SharesOf
  <2>4. QED
    BY <1>1, <2>1, <2>2, <2>3 DEF Adds
<1>5. SumOver(G, I) = SumOver(F, I) + SumOver(share, I)
  BY <1>2, <1>4, SumAdds
<1>6. Outstanding(rs, s) = SumOver(F, I) /\ Outstanding(new, s) = SumOver(G, I) /\ SumOver(F, I) \in Nat
  BY <1>1, <1>2, <1>3, OutstandingIs
<1>7. SumOver(share, I) = IF s = p THEN SumOver(share, DOMAIN rs) ELSE 0
  <2>1. SumOver(share, RowsAt(rs, s)) = IF s = p THEN SumOver(share, DOMAIN rs) ELSE 0
    BY ShareSums
  <2>2. QED
    BY <1>1, <2>1
<1>8. QED
  BY <1>5, <1>6, <1>7

LEMMA TookSums ==
    ASSUME NEW rs, Table(rs), NEW r, NEW D, NEW q \in Nat, NEW s
    PROVE  Outstanding(Took(rs, r, D, q), s) =
             IF s = RequestSites[r] THEN Outstanding(rs, s) + Covered(rs, r, D, q) ELSE Outstanding(rs, s)
<1>1. PICK new : new = Took(rs, r, D, q)
  OBVIOUS
<1>2. Same(new, rs)
  BY <1>1, TookIs
<1>3. PICK share \in [DOMAIN rs -> Nat] : Takes(new, rs, r, D, share) /\ SumOver(share, DOMAIN rs) = Covered(rs, r, D, q)
  BY <1>1, TookIs
<1>4. ASSUME NEW i \in DOMAIN rs
      PROVE  /\ new[i].line = rs[i].line
             /\ new[i].out - new[i].back = (rs[i].out - rs[i].back) + share[i]
             /\ share[i] > 0 => i \in RowsAt(rs, RequestSites[r])
  <2>1. PICK x, t : x = rs[i] /\ t = share[i] /\ t \in Nat
    BY <1>3
  <2>2. Row(x) /\ new[i] = Taking(x, t) /\ t <= Unused(x) /\ (t > 0 => RequestOf(x) = r)
    BY <1>3, <2>1, TableIs DEF Takes
  <2>3. new[i].line = x.line /\ new[i].out = x.out + t /\ new[i].back = x.back
    BY <2>1, <2>2, TakingIs
  <2>4. x.out \in Nat /\ x.back \in Nat
    BY <2>2, FieldsAre
  <2>5. QED
    BY <2>1, <2>2, <2>3, <2>4 DEF RowsAt
<1>5. Aligned(new, rs) /\ Adds(new, rs, share) /\ SharesOf(share, rs, RequestSites[r])
  BY <1>2, <1>3, <1>4 DEF Aligned, Adds, SharesOf
<1>6. QED
  BY <1>1, <1>3, <1>5, AddsUpTo

(* A row of a project that is closed is back. *)
SettledRows(rs) == \A i \in DOMAIN rs : rs[i].done /\ RequestSites[RequestOf(rs[i])] \in Projects => rs[i].back = rs[i].out

LEMMA RoomIsOutstanding ==
    ASSUME NEW rs, Table(rs), SettledRows(rs), NEW p \in Projects
    PROVE  Spreads(RoomToReturn(rs, p)) = Outstanding(rs, p)
<1>1. PICK room, E, I : room = RoomToReturn(rs, p) /\ E = DOMAIN rs /\ I = RowsAt(rs, p) /\ I \in SUBSET E
  <2>1. RowsAt(rs, p) \in SUBSET DOMAIN rs
    BY DEF RowsAt
  <2>2. QED
    BY <2>1, Zenon
<1>2. IsFiniteSet(E) /\ IsFiniteSet(I)
  BY <1>1, RowsFinite
<1>3. PICK F : F = Aways(rs)
  OBVIOUS
<1>4. \A i \in E : room[i] = IF ~rs[i].done /\ i \in I THEN rs[i].out - rs[i].back ELSE 0
  BY <1>1 DEF RoomToReturn, RowsAt
<1>5. \A i \in E : rs[i].out \in Nat /\ rs[i].back \in Nat /\ rs[i].out - rs[i].back \in Nat /\ F[i] = rs[i].out - rs[i].back
  BY <1>1, <1>3, TableIs, FieldsAre DEF Aways
<1>6. \A i \in I : rs[i].done => rs[i].out - rs[i].back = 0
  BY <1>1, <1>5 DEF SettledRows, RowsAt
<1>7. /\ \A i \in E : room[i] \in Nat
      /\ \A i \in E \ I : room[i] = 0
      /\ \A i \in I : room[i] = F[i]
  BY <1>1, <1>4, <1>5, <1>6
<1>8. SharesOf(room, rs, p)
  BY <1>1, <1>7 DEF SharesOf, RoomToReturn
<1>9. SumOver(room, I) = SumOver(room, E)
  BY <1>1, <1>8, ShareSums
<1>10. SumOver(room, I) = SumOver(F, I)
  BY <1>2, <1>7, SumSame
<1>11. Spreads(room) = SumOver(room, E)
  BY <1>1, <1>2, SumOfIs DEF Spreads, RoomToReturn
<1>12. Outstanding(rs, p) = SumOver(F, I)
  BY <1>1, <1>3, OutstandingIs
<1>13. QED
  BY <1>1, <1>9, <1>10, <1>11, <1>12

(* The rows of p are credited with what came back, as far as they go. *)
LEMMA GaveBackSums ==
    ASSUME NEW rs, Table(rs), SettledRows(rs), NEW p \in Projects, NEW q \in Nat, NEW s
    PROVE  /\ SettledRows(GaveBack(rs, p, q))
           /\ Outstanding(GaveBack(rs, p, q), s) =
                IF s = p THEN Outstanding(rs, s) - Lesser(q, Outstanding(rs, s)) ELSE Outstanding(rs, s)
<1>1. PICK new : new = GaveBack(rs, p, q)
  OBVIOUS
<1>2. Same(new, rs)
  BY <1>1, GaveBackIs
<1>3. PICK share \in [DOMAIN rs -> Nat] : /\ Returns(new, rs, p, share)
                                          /\ SumOver(share, DOMAIN rs) = Lesser(q, Spreads(RoomToReturn(rs, p)))
  BY <1>1, GaveBackIs
<1>4. ASSUME NEW i \in DOMAIN rs
      PROVE  /\ new[i].line = rs[i].line
             /\ rs[i].out - rs[i].back = (new[i].out - new[i].back) + share[i]
             /\ share[i] > 0 => i \in RowsAt(rs, p)
             /\ new[i].done /\ RequestSites[RequestOf(new[i])] \in Projects => new[i].back = new[i].out
  <2>1. PICK x, t : x = rs[i] /\ t = share[i] /\ t \in Nat
    BY <1>3
  <2>2. /\ Row(x) /\ new[i] = Returning(x, t) /\ t <= x.out - x.back
        /\ (t > 0 => ~x.done /\ RequestSites[RequestOf(x)] = p)
    BY <1>3, <2>1, TableIs DEF Returns
  <2>3. PICK y : y = new[i]
    OBVIOUS
  <2>4. /\ y.line = x.line /\ y.out = x.out /\ y.back = x.back + t
        /\ y.done => x.done \/ y.back = y.out
    BY <2>1, <2>2, <2>3, ReturningIs
  <2>5. x.out \in Nat /\ x.back \in Nat
    BY <2>2, FieldsAre
  <2>6. ASSUME y.done, RequestSites[RequestOf(y)] \in Projects PROVE y.back = y.out
    <3>1. CASE y.back = y.out
      BY <3>1
    <3>2. CASE x.done
      <4>1. t = 0
        BY <2>1, <2>2, <3>2
      <4>2. RequestOf(y) = RequestOf(x)
        BY <2>4 DEF RequestOf
      <4>3. x.back = x.out
        BY <2>1, <2>6, <3>2, <4>2 DEF SettledRows
      <4>4. QED
        BY <2>4, <2>5, <4>1, <4>3
    <3>3. QED
      BY <2>4, <2>6, <3>1, <3>2
  <2>7. QED
    BY <2>1, <2>2, <2>3, <2>4, <2>5, <2>6 DEF RowsAt
<1>5. Aligned(new, rs)
  BY <1>2, <1>4 DEF Aligned
<1>6. SharesOf(share, new, p) /\ Adds(rs, new, share) /\ Aligned(rs, new)
  <2>1. \A i \in DOMAIN rs : i \in RowsAt(rs, p) <=> i \in RowsAt(new, p)
    BY <1>5, AlignedIs
  <2>2. QED
    BY <1>2, <1>3, <1>4, <2>1 DEF Aligned, Adds, SharesOf, Same
<1>7. Table(new)
  BY <1>2 DEF Same
<1>8. PICK m : m = SumOver(share, DOMAIN rs)
  OBVIOUS
<1>9. Outstanding(rs, s) = IF s = p THEN Outstanding(new, s) + m ELSE Outstanding(new, s)
  <2>1. DOMAIN new = DOMAIN rs
    BY <1>2 DEF Same
  <2>2. QED
    BY <1>6, <1>7, <1>8, <2>1, AddsUpTo
<1>10. m = Lesser(q, Outstanding(rs, p)) /\ m \in Nat
  <2>1. m = Lesser(q, Outstanding(rs, p)) /\ Outstanding(rs, p) \in Nat
    BY <1>3, <1>8, RoomIsOutstanding, OutstandingIs
  <2>2. QED
    BY <2>1 DEF Lesser
<1>11. Outstanding(new, s) \in Nat /\ Outstanding(rs, s) \in Nat
  BY <1>7, OutstandingIs
<1>12. SettledRows(new)
  BY <1>2, <1>4 DEF SettledRows, Same
<1>13. PICK a, b : a = Outstanding(rs, s) /\ b = Outstanding(new, s)
  OBVIOUS
<1>14. b = IF s = p THEN a - m ELSE a
  BY <1>9, <1>10, <1>11, <1>13
<1>15. QED
  BY <1>1, <1>10, <1>12, <1>13, <1>14

------------------------------------------------------------------------------
(* What every call does to the rows there are. *)

BackOrOpen(x) == x.done /\ RequestSites[RequestOf(x)] \in Projects => x.back = x.out
Idle(x) == x.done \/ Unused(x) = 0

(* y is the row x later on; only rows of the requests R have pieces taken. *)
Grows(y, x, R) ==
    /\ y.line = x.line /\ y.qty <= x.qty /\ x.out <= y.out /\ x.back <= y.back
    /\ RequestOf(x) \notin R => y.out = x.out
    /\ Idle(x) => Idle(y)
    /\ BackOrOpen(x) => BackOrOpen(y)
Grown(new, rs, R) == Same(new, rs) /\ \A i \in DOMAIN rs : Grows(new[i], rs[i], R)

LEMMA GrowsOn ==
    ASSUME NEW x, Row(x), NEW y, Row(y), NEW z, Row(z), NEW R, Grows(y, x, R), Grows(z, y, R)
    PROVE  Grows(z, x, R)
<1>1. /\ x.qty \in Nat /\ x.out \in Nat /\ x.back \in Nat /\ y.qty \in Nat /\ y.out \in Nat /\ y.back \in Nat
      /\ z.qty \in Nat /\ z.out \in Nat /\ z.back \in Nat
  BY FieldsAre
<1>2. RequestOf(y) = RequestOf(x)
  BY DEF Grows, RequestOf
<1>3. QED
  BY <1>1, <1>2 DEF Grows

LEMMA GrownOn ==
    ASSUME NEW rs, Table(rs), NEW mid, NEW new, NEW R, Grown(mid, rs, R), Grown(new, mid, R)
    PROVE  Grown(new, rs, R)
<1>1. /\ Table(mid) /\ Table(new) /\ DOMAIN mid = DOMAIN rs /\ DOMAIN new = DOMAIN rs /\ Same(new, rs)
  BY DEF Grown, Same
<1>2. ASSUME NEW i \in DOMAIN rs PROVE Grows(new[i], rs[i], R)
  <2>1. Row(rs[i]) /\ Row(mid[i]) /\ Row(new[i])
    BY <1>1, TableIs
  <2>2. Grows(mid[i], rs[i], R) /\ Grows(new[i], mid[i], R)
    BY <1>1 DEF Grown
  <2>3. QED
    BY <2>1, <2>2, GrowsOn
<1>3. QED
  BY <1>1, <1>2 DEF Grown

LEMMA GrownWider ==
    ASSUME NEW rs, NEW new, NEW R, NEW S, R \subseteq S, Grown(new, rs, R)
    PROVE  Grown(new, rs, S)
BY DEF Grown, Grows

(* On the lines. *)
Follows(new, rs, R) ==
    \A l \in LineSet : /\ LineOut(rs, l) <= LineOut(new, l) /\ LineBack(rs, l) <= LineBack(new, l)
                       /\ LineOf[l] \notin R => LineOut(new, l) = LineOut(rs, l)

(* No cancelled line or request of ln and st has pieces waiting in rs. *)
Freed(rs, ln, st) ==
    \A i \in DOMAIN rs : ~ln[rs[i].line].open \/ st[RequestOf(rs[i])] = "cancelled" => Idle(rs[i])

LEMMA GrownIs ==
    ASSUME NEW rs, Table(rs), NEW new, NEW R, Grown(new, rs, R)
    PROVE  /\ Table(new) /\ DOMAIN new = DOMAIN rs /\ Len(new) = Len(rs) /\ Aligned(new, rs) /\ Follows(new, rs, R)
           /\ \A l \in LineSet : LineReserved(new, l) <= LineReserved(rs, l)
           /\ SettledRows(rs) => SettledRows(new)
           /\ \A ln, st : Freed(rs, ln, st) => Freed(new, ln, st)
<1>1. Same(new, rs) /\ Table(new) /\ DOMAIN new = DOMAIN rs /\ Len(new) = Len(rs)
  BY DEF Grown, Same
<1>2. \A i \in DOMAIN rs : Grows(new[i], rs[i], R)
  BY DEF Grown
<1>3. Aligned(new, rs)
  BY <1>1, <1>2 DEF Aligned, Grows
<1>4. ASSUME NEW l \in LineSet
      PROVE  /\ LineReserved(new, l) <= LineReserved(rs, l)
             /\ LineOut(rs, l) <= LineOut(new, l) /\ LineBack(rs, l) <= LineBack(new, l)
             /\ LineOf[l] \notin R => LineOut(new, l) = LineOut(rs, l)
  <2>1. \A i \in DOMAIN rs : new[i].qty <= rs[i].qty
    BY <1>2 DEF Grows
  <2>2. LineReserved(new, l) <= LineReserved(rs, l)
    BY <1>3, <2>1, ReservedFalls
  <2>3. \A i \in RowsOf(rs, l) : rs[i].out <= new[i].out /\ rs[i].back <= new[i].back
    BY <1>2 DEF Grows, RowsOf
  <2>4. LineOut(rs, l) <= LineOut(new, l)
    BY <1>3, <2>3, OutGrows
  <2>5. LineBack(rs, l) <= LineBack(new, l)
    BY <1>3, <2>3, BackGrows
  <2>6. ASSUME LineOf[l] \notin R PROVE LineOut(new, l) = LineOut(rs, l)
    <3>1. \A i \in RowsOf(rs, l) : rs[i].out = new[i].out
      BY <1>2, <2>6 DEF Grows, RowsOf, RequestOf
    <3>2. QED
      BY <1>3, <3>1, OutSame
  <2>7. QED
    BY <2>2, <2>4, <2>5, <2>6
<1>5. SettledRows(rs) => SettledRows(new)
  BY <1>1, <1>2 DEF Grows, SettledRows, BackOrOpen
<1>6. ASSUME NEW ln, NEW st, Freed(rs, ln, st) PROVE Freed(new, ln, st)
  <2>1. \A i \in DOMAIN rs : new[i].line = rs[i].line /\ RequestOf(new[i]) = RequestOf(rs[i]) /\ (Idle(rs[i]) => Idle(new[i]))
    BY <1>2 DEF Grows, RequestOf
  <2>2. QED
    BY <1>1, <1>6, <2>1 DEF Freed
<1>7. QED
  BY <1>1, <1>3, <1>4, <1>5, <1>6 DEF Follows

LEMMA TookGrows ==
    ASSUME NEW rs, Table(rs), NEW r, NEW D, NEW q \in Nat
    PROVE  Grown(Took(rs, r, D, q), rs, {r})
<1>1. PICK new : new = Took(rs, r, D, q)
  OBVIOUS
<1>2. Same(new, rs)
  BY <1>1, TookIs
<1>3. PICK share \in [DOMAIN rs -> Nat] : Takes(new, rs, r, D, share)
  BY <1>1, TookIs
<1>4. ASSUME NEW i \in DOMAIN rs PROVE Grows(new[i], rs[i], {r})
  <2>1. PICK x, t, y : x = rs[i] /\ t = share[i] /\ t \in Nat /\ y = new[i]
    BY <1>3
  <2>2. Row(x) /\ y = Taking(x, t) /\ t <= Unused(x) /\ (t > 0 => ~x.done /\ RequestOf(x) = r)
    BY <1>3, <2>1, TableIs DEF Takes
  <2>3. y.line = x.line /\ y.qty = x.qty /\ y.out = x.out + t /\ y.back = x.back /\ y.done = x.done
    BY <2>2, <2>1, TakingIs
  <2>4. x.qty \in Nat /\ x.out \in Nat /\ x.back \in Nat /\ x.out <= x.qty /\ Unused(x) = x.qty - x.out
    BY <2>2, FieldsAre DEF Unused
  <2>5. Unused(y) = x.qty - (x.out + t)
    BY <2>3 DEF Unused
  <2>6. t = 0 \/ (~x.done /\ RequestOf(x) = r)
    BY <2>1, <2>2
  <2>7. RequestOf(y) = RequestOf(x)
    BY <2>3 DEF RequestOf
  <2>8. Idle(x) => Idle(y)
    BY <2>1, <2>2, <2>3, <2>4, <2>5 DEF Idle
  <2>9. BackOrOpen(x) => BackOrOpen(y)
    <3>1. CASE t = 0
      BY <2>3, <2>4, <2>7, <3>1 DEF BackOrOpen
    <3>2. CASE ~x.done
      BY <2>3, <3>2 DEF BackOrOpen
    <3>3. QED
      BY <2>6, <3>1, <3>2
  <2>10. RequestOf(x) \notin {r} => y.out = x.out
    BY <2>3, <2>4, <2>6
  <2>11. QED
    BY <2>1, <2>3, <2>4, <2>8, <2>9, <2>10 DEF Grows
<1>5. QED
  BY <1>1, <1>2, <1>4 DEF Grown

LEMMA GaveBackGrows ==
    ASSUME NEW rs, Table(rs), NEW p, NEW q \in Nat
    PROVE  Grown(GaveBack(rs, p, q), rs, {})
<1>1. PICK new : new = GaveBack(rs, p, q)
  OBVIOUS
<1>2. Same(new, rs)
  BY <1>1, GaveBackIs
<1>3. PICK share \in [DOMAIN rs -> Nat] : Returns(new, rs, p, share)
  BY <1>1, GaveBackIs
<1>4. ASSUME NEW i \in DOMAIN rs PROVE Grows(new[i], rs[i], {})
  <2>1. PICK x, t, y : x = rs[i] /\ t = share[i] /\ t \in Nat /\ y = new[i]
    BY <1>3
  <2>2. Row(x) /\ y = Returning(x, t) /\ t <= x.out - x.back /\ (t > 0 => ~x.done)
    BY <1>3, <2>1, TableIs DEF Returns
  <2>3. /\ y.line = x.line /\ y.qty = x.qty /\ y.out = x.out /\ y.back = x.back + t
        /\ y.done => x.done \/ y.back = y.out
        /\ x.done => y.done
    BY <2>2, <2>1, ReturningIs
  <2>4. x.qty \in Nat /\ x.out \in Nat /\ x.back \in Nat
    BY <2>2, FieldsAre
  <2>5. Unused(y) = Unused(x)
    BY <2>3 DEF Unused
  <2>6. RequestOf(y) = RequestOf(x)
    BY <2>3 DEF RequestOf
  <2>7. Idle(x) => Idle(y)
    BY <2>3, <2>5 DEF Idle
  <2>8. BackOrOpen(x) => BackOrOpen(y)
    <3>1. x.done => y.back = x.back
      BY <2>1, <2>2, <2>3, <2>4
    <3>2. QED
      BY <2>3, <2>6, <3>1 DEF BackOrOpen
  <2>9. x.back <= y.back /\ x.out <= y.out /\ y.qty <= x.qty
    BY <2>1, <2>3, <2>4
  <2>10. QED
    BY <2>1, <2>3, <2>7, <2>8, <2>9 DEF Grows
<1>5. QED
  BY <1>1, <1>2, <1>4 DEF Grown

LEMMA ReleasedGrows ==
    ASSUME NEW rs, Table(rs), NEW I
    PROVE  /\ Grown(Released(rs, I), rs, {})
           /\ \A i \in DOMAIN rs : i \in I => Idle(Released(rs, I)[i])
           /\ \A p : Outstanding(Released(rs, I), p) = Outstanding(rs, p)
<1>1. PICK new : new = Released(rs, I)
  OBVIOUS
<1>2. Same(new, rs) /\ Releases(new, rs, I)
  BY <1>1, ReleasedIs
<1>3. ASSUME NEW i \in DOMAIN rs PROVE Grows(new[i], rs[i], {}) /\ (i \in I => Idle(new[i]))
  <2>1. PICK x, y : x = rs[i] /\ y = new[i]
    OBVIOUS
  <2>2. Row(x) /\ x.qty \in Nat /\ x.out \in Nat /\ x.back \in Nat /\ x.back <= x.out
    BY <2>1, TableIs, FieldsAre
  <2>3. /\ y.line = x.line /\ y.out = x.out /\ y.back = x.back /\ y.qty <= x.qty
        /\ y.done => x.done \/ x.out = 0
        /\ Idle(x) => Idle(y)
        /\ i \in I => Idle(y)
    BY <1>2, <2>1 DEF Releases, Idle
  <2>4. RequestOf(y) = RequestOf(x)
    BY <2>3 DEF RequestOf
  <2>5. BackOrOpen(x) => BackOrOpen(y)
    <3>1. x.out = 0 => x.back = x.out
      BY <2>2
    <3>2. QED
      BY <2>3, <2>4, <3>1 DEF BackOrOpen
  <2>6. x.out <= y.out /\ x.back <= y.back
    BY <2>2, <2>3
  <2>7. QED
    BY <2>1, <2>3, <2>5, <2>6 DEF Grows
<1>4. ASSUME NEW p PROVE Outstanding(new, p) = Outstanding(rs, p)
  <2>1. Aligned(new, rs)
    BY <1>2, <1>3 DEF Aligned, Grows
  <2>2. \A i \in RowsAt(rs, p) : new[i].out - new[i].back = rs[i].out - rs[i].back
    BY <1>2 DEF Releases, RowsAt
  <2>3. QED
    BY <2>1, <2>2, OutstandingSame
<1>5. QED
  BY <1>1, <1>2, <1>3, <1>4 DEF Grown

LEMMA ReplansGrows ==
    ASSUME NEW rs, Table(rs), NEW new, Replans(new, rs)
    PROVE  /\ Grown(new, rs, {})
           /\ \A p : Outstanding(new, p) = Outstanding(rs, p)
<1>1. Same(new, rs)
  BY DEF Replans
<1>2. ASSUME NEW i \in DOMAIN rs PROVE Grows(new[i], rs[i], {})
  <2>1. PICK x, y : x = rs[i] /\ y = new[i]
    OBVIOUS
  <2>2. Row(x) /\ x.qty \in Nat /\ x.out \in Nat /\ x.back \in Nat
    BY <2>1, TableIs, FieldsAre
  <2>3. y.line = x.line /\ y.qty = x.qty /\ y.out = x.out /\ y.back = x.back /\ y.done = x.done
    BY <2>1 DEF Replans
  <2>4. RequestOf(y) = RequestOf(x) /\ Unused(y) = Unused(x)
    BY <2>3 DEF RequestOf, Unused
  <2>5. QED
    BY <2>1, <2>2, <2>3, <2>4 DEF Grows, Idle, BackOrOpen
<1>3. ASSUME NEW p PROVE Outstanding(new, p) = Outstanding(rs, p)
  <2>1. Aligned(new, rs)
    BY <1>1, <1>2 DEF Aligned, Grows
  <2>2. \A i \in RowsAt(rs, p) : new[i].out - new[i].back = rs[i].out - rs[i].back
    BY DEF Replans, RowsAt
  <2>3. QED
    BY <2>1, <2>2, OutstandingSame
<1>4. QED
  BY <1>1, <1>2, <1>3 DEF Grown

------------------------------------------------------------------------------
(* What the status of a request says. *)

SaysOf(s, r, ln, rs) ==
    s \in {"fulfilled", "closed"} =>
        \A l \in OpenLines(ln, r) : LineOut(rs, l) >= ln[l].qty /\ (s = "closed" => LineBack(rs, l) = LineOut(rs, l))
Says(st, ln, rs) == \A r \in ProjectRequests : SaysOf(st[r], r, ln, rs)

LineTable(ln) == ln \in [LineSet -> [open : BOOLEAN, qty : Nat \ {0}]]
(* Some of the open lines are closed. *)
Fewer(ln, old) == LineTable(ln) /\ \A l \in LineSet : ln[l].qty = old[l].qty /\ (ln[l].open => old[l].open)

LEMMA LineSetFinite == IsFiniteSet(LineSet)
<1>1. PICK n \in Nat : n = Len(LineOrder) /\ LineOrder \in [1..n -> LineSet]
  BY PlanningData
<1>2. \A l \in LineSet : \E i \in 1..n : LineOrder[i] = l
  BY <1>1 DEF LineSet, Range
<1>3. IsFiniteSet(1..n)
  BY FS_Interval
<1>4. LineOrder \in Surjection(1..n, LineSet)
  BY <1>1, <1>2 DEF Surjection
<1>5. QED
  BY <1>3, <1>4, FS_Surjection

LEMMA SaysKept ==
    ASSUME NEW rs, Table(rs), NEW new, Table(new), NEW R, Follows(new, rs, R), NEW old, LineTable(old), NEW ln, Fewer(ln, old),
           NEW r, NEW s, SaysOf(s, r, old, rs), r \notin R \/ s \notin {"fulfilled", "closed"}
    PROVE  SaysOf(s, r, ln, new)
<1>1. ASSUME s \in {"fulfilled", "closed"}, NEW l \in OpenLines(ln, r)
      PROVE  LineOut(new, l) >= ln[l].qty /\ (s = "closed" => LineBack(new, l) = LineOut(new, l))
  <2>1. l \in LineSet /\ l \in OpenLines(old, r) /\ LineOf[l] = r /\ r \notin R
    BY <1>1 DEF OpenLines, Fewer
  <2>2. LineOut(rs, l) >= old[l].qty /\ (s = "closed" => LineBack(rs, l) = LineOut(rs, l))
    BY <1>1, <2>1 DEF SaysOf
  <2>3. LineOut(new, l) = LineOut(rs, l) /\ LineBack(rs, l) <= LineBack(new, l)
    BY <2>1 DEF Follows
  <2>4. LineBack(new, l) <= LineOut(new, l) /\ LineOut(rs, l) \in Nat /\ LineBack(rs, l) \in Nat
    BY LineSums
  <2>5. LineBack(new, l) \in Nat
    BY LineSums
  <2>6. ln[l].qty = old[l].qty
    BY <2>1 DEF Fewer
  <2>7. PICK a, b, c : a = LineBack(new, l) /\ b = LineOut(new, l) /\ c = LineBack(rs, l)
    OBVIOUS
  <2>8. ASSUME s = "closed" PROVE a = b
    BY <2>2, <2>3, <2>4, <2>5, <2>7, <2>8
  <2>9. QED
    BY <2>2, <2>3, <2>6, <2>7, <2>8
<1>2. QED
  BY <1>1 DEF SaysOf

(* What inv_refresh_request_status finds is so. *)
LEMMA NewStatusIs ==
    ASSUME NEW r \in Requests, status[r] \in OpenStatuses, NEW ln, LineTable(ln), NEW rs, Table(rs), NEW given
    PROVE  /\ NewStatus(r, ln, rs, given) \in OpenStatuses \cup {"closed"}
           /\ r \in ProjectRequests /\ SaysOf(status[r], r, ln, rs) => SaysOf(NewStatus(r, ln, rs, given), r, ln, rs)
<1> DEFINE L == OpenLines(ln, r)
           filled == \A l \in L : Done(r, l, rs, given) >= ln[l].qty
           F == [l \in LineSet |-> LineBack(rs, l)]
           G == [l \in LineSet |-> LineOut(rs, l)]
           done == IF r \in EmployeeRequests THEN given[r] ELSE SumOf(G, L)
           back == SumOf(F, L)
<1>1. PICK s : s = NewStatus(r, ln, rs, given)
  OBVIOUS
<1>2. s = IF filled /\ r \in ProjectRequests /\ done > 0 /\ back = done THEN "closed"
          ELSE IF filled THEN "fulfilled"
          ELSE IF done > 0 THEN "in_progress" ELSE status[r]
  BY <1>1 DEF NewStatus
<1>3. L \in SUBSET LineSet /\ IsFiniteSet(L)
  <2>1. L \in SUBSET LineSet
    BY DEF OpenLines
  <2> HIDE DEF L
  <2>2. QED
    BY <2>1, LineSetFinite, FS_Subset
<1> HIDE DEF filled, done, back
<1>4. s \in OpenStatuses \cup {"closed"}
  BY <1>2 DEF OpenStatuses, Live
<1>5. ASSUME r \in ProjectRequests, SaysOf(status[r], r, ln, rs) PROVE SaysOf(s, r, ln, rs)
  <2>1. r \notin EmployeeRequests
    BY <1>5 DEF EmployeeRequests
  <2>2. ASSUME filled, NEW l \in L PROVE LineOut(rs, l) >= ln[l].qty
    BY <2>1, <2>2 DEF filled, Done
  <2>3. ASSUME back = done, NEW l \in L PROVE LineBack(rs, l) = LineOut(rs, l)
    <3>1. back = SumOf(F, L) /\ done = SumOf(G, L)
      BY <2>1 DEF back, done
    <3>2. ASSUME NEW m \in L PROVE F[m] = LineBack(rs, m) /\ G[m] = LineOut(rs, m)
      BY <1>3
    <3>3. ASSUME NEW m \in L PROVE F[m] \in Int /\ G[m] \in Int /\ F[m] <= G[m]
      <4>1. LineBack(rs, m) \in Nat /\ LineOut(rs, m) \in Nat /\ LineBack(rs, m) <= LineOut(rs, m)
        BY LineSums
      <4>2. QED
        BY <3>2, <4>1
    <3> HIDE DEF F, G, L
    <3>4. SumOver(F, L) = SumOver(G, L)
      BY <1>3, <2>3, <3>1, SumOfIs
    <3>5. F[l] = G[l]
      BY <1>3, <2>3, <3>3, <3>4, SumTight
    <3>6. QED
      BY <2>3, <3>2, <3>5
  <2>4. ASSUME s \in {"fulfilled", "closed"}, NEW l \in OpenLines(ln, r)
        PROVE  LineOut(rs, l) >= ln[l].qty /\ (s = "closed" => LineBack(rs, l) = LineOut(rs, l))
    <3>1. CASE filled
      <4>1. s = "closed" => back = done
        BY <1>2, <3>1
      <4>2. QED
        BY <2>2, <2>3, <2>4, <3>1, <4>1
    <3>2. CASE ~filled
      <4>1. s = status[r]
        BY <1>2, <2>4, <3>2
      <4>2. QED
        BY <1>5, <2>4, <4>1 DEF SaysOf
    <3>3. QED
      BY <3>1, <3>2
  <2>5. QED
    BY <2>4 DEF SaysOf
<1>6. QED
  BY <1>1, <1>4, <1>5

Statuses == OpenStatuses \cup {"closed", "cancelled"}

LEMMA RefreshedIs ==
    ASSUME status \in [Requests -> Statuses], NEW ln, LineTable(ln), NEW rs, Table(rs), NEW R, NEW given,
           \A r \in ProjectRequests : SaysOf(status[r], r, ln, rs)
    PROVE  LET st == Refreshed(R, ln, rs, given)
           IN  /\ st \in [Requests -> Statuses]
               /\ \A r \in Requests : (st[r] = "cancelled") => (status[r] = "cancelled")
               /\ Says(st, ln, rs)
<1>1. PICK st : st = Refreshed(R, ln, rs, given)
  OBVIOUS
<1>2. st = [r \in Requests |-> st[r]]
  BY <1>1 DEF Refreshed
<1>3. ASSUME NEW r \in Requests
      PROVE  /\ st[r] \in Statuses /\ (st[r] = "cancelled" => status[r] = "cancelled")
             /\ r \in ProjectRequests => SaysOf(st[r], r, ln, rs)
  <2>1. st[r] = status[r] \/ (status[r] \in OpenStatuses /\ st[r] = NewStatus(r, ln, rs, given))
    BY <1>1 DEF Refreshed
  <2>2. CASE st[r] = status[r]
    BY <2>2
  <2>3. CASE status[r] \in OpenStatuses /\ st[r] = NewStatus(r, ln, rs, given)
    <3>1. st[r] \in OpenStatuses \cup {"closed"} /\ (r \in ProjectRequests => SaysOf(st[r], r, ln, rs))
      BY <2>3, NewStatusIs
    <3>2. QED
      BY <3>1 DEF Statuses, OpenStatuses, Live
  <2>4. QED
    BY <2>1, <2>2, <2>3
<1>4. Says(st, ln, rs)
  BY <1>3 DEF Says, ProjectRequests
<1>5. QED
  BY <1>1, <1>2, <1>3, <1>4

------------------------------------------------------------------------------
(* What is free. *)

PlacesOK ==
    /\ now \in 0..MaxTime
    /\ shelf \in [Depots -> Nat] /\ faulty \in [Depots -> Nat] /\ person \in Nat
    /\ site \in [Projects -> [qty : Nat, due : 0..MaxTime, from : SUBSET Depots]]
    /\ transit \in [Depots -> [qty : Nat, at : 0..MaxTime]]
    /\ ended \subseteq Projects
    /\ calls \in 0..MaxCalls
PlansOK ==
    /\ status \in [Requests -> Statuses]
    /\ window \in [Requests -> Windows]
    /\ LineTable(line)
    /\ Table(res)
    /\ issued \in [EmployeeRequests -> Nat]

LEMMA TypesAre == PlanningTypeOK <=> PlacesOK /\ PlansOK
<1>1. Table(res) <=> /\ res \in Seq(Reservation)
                     /\ \A i \in DOMAIN res :
                          /\ res[i].back <= res[i].out /\ res[i].out <= res[i].qty /\ res[i].lo < res[i].hi
                          /\ res[i].done \/ res[i].qty > 0
  BY DEF Table, SoundRow
<1>2. QED
  BY <1>1, Zenon DEF PlanningTypeOK, PlacesOK, PlansOK, LineTable, Statuses

Sites(d, from) == {p \in Projects : d \in site[p].from /\ now < site[p].due /\ site[p].due <= from}
SiteQtys == [p \in Projects |-> site[p].qty]

LEMMA ReturnsAre ==
    ASSUME PlacesOK, NEW d \in Depots, NEW from \in Int
    PROVE  /\ OnTimeReturns(d, from) = SumOver(SiteQtys, Sites(d, from)) /\ OnTimeReturns(d, from) \in Nat
           /\ OnTimeArrivals(d, from) \in Nat
           /\ from <= now => OnTimeReturns(d, from) = 0 /\ OnTimeArrivals(d, from) = 0
           /\ \A t \in Int : from <= t => /\ OnTimeReturns(d, from) <= OnTimeReturns(d, t)
                                          /\ OnTimeArrivals(d, from) <= OnTimeArrivals(d, t)
<1>1. IsFiniteSet(Projects) /\ \A p \in Projects : SiteQtys[p] \in Nat /\ site[p].due \in Int
  BY PlanningData DEF PlacesOK, SiteQtys
<1>2. ASSUME NEW t \in Int
      PROVE  /\ OnTimeReturns(d, t) = SumOver(SiteQtys, Sites(d, t)) /\ OnTimeReturns(d, t) \in Nat
             /\ Sites(d, t) \in SUBSET Projects /\ OnTimeArrivals(d, t) \in Nat
  <2>1. Sites(d, t) \in SUBSET Projects
    BY DEF Sites
  <2>2. PICK S : S = Sites(d, t) /\ IsFiniteSet(S)
    BY <1>1, <2>1, FS_Subset
  <2>3. OnTimeReturns(d, t) = SumOf(SiteQtys, S)
    BY <2>2 DEF OnTimeReturns, SiteQtys, Sites
  <2>4. \A p \in S : SiteQtys[p] \in Nat
    BY <1>1, <2>1, <2>2
  <2>5. SumOf(SiteQtys, S) = SumOver(SiteQtys, S) /\ SumOver(SiteQtys, S) \in Nat
    BY <2>2, <2>4, SumOfIs, SumNat
  <2>6. OnTimeArrivals(d, t) \in Nat
    BY DEF OnTimeArrivals, PlacesOK
  <2>7. QED
    BY <2>1, <2>2, <2>3, <2>5, <2>6
<1>3. ASSUME from <= now PROVE OnTimeReturns(d, from) = 0 /\ OnTimeArrivals(d, from) = 0
  <2>1. now \in Int /\ transit[d].at \in Int
    BY DEF PlacesOK
  <2>2. Sites(d, from) = {}
    BY <1>1, <1>3, <2>1 DEF Sites
  <2>3. OnTimeArrivals(d, from) = 0
    BY <1>3, <2>1 DEF OnTimeArrivals
  <2>4. OnTimeReturns(d, from) = 0
    BY <1>2, <2>2, SumNone
  <2>5. QED
    BY <2>3, <2>4
<1>4. ASSUME NEW t \in Int, from <= t
      PROVE  OnTimeReturns(d, from) <= OnTimeReturns(d, t) /\ OnTimeArrivals(d, from) <= OnTimeArrivals(d, t)
  <2>1. PICK W, V : W = Sites(d, from) /\ V = Sites(d, t) /\ W \in SUBSET Projects /\ V \in SUBSET Projects
    BY <1>2
  <2>2. W \ V = {}
    BY <1>1, <1>4, <2>1 DEF Sites
  <2>3. \A p \in Projects : SiteQtys[p] \in Int /\ SiteQtys[p] >= 0
    BY <1>1
  <2>4. SumOver(SiteQtys, W) <= SumOver(SiteQtys, V)
    BY <1>1, <2>1, <2>2, <2>3, SumCovers
  <2>5. OnTimeArrivals(d, from) <= OnTimeArrivals(d, t)
    BY <1>4 DEF OnTimeArrivals, PlacesOK
  <2>6. QED
    BY <1>2, <2>1, <2>4, <2>5
<1>5. QED
  BY <1>2, <1>3, <1>4

Unuseds(rs) == [i \in DOMAIN rs |-> Unused(rs[i])]
BookedRows(rs, d, from, until, own) ==
    {i \in DOMAIN rs : ~rs[i].done /\ rs[i].depot = d /\ Overlaps(rs[i], from, until) /\ rs[i].line \notin own}

LEMMA UnusedsAre ==
    ASSUME NEW rs, Table(rs), NEW I \in SUBSET DOMAIN rs
    PROVE  /\ IsFiniteSet(I) /\ \A i \in I : Unuseds(rs)[i] = Unused(rs[i]) /\ Unuseds(rs)[i] \in Nat
           /\ SumOf(Unuseds(rs), I) = SumOver(Unuseds(rs), I) /\ SumOver(Unuseds(rs), I) \in Nat
<1>1. IsFiniteSet(I)
  BY RowsFinite
<1>2. \A i \in I : Unuseds(rs)[i] = Unused(rs[i]) /\ Unuseds(rs)[i] \in Nat
  BY TableIs, FieldsAre DEF Unuseds
<1>3. QED
  BY <1>1, <1>2, SumOfIs, SumNat

LEMMA BookedIs ==
    ASSUME NEW rs, Table(rs), NEW d, NEW from, NEW until, NEW own
    PROVE  /\ Booked(rs, d, from, until, own) = SumOver(Unuseds(rs), BookedRows(rs, d, from, until, own))
           /\ Booked(rs, d, from, until, own) \in Nat
<1>1. PICK I \in SUBSET DOMAIN rs : I = BookedRows(rs, d, from, until, own)
  BY DEF BookedRows
<1>2. Booked(rs, d, from, until, own) = SumOf(Unuseds(rs), I)
  BY <1>1 DEF Booked, Total, Unuseds, BookedRows
<1>3. QED
  BY <1>1, <1>2, UnusedsAre

(* More or less than nothing is left of what is there or coming. *)
Left(rs, d, from, until) ==
    shelf[d] + OnTimeReturns(d, from) + OnTimeArrivals(d, from) - Booked(rs, d, from, until, {})

LEMMA FreeIs ==
    ASSUME PlacesOK, NEW rs, Table(rs), NEW d \in Depots, NEW from \in Int, NEW until
    PROVE  /\ Left(rs, d, from, until) \in Int
           /\ Free(rs, d, from, until, {}) = Above(Left(rs, d, from, until))
           /\ Free(rs, d, from, until, {}) \in Nat
<1>1. OnTimeReturns(d, from) \in Nat /\ OnTimeArrivals(d, from) \in Nat /\ Booked(rs, d, from, until, {}) \in Nat
  BY ReturnsAre, BookedIs
<1>2. shelf[d] \in Nat
  BY DEF PlacesOK
<1>3. PICK n : n = Left(rs, d, from, until)
  OBVIOUS
<1>4. n \in Int
  BY <1>1, <1>2, <1>3 DEF Left
<1>5. Free(rs, d, from, until, {}) = Max({0, n})
  BY <1>3 DEF Free, Left
<1>6. Max({0, n}) = Above(n)
  BY <1>4, MaxIsAbove
<1>7. QED
  BY <1>3, <1>4, <1>5, <1>6 DEF Above

(* What is reserved at an instant. *)
Demand(rs, d, t) == Total(rs, Unused, LAMBDA x : ~x.done /\ x.depot = d /\ x.lo <= t /\ t < x.hi)
Wanted(rs, d, t) == {i \in DOMAIN rs : ~rs[i].done /\ rs[i].depot = d /\ rs[i].lo <= t /\ t < rs[i].hi}

LEMMA DemandIs ==
    ASSUME NEW rs, Table(rs), NEW d, NEW t
    PROVE  Demand(rs, d, t) = SumOver(Unuseds(rs), Wanted(rs, d, t)) /\ Demand(rs, d, t) \in Nat
<1>1. PICK I \in SUBSET DOMAIN rs : I = Wanted(rs, d, t)
  BY DEF Wanted
<1>2. Demand(rs, d, t) = SumOf(Unuseds(rs), I)
  BY <1>1 DEF Demand, Total, Unuseds, Wanted
<1>3. QED
  BY <1>1, <1>2, UnusedsAre

LEMMA DemandIsBooked ==
    ASSUME NEW rs, Table(rs), NEW d, NEW from \in Int, NEW until \in Int, NEW t \in Int, from <= t, t < until
    PROVE  Demand(rs, d, t) <= Booked(rs, d, from, until, {})
<1>1. PICK W, V : W = Wanted(rs, d, t) /\ V = BookedRows(rs, d, from, until, {})
  OBVIOUS
<1>2. W \in SUBSET DOMAIN rs /\ V \in SUBSET DOMAIN rs /\ DOMAIN rs \in SUBSET DOMAIN rs
  BY <1>1 DEF Wanted, BookedRows
<1>3. \A i \in DOMAIN rs : rs[i].lo \in Int /\ rs[i].hi \in Int
  BY TableIs, FieldsAre DEF Dates
<1>4. W \ V = {}
  BY <1>1, <1>3 DEF Wanted, BookedRows, Overlaps
<1>5. IsFiniteSet(DOMAIN rs) /\ \A i \in DOMAIN rs : Unuseds(rs)[i] \in Nat
  BY <1>2, UnusedsAre
<1>6. \A i \in DOMAIN rs : Unuseds(rs)[i] \in Int /\ Unuseds(rs)[i] >= 0
  BY <1>5
<1>7. SumOver(Unuseds(rs), W) <= SumOver(Unuseds(rs), V)
  BY <1>2, <1>4, <1>5, <1>6, SumCovers
<1>8. QED
  BY <1>1, <1>7, DemandIs, BookedIs

(* Everything reserved at an instant of a period is covered by what inv_qty_free
   counts at its start, if anything is left for it. *)
LEMMA LeftCovers ==
    ASSUME PlacesOK, NEW rs, Table(rs), NEW d \in Depots, NEW from \in Int, NEW until \in Int, NEW q \in Nat, q > 0,
           q <= Free(rs, d, from, until, {}), NEW t \in Int, from <= t, t < until
    PROVE  Demand(rs, d, t) + q <= shelf[d] + OnTimeReturns(d, from) + OnTimeArrivals(d, from)
<1>1. PICK a, b, c, e : /\ a = OnTimeReturns(d, from) /\ b = OnTimeArrivals(d, from)
                        /\ c = Booked(rs, d, from, until, {}) /\ e = Demand(rs, d, t)
  OBVIOUS
<1>2. a \in Nat /\ b \in Nat /\ c \in Nat /\ e \in Nat /\ shelf[d] \in Nat
  BY <1>1, ReturnsAre, BookedIs, DemandIs DEF PlacesOK
<1>3. e <= c
  BY <1>1, DemandIsBooked
<1>4. Left(rs, d, from, until) = shelf[d] + a + b - c
  BY <1>1 DEF Left
<1>5. q <= Above(Left(rs, d, from, until)) /\ Left(rs, d, from, until) \in Int
  BY FreeIs
<1>6. q <= shelf[d] + a + b - c
  BY <1>4, <1>5 DEF Above
<1>7. QED
  BY <1>1, <1>2, <1>3, <1>6

(* "Nothing is ever displaced": what leaves without a reservation. *)
LEMMA LeavesEnough ==
    ASSUME PlacesOK, Table(res), now' = now, res' = res, NEW d \in Depots, NEW q \in Amounts, NEW until \in Int,
           q <= FreeNow(d, until), OffShelf(d, q)
    PROVE  Spared(d, until)'
<1>1. now \in Int /\ q \in Nat /\ q > 0 /\ shelf'[d] = shelf[d] - q /\ shelf[d] \in Nat
  BY PlanningData DEF PlacesOK, OffShelf, Amounts
<1>2. SUFFICES ASSUME NEW t \in now..(until - 1) PROVE Demand(res, d, t) <= shelf'[d]
  <2>1. \A t : DemandAt(d, t)' = Demand(res', d, t)
    BY DEF DemandAt, Demand, Total
  <2>2. \A t : DemandAt(d, t)' = Demand(res, d, t)
    BY <2>1, Zenon
  <2>3. QED
    BY <2>2 DEF Spared
<1>3. t \in Int /\ now <= t /\ t < until /\ Demand(res, d, t) \in Nat
  BY <1>1, DemandIs
<1>4. Demand(res, d, t) + q <= shelf[d] + OnTimeReturns(d, now) + OnTimeArrivals(d, now)
  BY <1>1, <1>3, LeftCovers DEF FreeNow
<1>5. OnTimeReturns(d, now) = 0 /\ OnTimeArrivals(d, now) = 0
  BY <1>1, ReturnsAre
<1>6. QED
  BY <1>1, <1>3, <1>4, <1>5

LEMMA DisplacesNothing ==
    ASSUME PlanningTypeOK, [PlanningNext]_planningVars
    PROVE  [shelf' # shelf /\ res' = res => \A d \in Depots, q \in Amounts :
              /\ \A p \in Projects, due \in Dates : Dispatch(d, p, q, due) => Spared(d, due)'
              /\ \A until \in Dates \cup {Never} : Issue(d, q, until) => Spared(d, until)'
              /\ \A e \in Depots, at \in Dates \cup {None} : SendTransfer(d, e, q, at) => Spared(d, Never)']_planningVars
<1>1. PlacesOK /\ Table(res)
  BY TypesAre DEF PlansOK
<1>2. SUFFICES ASSUME res' = res, NEW d \in Depots, NEW q \in Amounts
      PROVE  /\ \A p \in Projects, due \in Dates : Dispatch(d, p, q, due) => Spared(d, due)'
             /\ \A until \in Dates \cup {Never} : Issue(d, q, until) => Spared(d, until)'
             /\ \A e \in Depots, at \in Dates \cup {None} : SendTransfer(d, e, q, at) => Spared(d, Never)'
  OBVIOUS
<1>3. Never \in Int /\ \A t \in Dates \cup {Never} : t \in Int
  BY PlanningData DEF Never, Dates
<1>4. ASSUME NEW p \in Projects, NEW due \in Dates, Dispatch(d, p, q, due) PROVE Spared(d, due)'
  <2>1. now' = now /\ due \in Int /\ q <= FreeNow(d, due) /\ OffShelf(d, q)
    BY <1>3, <1>4 DEF Dispatch, Call
  <2>2. QED
    BY <1>1, <1>2, <2>1, LeavesEnough
<1>5. ASSUME NEW until \in Dates \cup {Never}, Issue(d, q, until) PROVE Spared(d, until)'
  <2>1. now' = now /\ until \in Int /\ q <= FreeNow(d, until) /\ OffShelf(d, q)
    BY <1>3, <1>5 DEF Issue, Call
  <2>2. QED
    BY <1>1, <1>2, <2>1, LeavesEnough
<1>6. ASSUME NEW e \in Depots, NEW at \in Dates \cup {None}, SendTransfer(d, e, q, at) PROVE Spared(d, Never)'
  <2>1. now' = now /\ q <= FreeNow(d, Never) /\ OffShelf(d, q)
    BY <1>6 DEF SendTransfer, Call
  <2>2. QED
    BY <1>1, <1>2, <1>3, <2>1, LeavesEnough
<1>7. QED
  BY <1>4, <1>5, <1>6

------------------------------------------------------------------------------
(* The rows, the lines, what is on the projects and the statuses agree. *)

Agree(rs, ln, st, sts) ==
    /\ \A l \in LineSet : LineReserved(rs, l) <= ln[l].qty
    /\ \A p \in Projects : Outstanding(rs, p) <= st[p].qty
    /\ Freed(rs, ln, sts)
    /\ Says(sts, ln, rs)
    /\ SettledRows(rs)

PlanInv == PlacesOK /\ PlansOK /\ Agree(res, line, site, status)

LEMMA PlanInvSays == PlanInv => PlanningTypeOK /\ RowsAgree /\ StatusTrue
<1>1. SUFFICES ASSUME PlanInv PROVE PlanningTypeOK /\ RowsAgree /\ StatusTrue
  OBVIOUS
<1>2. PlanningTypeOK
  BY <1>1, TypesAre DEF PlanInv
<1>3. LineNeverOverReserved
  BY <1>1 DEF PlanInv, Agree, LineNeverOverReserved
<1>4. OutstandingOnSite
  <2>1. \A p \in Projects : Outstanding(res, p) <= site[p].qty
    BY <1>1 DEF PlanInv, Agree
  <2>2. QED
    BY <2>1 DEF OutstandingOnSite, Outstanding, Total
<1>5. CancelledHoldsNothing
  BY <1>1 DEF PlanInv, Agree, Freed, Idle, CancelledHoldsNothing
<1>6. StatusTrue
  BY <1>1 DEF PlanInv, Agree, Says, SaysOf, StatusTrue
<1>7. QED
  BY <1>2, <1>3, <1>4, <1>5, <1>6 DEF RowsAgree

LEMMA FollowsOn ==
    ASSUME NEW rs, Table(rs), NEW mid, Table(mid), NEW new, Table(new), NEW R, Follows(mid, rs, R), Follows(new, mid, R)
    PROVE  Follows(new, rs, R)
<1>1. ASSUME NEW l \in LineSet
      PROVE  /\ LineOut(rs, l) <= LineOut(new, l) /\ LineBack(rs, l) <= LineBack(new, l)
             /\ LineOf[l] \notin R => LineOut(new, l) = LineOut(rs, l)
  <2>1. PICK a, b, c, d, e, f : /\ a = LineOut(rs, l) /\ b = LineOut(mid, l) /\ c = LineOut(new, l)
                                /\ d = LineBack(rs, l) /\ e = LineBack(mid, l) /\ f = LineBack(new, l)
    OBVIOUS
  <2>2. a \in Nat /\ b \in Nat /\ c \in Nat /\ d \in Nat /\ e \in Nat /\ f \in Nat
    BY <2>1, LineSums
  <2>3. a <= b /\ b <= c /\ d <= e /\ e <= f /\ (LineOf[l] \notin R => b = a /\ c = b)
    BY <2>1 DEF Follows
  <2>4. QED
    BY <2>1, <2>2, <2>3
<1>2. QED
  BY <1>1 DEF Follows

LEMMA LongerIs ==
    ASSUME NEW rs, Table(rs), NEW x, Row(x), NEW new, Longer(new, rs, x), ~x.done
    PROVE  /\ Table(new) /\ Follows(new, rs, {RequestOf(x)})
           /\ SettledRows(rs) => SettledRows(new)
           /\ \A ln, st : Freed(rs, ln, st) /\ ln[x.line].open /\ st[RequestOf(x)] # "cancelled" => Freed(new, ln, st)
<1>1. PICK k : k = Len(new)
  OBVIOUS
<1>2. /\ Table(new) /\ DOMAIN new = DOMAIN rs \cup {k} /\ k \notin DOMAIN rs /\ new[k] = x
      /\ \A i \in DOMAIN rs : new[i] = rs[i]
  BY <1>1 DEF Longer
<1>3. ASSUME NEW l \in LineSet
      PROVE  /\ LineOut(rs, l) <= LineOut(new, l) /\ LineBack(rs, l) <= LineBack(new, l)
             /\ LineOf[l] \notin {RequestOf(x)} => LineOut(new, l) = LineOut(rs, l)
  <2>1. /\ LineOut(new, l) = IF x.line = l THEN LineOut(rs, l) + x.out ELSE LineOut(rs, l)
        /\ LineBack(new, l) = IF x.line = l THEN LineBack(rs, l) + x.back ELSE LineBack(rs, l)
    BY LongerSums
  <2>2. LineOut(rs, l) \in Nat /\ LineBack(rs, l) \in Nat /\ x.out \in Nat /\ x.back \in Nat
    BY LineSums, FieldsAre
  <2>3. LineOf[l] # RequestOf(x) => x.line # l
    BY DEF RequestOf
  <2>4. QED
    BY <2>1, <2>2, <2>3
<1>4. SettledRows(rs) => SettledRows(new)
  BY <1>2 DEF SettledRows
<1>5. ASSUME NEW ln, NEW st, Freed(rs, ln, st), ln[x.line].open, st[RequestOf(x)] # "cancelled" PROVE Freed(new, ln, st)
  BY <1>2, <1>5 DEF Freed
<1>6. QED
  BY <1>2, <1>3, <1>4, <1>5 DEF Follows

(* Rows and lines that what the statuses said before is true of. *)
Ready(rs, ln) ==
    /\ Table(rs) /\ LineTable(ln) /\ \A l \in LineSet : LineReserved(rs, l) <= ln[l].qty
    /\ \A r \in ProjectRequests : SaysOf(status[r], r, ln, rs)
    /\ SettledRows(rs) /\ Freed(rs, line, status)

(* A call that changes rows. *)
LEMMA RowsKeep ==
    ASSUME PlanInv, NEW rs, NEW R, Grown(rs, res, R), \A r \in R : status[r] \in Live, NEW ln, Fewer(ln, line)
    PROVE  Ready(rs, ln) /\ Follows(rs, res, R)
<1>1. Table(res) /\ LineTable(line) /\ LineTable(ln) /\ status \in [Requests -> Statuses]
  BY DEF PlanInv, PlansOK, Fewer
<1>2. /\ Table(rs) /\ Follows(rs, res, R)
      /\ \A l \in LineSet : LineReserved(rs, l) <= LineReserved(res, l)
      /\ SettledRows(rs) /\ Freed(rs, line, status)
  BY <1>1, GrownIs DEF PlanInv, Agree
<1>3. ASSUME NEW l \in LineSet PROVE LineReserved(rs, l) <= ln[l].qty
  <2>1. PICK a, b : a = LineReserved(rs, l) /\ b = LineReserved(res, l)
    OBVIOUS
  <2>2. a \in Nat /\ b \in Nat
    BY <1>1, <1>2, <2>1, LineSums
  <2>3. a <= b /\ b <= line[l].qty /\ ln[l].qty = line[l].qty /\ ln[l].qty \in Nat
    BY <1>1, <1>2, <2>1 DEF PlanInv, Agree, Fewer, LineTable
  <2>4. QED
    BY <2>1, <2>2, <2>3
<1>4. ASSUME NEW r \in ProjectRequests PROVE SaysOf(status[r], r, ln, rs)
  <2>1. SaysOf(status[r], r, line, res)
    BY DEF PlanInv, Agree, Says
  <2>2. r \notin R \/ status[r] \notin {"fulfilled", "closed"}
    BY DEF Live
  <2>3. PICK s : s = status[r]
    OBVIOUS
  <2>4. SaysOf(s, r, ln, rs)
    BY <1>1, <1>2, <2>1, <2>2, <2>3, SaysKept
  <2>5. QED
    BY <2>3, <2>4
<1>5. QED
  BY <1>1, <1>2, <1>3, <1>4 DEF Ready

(* ... and one that adds a row. *)
LEMMA LongerReady ==
    ASSUME status \in [Requests -> Statuses], NEW rs, Ready(rs, line), NEW x, Row(x), NEW new, Longer(new, rs, x), ~x.done,
           status[RequestOf(x)] \in Live, line[x.line].open, LineReserved(rs, x.line) + x.qty <= line[x.line].qty
    PROVE  Ready(new, line)
<1>1. /\ Table(rs) /\ LineTable(line) /\ \A l \in LineSet : LineReserved(rs, l) <= line[l].qty
      /\ \A r \in ProjectRequests : SaysOf(status[r], r, line, rs)
      /\ SettledRows(rs) /\ Freed(rs, line, status)
  BY DEF Ready
<1>2. status[RequestOf(x)] # "cancelled" /\ status[RequestOf(x)] \notin {"fulfilled", "closed"}
  BY DEF Live
<1>3. Table(new) /\ Follows(new, rs, {RequestOf(x)}) /\ SettledRows(new) /\ Freed(new, line, status)
  BY <1>1, <1>2, LongerIs
<1>4. \A l \in LineSet : LineReserved(new, l) <= line[l].qty
  BY <1>1, LongerSums
<1>5. Fewer(line, line)
  BY <1>1 DEF Fewer
<1>6. ASSUME NEW r \in ProjectRequests PROVE SaysOf(status[r], r, line, new)
  <2>1. PICK s, R : s = status[r] /\ R = {RequestOf(x)}
    OBVIOUS
  <2>2. SaysOf(s, r, line, rs) /\ (r \notin R \/ s \notin {"fulfilled", "closed"}) /\ Follows(new, rs, R)
    BY <1>1, <1>2, <1>3, <2>1
  <2>3. SaysOf(s, r, line, new)
    BY <1>1, <1>3, <1>5, <2>2, SaysKept
  <2>4. QED
    BY <2>1, <2>3
<1>7. QED
  BY <1>1, <1>3, <1>4, <1>6 DEF Ready

(* Rows that were free of cancelled lines and requests still are. *)
LEMMA FreedStill ==
    ASSUME NEW rs, NEW old, NEW st, Freed(rs, old, st), NEW ln, NEW sts,
           \A i \in DOMAIN rs : ~ln[rs[i].line].open => ~old[rs[i].line].open \/ Idle(rs[i]),
           \A i \in DOMAIN rs : sts[RequestOf(rs[i])] = "cancelled" => st[RequestOf(rs[i])] = "cancelled" \/ Idle(rs[i])
    PROVE  Freed(rs, ln, sts)
BY DEF Freed

LEMMA LinesStill == ASSUME PlanInv PROVE Fewer(line, line)
BY DEF PlanInv, PlansOK, Fewer

(* ... and the statuses of the requests S are taken anew. *)
LEMMA RefreshKeeps ==
    ASSUME status \in [Requests -> Statuses], NEW rs, NEW ln, Ready(rs, ln),
           \A i \in DOMAIN rs : ~ln[rs[i].line].open => ~line[rs[i].line].open \/ Idle(rs[i]),
           NEW st, \A p \in Projects : Outstanding(rs, p) <= st[p].qty, NEW S, NEW given
    PROVE  /\ Table(rs) /\ LineTable(ln) /\ Refreshed(S, ln, rs, given) \in [Requests -> Statuses]
           /\ Agree(rs, ln, st, Refreshed(S, ln, rs, given))
<1>1. PICK sts : sts = Refreshed(S, ln, rs, given)
  OBVIOUS
<1>2. /\ Table(rs) /\ \A l \in LineSet : LineReserved(rs, l) <= ln[l].qty
      /\ \A r \in ProjectRequests : SaysOf(status[r], r, ln, rs)
      /\ SettledRows(rs) /\ Freed(rs, line, status) /\ LineTable(ln)
  BY DEF Ready
<1>3. /\ sts \in [Requests -> Statuses] /\ Says(sts, ln, rs)
      /\ \A r \in Requests : (sts[r] = "cancelled") => (status[r] = "cancelled")
  BY <1>1, <1>2, RefreshedIs
<1>4. \A i \in DOMAIN rs : RequestOf(rs[i]) \in Requests
  BY <1>2, TableIs, FieldsAre
<1>5. \A i \in DOMAIN rs : sts[RequestOf(rs[i])] = "cancelled" => status[RequestOf(rs[i])] = "cancelled" \/ Idle(rs[i])
  BY <1>3, <1>4
<1>6. Freed(rs, ln, sts)
  BY <1>2, <1>5, FreedStill
<1>7. QED
  BY <1>1, <1>2, <1>3, <1>6 DEF Agree

(* ... and requests are cancelled. *)
LEMMA CancelCallKeeps ==
    ASSUME PlanInv, NEW rs, Grown(rs, res, {}), NEW ln, Fewer(ln, line),
           \A i \in DOMAIN rs : ~ln[rs[i].line].open => ~line[rs[i].line].open \/ Idle(rs[i]),
           \A p \in Projects : Outstanding(rs, p) <= site[p].qty,
           NEW sts \in [Requests -> Statuses], \A r \in Requests : sts[r] = status[r] \/ sts[r] = "cancelled",
           \A i \in DOMAIN rs : sts[RequestOf(rs[i])] = "cancelled" => status[RequestOf(rs[i])] = "cancelled" \/ Idle(rs[i])
    PROVE  Table(rs) /\ LineTable(ln) /\ Agree(rs, ln, site, sts)
<1>1. /\ Table(rs) /\ \A l \in LineSet : LineReserved(rs, l) <= ln[l].qty
      /\ \A r \in ProjectRequests : SaysOf(status[r], r, ln, rs)
      /\ SettledRows(rs) /\ Freed(rs, line, status) /\ LineTable(ln)
  <2>1. \A r \in {} : status[r] \in Live
    OBVIOUS
  <2>2. QED
    BY <2>1, RowsKeep DEF Ready
<1>2. Freed(rs, ln, sts)
  BY <1>1, FreedStill
<1>3. ASSUME NEW r \in ProjectRequests PROVE SaysOf(sts[r], r, ln, rs)
  <2>1. CASE sts[r] = status[r]
    BY <1>1, <2>1
  <2>2. CASE sts[r] = "cancelled"
    BY <2>2 DEF SaysOf
  <2>3. r \in Requests
    BY DEF ProjectRequests
  <2>4. QED
    BY <2>1, <2>2, <2>3
<1>4. QED
  BY <1>1, <1>2, <1>3 DEF Agree, Says

------------------------------------------------------------------------------
(* Calls that move stock and leave the plans alone. *)

LEMMA CallIs ==
    ASSUME PlacesOK, Call
    PROVE  calls' \in 0..MaxCalls /\ now' = now /\ now' \in 0..MaxTime
BY PlanningData DEF PlacesOK, Call

LEMMA AmountsAre == \A q \in Amounts : q \in Nat /\ q > 0
BY PlanningData DEF Amounts

LEMMA LeftShelf ==
    ASSUME PlacesOK, NEW d \in Depots, NEW q \in Amounts, OffShelf(d, q)
    PROVE  shelf' \in [Depots -> Nat]
BY AmountsAre DEF PlacesOK, OffShelf

LEMMA OnTheShelf ==
    ASSUME PlacesOK, NEW d \in Depots, NEW q \in Amounts, NEW good, Shelved(d, q, good)
    PROVE  shelf' \in [Depots -> Nat] /\ faulty' \in [Depots -> Nat]
BY AmountsAre DEF PlacesOK, Shelved

(* Project p has c pieces, and what was there before otherwise. *)
SiteRecord == [qty : Nat, due : 0..MaxTime, from : SUBSET Depots]

LEMMA SentIs ==
    ASSUME PlacesOK, NEW p \in Projects, NEW q \in Amounts, NEW due \in Dates, NEW from \in SUBSET Depots
    PROVE  Sent(p, q, due, from) \in SiteRecord /\ Sent(p, q, due, from).qty = site[p].qty + q
<1>1. PICK a, b, c : site[p] = [qty |-> a, due |-> b, from |-> c] /\ a \in Nat /\ b \in 0..MaxTime /\ c \in SUBSET Depots
  BY DEF PlacesOK
<1>2. q \in Nat /\ due \in 0..MaxTime
  BY AmountsAre, PlanningData DEF Dates
<1>3. Max({b, due}) \in 0..MaxTime
  BY <1>1, <1>2, MaxOfTwo
<1>4. PICK y, m : y = site[p] /\ m = Max({b, due})
  OBVIOUS
<1>5. y = [qty |-> a, due |-> b, from |-> c] /\ y.qty = a /\ y.due = b /\ y.from = c
  BY <1>1, <1>4
<1>6. Sent(p, q, due, from) = [y EXCEPT !.qty = y.qty + q, !.due = Max({y.due, due}), !.from = y.from \cup from]
  BY <1>4 DEF Sent
<1>7. Sent(p, q, due, from) = [y EXCEPT !.qty = a + q, !.due = m, !.from = c \cup from]
  BY <1>4, <1>5, <1>6
<1>8. Sent(p, q, due, from) = [qty |-> a + q, due |-> m, from |-> c \cup from]
  BY <1>5, <1>7
<1>9. QED
  BY <1>2, <1>3, <1>1, <1>4, <1>5, <1>8 DEF SiteRecord

LEMMA SiteSent ==
    ASSUME PlacesOK, NEW p \in Projects, NEW q \in Amounts, NEW due \in Dates, NEW from \in SUBSET Depots,
           site' = [site EXCEPT ![p] = Sent(p, q, due, from)]
    PROVE  /\ site' \in [Projects -> SiteRecord]
           /\ \A s \in Projects : site'[s].qty = IF s = p THEN site[s].qty + q ELSE site[s].qty
<1>1. PICK x : x = Sent(p, q, due, from) /\ x \in SiteRecord /\ x.qty = site[p].qty + q
  BY SentIs
<1>2. site \in [Projects -> SiteRecord] /\ site' = [site EXCEPT ![p] = x]
  BY <1>1 DEF PlacesOK, SiteRecord
<1>3. QED
  BY <1>1, <1>2

LEMMA SiteTaken ==
    ASSUME PlacesOK, NEW p \in Projects, NEW q \in Amounts, q <= site[p].qty, site' = [site EXCEPT ![p].qty = @ - q]
    PROVE  /\ site' \in [Projects -> SiteRecord]
           /\ \A s \in Projects : site'[s].qty = IF s = p THEN site[s].qty - q ELSE site[s].qty
<1>1. PICK a, b, c : site[p] = [qty |-> a, due |-> b, from |-> c] /\ a \in Nat /\ b \in 0..MaxTime /\ c \in SUBSET Depots
  BY DEF PlacesOK
<1>2. q \in Nat /\ q <= a
  BY <1>1, AmountsAre
<1>3. PICK x : x = [qty |-> a - q, due |-> b, from |-> c]
  OBVIOUS
<1>4. x \in SiteRecord /\ x.qty = site[p].qty - q
  BY <1>1, <1>2, <1>3 DEF SiteRecord
<1>5. site \in [Projects -> SiteRecord] /\ site' = [site EXCEPT ![p] = x]
  <2>1. site \in [Projects -> SiteRecord]
    BY DEF PlacesOK, SiteRecord
  <2>2. [site[p] EXCEPT !.qty = @ - q] = x
    BY <1>1, <1>3
  <2>3. site' = [site EXCEPT ![p] = [site[p] EXCEPT !.qty = @ - q]]
    OBVIOUS
  <2>4. QED
    BY <2>1, <2>2, <2>3
<1>6. QED
  BY <1>4, <1>5

LEMMA PlacesAre ==
    PlacesOK <=> /\ now \in 0..MaxTime
                 /\ shelf \in [Depots -> Nat] /\ faulty \in [Depots -> Nat] /\ person \in Nat
                 /\ site \in [Projects -> SiteRecord]
                 /\ transit \in [Depots -> [qty : Nat, at : 0..MaxTime]]
                 /\ ended \subseteq Projects
                 /\ calls \in 0..MaxCalls
BY DEF PlacesOK, SiteRecord

LEMMA PlansStay ==
    ASSUME PlanInv, PlacesOK', UNCHANGED plans, \A p \in Projects : site[p].qty <= site'[p].qty
    PROVE  PlanInv' /\ Len(res') = Len(res)
<1>1. ended' = ended /\ status' = status /\ window' = window /\ line' = line /\ res' = res /\ issued' = issued
  BY DEF plans
<1>2. PlansOK'
  BY <1>1 DEF PlanInv, PlansOK
<1>3. ASSUME NEW p \in Projects PROVE Outstanding(res, p) <= site'[p].qty
  <2>1. Outstanding(res, p) \in Nat /\ Outstanding(res, p) <= site[p].qty
    BY OutstandingIs DEF PlanInv, PlansOK, Agree
  <2>2. site[p].qty \in Nat /\ site'[p].qty \in Nat
    BY DEF PlanInv, PlacesOK
  <2>3. PICK a, b, c : a = Outstanding(res, p) /\ b = site[p].qty /\ c = site'[p].qty
    OBVIOUS
  <2>4. a <= b /\ b <= c
    BY <2>1, <2>3
  <2>5. QED
    BY <2>1, <2>2, <2>3, <2>4
<1>4. Agree(res, line, site', status)
  BY <1>3 DEF PlanInv, Agree
<1>5. Agree(res, line, site, status)'
  BY <1>1, <1>4
<1>6. QED
  BY <1>1, <1>2, <1>5 DEF PlanInv

LEMMA TickKeeps == ASSUME PlanInv, Tick PROVE PlanInv' /\ Len(res') = Len(res)
<1>1. PlacesOK
  BY DEF PlanInv
<1>2. PlacesOK'
  BY <1>1, PlanningData DEF PlacesOK, Tick, goods, plans
<1>3. UNCHANGED plans /\ site' = site
  BY DEF Tick, goods
<1>4. \A p \in Projects : site[p].qty <= site'[p].qty
  BY <1>1, <1>3 DEF PlacesOK
<1>5. QED
  BY <1>2, <1>3, <1>4, PlansStay

LEMMA DispatchKeeps ==
    ASSUME PlanInv, NEW d \in Depots, NEW p \in Projects, NEW q \in Amounts, NEW due \in Dates, Dispatch(d, p, q, due)
    PROVE  PlanInv' /\ Len(res') = Len(res)
<1>1. PlacesOK
  BY DEF PlanInv
<1>2. Call /\ OffShelf(d, q) /\ site' = [site EXCEPT ![p] = Sent(p, q, due, {d})] /\ UNCHANGED <<faulty, person, transit, plans>>
  BY DEF Dispatch
<1>3. {d} \in SUBSET Depots
  OBVIOUS
<1>4. /\ site' \in [Projects -> SiteRecord]
      /\ \A s \in Projects : site'[s].qty = IF s = p THEN site[s].qty + q ELSE site[s].qty
  BY <1>1, <1>2, <1>3, SiteSent
<1>5. calls' \in 0..MaxCalls /\ now' \in 0..MaxTime /\ shelf' \in [Depots -> Nat]
  BY <1>1, <1>2, CallIs, LeftShelf
<1>6. PlacesOK'
  BY <1>1, <1>2, <1>4, <1>5, PlacesAre DEF PlacesOK, plans, SiteRecord
<1>7. \A s \in Projects : site[s].qty <= site'[s].qty
  BY <1>1, <1>4, AmountsAre DEF PlacesOK
<1>8. QED
  BY <1>2, <1>6, <1>7, PlansStay

LEMMA IssueKeeps ==
    ASSUME PlanInv, NEW d \in Depots, NEW q \in Amounts, NEW until, Issue(d, q, until)
    PROVE  PlanInv' /\ Len(res') = Len(res)
<1>1. PlacesOK
  BY DEF PlanInv
<1>2. Call /\ OffShelf(d, q) /\ person' = person + q /\ UNCHANGED <<faulty, site, transit, plans>>
  BY DEF Issue
<1>3. calls' \in 0..MaxCalls /\ now' \in 0..MaxTime /\ shelf' \in [Depots -> Nat] /\ q \in Nat
  BY <1>1, <1>2, CallIs, LeftShelf, AmountsAre
<1>4. PlacesOK' /\ \A s \in Projects : site[s].qty <= site'[s].qty
  BY <1>1, <1>2, <1>3 DEF PlacesOK, plans
<1>5. QED
  BY <1>2, <1>4, PlansStay

LEMMA ReturnFromPersonKeeps ==
    ASSUME PlanInv, NEW d \in Depots, NEW q \in Amounts, NEW good \in BOOLEAN, ReturnFromPerson(d, q, good)
    PROVE  PlanInv' /\ Len(res') = Len(res)
<1>1. PlacesOK
  BY DEF PlanInv
<1>2. Call /\ q <= person /\ person' = person - q /\ Shelved(d, q, good) /\ UNCHANGED <<site, transit, plans>>
  BY DEF ReturnFromPerson
<1>3. /\ calls' \in 0..MaxCalls /\ now' \in 0..MaxTime /\ q \in Nat
      /\ shelf' \in [Depots -> Nat] /\ faulty' \in [Depots -> Nat]
  BY <1>1, <1>2, CallIs, OnTheShelf, AmountsAre
<1>4. PlacesOK' /\ \A s \in Projects : site[s].qty <= site'[s].qty
  BY <1>1, <1>2, <1>3 DEF PlacesOK, plans
<1>5. QED
  BY <1>2, <1>4, PlansStay

LEMMA SendTransferKeeps ==
    ASSUME PlanInv, NEW d \in Depots, NEW e \in Depots, NEW q \in Amounts, NEW at \in Dates \cup {None},
           SendTransfer(d, e, q, at)
    PROVE  PlanInv' /\ Len(res') = Len(res)
<1>1. PlacesOK
  BY DEF PlanInv
<1>2. /\ Call /\ OffShelf(d, q) /\ transit' = [transit EXCEPT ![e] = [qty |-> q, at |-> at]]
      /\ UNCHANGED <<faulty, site, person, plans>>
  BY DEF SendTransfer
<1>3. calls' \in 0..MaxCalls /\ now' \in 0..MaxTime /\ shelf' \in [Depots -> Nat] /\ q \in Nat
  BY <1>1, <1>2, CallIs, LeftShelf, AmountsAre
<1>4. at \in 0..MaxTime
  BY PlanningData DEF Dates, None
<1>5. transit' \in [Depots -> [qty : Nat, at : 0..MaxTime]]
  BY <1>1, <1>2, <1>3, <1>4 DEF PlacesOK
<1>6. PlacesOK' /\ \A s \in Projects : site[s].qty <= site'[s].qty
  BY <1>1, <1>2, <1>3, <1>5 DEF PlacesOK, plans
<1>7. QED
  BY <1>2, <1>6, PlansStay

LEMMA ReceiveTransferKeeps ==
    ASSUME PlanInv, NEW e \in Depots, NEW q \in Amounts, NEW good \in BOOLEAN, ReceiveTransfer(e, q, good)
    PROVE  PlanInv' /\ Len(res') = Len(res)
<1>1. PlacesOK
  BY DEF PlanInv
<1>2. /\ Call /\ q <= transit[e].qty /\ transit' = [transit EXCEPT ![e].qty = @ - q] /\ Shelved(e, q, good)
      /\ UNCHANGED <<site, person, plans>>
  BY DEF ReceiveTransfer
<1>3. /\ calls' \in 0..MaxCalls /\ now' \in 0..MaxTime /\ q \in Nat
      /\ shelf' \in [Depots -> Nat] /\ faulty' \in [Depots -> Nat]
  BY <1>1, <1>2, CallIs, OnTheShelf, AmountsAre
<1>4. transit' \in [Depots -> [qty : Nat, at : 0..MaxTime]]
  BY <1>1, <1>2, <1>3 DEF PlacesOK
<1>5. PlacesOK' /\ \A s \in Projects : site[s].qty <= site'[s].qty
  BY <1>1, <1>2, <1>3, <1>4 DEF PlacesOK, plans
<1>6. QED
  BY <1>2, <1>5, PlansStay

LEMMA CheckShelfKeeps ==
    ASSUME PlanInv, NEW d \in Depots, NEW q \in Amounts, NEW good \in BOOLEAN, CheckShelf(d, q, good)
    PROVE  PlanInv' /\ Len(res') = Len(res)
<1>1. PlacesOK
  BY DEF PlanInv
<1>2. Call /\ UNCHANGED <<site, person, transit, plans>>
  BY DEF CheckShelf
<1>3. calls' \in 0..MaxCalls /\ now' \in 0..MaxTime /\ q \in Nat
  BY <1>1, <1>2, CallIs, AmountsAre
<1>4. shelf' \in [Depots -> Nat] /\ faulty' \in [Depots -> Nat]
  <2>1. CASE good
    BY <1>1, <1>3, <2>1 DEF PlacesOK, CheckShelf
  <2>2. CASE ~good
    BY <1>1, <1>3, <2>2 DEF PlacesOK, CheckShelf, OffShelf
  <2>3. QED
    BY <2>1, <2>2
<1>5. PlacesOK' /\ \A s \in Projects : site[s].qty <= site'[s].qty
  BY <1>1, <1>2, <1>3, <1>4 DEF PlacesOK, plans
<1>6. QED
  BY <1>2, <1>5, PlansStay

------------------------------------------------------------------------------
(* Calls of managers and warehouse staff. *)

LEMMA Assembled ==
    ASSUME PlacesOK', PlansOK', Agree(res', line', site', status')
    PROVE  PlanInv'
BY DEF PlanInv

LEMMA PlansAre ==
    PlansOK <=> /\ status \in [Requests -> Statuses] /\ window \in [Requests -> Windows] /\ LineTable(line)
                /\ Table(res) /\ issued \in [EmployeeRequests -> Nat]
BY DEF PlansOK

LEMMA DeskCall ==
    ASSUME PlanInv, Call, UNCHANGED <<goods, ended>>
    PROVE  PlacesOK' /\ site' = site
<1>1. PlacesOK
  BY DEF PlanInv
<1>2. calls' \in 0..MaxCalls /\ now' \in 0..MaxTime
  BY <1>1, CallIs
<1>3. QED
  BY <1>1, <1>2 DEF PlacesOK, goods

LEMMA InvHas ==
    ASSUME PlanInv
    PROVE  /\ PlacesOK /\ PlansOK /\ Table(res) /\ LineTable(line) /\ status \in [Requests -> Statuses]
           /\ window \in [Requests -> Windows] /\ issued \in [EmployeeRequests -> Nat]
           /\ Agree(res, line, site, status) /\ SettledRows(res) /\ Freed(res, line, status)
           /\ \A l \in LineSet : LineReserved(res, l) <= line[l].qty
           /\ \A p \in Projects : Outstanding(res, p) <= site[p].qty /\ Outstanding(res, p) \in Nat /\ site[p].qty \in Nat
<1>1. Table(res)
  BY DEF PlanInv, PlansOK
<1>2. \A p \in Projects : Outstanding(res, p) \in Nat
  BY <1>1, OutstandingIs
<1>3. QED
  BY <1>1, <1>2 DEF PlanInv, PlansOK, PlacesOK, Agree

LEMMA ResReady == ASSUME PlanInv PROVE Ready(res, line)
BY InvHas DEF Ready, Agree, Says

(* What is reserved is free, and no more than is asked for. *)
LEMMA ReserveMakes ==
    ASSUME PlanInv, NEW l \in LineSet, NEW d \in Depots, NEW ask \in Amounts \cup {Remaining(l)}, Reserve(l, d, ask)
    PROVE  \E x : /\ Row(x) /\ res' = Append(res, x) /\ ~x.done /\ x.line = l /\ x.depot = d /\ x.out = 0 /\ x.back = 0
                  /\ x.qty \in Nat /\ x.qty > 0 /\ x.qty <= ask /\ ask <= line[l].qty - LineReserved(res, l)
                  /\ x.lo \in Int /\ x.hi \in Int /\ x.qty <= Free(res, d, x.lo, x.hi, {})
                  /\ status[LineOf[l]] \in Live /\ line[l].open
<1>1. PICK r, w : r = LineOf[l] /\ w = window[r]
  OBVIOUS
<1>2. PICK a, b : a = w[1] /\ b = w[2] /\ a \in Dates /\ b \in Dates /\ a < b
  BY <1>1, InvHas, PlanningData
<1>3. PICK f : f = Free(res, d, a, b, {})
  OBVIOUS
<1>4. a \in Int /\ b \in Int /\ a \in 0..MaxTime
  BY <1>2, PlanningData DEF Dates
<1>5. f \in Nat
  BY <1>3, <1>4, InvHas, FreeIs
<1>6. ask \in Int
  BY AmountsAre, InvHas, LineSums DEF Remaining, LineTable
<1>7. PICK take : take = Min({ask, f})
  OBVIOUS
<1>8. take \in Int /\ take <= ask /\ take <= f
  BY <1>5, <1>6, <1>7, MinOfTwo DEF Lesser
<1>9. PICK x : x = [line |-> l, depot |-> d, qty |-> take, out |-> 0, back |-> 0, lo |-> a, hi |-> b, done |-> FALSE]
  OBVIOUS
<1>10. res' = Append(res, x) /\ take > 0 /\ ask <= Remaining(l) /\ status[LineOf[l]] \in Live /\ line[l].open
  BY <1>1, <1>2, <1>3, <1>7, <1>9 DEF Reserve
<1>11. Row(x)
  BY <1>2, <1>4, <1>8, <1>9, <1>10 DEF Row, Reservation, SoundRow
<1>12. /\ ~x.done /\ x.line = l /\ x.depot = d /\ x.out = 0 /\ x.back = 0 /\ x.qty = take /\ x.lo = a /\ x.hi = b
  BY <1>9
<1>13. QED
  BY <1>3, <1>4, <1>8, <1>10, <1>11, <1>12 DEF Remaining

LEMMA ReserveKeeps ==
    ASSUME PlanInv, NEW l \in LineSet, NEW d \in Depots, NEW ask \in Amounts \cup {Remaining(l)}, Reserve(l, d, ask)
    PROVE  PlanInv'
<1>1. PICK x : /\ Row(x) /\ res' = Append(res, x) /\ ~x.done /\ x.line = l /\ x.out = 0 /\ x.back = 0
               /\ x.qty \in Nat /\ x.qty <= ask /\ ask <= line[l].qty - LineReserved(res, l)
               /\ status[LineOf[l]] \in Live /\ line[l].open
  BY ReserveMakes
<1>2. PICK r : r = LineOf[l] /\ r = RequestOf(x)
  BY <1>1 DEF RequestOf
<1>3. /\ Call /\ UNCHANGED <<goods, ended>> /\ window' = window /\ line' = line /\ issued' = issued
      /\ status' = [status EXCEPT ![r] = "in_progress"]
  BY <1>2 DEF Reserve
<1>4. PlacesOK' /\ site' = site
  BY <1>3, DeskCall
<1>5. Longer(res', res, x) /\ Ready(res, line)
  BY <1>1, InvHas, AppendIs, ResReady
<1>6. LineReserved(res, l) + x.qty <= line[l].qty
  <2>1. PICK a, b, c : a = LineReserved(res, l) /\ b = line[l].qty /\ c = x.qty
    OBVIOUS
  <2>2. a \in Nat /\ b \in Nat /\ c \in Nat
    BY <1>1, <2>1, InvHas, LineSums DEF LineTable
  <2>3. ask \in Int
    BY AmountsAre, InvHas, LineSums DEF Remaining, LineTable
  <2>4. c <= ask /\ ask <= b - a
    BY <1>1, <2>1
  <2>5. QED
    BY <2>1, <2>2, <2>3, <2>4
<1>7. Ready(res', line)
  BY <1>1, <1>2, <1>5, <1>6, InvHas, LongerReady
<1>8. \A p \in Projects : Outstanding(res', p) <= site'[p].qty
  BY <1>1, <1>4, <1>5, InvHas, LongerOutstanding
<1>9. status \in [Requests -> Statuses] /\ status' \in [Requests -> Statuses]
  BY <1>3, InvHas DEF Statuses, OpenStatuses, Live
<1>10. Says(status', line, res')
  <2>1. ASSUME NEW s \in ProjectRequests PROVE SaysOf(status'[s], s, line, res')
    <3>1. s \in Requests
      BY DEF ProjectRequests
    <3>2. CASE s = r
      <4>1. status'[s] = "in_progress"
        BY <1>3, <1>9, <3>1, <3>2
      <4>2. QED
        BY <4>1 DEF SaysOf
    <3>3. CASE s # r
      <4>1. status'[s] = status[s]
        BY <1>3, <1>9, <3>1, <3>3
      <4>2. QED
        BY <1>7, <4>1 DEF Ready
    <3>4. QED
      BY <3>2, <3>3
  <2>2. QED
    BY <2>1 DEF Says
<1>11. Freed(res', line, status')
  <2>1. \A i \in DOMAIN res' : RequestOf(res'[i]) \in Requests
    BY <1>7, TableIs, FieldsAre DEF Ready
  <2>2. \A s \in Requests : status'[s] = "cancelled" => status[s] = "cancelled"
    BY <1>3, <1>9
  <2>3. QED
    BY <1>7, <2>1, <2>2 DEF Ready, Freed
<1>12. Agree(res', line', site', status')
  BY <1>3, <1>7, <1>8, <1>10, <1>11 DEF Agree, Ready
<1>13. PlansOK'
  BY <1>3, <1>7, <1>9, InvHas DEF PlansOK, Ready
<1>14. QED
  BY <1>4, <1>12, <1>13, Assembled

LEMMA ReleaseKeeps ==
    ASSUME PlanInv, NEW i \in DOMAIN res, Release(i)
    PROVE  PlanInv' /\ Len(res') = Len(res)
<1>1. /\ Call /\ UNCHANGED <<goods, ended>> /\ res' = Released(res, {i})
      /\ window' = window /\ line' = line /\ issued' = issued /\ status' = status
  BY DEF Release
<1>2. PlacesOK' /\ site' = site
  BY <1>1, DeskCall
<1>3. PICK rs : rs = res' /\ Grown(rs, res, {}) /\ \A p : Outstanding(rs, p) = Outstanding(res, p)
  BY <1>1, InvHas, ReleasedGrows
<1>4. Fewer(line, line) /\ \A p \in Projects : Outstanding(rs, p) <= site[p].qty
  BY <1>3, InvHas, LinesStill
<1>5. Table(rs) /\ LineTable(line) /\ Agree(rs, line, site, status)
  BY <1>3, <1>4, InvHas, CancelCallKeeps
<1>6. PlansOK' /\ Agree(res', line', site', status')
  BY <1>1, <1>2, <1>3, <1>5, InvHas DEF PlansOK
<1>7. Len(res') = Len(res)
  BY <1>3 DEF Grown, Same
<1>8. QED
  BY <1>2, <1>6, <1>7, Assembled

LEMMA ChangeLineQtyKeeps ==
    ASSUME PlanInv, NEW l \in LineSet, NEW q \in Amounts, ChangeLineQty(l, q)
    PROVE  PlanInv' /\ Len(res') = Len(res)
<1>1. /\ Call /\ UNCHANGED <<goods, ended>> /\ res' = res /\ window' = window /\ issued' = issued /\ status' = status
      /\ status[LineOf[l]] \in Live /\ q >= LineReserved(res, l) /\ line' = [line EXCEPT ![l].qty = q]
  BY DEF ChangeLineQty
<1>2. PlacesOK' /\ site' = site
  BY <1>1, DeskCall
<1>3. /\ LineTable(line') /\ line'[l].qty = q
      /\ \A m \in LineSet : line'[m].open = line[m].open /\ (m # l => line'[m] = line[m])
  <2>1. LineTable(line) /\ q \in Nat \ {0}
    BY InvHas, AmountsAre
  <2>2. QED
    BY <1>1, <2>1 DEF LineTable
<1>4. \A m \in LineSet : LineReserved(res, m) <= line'[m].qty
  BY <1>1, <1>3, InvHas, LineSums
<1>5. Freed(res, line', status)
  <2>1. \A j \in DOMAIN res : res[j].line \in LineSet
    BY InvHas, TableIs, FieldsAre
  <2>2. QED
    BY <1>3, <2>1, InvHas DEF Freed
<1>6. Says(status, line', res)
  <2>1. ASSUME NEW r \in ProjectRequests, status[r] \in {"fulfilled", "closed"}, NEW m \in OpenLines(line', r)
        PROVE  LineOut(res, m) >= line'[m].qty /\ (status[r] = "closed" => LineBack(res, m) = LineOut(res, m))
    <3>1. m \in LineSet /\ LineOf[m] = r /\ m # l
      BY <1>1, <2>1 DEF OpenLines, Live
    <3>2. line'[m] = line[m] /\ m \in OpenLines(line, r)
      BY <1>3, <2>1, <3>1 DEF OpenLines
    <3>3. SaysOf(status[r], r, line, res)
      BY InvHas DEF Agree, Says
    <3>4. QED
      BY <2>1, <3>2, <3>3 DEF SaysOf
  <2>2. QED
    BY <2>1 DEF Says, SaysOf
<1>7. PlansOK' /\ Agree(res', line', site', status')
  BY <1>1, <1>2, <1>3, <1>4, <1>5, <1>6, InvHas DEF PlansOK, Agree
<1>8. QED
  BY <1>1, <1>2, <1>7, Assembled

LEMMA CancelLineKeeps ==
    ASSUME PlanInv, NEW l \in LineSet, CancelLine(l)
    PROVE  PlanInv' /\ Len(res') = Len(res)
<1>1. PICK I, ln : /\ I = {i \in DOMAIN res : res[i].line = l} /\ ln = [line EXCEPT ![l].open = FALSE]
                   /\ Call /\ UNCHANGED <<goods, ended>> /\ window' = window /\ issued' = issued
                   /\ res' = Released(res, I) /\ line' = ln /\ status' = Refreshed({LineOf[l]}, ln, res', issued)
  BY Zenon DEF CancelLine
<1>2. PlacesOK' /\ site' = site
  BY <1>1, DeskCall
<1>3. PICK rs : /\ rs = res' /\ Grown(rs, res, {}) /\ \A i \in I : Idle(rs[i])
                /\ \A p : Outstanding(rs, p) = Outstanding(res, p)
  <2>1. /\ Grown(Released(res, I), res, {}) /\ \A i \in DOMAIN res : i \in I => Idle(Released(res, I)[i])
        /\ \A p : Outstanding(Released(res, I), p) = Outstanding(res, p)
    BY InvHas, ReleasedGrows
  <2>2. I \subseteq DOMAIN res /\ res' = Released(res, I)
    BY <1>1
  <2>3. QED
    BY <2>1, <2>2
<1>4. Fewer(ln, line) /\ \A m \in LineSet : m # l => ln[m].open = line[m].open
  <2>1. LineTable(line)
    BY InvHas
  <2>2. QED
    BY <1>1, <2>1 DEF LineTable, Fewer
<1>5. \A r \in {} : status[r] \in Live
  OBVIOUS
<1>6. Ready(rs, ln)
  BY <1>3, <1>4, <1>5, RowsKeep
<1>7. \A i \in DOMAIN rs : ~ln[rs[i].line].open => ~line[rs[i].line].open \/ Idle(rs[i])
  <2>1. \A i \in DOMAIN rs : i \in DOMAIN res /\ rs[i].line = res[i].line /\ rs[i].line \in LineSet
    BY <1>3, <1>6, TableIs, FieldsAre DEF Grown, Same, Grows
  <2>2. QED
    BY <1>1, <1>3, <1>4, <2>1
<1>8. \A p \in Projects : Outstanding(rs, p) <= site[p].qty
  BY <1>3, InvHas
<1>9. PICK S : S = {LineOf[l]}
  OBVIOUS
<1>10. /\ Table(rs) /\ LineTable(ln) /\ Refreshed(S, ln, rs, issued) \in [Requests -> Statuses]
       /\ Agree(rs, ln, site, Refreshed(S, ln, rs, issued))
  BY <1>6, <1>7, <1>8, InvHas, RefreshKeeps
<1>11. status' = Refreshed(S, ln, rs, issued)
  BY <1>1, <1>3, <1>9
<1>12. PlansOK' /\ Agree(res', line', site', status')
  BY <1>1, <1>2, <1>3, <1>10, <1>11, InvHas DEF PlansOK
<1>13. Len(res') = Len(res)
  BY <1>3 DEF Grown, Same
<1>14. QED
  BY <1>2, <1>12, <1>13, Assembled

(* The rows of cancelled requests are let go and their lines closed. *)
LEMMA DropsKeep ==
    ASSUME PlanInv, NEW I \in SUBSET DOMAIN res, NEW drop \in SUBSET Requests,
           \A i \in DOMAIN res : RequestOf(res[i]) \in drop => i \in I,
           NEW ln, ln = [l \in LineSet |-> IF LineOf[l] \in drop THEN [line[l] EXCEPT !.open = FALSE] ELSE line[l]],
           NEW sts, sts = [r \in Requests |-> IF r \in drop THEN "cancelled" ELSE status[r]]
    PROVE  /\ Table(Released(res, I)) /\ Len(Released(res, I)) = Len(res) /\ LineTable(ln)
           /\ sts \in [Requests -> Statuses] /\ Agree(Released(res, I), ln, site, sts)
<1>1. PICK rs : /\ rs = Released(res, I) /\ Grown(rs, res, {}) /\ \A i \in I : Idle(rs[i])
                /\ \A p : Outstanding(rs, p) = Outstanding(res, p)
  BY InvHas, ReleasedGrows
<1>2. Fewer(ln, line) /\ \A l \in LineSet : LineOf[l] \notin drop => ln[l] = line[l]
  <2>1. LineTable(line)
    BY InvHas
  <2>2. QED
    BY <2>1 DEF LineTable, Fewer
<1>3. Table(rs) /\ DOMAIN rs = DOMAIN res /\ Len(rs) = Len(res)
  BY <1>1 DEF Grown, Same
<1>4. ASSUME NEW i \in DOMAIN rs
      PROVE  /\ rs[i].line \in LineSet /\ RequestOf(rs[i]) \in Requests /\ RequestOf(rs[i]) = LineOf[rs[i].line]
             /\ RequestOf(rs[i]) \in drop => Idle(rs[i])
  <2>1. Row(rs[i]) /\ i \in DOMAIN res /\ rs[i].line = res[i].line
    BY <1>1, <1>3, TableIs DEF Grown, Grows
  <2>2. rs[i].line \in LineSet /\ RequestOf(rs[i]) \in Requests
    BY <2>1, FieldsAre
  <2>3. RequestOf(rs[i]) = RequestOf(res[i])
    BY <2>1 DEF RequestOf
  <2>4. RequestOf(res[i]) \in drop => i \in I
    BY <2>1
  <2>5. QED
    BY <1>1, <2>2, <2>3, <2>4 DEF RequestOf
<1>5. \A i \in DOMAIN rs : ~ln[rs[i].line].open => ~line[rs[i].line].open \/ Idle(rs[i])
  BY <1>2, <1>4
<1>6. sts \in [Requests -> Statuses] /\ \A r \in Requests : sts[r] = status[r] \/ sts[r] = "cancelled"
  BY InvHas DEF Statuses
<1>7. \A i \in DOMAIN rs : sts[RequestOf(rs[i])] = "cancelled" => status[RequestOf(rs[i])] = "cancelled" \/ Idle(rs[i])
  BY <1>4
<1>8. \A p \in Projects : Outstanding(rs, p) <= site[p].qty
  BY <1>1, InvHas
<1>9. LineTable(ln) /\ Agree(rs, ln, site, sts)
  BY <1>1, <1>2, <1>5, <1>6, <1>7, <1>8, CancelCallKeeps
<1>10. QED
  BY <1>1, <1>3, <1>6, <1>9

LEMMA CancelRequestKeeps ==
    ASSUME PlanInv, NEW r \in Requests, CancelRequest(r)
    PROVE  PlanInv' /\ Len(res') = Len(res)
<1>1. PICK I : /\ I = {i \in DOMAIN res : RequestOf(res[i]) = r}
               /\ Call /\ UNCHANGED <<goods, ended>> /\ window' = window /\ issued' = issued
               /\ res' = Released(res, I) /\ line' = LinesClosed(r) /\ status' = [status EXCEPT ![r] = "cancelled"]
  BY DEF CancelRequest
<1>2. PlacesOK' /\ site' = site
  BY <1>1, DeskCall
<1>3. PICK drop : drop = {r}
  OBVIOUS
<1>4. line' = [l \in LineSet |-> IF LineOf[l] \in drop THEN [line[l] EXCEPT !.open = FALSE] ELSE line[l]]
  BY <1>1, <1>3 DEF LinesClosed
<1>5. status' = [s \in Requests |-> IF s \in drop THEN "cancelled" ELSE status[s]]
  <2>1. status \in [Requests -> Statuses]
    BY InvHas
  <2>2. QED
    BY <1>1, <1>3, <2>1
<1>6. I \in SUBSET DOMAIN res /\ drop \in SUBSET Requests /\ \A i \in DOMAIN res : RequestOf(res[i]) \in drop => i \in I
  BY <1>1, <1>3
<1>7. /\ Table(res') /\ Len(res') = Len(res) /\ LineTable(line')
      /\ status' \in [Requests -> Statuses] /\ Agree(res', line', site, status')
  <2>1. PICK ln, sts : ln = line' /\ sts = status'
    OBVIOUS
  <2>2. /\ Table(Released(res, I)) /\ Len(Released(res, I)) = Len(res) /\ LineTable(ln)
        /\ sts \in [Requests -> Statuses] /\ Agree(Released(res, I), ln, site, sts)
    BY <1>4, <1>5, <1>6, <2>1, DropsKeep
  <2>3. res' = Released(res, I)
    BY <1>1
  <2>4. QED
    BY <2>1, <2>2, <2>3
<1>8. PlansOK' /\ Agree(res', line', site', status')
  BY <1>1, <1>2, <1>7, InvHas DEF PlansOK
<1>9. QED
  BY <1>2, <1>7, <1>8, Assembled

LEMMA EndProjectKeeps ==
    ASSUME PlanInv, NEW p \in Projects, EndProject(p)
    PROVE  PlanInv' /\ Len(res') = Len(res)
<1>1. PICK drop, trim : /\ drop = {r \in RequestsOf(p) : status[r] = "submitted"}
                        /\ trim = {r \in RequestsOf(p) : status[r] = "in_progress"}
  OBVIOUS
<1>2. PICK I : /\ I = {i \in DOMAIN res : \/ RequestOf(res[i]) \in drop
                                          \/ RequestOf(res[i]) \in trim /\ line[res[i].line].open}
               /\ Call /\ ended' = ended \cup {p} /\ UNCHANGED goods /\ window' = window /\ issued' = issued
               /\ res' = Released(res, I)
               /\ line' = [l \in LineSet |-> IF LineOf[l] \in drop THEN [line[l] EXCEPT !.open = FALSE] ELSE line[l]]
               /\ status' = [r \in Requests |-> IF r \in drop THEN "cancelled" ELSE status[r]]
  BY <1>1 DEF EndProject
<1>3. PlacesOK' /\ site' = site
  <2>1. PlacesOK /\ calls' \in 0..MaxCalls /\ now' \in 0..MaxTime
    BY <1>2, InvHas, CallIs
  <2>2. QED
    BY <1>2, <2>1 DEF PlacesOK, goods
<1>4. I \in SUBSET DOMAIN res /\ drop \in SUBSET Requests /\ \A i \in DOMAIN res : RequestOf(res[i]) \in drop => i \in I
  BY <1>1, <1>2 DEF RequestsOf
<1>5. /\ Table(res') /\ Len(res') = Len(res) /\ LineTable(line')
      /\ status' \in [Requests -> Statuses] /\ Agree(res', line', site, status')
  BY <1>2, <1>4, DropsKeep
<1>6. PlansOK' /\ Agree(res', line', site', status')
  BY <1>2, <1>3, <1>5, InvHas DEF PlansOK
<1>7. QED
  BY <1>3, <1>5, <1>6, Assembled

LEMMA ChangeWindowKeeps ==
    ASSUME PlanInv, NEW r \in Requests, NEW w \in Windows, ChangeWindow(r, w)
    PROVE  PlanInv' /\ Len(res') = Len(res)
<1>1. /\ Call /\ UNCHANGED <<goods, ended>> /\ res' = MoveLines(r, w)
      /\ window' = [window EXCEPT ![r] = w] /\ line' = line /\ issued' = issued /\ status' = status
  BY DEF ChangeWindow
<1>2. PlacesOK' /\ site' = site
  BY <1>1, DeskCall
<1>3. PICK rs : rs = res' /\ Grown(rs, res, {}) /\ \A p : Outstanding(rs, p) = Outstanding(res, p)
  <2>1. Table(res) /\ Replans(res', res)
    BY <1>1, InvHas, MoveLinesIs
  <2>2. QED
    BY <2>1, ReplansGrows
<1>4. Fewer(line, line) /\ \A p \in Projects : Outstanding(rs, p) <= site[p].qty
  BY <1>3, InvHas, LinesStill
<1>5. Table(rs) /\ LineTable(line) /\ Agree(rs, line, site, status)
  BY <1>3, <1>4, InvHas, CancelCallKeeps
<1>6. window' \in [Requests -> Windows]
  BY <1>1, InvHas
<1>7. PlansOK' /\ Agree(res', line', site', status')
  BY <1>1, <1>2, <1>3, <1>5, <1>6, InvHas DEF PlansOK
<1>8. Len(res') = Len(res)
  BY <1>3 DEF Grown, Same
<1>9. QED
  BY <1>2, <1>7, <1>8, Assembled

------------------------------------------------------------------------------
(* Calls that move stock against reservations. *)

LEMMA OpenStays == ASSUME NEW rs PROVE \A i \in DOMAIN rs : ~line[rs[i].line].open => ~line[rs[i].line].open \/ Idle(rs[i])
OBVIOUS

LEMMA DispatchForKeeps ==
    ASSUME PlanInv, NEW d \in Depots, NEW r \in ProjectRequests, NEW q \in Amounts, NEW due \in Dates,
           DispatchFor(d, r, q, due)
    PROVE  PlanInv' /\ Len(res') = Len(res)
<1>1. PICK p \in Projects : p = RequestSites[r]
  BY DEF ProjectRequests
<1>2. PICK rs, D, S : /\ rs = res' /\ D = {d} /\ S = {r} /\ rs = Took(res, r, D, q) /\ Covered(res, r, D, q) = q
                      /\ status' = Refreshed(S, line, rs, issued)
  BY DEF DispatchFor
<1>3. /\ Call /\ status[r] \in Live /\ OffShelf(d, q) /\ site' = [site EXCEPT ![p] = Sent(p, q, due, {d})]
      /\ UNCHANGED <<faulty, person, transit, ended, window, line, issued>>
  BY <1>1 DEF DispatchFor
<1>4. q \in Nat /\ {d} \in SUBSET Depots
  BY AmountsAre
<1>5. /\ site' \in [Projects -> SiteRecord]
      /\ \A s \in Projects : site'[s].qty = IF s = p THEN site[s].qty + q ELSE site[s].qty
  BY <1>3, <1>4, InvHas, SiteSent
<1>6. calls' \in 0..MaxCalls /\ now' \in 0..MaxTime /\ shelf' \in [Depots -> Nat]
  BY <1>3, InvHas, CallIs, LeftShelf
<1>7. PlacesOK'
  <2>1. PlacesOK
    BY InvHas
  <2>2. QED
    BY <2>1, <1>3, <1>5, <1>6 DEF PlacesOK, SiteRecord
<1>8. Grown(rs, res, {r})
  BY <1>2, <1>4, InvHas, TookGrows
<1>9. Ready(rs, line)
  <2>1. \A s \in {r} : status[s] \in Live
    BY <1>3
  <2>2. QED
    BY <1>8, <2>1, LinesStill, RowsKeep
<1>10. ASSUME NEW s \in Projects PROVE Outstanding(rs, s) <= site'[s].qty
  <2>1. Outstanding(rs, s) = IF s = p THEN Outstanding(res, s) + q ELSE Outstanding(res, s)
    BY <1>1, <1>2, <1>4, InvHas, TookSums
  <2>2. Outstanding(res, s) <= site[s].qty /\ Outstanding(res, s) \in Nat /\ site[s].qty \in Nat
    BY InvHas
  <2>3. QED
    BY <1>4, <1>5, <2>1, <2>2
<1>11. /\ Table(rs) /\ Refreshed(S, line, rs, issued) \in [Requests -> Statuses]
       /\ Agree(rs, line, site', Refreshed(S, line, rs, issued))
  <2>1. PICK st : st = site'
    OBVIOUS
  <2>2. \A s \in Projects : Outstanding(rs, s) <= st[s].qty
    BY <1>10, <2>1
  <2>3. /\ Table(rs) /\ Refreshed(S, line, rs, issued) \in [Requests -> Statuses]
        /\ Agree(rs, line, st, Refreshed(S, line, rs, issued))
    BY <1>9, <2>2, InvHas, OpenStays, RefreshKeeps
  <2>4. QED
    BY <2>1, <2>3
<1>12. PlansOK' /\ Agree(res', line', site', status')
  BY <1>2, <1>3, <1>11, InvHas DEF PlansOK
<1>13. Len(res') = Len(res)
  BY <1>2, <1>8 DEF Grown, Same
<1>14. QED
  BY <1>7, <1>12, <1>13, Assembled

(* What came back of project p, with the statuses taken anew. *)
LEMMA ReturnKeeps ==
    ASSUME PlanInv, NEW p \in Projects, NEW d \in Depots, NEW q \in Amounts, NEW good \in BOOLEAN, Return(p, d, q, good)
    PROVE  PlanInv' /\ Len(res') = Len(res)
<1>1. PICK rs, S : /\ rs = res' /\ S = RequestsOf(p) /\ rs = GaveBack(res, p, q)
                   /\ status' = Refreshed(S, line, rs, issued)
  BY DEF Return
<1>2. /\ Call /\ q <= site[p].qty /\ site' = [site EXCEPT ![p].qty = @ - q] /\ Shelved(d, q, good)
      /\ UNCHANGED <<person, transit, ended, window, line, issued>>
  BY DEF Return
<1>3. q \in Nat
  BY AmountsAre
<1>4. /\ site' \in [Projects -> SiteRecord]
      /\ \A s \in Projects : site'[s].qty = IF s = p THEN site[s].qty - q ELSE site[s].qty
  BY <1>2, InvHas, SiteTaken
<1>5. /\ calls' \in 0..MaxCalls /\ now' \in 0..MaxTime
      /\ shelf' \in [Depots -> Nat] /\ faulty' \in [Depots -> Nat]
  BY <1>2, InvHas, CallIs, OnTheShelf
<1>6. PlacesOK'
  <2>1. PlacesOK
    BY InvHas
  <2>2. QED
    BY <2>1, <1>2, <1>4, <1>5 DEF PlacesOK, SiteRecord
<1>7. Grown(rs, res, {})
  BY <1>1, <1>3, InvHas, GaveBackGrows
<1>8. Ready(rs, line)
  <2>1. \A s \in {} : status[s] \in Live
    OBVIOUS
  <2>2. QED
    BY <1>7, <2>1, LinesStill, RowsKeep
<1>9. ASSUME NEW s \in Projects PROVE Outstanding(rs, s) <= site'[s].qty
  <2>1. Outstanding(rs, s) = IF s = p THEN Outstanding(res, s) - Lesser(q, Outstanding(res, s)) ELSE Outstanding(res, s)
    BY <1>1, <1>3, InvHas, GaveBackSums
  <2>2. Outstanding(res, s) <= site[s].qty /\ Outstanding(res, s) \in Nat /\ site[s].qty \in Nat
    BY InvHas
  <2>3. QED
    BY <1>2, <1>3, <1>4, <2>1, <2>2 DEF Lesser
<1>10. /\ Table(rs) /\ Refreshed(S, line, rs, issued) \in [Requests -> Statuses]
       /\ Agree(rs, line, site', Refreshed(S, line, rs, issued))
  <2>1. PICK st : st = site'
    OBVIOUS
  <2>2. \A s \in Projects : Outstanding(rs, s) <= st[s].qty
    BY <1>9, <2>1
  <2>3. /\ Table(rs) /\ Refreshed(S, line, rs, issued) \in [Requests -> Statuses]
        /\ Agree(rs, line, st, Refreshed(S, line, rs, issued))
    BY <1>8, <2>2, InvHas, OpenStays, RefreshKeeps
  <2>4. QED
    BY <2>1, <2>3
<1>11. PlansOK' /\ Agree(res', line', site', status')
  BY <1>1, <1>2, <1>10, InvHas DEF PlansOK
<1>12. Len(res') = Len(res)
  BY <1>1, <1>7 DEF Grown, Same
<1>13. QED
  BY <1>6, <1>11, <1>12, Assembled

(* A row of an employee's request is done once all of it is out. *)
Finished(x, r) == [x EXCEPT !.done = @ \/ (RequestOf(x) = r /\ x.out = x.qty)]

LEMMA FinishedIs ==
    ASSUME NEW x, Row(x), NEW r
    PROVE  LET y == Finished(x, r)
           IN  /\ Row(y) /\ y.line = x.line /\ y.depot = x.depot /\ y.qty = x.qty /\ y.out = x.out /\ y.back = x.back
               /\ y.done => x.done \/ RequestOf(x) = r
               /\ x.done => y.done
<1>1. PICK l, d, q, o, b, lo, hi, e :
        /\ x = [line |-> l, depot |-> d, qty |-> q, out |-> o, back |-> b, lo |-> lo, hi |-> hi, done |-> e]
        /\ x.line = l /\ x.depot = d /\ x.qty = q /\ x.out = o /\ x.back = b /\ x.lo = lo /\ x.hi = hi /\ x.done = e
  BY FieldsAre
<1>2. /\ l \in LineSet /\ d \in Depots /\ q \in Nat /\ o \in Nat /\ b \in Nat /\ lo \in 0..MaxTime /\ hi \in Dates
      /\ b <= o /\ o <= q /\ lo < hi /\ e \in BOOLEAN /\ (e \/ q > 0)
  BY <1>1, FieldsAre DEF Row, SoundRow
<1>3. PICK f \in BOOLEAN : f = (e \/ (RequestOf(x) = r /\ o = q))
  OBVIOUS
<1>4. (e => f) /\ (f => e \/ RequestOf(x) = r)
  BY <1>3, Zenon
<1>5. PICK y : y = [line |-> l, depot |-> d, qty |-> q, out |-> o, back |-> b, lo |-> lo, hi |-> hi, done |-> f]
  OBVIOUS
<1>6. Finished(x, r) = [x EXCEPT !.done = (x.done \/ (RequestOf(x) = r /\ x.out = x.qty))]
  BY DEF Finished
<1>7. Finished(x, r) = [x EXCEPT !.done = f]
  <2>1. (x.done \/ (RequestOf(x) = r /\ x.out = x.qty)) = f
    BY <1>1, <1>3, Zenon
  <2>2. QED
    BY <1>6, <2>1, Zenon
<1>8. Finished(x, r) = y
  BY <1>1, <1>5, <1>7
<1>9. Row(y)
  BY <1>2, <1>4, <1>5 DEF Row, Reservation, SoundRow
<1>10. QED
  BY <1>1, <1>4, <1>5, <1>8, <1>9

LEMMA FinishedGrows ==
    ASSUME NEW rs, Table(rs), NEW r \in EmployeeRequests, NEW new, new = [i \in DOMAIN rs |-> Finished(rs[i], r)]
    PROVE  Grown(new, rs, {r}) /\ \A p : Outstanding(new, p) = Outstanding(rs, p)
<1>1. PICK n \in Nat : n = Len(rs) /\ DOMAIN rs = 1..n
  BY TableIs
<1>2. RequestSites[r] \notin Projects
  BY DEF EmployeeRequests, ProjectRequests
<1>3. ASSUME NEW i \in DOMAIN rs
      PROVE  /\ Row(new[i]) /\ Grows(new[i], rs[i], {r}) /\ new[i].line = rs[i].line
             /\ new[i].out - new[i].back = rs[i].out - rs[i].back
  <2>1. PICK x, y : x = rs[i] /\ y = new[i] /\ y = Finished(x, r)
    OBVIOUS
  <2>2. Row(x) /\ x.qty \in Nat /\ x.out \in Nat /\ x.back \in Nat
    BY <2>1, TableIs, FieldsAre
  <2>3. /\ Row(y) /\ y.line = x.line /\ y.qty = x.qty /\ y.out = x.out /\ y.back = x.back
        /\ y.done => x.done \/ RequestOf(x) = r
        /\ x.done => y.done
    BY <2>1, <2>2, FinishedIs
  <2>4. RequestOf(y) = RequestOf(x) /\ Unused(y) = Unused(x)
    BY <2>3 DEF RequestOf, Unused
  <2>5. BackOrOpen(x) => BackOrOpen(y)
    BY <1>2, <2>3, <2>4 DEF BackOrOpen
  <2>6. Idle(x) => Idle(y)
    BY <2>3, <2>4 DEF Idle
  <2>7. QED
    BY <2>1, <2>2, <2>3, <2>5, <2>6 DEF Grows
<1>4. new = [i \in 1..n |-> new[i]]
  BY <1>1
<1>5. \A i \in 1..n : Row(new[i])
  BY <1>1, <1>3
<1>6. Table(new) /\ Len(new) = n /\ DOMAIN new = 1..n
  BY <1>4, <1>5, MakesTable
<1>7. Same(new, rs)
  BY <1>1, <1>6 DEF Same
<1>8. Aligned(new, rs)
  BY <1>3, <1>7 DEF Aligned
<1>9. ASSUME NEW p PROVE Outstanding(new, p) = Outstanding(rs, p)
  <2>1. \A i \in RowsAt(rs, p) : new[i].out - new[i].back = rs[i].out - rs[i].back
    BY <1>3 DEF RowsAt
  <2>2. QED
    BY <1>8, <2>1, OutstandingSame
<1>10. QED
  BY <1>3, <1>7, <1>9 DEF Grown

LEMMA IssueForKeeps ==
    ASSUME PlanInv, NEW d \in Depots, NEW r \in EmployeeRequests, NEW q \in Amounts, NEW until, IssueFor(d, r, q, until)
    PROVE  PlanInv' /\ Len(res') = Len(res)
<1>1. PICK took, D, S, rs, given :
        /\ D = {d} /\ S = {r} /\ took = Took(res, r, D, q) /\ rs = res' /\ given = issued'
        /\ rs = [i \in DOMAIN took |-> Finished(took[i], r)] /\ given = [issued EXCEPT ![r] = @ + q]
        /\ status' = Refreshed(S, line, rs, given)
  BY DEF IssueFor, Finished
<1>2. /\ Call /\ status[r] \in Live /\ OffShelf(d, q) /\ person' = person + q
      /\ UNCHANGED <<faulty, site, transit, ended, window, line>>
  BY DEF IssueFor
<1>3. q \in Nat
  BY AmountsAre
<1>4. calls' \in 0..MaxCalls /\ now' \in 0..MaxTime /\ shelf' \in [Depots -> Nat]
  BY <1>2, InvHas, CallIs, LeftShelf
<1>5. PlacesOK'
  <2>1. PlacesOK
    BY InvHas
  <2>2. QED
    BY <2>1, <1>2, <1>3, <1>4 DEF PlacesOK
<1>6. Grown(took, res, {r}) /\ Table(took)
  <2>1. Grown(took, res, {r})
    BY <1>1, <1>3, InvHas, TookGrows
  <2>2. QED
    BY <2>1 DEF Grown, Same
<1>7. Grown(rs, took, {r}) /\ \A p : Outstanding(rs, p) = Outstanding(took, p)
  <2>1. rs = [i \in DOMAIN took |-> Finished(took[i], r)] /\ Table(took)
    BY <1>1, <1>6
  <2>2. Grown(rs, took, {r})
    BY <2>1, FinishedGrows
  <2>3. \A p : Outstanding(rs, p) = Outstanding(took, p)
    BY <2>1, FinishedGrows
  <2>4. QED
    BY <2>2, <2>3
<1>8. Grown(rs, res, {r})
  BY <1>6, <1>7, InvHas, GrownOn
<1>9. Ready(rs, line)
  <2>1. \A s \in {r} : status[s] \in Live
    BY <1>2
  <2>2. QED
    BY <1>8, <2>1, LinesStill, RowsKeep
<1>10. ASSUME NEW s \in Projects PROVE Outstanding(rs, s) <= site[s].qty
  <2>1. s # RequestSites[r]
    BY DEF EmployeeRequests, ProjectRequests
  <2>2. Outstanding(took, s) = Outstanding(res, s)
    BY <1>1, <1>3, <2>1, InvHas, TookSums
  <2>3. QED
    BY <1>7, <2>2, InvHas
<1>11. /\ Table(rs) /\ Refreshed(S, line, rs, given) \in [Requests -> Statuses]
       /\ Agree(rs, line, site, Refreshed(S, line, rs, given))
  BY <1>9, <1>10, InvHas, OpenStays, RefreshKeeps
<1>12. issued' \in [EmployeeRequests -> Nat]
  BY <1>1, <1>3, InvHas
<1>13. PlansOK' /\ Agree(res', line', site', status')
  BY <1>1, <1>2, <1>11, <1>12, InvHas DEF PlansOK
<1>14. Len(res') = Len(res)
  BY <1>1, <1>8 DEF Grown, Same
<1>15. QED
  BY <1>5, <1>13, <1>14, Assembled

LEMMA LeastIs == ASSUME NEW I \in SUBSET Nat, I # {} PROVE Min(I) \in I
<1>1. \E n \in I : \A m \in I : n <= m
  BY SmallestNumber
<1>2. QED
  BY <1>1 DEF Min

(* What is on project p goes to request r of another project: credited to the
   reservations of p, taken off those of r, and what r has not reserved is
   reserved with it on the first line that has room. *)
HandsOver(p, r, q, due, d, given, took, extra) ==
    /\ given = GaveBack(res, p, q) /\ took = Took(given, r, Depots, q) /\ extra = q - Covered(given, r, Depots, q)
    /\ \/ extra = 0 /\ res' = took
       \/ extra # 0 /\ \E l \in OpenLines(line, r) :
             /\ line[l].qty - LineReserved(took, l) >= extra
             /\ res' = Append(took, [line |-> l, depot |-> d, qty |-> extra, out |-> extra, back |-> 0,
                                     lo |-> now, hi |-> due, done |-> FALSE])

LEMMA HandOverDoes ==
    ASSUME PlanInv, NEW p \in Projects, NEW r \in ProjectRequests, NEW q \in Amounts, NEW due \in Dates, NEW d \in Depots,
           HandOver(p, r, q, due, d)
    PROVE  \E given, took, extra : HandsOver(p, r, q, due, d, given, took, extra)
<1>1. PICK given, took, extra : /\ given = GaveBack(res, p, q) /\ took = Took(given, r, Depots, q)
                                /\ extra = q - Covered(given, r, Depots, q)
  OBVIOUS
<1>2. PICK I : I = {i \in 1..Len(LineOrder) : LineOrder[i] \in OpenLines(line, r) /\ line[LineOrder[i]].qty - LineReserved(took, LineOrder[i]) >= extra}
  OBVIOUS
<1>3. PICK k : k = IF I # {} THEN Min(I) ELSE 0
  OBVIOUS
<1>4. k = SelectInSeq(LineOrder, LAMBDA l : l \in OpenLines(line, r) /\ line[l].qty - LineReserved(took, l) >= extra)
  BY <1>2, <1>3 DEF SelectInSeq
<1>5. /\ extra > 0 => k > 0
      /\ res' = IF extra = 0 THEN took
                ELSE Append(took, [line |-> LineOrder[k], depot |-> d, qty |-> extra, out |-> extra, back |-> 0,
                                   lo |-> now, hi |-> due, done |-> FALSE])
  BY <1>1, <1>2, <1>3 DEF HandOver, GiverCredited, SelectInSeq
<1>6. extra \in Nat
  <2>1. Table(given) /\ q \in Nat
    BY <1>1, AmountsAre, InvHas, GaveBackIs DEF Same
  <2>2. Covered(given, r, Depots, q) \in 0..q
    BY <2>1, TookIs
  <2>3. QED
    BY <1>1, <2>1, <2>2
<1>7. CASE extra = 0
  BY <1>1, <1>5, <1>7 DEF HandsOver
<1>8. CASE extra # 0
  <2>1. k > 0
    BY <1>5, <1>6, <1>8
  <2>2. I # {} /\ k = Min(I)
    BY <1>3, <2>1
  <2>3. I \in SUBSET Nat
    BY <1>2, PlanningData
  <2>4. k \in I
    BY <2>2, <2>3, LeastIs
  <2>5. PICK l : l = LineOrder[k]
    OBVIOUS
  <2>6. l \in OpenLines(line, r) /\ line[l].qty - LineReserved(took, l) >= extra
    BY <1>2, <2>4, <2>5
  <2>7. res' = Append(took, [line |-> l, depot |-> d, qty |-> extra, out |-> extra, back |-> 0,
                             lo |-> now, hi |-> due, done |-> FALSE])
    BY <1>5, <1>8, <2>5
  <2>8. QED
    BY <1>1, <1>8, <2>6, <2>7 DEF HandsOver
<1>9. QED
  BY <1>7, <1>8

LEMMA SiteHandedOver ==
    ASSUME PlacesOK, NEW p \in Projects, NEW t \in Projects, t # p, NEW q \in Amounts, q <= site[p].qty, NEW due \in Dates,
           site' = [site EXCEPT ![p].qty = @ - q, ![t] = Sent(t, q, due, {})]
    PROVE  /\ site' \in [Projects -> SiteRecord]
           /\ \A s \in Projects : site'[s].qty = IF s = p THEN site[s].qty - q
                                                 ELSE IF s = t THEN site[s].qty + q ELSE site[s].qty
<1>1. PICK a, b, c : site[p] = [qty |-> a, due |-> b, from |-> c] /\ a \in Nat /\ b \in 0..MaxTime /\ c \in SUBSET Depots
  BY DEF PlacesOK
<1>2. q \in Nat /\ q <= a /\ {} \in SUBSET Depots
  BY <1>1, AmountsAre
<1>3. PICK x : x = [qty |-> a - q, due |-> b, from |-> c]
  OBVIOUS
<1>4. x \in SiteRecord /\ x.qty = site[p].qty - q
  BY <1>1, <1>2, <1>3 DEF SiteRecord
<1>5. PICK y : y = Sent(t, q, due, {}) /\ y \in SiteRecord /\ y.qty = site[t].qty + q
  BY <1>2, SentIs
<1>6. site \in [Projects -> SiteRecord] /\ site' = [site EXCEPT ![p] = x, ![t] = y]
  <2>1. site \in [Projects -> SiteRecord]
    BY DEF PlacesOK, SiteRecord
  <2>2. [site[p] EXCEPT !.qty = @ - q] = x
    BY <1>1, <1>3
  <2>3. site' = [site EXCEPT ![p] = [site[p] EXCEPT !.qty = @ - q], ![t] = y]
    BY <1>5
  <2>4. QED
    BY <2>1, <2>2, <2>3
<1>7. QED
  BY <1>4, <1>5, <1>6

LEMMA HandOverKeeps ==
    ASSUME PlanInv, NEW p \in Projects, NEW r \in ProjectRequests, NEW q \in Amounts, NEW due \in Dates, NEW d \in Depots,
           HandOver(p, r, q, due, d)
    PROVE  PlanInv' /\ (Len(res') = Len(res) \/ Unused(res'[Len(res')]) = 0)
<1>1. PICK given, took, extra : HandsOver(p, r, q, due, d, given, took, extra)
  BY HandOverDoes
<1>2. PICK t \in Projects : t = RequestSites[r]
  BY DEF ProjectRequests
<1>3. PICK rs, S : rs = res' /\ S = {r} \cup RequestsOf(p) /\ status' = Refreshed(S, line, rs, issued)
  BY DEF HandOver
<1>4. /\ Call /\ t # p /\ status[r] \in Live /\ due > now /\ q <= site[p].qty
      /\ site' = [site EXCEPT ![p].qty = @ - q, ![t] = Sent(t, q, due, {})]
      /\ UNCHANGED <<shelf, faulty, person, transit, ended, window, line, issued>>
  BY <1>2 DEF HandOver
<1>5. q \in Nat /\ r \in Requests
  BY AmountsAre DEF ProjectRequests
<1>6. /\ site' \in [Projects -> SiteRecord]
      /\ \A s \in Projects : site'[s].qty = IF s = p THEN site[s].qty - q
                                            ELSE IF s = t THEN site[s].qty + q ELSE site[s].qty
  BY <1>4, InvHas, SiteHandedOver
<1>7. calls' \in 0..MaxCalls /\ now' \in 0..MaxTime
  BY <1>4, InvHas, CallIs
<1>8. PlacesOK'
  <2>1. PlacesOK
    BY InvHas
  <2>2. QED
    BY <2>1, <1>4, <1>6, <1>7 DEF PlacesOK, SiteRecord
<1>9. /\ given = GaveBack(res, p, q) /\ took = Took(given, r, Depots, q) /\ extra = q - Covered(given, r, Depots, q)
      /\ \/ extra = 0 /\ rs = took
         \/ extra # 0 /\ \E l \in OpenLines(line, r) :
               /\ line[l].qty - LineReserved(took, l) >= extra
               /\ rs = Append(took, [line |-> l, depot |-> d, qty |-> extra, out |-> extra, back |-> 0,
                                     lo |-> now, hi |-> due, done |-> FALSE])
  BY <1>1, <1>3 DEF HandsOver
<1>10. Grown(given, res, {r}) /\ Table(given)
  <2>1. Grown(given, res, {})
    BY <1>5, <1>9, InvHas, GaveBackGrows
  <2>2. QED
    BY <2>1, GrownWider DEF Grown, Same
<1>11. PICK c : c = Covered(given, r, Depots, q) /\ c \in 0..q /\ extra = q - c /\ extra \in Nat
  <2>1. Covered(given, r, Depots, q) \in 0..q
    BY <1>5, <1>10, TookIs
  <2>2. QED
    BY <1>5, <1>9, <2>1
<1>12. Grown(took, res, {r})
  <2>1. Grown(took, given, {r})
    BY <1>5, <1>9, <1>10, TookGrows
  <2>2. QED
    BY <1>10, <2>1, InvHas, GrownOn
<1>13. Ready(took, line) /\ Table(took) /\ Len(took) = Len(res)
  <2>1. \A s \in {r} : status[s] \in Live
    BY <1>4
  <2>2. Ready(took, line)
    BY <1>12, <2>1, LinesStill, RowsKeep
  <2>3. QED
    BY <1>12, <2>2 DEF Ready, Grown, Same
<1>14. ASSUME NEW s \in Projects
       PROVE  Outstanding(took, s) = IF s = p THEN Outstanding(res, s) - Lesser(q, Outstanding(res, s))
                                     ELSE IF s = t THEN Outstanding(res, s) + c ELSE Outstanding(res, s)
  <2>1. Outstanding(given, s) = IF s = p THEN Outstanding(res, s) - Lesser(q, Outstanding(res, s)) ELSE Outstanding(res, s)
    BY <1>5, <1>9, InvHas, GaveBackSums
  <2>2. Outstanding(took, s) = IF s = t THEN Outstanding(given, s) + c ELSE Outstanding(given, s)
    BY <1>2, <1>5, <1>9, <1>10, <1>11, TookSums
  <2>3. QED
    BY <1>4, <2>1, <2>2
<1>15. /\ Ready(rs, line) /\ (Len(rs) = Len(res) \/ Unused(rs[Len(rs)]) = 0)
       /\ \A s \in Projects : Outstanding(rs, s) = IF s = t THEN Outstanding(took, s) + extra ELSE Outstanding(took, s)
  <2>1. CASE extra = 0
    <3>1. rs = took
      BY <1>9, <2>1
    <3>2. \A s \in Projects : Outstanding(took, s) \in Nat
      BY <1>13, OutstandingIs
    <3>3. QED
      BY <1>13, <2>1, <3>1, <3>2
  <2>2. CASE extra # 0
    <3>1. PICK l \in OpenLines(line, r) :
            /\ line[l].qty - LineReserved(took, l) >= extra
            /\ rs = Append(took, [line |-> l, depot |-> d, qty |-> extra, out |-> extra, back |-> 0,
                                  lo |-> now, hi |-> due, done |-> FALSE])
      BY <1>9, <2>2
    <3>2. PICK x : x = [line |-> l, depot |-> d, qty |-> extra, out |-> extra, back |-> 0,
                        lo |-> now, hi |-> due, done |-> FALSE]
      OBVIOUS
    <3>3. l \in LineSet /\ LineOf[l] = r /\ line[l].open
      BY DEF OpenLines
    <3>4. now \in 0..MaxTime
      BY InvHas DEF PlacesOK
    <3>5. /\ x.line = l /\ x.qty = extra /\ x.out = extra /\ x.back = 0 /\ ~x.done
          /\ Unused(x) = 0 /\ RequestOf(x) = r
      BY <1>11, <3>2, <3>3 DEF Unused, RequestOf
    <3>6. Row(x)
      BY <1>4, <1>11, <2>2, <3>2, <3>3, <3>4 DEF Row, Reservation, SoundRow
    <3>7. Longer(rs, took, x)
      BY <1>13, <3>1, <3>2, <3>6, AppendIs
    <3>8. LineReserved(took, x.line) + x.qty <= line[x.line].qty
      <4>1. PICK a, b : a = LineReserved(took, l) /\ b = line[l].qty
        OBVIOUS
      <4>2. a \in Nat /\ b \in Nat
        BY <1>13, <3>3, <4>1, InvHas, LineSums DEF LineTable
      <4>3. b - a >= extra
        BY <3>1, <4>1
      <4>4. a + extra <= b
        BY <1>11, <4>2, <4>3
      <4>5. QED
        BY <3>5, <4>1, <4>4
    <3>9. Ready(rs, line)
      BY <1>4, <1>13, <3>3, <3>5, <3>6, <3>7, <3>8, InvHas, LongerReady
    <3>10. ASSUME NEW s \in Projects
           PROVE  Outstanding(rs, s) = IF s = t THEN Outstanding(took, s) + extra ELSE Outstanding(took, s)
      <4>1. Outstanding(rs, s) = IF RequestSites[RequestOf(x)] = s THEN Outstanding(took, s) + (x.out - x.back)
                                 ELSE Outstanding(took, s)
        BY <1>13, <3>6, <3>7, LongerOutstanding
      <4>2. x.out - x.back = extra
        BY <1>11, <3>5
      <4>3. QED
        BY <1>2, <3>5, <4>1, <4>2
    <3>11. Unused(rs[Len(rs)]) = 0
      BY <3>5, <3>7 DEF Longer
    <3>12. QED
      BY <3>9, <3>10, <3>11
  <2>3. QED
    BY <2>1, <2>2
<1>16. ASSUME NEW s \in Projects PROVE Outstanding(rs, s) <= site'[s].qty
  <2>1. PICK a, b, e, f : a = Outstanding(res, s) /\ b = site[s].qty /\ e = Outstanding(took, s) /\ f = Outstanding(rs, s)
    OBVIOUS
  <2>2. a \in Nat /\ b \in Nat /\ a <= b
    BY <2>1, InvHas
  <2>3. e = IF s = p THEN a - Lesser(q, a) ELSE IF s = t THEN a + c ELSE a
    BY <1>14, <2>1
  <2>4. f = IF s = t THEN e + extra ELSE e
    BY <1>15, <2>1
  <2>5. site'[s].qty = IF s = p THEN b - q ELSE IF s = t THEN b + q ELSE b
    BY <1>6, <2>1
  <2>6. s = p => q <= b
    BY <1>4, <2>1
  <2>7. CASE s = p
    BY <1>4, <1>5, <2>1, <2>2, <2>3, <2>4, <2>5, <2>6, <2>7 DEF Lesser
  <2>8. CASE s = t
    BY <1>4, <1>5, <1>11, <2>1, <2>2, <2>3, <2>4, <2>5, <2>8
  <2>9. CASE s # p /\ s # t
    BY <2>1, <2>2, <2>3, <2>4, <2>5, <2>9
  <2>10. QED
    BY <2>7, <2>8, <2>9
<1>17. /\ Table(rs) /\ Refreshed(S, line, rs, issued) \in [Requests -> Statuses]
       /\ Agree(rs, line, site', Refreshed(S, line, rs, issued))
  <2>1. PICK st : st = site'
    OBVIOUS
  <2>2. \A s \in Projects : Outstanding(rs, s) <= st[s].qty
    BY <1>16, <2>1
  <2>3. /\ Table(rs) /\ Refreshed(S, line, rs, issued) \in [Requests -> Statuses]
        /\ Agree(rs, line, st, Refreshed(S, line, rs, issued))
    BY <1>15, <2>2, InvHas, OpenStays, RefreshKeeps
  <2>4. QED
    BY <2>1, <2>3
<1>18. PlansOK' /\ Agree(res', line', site', status')
  BY <1>3, <1>4, <1>17, InvHas DEF PlansOK
<1>19. QED
  BY <1>3, <1>8, <1>15, <1>18, Assembled

------------------------------------------------------------------------------
(* A new reservation fits. *)

LEMMA LongerDemand ==
    ASSUME NEW rs, Table(rs), NEW x, Row(x), NEW new, Longer(new, rs, x), NEW d, NEW t
    PROVE  Demand(new, d, t) <= Demand(rs, d, t) + Unused(x)
<1>1. PICK k : k = Len(new)
  OBVIOUS
<1>2. /\ Table(new) /\ DOMAIN new = DOMAIN rs \cup {k} /\ k \notin DOMAIN rs /\ new[k] = x
      /\ \A i \in DOMAIN rs : new[i] = rs[i]
  BY <1>1 DEF Longer
<1>3. PICK I \in SUBSET DOMAIN rs : I = Wanted(rs, d, t)
  BY DEF Wanted
<1>4. I \in SUBSET DOMAIN new /\ k \notin I /\ IsFiniteSet(I) /\ k \in DOMAIN new
  BY <1>2, RowsFinite
<1>5. Wanted(new, d, t) = I \cup {k} \/ Wanted(new, d, t) = I
  BY <1>2, <1>3 DEF Wanted
<1>6. PICK F, G : F = Unuseds(rs) /\ G = Unuseds(new)
  OBVIOUS
<1>7. \A i \in I : F[i] \in Int /\ G[i] = F[i]
  <2>1. \A i \in I : F[i] \in Int
    BY <1>3, <1>6, UnusedsAre
  <2>2. QED
    BY <1>2, <1>4, <1>6, <2>1 DEF Unuseds
<1>8. G[k] = Unused(x) /\ Unused(x) \in Nat /\ Continues(G, F, I, k)
  <2>1. G[k] = Unused(x) /\ Unused(x) \in Nat
    BY <1>2, <1>4, <1>6, FieldsAre DEF Unuseds
  <2>2. QED
    BY <1>4, <1>7, <2>1 DEF Continues
<1>9. SumOver(G, I) = SumOver(F, I) /\ SumOver(G, I \cup {k}) = SumOver(F, I) + G[k]
  BY <1>4, <1>8, OneMore
<1>10. Demand(rs, d, t) = SumOver(F, I) /\ Demand(new, d, t) = SumOver(G, Wanted(new, d, t)) /\ Demand(rs, d, t) \in Nat
  BY <1>2, <1>3, <1>6, DemandIs
<1>11. QED
  BY <1>5, <1>8, <1>9, <1>10

LEMMA ReserveFits ==
    ASSUME PlanInv, NEW l \in LineSet, NEW d \in Depots, NEW ask \in Amounts \cup {Remaining(l)}, Reserve(l, d, ask)
    PROVE  RowFits(Len(res))'
<1>1. PICK x : /\ Row(x) /\ res' = Append(res, x) /\ ~x.done /\ x.depot = d /\ x.out = 0
               /\ x.qty \in Nat /\ x.qty > 0 /\ x.lo \in Int /\ x.hi \in Int
               /\ x.qty <= Free(res, d, x.lo, x.hi, {})
  BY ReserveMakes
<1>2. now' = now /\ shelf' = shelf /\ site' = site /\ transit' = transit /\ now \in Int /\ PlacesOK /\ Table(res)
  BY InvHas DEF Reserve, Call, goods, PlacesOK
<1>3. Longer(res', res, x) /\ res'[Len(res')] = x
  BY <1>1, <1>2, AppendIs DEF Longer
<1>4. PICK lo, hi, q : lo = x.lo /\ hi = x.hi /\ q = x.qty /\ Unused(x) = q
  BY <1>1 DEF Unused
<1>5. ASSUME NEW t \in Max({now, lo})..(hi - 1)
      PROVE  Demand(res', d, t) <= shelf[d] + OnTimeReturns(d, t) + OnTimeArrivals(d, t)
  <2>1. t \in Int /\ lo <= t /\ t < hi
    BY <1>1, <1>2, <1>4, MaxOfTwo
  <2>2. Demand(res, d, t) + q <= shelf[d] + OnTimeReturns(d, lo) + OnTimeArrivals(d, lo)
    BY <1>1, <1>2, <1>4, <2>1, LeftCovers
  <2>3. /\ OnTimeReturns(d, lo) \in Nat /\ OnTimeArrivals(d, lo) \in Nat
        /\ OnTimeReturns(d, t) \in Nat /\ OnTimeArrivals(d, t) \in Nat
        /\ OnTimeReturns(d, lo) <= OnTimeReturns(d, t) /\ OnTimeArrivals(d, lo) <= OnTimeArrivals(d, t)
    BY <1>1, <1>2, <1>4, <2>1, ReturnsAre
  <2>4. Demand(res', d, t) <= Demand(res, d, t) + q
    BY <1>1, <1>2, <1>3, <1>4, LongerDemand
  <2>5. Table(res') /\ Demand(res, d, t) \in Nat /\ shelf[d] \in Nat
    BY <1>2, <1>3, DemandIs DEF Longer, PlacesOK
  <2>6. Demand(res', d, t) \in Nat
    BY <2>5, DemandIs
  <2>7. PICK a, b, c, e, f, g : /\ a = Demand(res', d, t) /\ b = Demand(res, d, t) /\ c = OnTimeReturns(d, lo)
                                /\ e = OnTimeArrivals(d, lo) /\ f = OnTimeReturns(d, t) /\ g = OnTimeArrivals(d, t)
    OBVIOUS
  <2>8. a <= shelf[d] + f + g
    BY <1>1, <1>4, <2>2, <2>3, <2>4, <2>5, <2>6, <2>7
  <2>9. QED
    BY <2>7, <2>8
<1>6. ASSUME NEW t
      PROVE  SupplyAt(d, t)' = shelf[d] + OnTimeReturns(d, t) + OnTimeArrivals(d, t) /\ DemandAt(d, t)' = Demand(res', d, t)
  <2>1. DemandAt(d, t)' = Demand(res', d, t)
    BY DEF DemandAt, Demand, Total
  <2>2. OnTimeReturns(d, t)' = OnTimeReturns(d, t)
    BY <1>2 DEF OnTimeReturns
  <2>3. OnTimeArrivals(d, t)' = OnTimeArrivals(d, t)
    BY <1>2 DEF OnTimeArrivals
  <2>4. QED
    BY <1>2, <2>1, <2>2, <2>3 DEF SupplyAt
<1>7. QED
  BY <1>1, <1>2, <1>3, <1>4, <1>5, <1>6 DEF RowFits

------------------------------------------------------------------------------
(* The theorems. *)

LEMMA PlanInit == PlanningInit => PlanInv
<1>1. SUFFICES ASSUME PlanningInit PROVE PlanInv
  OBVIOUS
<1>2. Table(res) /\ res = <<>> /\ DOMAIN res = {}
  BY <1>1 DEF PlanningInit, Table
<1>3. PlacesOK
  BY <1>1, PlanningData DEF PlanningInit, PlacesOK, None
<1>4. PlansOK /\ LineTable(line)
  BY <1>1, <1>2, PlanningData DEF PlanningInit, PlansOK, LineTable, Statuses, OpenStatuses, Live
<1>5. ASSUME NEW l \in LineSet PROVE LineReserved(res, l) <= line[l].qty
  <2>1. LineReserved(res, l) = SumOver(Qtys(res), RowsOf(res, l)) /\ RowsOf(res, l) = {}
    BY <1>2, LineSums DEF RowsOf
  <2>2. LineReserved(res, l) = 0
    BY <2>1, SumNone
  <2>3. QED
    BY <1>4, <2>2 DEF LineTable
<1>6. ASSUME NEW p \in Projects PROVE Outstanding(res, p) <= site[p].qty
  <2>1. Outstanding(res, p) = SumOver(Aways(res), RowsAt(res, p)) /\ RowsAt(res, p) = {}
    BY <1>2, OutstandingIs DEF RowsAt
  <2>2. Outstanding(res, p) = 0
    BY <2>1, SumNone
  <2>3. QED
    BY <1>3, <2>2 DEF PlacesOK
<1>7. Freed(res, line, status) /\ SettledRows(res)
  BY <1>2 DEF Freed, SettledRows
<1>8. Says(status, line, res)
  BY <1>1 DEF PlanningInit, Says, SaysOf, ProjectRequests
<1>9. QED
  BY <1>3, <1>4, <1>5, <1>6, <1>7, <1>8 DEF PlanInv, Agree

(* Only a reservation adds a row that is not out in full. *)
LEMMA PlanNext ==
    ASSUME PlanInv, [PlanningNext]_planningVars
    PROVE  /\ PlanInv'
           /\ Len(res') = Len(res) + 1 /\ Unused(res'[Len(res')]) > 0 => RowFits(Len(res))' \/ UNCHANGED planningVars
<1> DEFINE Fine == PlanInv' /\ (Len(res') = Len(res) \/ Unused(res'[Len(res')]) = 0)
<1>1. Len(res) \in Nat
  BY InvHas, TableIs
<1>2. CASE Fine
  BY <1>1, <1>2
<1>3. CASE \E l \in LineSet, d \in Depots : \E q \in Amounts \cup {Remaining(l)} : Reserve(l, d, q)
  BY <1>3, ReserveKeeps, ReserveFits
<1>4. CASE Tick
  BY <1>1, <1>4, TickKeeps
<1>5. CASE \E i \in DOMAIN res : Release(i)
  BY <1>1, <1>5, ReleaseKeeps
<1>6. CASE \E l \in LineSet, q \in Amounts : ChangeLineQty(l, q)
  BY <1>1, <1>6, ChangeLineQtyKeeps
<1>7. CASE \E l \in LineSet : CancelLine(l)
  BY <1>1, <1>7, CancelLineKeeps
<1>8. CASE \E r \in Requests : CancelRequest(r)
  BY <1>1, <1>8, CancelRequestKeeps
<1>9. CASE \E r \in Requests, w \in Windows : ChangeWindow(r, w)
  BY <1>1, <1>9, ChangeWindowKeeps
<1>10. CASE \E p \in Projects : EndProject(p)
  BY <1>1, <1>10, EndProjectKeeps
<1>11. CASE \E d \in Depots, p \in Projects, q \in Amounts, due \in Dates : Dispatch(d, p, q, due)
  BY <1>1, <1>11, DispatchKeeps
<1>12. CASE \E d \in Depots, r \in ProjectRequests, q \in Amounts, due \in Dates : DispatchFor(d, r, q, due)
  BY <1>1, <1>12, DispatchForKeeps
<1>13. CASE \E p \in Projects, d \in Depots, q \in Amounts, good \in BOOLEAN : Return(p, d, q, good)
  BY <1>1, <1>13, ReturnKeeps
<1>14. CASE \E d \in Depots, q \in Amounts, until \in Dates \cup {Never} : Issue(d, q, until)
  BY <1>1, <1>14, IssueKeeps
<1>15. CASE \E d \in Depots, r \in EmployeeRequests, q \in Amounts, until \in Dates \cup {Never} : IssueFor(d, r, q, until)
  BY <1>1, <1>15, IssueForKeeps
<1>16. CASE \E d \in Depots, q \in Amounts, good \in BOOLEAN : ReturnFromPerson(d, q, good)
  BY <1>1, <1>16, ReturnFromPersonKeeps
<1>17. CASE \E p \in Projects, r \in ProjectRequests, q \in Amounts, due \in Dates, d \in Depots : HandOver(p, r, q, due, d)
  <2>1. PICK p \in Projects, r \in ProjectRequests, q \in Amounts, due \in Dates, d \in Depots : HandOver(p, r, q, due, d)
    BY <1>17
  <2>2. Fine
    BY <2>1, HandOverKeeps
  <2>3. QED
    BY <1>2, <2>2
<1>18. CASE \E d, e \in Depots, q \in Amounts, at \in Dates \cup {None} : SendTransfer(d, e, q, at)
  BY <1>1, <1>18, SendTransferKeeps
<1>19. CASE \E e \in Depots, q \in Amounts, good \in BOOLEAN : ReceiveTransfer(e, q, good)
  BY <1>1, <1>19, ReceiveTransferKeeps
<1>20. CASE \E d \in Depots, q \in Amounts, good \in BOOLEAN : CheckShelf(d, q, good)
  BY <1>1, <1>20, CheckShelfKeeps
<1>21. CASE UNCHANGED planningVars
  <2>1. PlanInv'
    BY <1>21 DEF planningVars, goods, plans, PlanInv, PlacesOK, PlansOK
  <2>2. QED
    BY <1>21, <2>1
<1>22. QED
  BY <1>3, <1>4, <1>5, <1>6, <1>7, <1>8, <1>9, <1>10, <1>11, <1>12, <1>13, <1>14, <1>15, <1>16, <1>17,
     <1>18, <1>19, <1>20, <1>21 DEF PlanningNext

(* The inductive invariant. *)
THEOREM PlanningInvariant == PlanningSpec => []PlanInv
<1>1. PlanInv /\ [PlanningNext]_planningVars => PlanInv'
  BY PlanNext
<1>2. QED
  BY <1>1, PlanInit, PTL DEF PlanningSpec

(* Types, and the row constraints of inv_reservations: no row is ever out for
   more than it holds, or back for more than went out. *)
THEOREM PlanningTyped == PlanningSpec => []PlanningTypeOK
BY PlanningInvariant, PlanInvSays, PTL

(* A line never holds more reservations than it asks for, what the reservations
   of a project say is out is on the project, and what is cancelled holds
   nothing from anybody. *)
THEOREM RowsAgreeAlways == PlanningSpec => []RowsAgree
BY PlanningInvariant, PlanInvSays, PTL

(* "fulfilled" and "closed" are only said of requests for which that is so. *)
THEOREM StatusTrueAlways == PlanningSpec => []StatusTrue
BY PlanningInvariant, PlanInvSays, PTL

(* A reservation is only made when everything reserved is covered at every
   instant of its window. *)
THEOREM ReservationsAlwaysFit == PlanningSpec => ReservationsFit
<1>1. PlanInv /\ [PlanningNext]_planningVars => [Len(res') = Len(res) + 1 /\ Unused(res'[Len(res')]) > 0 => RowFits(Len(res))']_planningVars
  BY PlanNext
<1>2. QED
  BY <1>1, PlanningInvariant, PTL DEF PlanningSpec, ReservationsFit

(* What leaves without a reservation leaves enough for every reservation. *)
THEOREM NothingIsDisplaced == PlanningSpec => NothingDisplaced
<1>1. PlanInv /\ [PlanningNext]_planningVars
        => [shelf' # shelf /\ res' = res => \A d \in Depots, q \in Amounts :
              /\ \A p \in Projects, due \in Dates : Dispatch(d, p, q, due) => Spared(d, due)'
              /\ \A until \in Dates \cup {Never} : Issue(d, q, until) => Spared(d, until)'
              /\ \A e \in Depots, at \in Dates \cup {None} : SendTransfer(d, e, q, at) => Spared(d, Never)']_planningVars
  BY PlanInvSays, DisplacesNothing
<1>2. QED
  BY <1>1, PlanningInvariant, PTL DEF PlanningSpec, NothingDisplaced
==============================================================================

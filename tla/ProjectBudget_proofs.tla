------------------------ MODULE ProjectBudget_proofs ------------------------
(***************************************************************************)
(* Proofs about ProjectBudget, for any people, amounts and bounds:         *)
(*                                                                         *)
(*   SettledIsEven    a closed settlement is even, and at most one version *)
(*                    of each paper is in progress (BudgetSound);          *)
(*   RowsAreShown     an approved row is not left out of the final         *)
(*                    expenses (HiddenOnlyWhenAdded);                      *)
(*   AnotherCloses    nobody closes the settlement of their own expenses   *)
(*                    (ClosedByAnother).                                   *)
(*                                                                         *)
(* What makes the first two inductive is that only the last submission of  *)
(* final expenses is in hand: every earlier one was returned, because one  *)
(* is entered only when none is drafted, submitted or approved.            *)
(***************************************************************************)
EXTENDS ProjectBudget, SumTheorems

(* A set has at most one element. *)
Unique(S) == \A a, b \in S : a = b

Submission == UNION {Actual(V) : V \in SUBSET Nat}

(* The types of TypeOK, and that the submissions are numbered. *)
Typed ==
    /\ manager \in People /\ grants \in [People -> SUBSET Capabilities]
    /\ versions \in Seq(Version)
    /\ actuals \in Seq(Submission)
    /\ \A n \in DOMAIN actuals : \E V \in SUBSET DOMAIN versions : actuals[n] \in Actual(V)
    /\ advance \in [Members -> Nat] /\ returned \in [Members -> Nat] /\ repaid \in [Members -> Nat]
    /\ receipts \in [received : BOOLEAN, recorder : People \cup {Nobody},
                     confirmer : People \cup {Nobody}]
    /\ settlement \in [closed : BOOLEAN, by : People \cup {Nobody}]
    /\ changes \in 0..MaxChanges

(* One version of the budget in progress, one original approved. *)
OneVersion == Unique(InProgress(versions)) /\ Unique(Originals \cap Baseline)

(* Only the last submission of final expenses is in hand. *)
InHandIsLast == \A n \in DOMAIN actuals : n # Len(actuals) => actuals[n].status = "returned"

(* The balance of a person. *)
Even(p) == advance[p] + repaid[p] = Spent(p, "advance") + Spent(p, "personal") + returned[p]

(* What a closed settlement holds. *)
Settled ==
    settlement.closed =>
        /\ \A p \in Members : Even(p)
        /\ With(actuals, {"approved"}) # {}
        /\ With(actuals, {"draft", "submitted"}) = {} /\ With(versions, {"submitted"}) = {}

BudgetInv == Typed /\ OneVersion /\ InHandIsLast /\ Settled

------------------------------------------------------------------------------
(* Sets of at most one element, the larger of a number and zero. *)

LEMMA AtMostOne ==
    ASSUME NEW S, Unique(S) PROVE IsFiniteSet(S) /\ Cardinality(S) <= 1 /\ (S # {} => Cardinality(S) = 1)
<1>1. CASE S = {}
  <2>1. IsFiniteSet({}) /\ Cardinality({}) = 0
    BY FS_EmptySet
  <2>2. QED
    BY <1>1, <2>1
<1>2. CASE S # {}
  <2>1. PICK x : S = {x}
    BY <1>2 DEF Unique
  <2>2. IsFiniteSet({x}) /\ Cardinality({x}) = 1
    BY FS_Singleton
  <2>3. QED
    BY <2>1, <2>2
<1>3. QED
  BY <1>1, <1>2

LEMMA MaxZero == ASSUME NEW a \in Int PROVE Max({a, 0}) = IF a >= 0 THEN a ELSE 0
<1> DEFINE m == IF a >= 0 THEN a ELSE 0
<1>1. m \in {a, 0} /\ \A y \in {a, 0} : m >= y
  OBVIOUS
<1>2. \A x \in {a, 0} : (\A y \in {a, 0} : x >= y) => x = m
  OBVIOUS
<1> HIDE DEF m
<1>3. Max({a, 0}) = m
  BY <1>1, <1>2 DEF Max
<1>4. QED
  BY <1>3 DEF m

------------------------------------------------------------------------------
(* What a person spent, as a total of totals. *)

LinesOf(n, p, via) == {v \in DOMAIN actuals[n].lines :
                          actuals[n].lines[v].via = via /\ actuals[n].lines[v].payer = p}
LinesSum(n, p, via) == MapThenSumSet(LAMBDA v : actuals[n].lines[v].amount, LinesOf(n, p, via))
Amounts(n) == [v \in DOMAIN actuals[n].lines |-> actuals[n].lines[v].amount]
Submitted(p, via) == [n \in DOMAIN actuals |-> SumOver(Amounts(n), LinesOf(n, p, via))]

LEMMA SubmissionIs ==
    ASSUME Typed, NEW n \in DOMAIN actuals
    PROVE  /\ DOMAIN actuals[n].lines \subseteq DOMAIN versions
           /\ \A S \in SUBSET DOMAIN actuals[n].lines : IsFiniteSet(S)
           /\ \A v \in DOMAIN actuals[n].lines : actuals[n].lines[v].amount \in Int
<1>1. PICK V \in SUBSET DOMAIN versions : actuals[n] \in Actual(V)
  BY DEF Typed
<1>2. actuals[n].lines \in [V -> Line]
  BY <1>1 DEF Actual, Lines
<1>3. \A v \in V : actuals[n].lines[v] \in Line
  BY <1>2
<1>4. \A x \in Line : x.amount \in Int
  BY DEF Line, Blank
<1>5. IsFiniteSet(DOMAIN versions)
  <2>1. DOMAIN versions = 1..Len(versions) /\ Len(versions) \in Nat
    BY DEF Typed
  <2>2. QED
    BY <2>1, FS_Interval
<1>6. QED
  BY <1>2, <1>3, <1>4, <1>5, FS_Subset

LEMMA SumOfLines ==
    ASSUME Typed, NEW n \in DOMAIN actuals, NEW p, NEW via
    PROVE  LinesSum(n, p, via) = SumOver(Amounts(n), LinesOf(n, p, via))
<1>0. LinesOf(n, p, via) \in SUBSET DOMAIN actuals[n].lines
  BY DEF LinesOf
<1>1. PICK S : S = LinesOf(n, p, via) /\ IsFiniteSet(S) /\ S \subseteq DOMAIN actuals[n].lines
  BY <1>0, SubmissionIs
<1> DEFINE F == Amounts(n)
           Adds(it) == it = [s \in SUBSET S |-> IF s = {} THEN 0
                                ELSE actuals[n].lines[CHOOSE x \in s : TRUE].amount + it[s \ {CHOOSE x \in s : TRUE}]]
           it == CHOOSE jt : Adds(jt)
<1>2. \A s \in SUBSET S : s # {} => F[First(s)] = actuals[n].lines[CHOOSE x \in s : TRUE].amount
  BY <1>1 DEF Amounts, First
<1>3. Adds(it)
  <2>1. PICK jt : AddsUp(jt, F, S)
    BY <1>1, SumExists
  <2>2. jt = [s \in SUBSET S |-> IF s = {} THEN 0 ELSE F[First(s)] + jt[s \ {First(s)}]]
    BY <2>1 DEF AddsUp
  <2>3. \A s \in SUBSET S :
          jt[s] = IF s = {} THEN 0
                  ELSE actuals[n].lines[CHOOSE x \in s : TRUE].amount + jt[s \ {CHOOSE x \in s : TRUE}]
    <3> HIDE DEF F
    <3>1. QED
      BY <1>2, <2>2 DEF First
  <2>4. Adds(jt)
    <3> HIDE DEF F
    <3>1. QED
      BY <2>2, <2>3
  <2> HIDE DEF Adds
  <2>5. QED
    BY <2>4
<1>4. AddsUp(it, F, S)
  <2> HIDE DEF it, F
  <2>1. QED
    BY <1>2, <1>3 DEF AddsUp, First
<1>5. LinesSum(n, p, via) = it[S]
  BY <1>1 DEF LinesSum, MapThenSumSet, MapThenFoldSet
<1>6. QED
  BY <1>1, <1>4, <1>5, SumIs

LEMMA ApprovedIs ==
    ASSUME Typed
    PROVE  With(actuals, {"approved"}) \subseteq DOMAIN actuals /\ IsFiniteSet(With(actuals, {"approved"}))
<1>1. IsFiniteSet(DOMAIN actuals)
  <2>1. DOMAIN actuals = 1..Len(actuals) /\ Len(actuals) \in Nat
    BY DEF Typed
  <2>2. QED
    BY <2>1, FS_Interval
<1>2. With(actuals, {"approved"}) \in SUBSET DOMAIN actuals
  BY DEF With
<1>3. QED
  BY <1>1, <1>2, FS_Subset

LEMMA SpentIs ==
    Typed => \A p, via : Spent(p, via) = SumOver(Submitted(p, via), With(actuals, {"approved"}))
<1> SUFFICES ASSUME Typed, NEW p, NEW via
             PROVE  Spent(p, via) = SumOver(Submitted(p, via), With(actuals, {"approved"}))
  OBVIOUS
<1>1. PICK S : S = With(actuals, {"approved"}) /\ IsFiniteSet(S) /\ S \subseteq DOMAIN actuals
  BY ApprovedIs
<1> DEFINE F == Submitted(p, via)
           Adds(it) == it = [s \in SUBSET S |-> IF s = {} THEN 0
                                ELSE LinesSum(CHOOSE x \in s : TRUE, p, via) + it[s \ {CHOOSE x \in s : TRUE}]]
           it == CHOOSE jt : Adds(jt)
<1>2. \A s \in SUBSET S : s # {} => F[First(s)] = LinesSum(CHOOSE x \in s : TRUE, p, via)
  <2>1. \A n \in S : F[n] = LinesSum(n, p, via)
    BY <1>1, SumOfLines DEF Submitted
  <2> HIDE DEF F
  <2>2. QED
    BY <2>1 DEF First
<1> HIDE DEF F
<1>3. Adds(it)
  <2>1. PICK jt : AddsUp(jt, F, S)
    BY <1>1, SumExists
  <2>2. jt = [s \in SUBSET S |-> IF s = {} THEN 0 ELSE F[First(s)] + jt[s \ {First(s)}]]
    BY <2>1 DEF AddsUp
  <2>3. \A s \in SUBSET S :
          jt[s] = IF s = {} THEN 0 ELSE LinesSum(CHOOSE x \in s : TRUE, p, via) + jt[s \ {CHOOSE x \in s : TRUE}]
    BY <1>2, <2>2 DEF First
  <2>4. Adds(jt)
    BY <2>2, <2>3
  <2> HIDE DEF Adds
  <2>5. QED
    BY <2>4
<1>4. AddsUp(it, F, S)
  <2> HIDE DEF it
  <2>1. QED
    BY <1>2, <1>3 DEF AddsUp, First
<1>5. Spent(p, via) = it[S]
  BY <1>1 DEF Spent, LinesSum, LinesOf, MapThenSumSet, MapThenFoldSet
<1>6. QED
  BY <1>1, <1>4, <1>5, SumIs DEF F

LEMMA SpentIsNext ==
    (Typed => \A p, via : Spent(p, via) = SumOver(Submitted(p, via), With(actuals, {"approved"})))'
BY SpentIs, PTL

LEMMA SpentType == ASSUME Typed, NEW p, NEW via PROVE Spent(p, via) \in Int
<1>1. \A n \in DOMAIN actuals : SumOver(Amounts(n), LinesOf(n, p, via)) \in Int
  <2> SUFFICES ASSUME NEW n \in DOMAIN actuals PROVE SumOver(Amounts(n), LinesOf(n, p, via)) \in Int
    OBVIOUS
  <2>1. IsFiniteSet(LinesOf(n, p, via)) /\ \A v \in LinesOf(n, p, via) : Amounts(n)[v] \in Int
    BY SubmissionIs DEF LinesOf, Amounts
  <2>2. QED
    BY <2>1, SumType
<1>2. \A n \in With(actuals, {"approved"}) : Submitted(p, via)[n] \in Int
  BY <1>1, ApprovedIs DEF Submitted
<1>3. SumOver(Submitted(p, via), With(actuals, {"approved"})) \in Int
  BY <1>2, ApprovedIs, SumType
<1>4. QED
  BY <1>3, SpentIs

(* Expenses that stay are the same money. *)
LEMMA SpentSame ==
    ASSUME Typed, Typed', actuals' = actuals
    PROVE  \A p, via : Spent(p, via)' = Spent(p, via)
<1> SUFFICES ASSUME NEW p, NEW via PROVE Spent(p, via)' = Spent(p, via)
  OBVIOUS
<1>1. Spent(p, via)' = SumOver(Submitted(p, via), With(actuals, {"approved"}))'
  BY SpentIsNext
<1>2. SumOver(Submitted(p, via), With(actuals, {"approved"}))' = SumOver(Submitted(p, via), With(actuals, {"approved"}))
  BY DEF Submitted, With, Amounts, LinesOf
<1>3. QED
  BY <1>1, <1>2, SpentIs

------------------------------------------------------------------------------
(* What a step does, whichever call it is. *)

(* A version is asked for. *)
Asked == \E kind \in {"original", "addition"}, total \in Nat : Request(kind, total)

(* A version in progress is changed; one being drafted stays in hand while the
   settlement is open, and one is approved only if it may be. *)
Edited == \E v \in DOMAIN versions : \E x \in Version :
    /\ versions[v].status \in {"draft", "submitted"} /\ x.kind = versions[v].kind
    /\ Open \/ (versions[v].status = "submitted" /\ x.status # "submitted")
    /\ x.status = "approved" => Approvable(v)
    /\ ChangeVersion(v, x)

(* Final expenses are entered, with a line for every approved row. *)
Entered == \E V \in SUBSET DOMAIN versions : \E lines \in Lines(V) :
    /\ Open /\ NoneInHand /\ Baseline \subseteq V
    /\ Enter(lines)

(* Those in hand are changed, their lines completed or left alone. *)
Reworked == \E n \in DOMAIN actuals : \E V \in SUBSET DOMAIN versions : \E x \in Actual(V) :
    /\ Open /\ actuals[n].status # "returned"
    /\ Baseline \subseteq V \/ x.lines = actuals[n].lines
    /\ ChangeActuals(n, x)

(* Money is recorded or reversed. *)
Paid ==
    /\ Open /\ UNCHANGED <<roles, versions, actuals, receipts, settlement>>
    /\ advance' \in [Members -> Nat] /\ returned' \in [Members -> Nat] /\ repaid' \in [Members -> Nat]

Noted == \E r \in [received : BOOLEAN, recorder : People \cup {Nobody}, confirmer : People \cup {Nobody}] :
    receipts' = r /\ UNCHANGED <<roles, versions, actuals, money, settlement>>

Moved == /\ manager' \in People /\ grants' \in [People -> SUBSET Capabilities]
         /\ UNCHANGED <<versions, actuals, money, receipts, settlement>>

Kinds == Asked \/ Edited \/ Entered \/ Reworked \/ Paid \/ Noted \/ Moved
           \/ (\E p \in People : CloseSettlement(p) \/ ReopenSettlement(p))

LEMMA VersionIs ==
    ASSUME Typed, NEW v \in DOMAIN versions
    PROVE  versions[v] \in Version
BY DEF Typed

LEMMA VersionSteps ==
    ASSUME Typed, NEW v \in DOMAIN versions,
           \/ SubmitBudget(v) \/ DecideBudget(v) \/ DiscardDraft(v)
           \/ \E n \in Totals : SaveBudget(v, n)
    PROVE  Edited
<1>1. versions[v] \in Version /\ manager \in People
  BY DEF Typed
<1>2. Route(manager) \in Capabilities
  BY DEF Route, Capabilities
<1>3. ASSUME NEW n \in Totals, SaveBudget(v, n) PROVE Edited
  <2> DEFINE x == [versions[v] EXCEPT !.total = n]
  <2>1. n \in Nat
    BY BudgetAssumption
  <2>2. x \in Version /\ x.kind = versions[v].kind /\ x.status = versions[v].status
    BY <1>1, <2>1 DEF Version
  <2>3. Open /\ versions[v].status = "draft" /\ ChangeVersion(v, x)
    BY <1>3 DEF SaveBudget
  <2> HIDE DEF x
  <2>4. QED
    BY <2>2, <2>3 DEF Edited
<1>4. ASSUME SubmitBudget(v) PROVE Edited
  <2> DEFINE x == [versions[v] EXCEPT !.status = "submitted", !.submitter = manager, !.route = Route(manager)]
  <2>1. x \in Version /\ x.kind = versions[v].kind /\ x.status = "submitted"
    BY <1>1, <1>2 DEF Version
  <2>2. Open /\ versions[v].status = "draft" /\ ChangeVersion(v, x)
    BY <1>4 DEF SubmitBudget
  <2> HIDE DEF x
  <2>3. QED
    BY <2>1, <2>2 DEF Edited
<1>5. ASSUME NEW s \in {"approved", "returned", "rejected", "discarded"},
             ChangeVersion(v, [versions[v] EXCEPT !.status = s]),
             versions[v].status = "submitted" \/ (Open /\ versions[v].status = "draft"),
             s = "approved" => Approvable(v)
      PROVE  Edited
  <2> DEFINE x == [versions[v] EXCEPT !.status = s]
  <2>1. x \in Version /\ x.kind = versions[v].kind /\ x.status = s
    BY <1>1 DEF Version
  <2>2. ChangeVersion(v, x)
    BY <1>5
  <2> HIDE DEF x
  <2>3. QED
    BY <1>5, <2>1, <2>2 DEF Edited
<1>6. ASSUME DecideBudget(v) PROVE Edited
  BY <1>5, <1>6 DEF DecideBudget
<1>7. ASSUME DiscardDraft(v) PROVE Edited
  BY <1>5, <1>7 DEF DiscardDraft
<1>8. QED
  BY <1>3, <1>4, <1>6, <1>7

LEMMA CompletedIs ==
    ASSUME Typed, NEW V \in SUBSET DOMAIN versions, NEW lines \in Lines(V)
    PROVE  /\ V \cup Baseline \in SUBSET DOMAIN versions
           /\ Completed(lines) \in Lines(V \cup Baseline)
<1>1. Baseline \subseteq DOMAIN versions
  BY DEF Baseline, With
<1>2. BlankLine \in Line
  BY DEF BlankLine, Line, Via
<1>3. DOMAIN lines = V /\ \A v \in V : lines[v] \in Line
  BY DEF Lines
<1>4. QED
  BY <1>1, <1>2, <1>3 DEF Completed, Lines

LEMMA EnterSteps ==
    ASSUME Typed, StartActuals \/ \E n \in DOMAIN actuals : ReviseActuals(n)
    PROVE  Entered
<1>1. ASSUME StartActuals PROVE Entered
  <2>1. Baseline \in SUBSET DOMAIN versions
    BY DEF Baseline, With
  <2>2. BlankLines(Baseline) \in Lines(Baseline)
    BY DEF BlankLines, BlankLine, Line, Lines, Via
  <2>3. QED
    BY <1>1, <2>1, <2>2 DEF StartActuals, Entered
<1>2. ASSUME NEW n \in DOMAIN actuals, ReviseActuals(n) PROVE Entered
  <2>1. PICK V \in SUBSET DOMAIN versions : actuals[n] \in Actual(V)
    BY DEF Typed
  <2>2. actuals[n].lines \in Lines(V)
    BY <2>1 DEF Actual
  <2>3. PICK lines : lines = Completed(actuals[n].lines)
    OBVIOUS
  <2>4. V \cup Baseline \in SUBSET DOMAIN versions /\ lines \in Lines(V \cup Baseline)
    BY <2>2, <2>3, CompletedIs
  <2>5. Open /\ NoneInHand /\ Enter(lines)
    BY <1>2, <2>3 DEF ReviseActuals
  <2>6. QED
    BY <2>4, <2>5 DEF Entered
<1>3. QED
  BY <1>1, <1>2

LEMMA ActualsSteps ==
    ASSUME Typed, NEW n \in DOMAIN actuals,
           SaveActuals(n) \/ SubmitActuals(n) \/ DecideActuals(n) \/ ReturnApprovedActuals(n)
    PROVE  Reworked
<1>1. PICK V \in SUBSET DOMAIN versions : actuals[n] \in Actual(V)
  BY DEF Typed
<1>2. manager \in People /\ Route(manager) \in Capabilities
  BY DEF Typed, Route, Capabilities
<1>3. ASSUME SaveActuals(n) PROVE Reworked
  <2>0. PICK W \in SUBSET Baseline, done \in BOOLEAN : \E lines \in [W -> Entries] :
          ChangeActuals(n, [actuals[n] EXCEPT !.lines = Completed(lines), !.complete = done])
    BY <1>3 DEF SaveActuals
  <2>1. PICK entries \in [W -> Entries] :
          ChangeActuals(n, [actuals[n] EXCEPT !.lines = Completed(entries), !.complete = done])
    BY <2>0
  <2>2. Baseline \subseteq DOMAIN versions
    BY DEF Baseline, With
  <2>3. PICK lines : lines = Completed(entries)
    OBVIOUS
  <2>4. Baseline \in SUBSET DOMAIN versions /\ lines \in Lines(Baseline)
    <3>1. entries \in Lines(W)
      BY BudgetAssumption DEF Lines
    <3>2. W \cup Baseline = Baseline
      OBVIOUS
    <3>3. QED
      BY <2>2, <2>3, <3>1, <3>2, CompletedIs
  <2> DEFINE x == [actuals[n] EXCEPT !.lines = lines, !.complete = done]
  <2>5. x \in Actual(Baseline)
    BY <1>1, <2>4 DEF Actual
  <2>6. Open /\ actuals[n].status # "returned" /\ ChangeActuals(n, x)
    BY <1>3, <2>1, <2>3 DEF SaveActuals
  <2> HIDE DEF x
  <2>7. QED
    BY <2>4, <2>5, <2>6 DEF Reworked
<1>4. ASSUME SubmitActuals(n) PROVE Reworked
  <2> DEFINE x == [actuals[n] EXCEPT !.status = "submitted", !.submitter = manager, !.route = Route(manager)]
  <2>1. x \in Actual(V) /\ x.lines = actuals[n].lines
    BY <1>1, <1>2 DEF Actual
  <2>2. Open /\ actuals[n].status # "returned" /\ ChangeActuals(n, x)
    BY <1>4 DEF SubmitActuals
  <2> HIDE DEF x
  <2>3. QED
    BY <2>1, <2>2 DEF Reworked
<1>5. ASSUME NEW s \in {"approved", "returned"}, Open, actuals[n].status # "returned",
             ChangeActuals(n, [actuals[n] EXCEPT !.status = s])
      PROVE  Reworked
  <2> DEFINE x == [actuals[n] EXCEPT !.status = s]
  <2>1. x \in Actual(V) /\ x.lines = actuals[n].lines
    BY <1>1 DEF Actual
  <2>2. ChangeActuals(n, x)
    BY <1>5
  <2> HIDE DEF x
  <2>3. QED
    BY <1>5, <2>1, <2>2 DEF Reworked
<1>6. ASSUME DecideActuals(n) PROVE Reworked
  BY <1>5, <1>6 DEF DecideActuals
<1>7. ASSUME ReturnApprovedActuals(n) PROVE Reworked
  BY <1>5, <1>7 DEF ReturnApprovedActuals
<1>8. QED
  BY <1>3, <1>4, <1>6, <1>7

LEMMA MoneySteps ==
    ASSUME Typed, NEW p \in Members,
           RecordFunding(p) \/ ReverseFunding(p) \/ RecordPayment(p) \/ ReversePayment(p)
    PROVE  Paid
<1>1. \A e \in [Members -> Nat] : /\ Add(e, p, 1) \in [Members -> Nat]
                                  /\ e[p] > 0 => Add(e, p, -1) \in [Members -> Nat]
  BY DEF Add
<1>2. /\ Open /\ UNCHANGED <<roles, versions, actuals, receipts, settlement>>
      /\ advance' # advance => \/ advance' = Add(advance, p, 1)
                               \/ advance[p] > 0 /\ advance' = Add(advance, p, -1)
      /\ returned' # returned => \/ returned' = Add(returned, p, 1)
                                 \/ returned[p] > 0 /\ returned' = Add(returned, p, -1)
      /\ repaid' # repaid => \/ repaid' = Add(repaid, p, 1)
                             \/ repaid[p] > 0 /\ repaid' = Add(repaid, p, -1)
  BY DEF RecordFunding, ReverseFunding, RecordPayment, ReversePayment, Keeper, NoMore
<1>3. advance \in [Members -> Nat] /\ returned \in [Members -> Nat] /\ repaid \in [Members -> Nat]
  BY DEF Typed
<1>4. QED
  BY <1>1, <1>2, <1>3 DEF Paid

LEMMA Requests ==
    ASSUME Typed, CreateBudget \/ RequestAddition \/ \E v \in DOMAIN versions : ReviseBudget(v)
    PROVE  Asked
<1>1. \A v \in DOMAIN versions : versions[v].kind \in {"original", "addition"} /\ versions[v].total \in Nat
  BY VersionIs DEF Version
<1>2. QED
  BY <1>1 DEF CreateBudget, RequestAddition, ReviseBudget, Asked

LEMMA OtherSteps ==
    ASSUME Typed, NEW p \in People,
           \/ RecordReceipts(p) \/ ConfirmReceipts(p) \/ ChangeManager(p)
           \/ \E caps \in SUBSET Capabilities : ChangeAccess(p, caps)
    PROVE  Noted \/ Moved
<1> DEFINE R == [received : BOOLEAN, recorder : People \cup {Nobody}, confirmer : People \cup {Nobody}]
<1>1. ASSUME RecordReceipts(p) PROVE Noted
  BY <1>1 DEF RecordReceipts, Noted
<1>2. ASSUME ConfirmReceipts(p) PROVE Noted
  <2>1. [receipts EXCEPT !.confirmer = p] \in R
    BY DEF Typed
  <2>2. QED
    BY <1>2, <2>1 DEF ConfirmReceipts, Noted
<1>3. ASSUME ChangeManager(p) \/ \E caps \in SUBSET Capabilities : ChangeAccess(p, caps) PROVE Moved
  BY <1>3 DEF ChangeManager, ChangeAccess, Moved, Typed
<1>4. QED
  BY <1>1, <1>2, <1>3

LEMMA StepKinds == ASSUME Typed, Next PROVE Kinds
BY Requests, VersionSteps, EnterSteps, ActualsSteps, MoneySteps, OtherSteps DEF Next, Kinds

LEMMA ChangesBounded == ASSUME Typed, Next PROVE changes' \in 0..MaxChanges
<1>1. changes' = changes \/ (changes < MaxChanges /\ changes' = changes + 1)
  BY DEF Next, Correction, CreateBudget, RequestAddition, ReviseBudget, SaveBudget, SubmitBudget, DecideBudget,
         DiscardDraft, StartActuals, Enter, ReviseActuals, SaveActuals, SubmitActuals, DecideActuals,
         ReturnApprovedActuals, RecordFunding, ReverseFunding, RecordPayment, ReversePayment, RecordReceipts,
         ConfirmReceipts, CloseSettlement, ReopenSettlement, ChangeAccess, ChangeManager
<1>2. changes \in 0..MaxChanges /\ MaxChanges \in Nat
  BY BudgetAssumption DEF Typed
<1>3. QED
  BY <1>1, <1>2

------------------------------------------------------------------------------
(* Types. *)

LEMMA SubmissionTyped ==
    ASSUME NEW V \in SUBSET DOMAIN versions, NEW x \in Actual(V), Typed
    PROVE  x \in Submission
<1>1. DOMAIN versions \subseteq Nat
  BY DEF Typed
<1>2. QED
  BY <1>1 DEF Submission

LEMMA VersionsGrow ==
    ASSUME Typed, Asked
    PROVE  /\ versions' \in Seq(Version) /\ Len(versions') = Len(versions) + 1
           /\ DOMAIN versions' = DOMAIN versions \cup {Len(versions) + 1}
           /\ DOMAIN versions = 1..Len(versions) /\ Len(versions) \in Nat
           /\ \A v \in DOMAIN versions : versions'[v] = versions[v]
           /\ versions'[Len(versions) + 1].status = "draft"
           /\ InProgress(versions) = {}
           /\ UNCHANGED <<roles, actuals, money, receipts, settlement>>
<1>1. PICK kind \in {"original", "addition"}, total \in Nat : Request(kind, total)
  BY DEF Asked
<1> DEFINE x == [kind |-> kind, total |-> total, by |-> manager, status |-> "draft",
                 submitter |-> Nobody, route |-> "finance"]
<1>2. versions \in Seq(Version) /\ manager \in People
  BY DEF Typed
<1>3. x \in Version /\ x.status = "draft"
  BY <1>2 DEF Version, Capabilities
<1>4. /\ versions' = Append(versions, x) /\ InProgress(versions) = {}
      /\ UNCHANGED <<roles, actuals, money, receipts, settlement>>
  BY <1>1 DEF Request
<1> HIDE DEF x
<1>5. QED
  BY <1>2, <1>3, <1>4

LEMMA TypedStep ==
    ASSUME Typed, Next PROVE Typed'
<1>1. changes' \in 0..MaxChanges
  BY ChangesBounded
<1> DEFINE Rows == /\ versions' \in Seq(Version) /\ DOMAIN versions \subseteq DOMAIN versions'
                   /\ actuals' \in Seq(Submission)
                   /\ \A n \in DOMAIN actuals' : \E V \in SUBSET DOMAIN versions' : actuals'[n] \in Actual(V)
           R == [received : BOOLEAN, recorder : People \cup {Nobody}, confirmer : People \cup {Nobody}]
           Rest == /\ manager' \in People /\ grants' \in [People -> SUBSET Capabilities]
                   /\ advance' \in [Members -> Nat] /\ returned' \in [Members -> Nat] /\ repaid' \in [Members -> Nat]
                   /\ receipts' \in R
                   /\ settlement' \in [closed : BOOLEAN, by : People \cup {Nobody}]
<1>2. UNCHANGED <<versions, actuals>> => Rows
  BY DEF Typed
<1>3. UNCHANGED <<roles, money, receipts, settlement>> => Rest
  BY DEF Typed, roles, money
<1> SUFFICES ASSUME Kinds PROVE Rows /\ Rest
  BY <1>1, StepKinds DEF Typed
<1>4. CASE Asked
  <2>1. \A n \in DOMAIN actuals : \E V \in SUBSET DOMAIN versions' : actuals[n] \in Actual(V)
    BY <1>4, VersionsGrow DEF Typed
  <2>2. Rows
    BY <1>4, <2>1, VersionsGrow DEF Typed
  <2>3. QED
    BY <1>3, <1>4, <2>2, VersionsGrow
<1>5. CASE Edited
  <2>1. PICK v \in DOMAIN versions, x \in Version : ChangeVersion(v, x)
    BY <1>5 DEF Edited
  <2>2. versions' \in Seq(Version) /\ DOMAIN versions' = DOMAIN versions
    BY <2>1 DEF ChangeVersion, Typed
  <2>3. UNCHANGED <<roles, actuals, money, receipts, settlement>>
    BY <2>1 DEF ChangeVersion
  <2>4. Rows
    BY <2>2, <2>3 DEF Typed
  <2>5. QED
    BY <1>3, <2>3, <2>4
<1>6. CASE Entered
  <2>0. PICK V \in SUBSET DOMAIN versions : \E lines \in Lines(V) : Enter(lines)
    BY <1>6 DEF Entered
  <2>1. PICK lines \in Lines(V) : Enter(lines)
    BY <2>0
  <2> DEFINE x == [status |-> "draft", complete |-> FALSE, by |-> manager,
                   submitter |-> Nobody, route |-> "finance", lines |-> lines]
  <2>2. x \in Actual(V)
    BY DEF Actual, Typed, Capabilities
  <2>3. actuals' = Append(actuals, x) /\ UNCHANGED <<roles, versions, money, receipts, settlement>>
    BY <2>1 DEF Enter
  <2> HIDE DEF x
  <2>4. x \in Submission
    BY <2>2, SubmissionTyped
  <2>5. Rows
    <3>1. actuals \in Seq(Submission) /\ DOMAIN actuals = 1..Len(actuals)
      BY DEF Typed
    <3>2. /\ actuals' \in Seq(Submission) /\ DOMAIN actuals' = DOMAIN actuals \cup {Len(actuals) + 1}
          /\ \A n \in DOMAIN actuals : actuals'[n] = actuals[n]
          /\ actuals'[Len(actuals) + 1] = x
      BY <2>3, <2>4, <3>1
    <3>3. \A n \in DOMAIN actuals' : \E W \in SUBSET DOMAIN versions : actuals'[n] \in Actual(W)
      BY <2>2, <3>2 DEF Typed
    <3>4. QED
      BY <2>3, <3>2, <3>3 DEF Typed
  <2>6. QED
    BY <1>3, <2>3, <2>5
<1>7. CASE Reworked
  <2>1. PICK n \in DOMAIN actuals, V \in SUBSET DOMAIN versions : \E x \in Actual(V) : ChangeActuals(n, x)
    BY <1>7 DEF Reworked
  <2>2. PICK x \in Actual(V) : ChangeActuals(n, x)
    BY <2>1
  <2>3. actuals' = [actuals EXCEPT ![n] = x] /\ UNCHANGED <<roles, versions, money, receipts, settlement>>
    BY <2>2 DEF ChangeActuals
  <2>4. x \in Submission
    BY SubmissionTyped
  <2>5. Rows
    <3>1. actuals \in Seq(Submission)
      BY DEF Typed
    <3>2. /\ actuals' \in Seq(Submission) /\ DOMAIN actuals' = DOMAIN actuals
          /\ \A m \in DOMAIN actuals : actuals'[m] = IF m = n THEN x ELSE actuals[m]
      BY <2>3, <2>4, <3>1
    <3>3. \A m \in DOMAIN actuals' : \E W \in SUBSET DOMAIN versions : actuals'[m] \in Actual(W)
      BY <2>2, <3>2 DEF Typed
    <3>4. QED
      BY <2>3, <3>2, <3>3 DEF Typed
  <2>6. QED
    BY <1>3, <2>3, <2>5
<1>8. CASE Paid
  BY <1>2, <1>3, <1>8 DEF Paid, roles, Typed
<1>9. CASE Noted
  BY <1>2, <1>9 DEF Noted, roles, money, Typed
<1>10. CASE Moved
  BY <1>2, <1>10 DEF Moved, money, Typed
<1>11. CASE \E p \in People : CloseSettlement(p) \/ ReopenSettlement(p)
  <2>1. \A p \in People : [closed |-> TRUE, by |-> p] \in [closed : BOOLEAN, by : People \cup {Nobody}]
    OBVIOUS
  <2>2. [closed |-> FALSE, by |-> Nobody] \in [closed : BOOLEAN, by : People \cup {Nobody}]
    OBVIOUS
  <2>3. UNCHANGED <<roles, versions, actuals, money, receipts>>
    BY <1>11 DEF CloseSettlement, ReopenSettlement
  <2>4. settlement' \in [closed : BOOLEAN, by : People \cup {Nobody}]
    BY <1>11, <2>1, <2>2 DEF CloseSettlement, ReopenSettlement
  <2>5. QED
    BY <1>2, <2>3, <2>4 DEF roles, money, Typed
<1>12. QED
  BY <1>4, <1>5, <1>6, <1>7, <1>8, <1>9, <1>10, <1>11 DEF Kinds

------------------------------------------------------------------------------
(* One version in progress, one original approved. *)

LEMMA OneVersionStep ==
    ASSUME Typed, OneVersion, Next PROVE OneVersion'
<1> SUFFICES ASSUME Kinds PROVE OneVersion'
  BY StepKinds
<1>1. CASE UNCHANGED versions
  BY <1>1 DEF OneVersion, Unique, InProgress, Baseline, Originals, With
<1>2. CASE Asked
  <2>1. PICK k : k = Len(versions) + 1
    OBVIOUS
  <2>2. \A v \in DOMAIN versions : versions[v].status \notin {"draft", "submitted"}
    BY <1>2, VersionsGrow DEF InProgress, With
  <2>3. InProgress(versions') \subseteq {k}
    BY <1>2, <2>1, <2>2, VersionsGrow DEF InProgress, With
  <2>4. (Originals \cap Baseline)' \subseteq Originals \cap Baseline
    BY <1>2, <2>1, VersionsGrow DEF Originals, Baseline, With
  <2>5. QED
    BY <2>3, <2>4 DEF OneVersion, Unique
<1>3. CASE Edited
  <2>1. PICK v \in DOMAIN versions, x \in Version :
          /\ versions[v].status \in {"draft", "submitted"} /\ x.kind = versions[v].kind
          /\ x.status = "approved" => Approvable(v)
          /\ ChangeVersion(v, x)
    BY <1>3 DEF Edited
  <2>2. versions' = [versions EXCEPT ![v] = x] /\ versions \in Seq(Version)
    BY <2>1 DEF ChangeVersion, Typed
  <2>3. InProgress(versions') \subseteq InProgress(versions)
    BY <2>1, <2>2 DEF InProgress, With
  <2>4. (Originals \cap Baseline)' \subseteq (Originals \cap Baseline) \cup {v}
    BY <2>2 DEF Originals, Baseline, With
  <2>5. (Originals \cap Baseline)' \subseteq Originals \cap Baseline \/ Originals \cap Baseline = {}
    <3>1. CASE x.status = "approved" /\ v \in Originals
      BY <2>1, <3>1 DEF Approvable
    <3>2. CASE x.status # "approved" \/ v \notin Originals
      BY <2>1, <2>2, <3>2 DEF Originals, Baseline, With
    <3>3. QED
      BY <3>1, <3>2
  <2>6. QED
    BY <2>3, <2>4, <2>5 DEF OneVersion, Unique
<1>4. QED
  BY <1>1, <1>2, <1>3 DEF Kinds, Entered, Enter, Reworked, ChangeActuals, Paid, Noted, Moved, CloseSettlement, ReopenSettlement

------------------------------------------------------------------------------
(* Only the last submission is in hand. *)

LEMMA InHandStep ==
    ASSUME Typed, InHandIsLast, Next PROVE InHandIsLast'
<1> SUFFICES ASSUME Kinds PROVE InHandIsLast'
  BY StepKinds
<1>0. actuals \in Seq(Submission)
  BY DEF Typed
<1>1. CASE UNCHANGED actuals
  BY <1>1 DEF InHandIsLast
<1>2. CASE Entered
  <2>1. PICK lines : NoneInHand /\ Enter(lines)
    BY <1>2 DEF Entered
  <2>2. \A n \in DOMAIN actuals : actuals[n].status = "returned"
    <3>1. \A n \in DOMAIN actuals : actuals[n].status \in {"draft", "submitted", "returned", "approved"}
      BY DEF Typed, Actual
    <3>2. QED
      BY <2>1, <3>1 DEF NoneInHand, With
  <2>3. PICK x : actuals' = Append(actuals, x)
    BY <2>1 DEF Enter
  <2>4. QED
    BY <1>0, <2>2, <2>3 DEF InHandIsLast
<1>3. CASE Reworked
  <2>1. PICK n \in DOMAIN actuals, V \in SUBSET DOMAIN versions :
          actuals[n].status # "returned" /\ \E x \in Actual(V) : ChangeActuals(n, x)
    BY <1>3 DEF Reworked
  <2>2. PICK x : actuals' = [actuals EXCEPT ![n] = x]
    BY <2>1 DEF ChangeActuals
  <2>3. n = Len(actuals)
    BY <2>1 DEF InHandIsLast
  <2>4. QED
    BY <1>0, <2>2, <2>3 DEF InHandIsLast
<1>4. QED
  BY <1>1, <1>2, <1>3, VersionsGrow DEF Kinds, Edited, ChangeVersion, Paid, Noted, Moved, CloseSettlement, ReopenSettlement

------------------------------------------------------------------------------
(* What a closed settlement holds. *)

(* With nothing to return and nothing outstanding, a person is even. *)
LEMMA UnblockedIsEven ==
    ASSUME Typed, NEW p \in Members, ToReturn(p) = 0, Outstanding(p) = 0 PROVE Even(p)
<1>1. PICK a, r, q, sa, sp : /\ a = advance[p] /\ r = returned[p] /\ q = repaid[p]
                             /\ sa = Spent(p, "advance") /\ sp = Spent(p, "personal")
  OBVIOUS
<1>2. a \in Int /\ r \in Int /\ q \in Int
  BY <1>1 DEF Typed
<1>3. sa \in Int /\ sp \in Int
  BY <1>1, SpentType
<1>4. PICK h : h = a - r - sa
  OBVIOUS
<1>5. h \in Int /\ -h \in Int
  BY <1>2, <1>3, <1>4
<1>6. PICK m, k : m = Max({h, 0}) /\ k = Max({-h, 0})
  OBVIOUS
<1>7. m = (IF h >= 0 THEN h ELSE 0) /\ k = (IF -h >= 0 THEN -h ELSE 0)
  BY <1>5, <1>6, MaxZero
<1>8. a + q = sa + sp + r
  <2>1. m = 0 /\ sp + k - q = 0
    BY <1>1, <1>4, <1>6 DEF ToReturn, Outstanding, Held
  <2>2. k = -h
    BY <1>5, <1>7, <2>1
  <2>3. QED
    BY <1>2, <1>3, <1>4, <1>5, <2>1, <2>2
<1>9. QED
  BY <1>1, <1>8 DEF Even

LEMMA InHandIsOne ==
    ASSUME Typed, InHandIsLast, With(actuals, {"approved"}) # {}
    PROVE  With(actuals, {"draft", "submitted"}) = {}
BY DEF With, InHandIsLast

LEMMA SettledStep ==
    ASSUME Typed, Typed', InHandIsLast, Settled, Next PROVE Settled'
<1> SUFFICES ASSUME Kinds, settlement.closed' PROVE Settled'
  BY StepKinds DEF Settled
<1> DEFINE Money == \A p \in Members : Even(p)
<1>1. UNCHANGED <<actuals, money>> /\ Money => Money'
  BY SpentSame DEF Even, money
<1>2. ASSUME settlement.closed, UNCHANGED <<actuals, money>>, With(versions, {"submitted"}) = {} => With(versions, {"submitted"})' = {}
      PROVE  Settled'
  <2>1. Money'
    BY <1>1, <1>2 DEF Settled
  <2>2. UNCHANGED <<With(actuals, {"approved"}), With(actuals, {"draft", "submitted"})>>
    BY <1>2 DEF With
  <2>3. QED
    BY <1>2, <2>1, <2>2 DEF Settled
<1>3. CASE Asked
  <2>1. PICK k : k = Len(versions) + 1
    OBVIOUS
  <2>2. With(versions, {"submitted"})' \subseteq With(versions, {"submitted"})
    BY <1>3, <2>1, VersionsGrow DEF With
  <2>3. settlement.closed /\ UNCHANGED <<actuals, money>>
    BY <1>3, VersionsGrow
  <2>4. QED
    BY <1>2, <2>2, <2>3
<1>4. CASE Edited
  <2>1. PICK v \in DOMAIN versions, x \in Version :
          /\ Open \/ (versions[v].status = "submitted" /\ x.status # "submitted")
          /\ ChangeVersion(v, x)
    BY <1>4 DEF Edited
  <2>2. settlement.closed /\ UNCHANGED <<actuals, money>>
    BY <2>1 DEF ChangeVersion
  <2>3. versions[v].status = "submitted"
    BY <2>1, <2>2 DEF Open
  <2>4. FALSE
    BY <2>2, <2>3 DEF Settled, With
  <2>5. QED
    BY <2>4
<1>5. CASE Entered \/ Reworked \/ Paid
  <2>1. Open /\ UNCHANGED settlement
    BY <1>5 DEF Entered, Enter, Reworked, ChangeActuals, Paid
  <2>2. QED
    BY <2>1 DEF Open
<1>6. CASE Noted \/ Moved
  BY <1>2, <1>6 DEF Noted, Moved
<1>7. ASSUME NEW p \in People, ReopenSettlement(p) PROVE FALSE
  BY <1>7 DEF ReopenSettlement
<1>8. ASSUME NEW p \in People, CloseSettlement(p) PROVE Settled'
  <2>1. /\ With(actuals, {"approved"}) # {} /\ With(versions, {"submitted"}) = {}
        /\ \A q \in Members : ToReturn(q) = 0 /\ Outstanding(q) = 0
    BY <1>8 DEF CloseSettlement, Unblocked
  <2>2. UNCHANGED <<versions, actuals, money>>
    BY <1>8 DEF CloseSettlement
  <2>3. Money
    BY <2>1, UnblockedIsEven
  <2>4. Money'
    BY <1>1, <2>2, <2>3
  <2>5. With(actuals, {"draft", "submitted"}) = {}
    BY <2>1, InHandIsOne
  <2>6. With(actuals, {"approved"})' # {} /\ With(actuals, {"draft", "submitted"})' = {} /\ With(versions, {"submitted"})' = {}
    BY <2>1, <2>2, <2>5 DEF With
  <2>7. QED
    BY <2>4, <2>6 DEF Settled
<1>9. QED
  BY <1>3, <1>4, <1>5, <1>6, <1>7, <1>8 DEF Kinds

------------------------------------------------------------------------------
(* The invariant. *)

LEMMA BudgetInit == ASSUME Init PROVE BudgetInv
<1>1. Typed
  <2>1. manager \in People /\ grants \in [People -> SUBSET Capabilities] /\ changes \in 0..MaxChanges
    BY BudgetAssumption DEF Init
  <2>2. versions \in Seq(Version) /\ actuals \in Seq(Submission) /\ DOMAIN actuals = {}
    BY DEF Init
  <2>3. advance \in [Members -> Nat] /\ returned \in [Members -> Nat] /\ repaid \in [Members -> Nat]
    BY DEF Init
  <2>4. QED
    BY <2>1, <2>2, <2>3 DEF Init, Typed
<1>2. OneVersion /\ InHandIsLast /\ Settled
  BY DEF Init, OneVersion, Unique, InProgress, Baseline, Originals, With, InHandIsLast, Settled
<1>3. QED
  BY <1>1, <1>2 DEF BudgetInv

LEMMA BudgetStep == ASSUME BudgetInv, [Next]_vars PROVE BudgetInv'
<1>1. CASE Next
  BY <1>1, TypedStep, OneVersionStep, InHandStep, SettledStep DEF BudgetInv
<1>2. CASE UNCHANGED vars
  <2>1. Typed'
    BY <1>2 DEF BudgetInv, Typed, vars
  <2>2. OneVersion' /\ InHandIsLast'
    BY <1>2 DEF BudgetInv, vars, OneVersion, Unique, InProgress, Baseline, Originals, With, InHandIsLast
  <2>3. (\A p \in Members : Even(p)) => (\A p \in Members : Even(p))'
    BY <1>2, <2>1, SpentSame DEF BudgetInv, Even, vars
  <2>4. Settled'
    BY <1>2, <2>3 DEF BudgetInv, vars, Settled, With
  <2>5. QED
    BY <2>1, <2>2, <2>4 DEF BudgetInv
<1>3. QED
  BY <1>1, <1>2

LEMMA BudgetHolds == Spec => []BudgetInv
<1>1. Init => BudgetInv
  BY BudgetInit
<1>2. BudgetInv /\ [Next]_vars => BudgetInv'
  BY BudgetStep
<1>3. QED
  BY <1>1, <1>2, PTL DEF Spec

LEMMA BudgetImplies == ASSUME BudgetInv PROVE BudgetSound
<1>1. Typed /\ OneVersion /\ InHandIsLast /\ Settled
  BY DEF BudgetInv
<1>2. Cardinality(InProgress(versions)) <= 1 /\ Cardinality(Originals \cap Baseline) <= 1
  BY <1>1, AtMostOne DEF OneVersion
<1>3. /\ Unique(InProgress(actuals)) /\ Unique(With(actuals, {"approved"}))
      /\ With(actuals, {"approved"}) # {} => With(actuals, {"draft", "submitted"}) = {}
  BY <1>1 DEF InHandIsLast, Unique, InProgress, With
<1>4. /\ Cardinality(InProgress(actuals)) <= 1 /\ Cardinality(With(actuals, {"approved"})) <= 1
      /\ With(actuals, {"approved"}) # {} => Cardinality(With(actuals, {"approved"})) = 1
  BY <1>3, AtMostOne
<1>5. TypeOK
  BY <1>1, <1>2, <1>4 DEF TypeOK, Typed
<1>6. ClosedIsEven
  BY <1>1, <1>4 DEF Settled, Even, ClosedIsEven
<1>7. QED
  BY <1>5, <1>6 DEF BudgetSound

(* A closed settlement is even and stays so, whatever is recorded, reversed,
   corrected or decided around it and whoever gains or loses access meanwhile;
   and of the budget and of its final expenses at most one version each is in
   progress, of the expenses one approved: pbx_close_settlement with what
   pbx_settlement_blockers asks, and the guards of every other pbx_ function. *)
THEOREM SettledIsEven == Spec => []BudgetSound
<1>1. BudgetInv => BudgetSound
  BY BudgetImplies
<1>2. QED
  BY <1>1, BudgetHolds, PTL

------------------------------------------------------------------------------
(* What the final expenses show. *)

(* The last submission in hand, if there is one. *)
InHand == actuals # << >> /\ Last(actuals).status # "returned"

LEMMA HiddenIs == Hidden = IF InHand THEN Baseline \ DOMAIN actuals[Len(actuals)].lines ELSE {}
BY DEF Hidden, InHand, Last

LEMMA HiddenIsNext ==
    (Hidden = IF InHand THEN Baseline \ DOMAIN actuals[Len(actuals)].lines ELSE {})'
BY HiddenIs, PTL

LEMMA InHandIs == InHand <=> actuals # << >> /\ actuals[Len(actuals)].status # "returned"
BY DEF InHand, Last

LEMMA InHandIsNext == (InHand <=> actuals # << >> /\ actuals[Len(actuals)].status # "returned")'
BY InHandIs, PTL

LEMMA HiddenStep ==
    ASSUME Typed, InHandIsLast, Next
    PROVE  Hidden' \subseteq Hidden \cup {v \in DOMAIN versions : versions[v].status # "approved"}
<1> DEFINE New == {v \in DOMAIN versions : versions[v].status # "approved"}
<1> SUFFICES ASSUME Kinds PROVE Hidden' \subseteq Hidden \cup New
  BY StepKinds
<1>0. actuals \in Seq(Submission)
  BY DEF Typed
<1>1. ASSUME UNCHANGED actuals, Baseline' \subseteq Baseline \cup New PROVE Hidden' \subseteq Hidden \cup New
  <2>1. InHand' <=> InHand
    BY <1>1, InHandIs, InHandIsNext
  <2>2. QED
    BY <1>1, <2>1, HiddenIs, HiddenIsNext
<1>2. UNCHANGED versions => Baseline' = Baseline
  BY DEF Baseline, With
<1>3. CASE Asked
  <2>1. PICK k : k = Len(versions) + 1
    OBVIOUS
  <2>2. Baseline' \subseteq Baseline
    BY <1>3, <2>1, VersionsGrow DEF Baseline, With
  <2>3. QED
    BY <1>1, <1>3, <2>2, VersionsGrow
<1>4. CASE Edited
  <2>1. PICK v \in DOMAIN versions, x \in Version : versions[v].status \in {"draft", "submitted"} /\ ChangeVersion(v, x)
    BY <1>4 DEF Edited
  <2>2. Baseline' \subseteq Baseline \cup New
    BY <2>1 DEF Baseline, With, ChangeVersion
  <2>3. QED
    BY <1>1, <2>1, <2>2 DEF ChangeVersion
<1>5. CASE Entered
  <2>1. PICK V \in SUBSET DOMAIN versions : \E lines \in Lines(V) : Baseline \subseteq V /\ Enter(lines)
    BY <1>5 DEF Entered
  <2>2. PICK lines \in Lines(V) : Baseline \subseteq V /\ Enter(lines)
    BY <2>1
  <2>3. DOMAIN lines = V
    BY DEF Lines
  <2>4. actuals'[Len(actuals')].lines = lines
    BY <1>0, <2>2 DEF Enter
  <2>5. Baseline' = Baseline
    BY <1>2, <2>2 DEF Enter
  <2>6. QED
    BY <2>2, <2>3, <2>4, <2>5, HiddenIsNext
<1>6. CASE Reworked
  <2>1. PICK n \in DOMAIN actuals, V \in SUBSET DOMAIN versions : \E x \in Actual(V) :
          /\ actuals[n].status # "returned" /\ (Baseline \subseteq V \/ x.lines = actuals[n].lines)
          /\ ChangeActuals(n, x)
    BY <1>6 DEF Reworked
  <2>2. PICK x \in Actual(V) :
          /\ actuals[n].status # "returned" /\ (Baseline \subseteq V \/ x.lines = actuals[n].lines)
          /\ ChangeActuals(n, x)
    BY <2>1
  <2>3. n = Len(actuals) /\ InHand
    BY <1>0, <2>2, InHandIs DEF InHandIsLast
  <2>4. Len(actuals') = n /\ actuals'[n] = x
    BY <1>0, <2>2, <2>3 DEF ChangeActuals
  <2>5. Baseline' = Baseline
    BY <1>2, <2>2 DEF ChangeActuals
  <2>6. DOMAIN x.lines = V
    BY DEF Actual, Lines
  <2>7. QED
    BY <2>2, <2>3, <2>4, <2>5, <2>6, HiddenIs, HiddenIsNext
<1>7. QED
  BY <1>1, <1>2, <1>3, <1>4, <1>5, <1>6 DEF Kinds, Paid, Noted, Moved, CloseSettlement, ReopenSettlement

(* An approved row is not left out of the final expenses in hand, whatever the
   manager enters, saves or copies: only one approved while they are in hand
   has no line (pbx_start_actuals, pbx_save_actuals, pbx_revise_actuals). *)
THEOREM RowsAreShown == Spec => HiddenOnlyWhenAdded
<1>1. BudgetInv /\ [Next]_vars => [Hidden' \subseteq Hidden \cup {v \in DOMAIN versions : versions[v].status # "approved"}]_vars
  BY HiddenStep DEF BudgetInv
<1>2. QED
  BY <1>1, BudgetHolds, PTL DEF Spec, HiddenOnlyWhenAdded

------------------------------------------------------------------------------
(* Who closes. *)

LEMMA ClosedStep ==
    ASSUME Typed, InHandIsLast, Next, settlement'.closed, ~ settlement.closed
    PROVE  \A n \in With(actuals, {"approved"}) : settlement'.by \notin {actuals[n].by, actuals[n].submitter}
<1>1. PICK p \in People : CloseSettlement(p)
  <2>1. ~ UNCHANGED settlement
    OBVIOUS
  <2>2. Kinds
    BY StepKinds
  <2>3. ASSUME NEW p \in People, ReopenSettlement(p) PROVE FALSE
    BY <2>3 DEF ReopenSettlement
  <2>4. QED
    BY <2>1, <2>2, <2>3, VersionsGrow DEF Kinds, Edited, ChangeVersion, Entered, Enter, Reworked, ChangeActuals, Paid, Noted, Moved
<1>2. settlement'.by = p
  BY <1>1 DEF CloseSettlement
<1>3. CASE SettlementRoute = "executive_approver"
  <2>1. ~ Author(p)
    BY <1>1, <1>3 DEF CloseSettlement
  <2>2. QED
    BY <1>2, <2>1 DEF Author, With
<1>4. CASE SettlementRoute # "executive_approver"
  <2>1. Finance(p)
    BY <1>1, <1>4 DEF CloseSettlement
  <2>2. \A n \in With(actuals, {"approved"}) : ~ Finance(actuals[n].by) /\ ~ Finance(actuals[n].submitter)
    BY <1>4 DEF SettlementRoute
  <2>3. QED
    BY <1>2, <2>1, <2>2
<1>5. QED
  BY <1>3, <1>4

(* Nobody closes the settlement of final expenses they prepared or submitted,
   whatever access they were given since (pbx_close_settlement and the route it
   reads again). *)
THEOREM AnotherCloses == Spec => ClosedByAnother
<1>1. BudgetInv /\ [Next]_vars =>
        [settlement'.closed /\ ~ settlement.closed =>
           \A n \in With(actuals, {"approved"}) : settlement'.by \notin {actuals[n].by, actuals[n].submitter}]_vars
  BY ClosedStep DEF BudgetInv
<1>2. QED
  BY <1>1, BudgetHolds, PTL DEF Spec, ClosedByAnother
==============================================================================

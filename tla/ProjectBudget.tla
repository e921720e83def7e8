----------------------------- MODULE ProjectBudget -----------------------------
(* The budget of one project: what the project manager asks for, the money
   handed out against it, what was spent, and the settlement of the two.

   Every function locks the version or the submission it is about, and then the
   budget row, so each is one step.  The two that save a draft read the budget
   without its lock: what they overlook might as well have come after them.
   Between the calls people change: somebody is given or loses Finance access,
   another person manages the project.  What a decision requires is partly
   fixed when something is submitted (its route) and partly read again when it
   is made.
   Money counts in whole units, and an entry of money is one unit. *)
EXTENDS Integers, Sequences, FiniteSets, SequencesExt

CONSTANTS People, Manager,   \* who may be named; the first project manager
          Nobody,            \* a null column
          Members,           \* of them, the members of the project: who may hold money
          Granted,           \* pbx_company_grants to begin with
          Totals, Entries,   \* what a request may ask for, what a line may say
          MaxVersions, MaxActuals, MaxMoney, \* bounds: requests, submissions, entries at a time
          MaxChanges         \* bound: corrections and changes of people

Capabilities == {"finance", "executive_approver"}
Via   == {"advance", "personal", "company"}
Blank == -1
Line  == [amount : {Blank} \cup Nat, via : Via, payer : Members \cup {Nobody}]

ASSUME BudgetAssumption ==
    /\ Members \subseteq People /\ Manager \in People /\ Nobody \notin People
    /\ Granted \in [People -> SUBSET Capabilities]
    /\ Totals \subseteq Nat /\ Entries \subseteq Line
    /\ {MaxVersions, MaxActuals, MaxMoney, MaxChanges} \subseteq Nat

VARIABLES manager, grants,
          versions,   \* pbx_budget_versions, by seq; each asks for one row
          actuals,    \* pbx_actual_submissions, by seq, with their lines by version
          advance, returned, repaid, \* unreversed entries of each person
          receipts,   \* the receipts_ columns of the budget
          settlement, \* the settlement_ columns
          changes

money == <<advance, returned, repaid>>
roles == <<manager, grants>>
vars == <<manager, grants, versions, actuals, advance, returned, repaid, receipts, settlement, changes>>

Version == [kind : {"original", "addition"}, total : Nat, by : People,
            status : {"draft", "submitted", "returned", "rejected", "approved", "discarded"},
            submitter : People \cup {Nobody}, route : Capabilities]
Lines(V) == [V -> Line]   \* of the approved rows V
Actual(V) == [status : {"draft", "submitted", "returned", "approved"}, complete : BOOLEAN,
              by : People, submitter : People \cup {Nobody}, route : Capabilities, lines : Lines(V)]

With(log, statuses) == {n \in DOMAIN log : log[n].status \in statuses}
Baseline == With(versions, {"approved"})
Originals == {v \in DOMAIN versions : versions[v].kind = "original"}
InProgress(log) == With(log, {"draft", "submitted"})

TypeOK ==
    /\ manager \in People /\ grants \in [People -> SUBSET Capabilities]
    /\ versions \in Seq(Version)
    /\ \A n \in DOMAIN actuals : \E V \in SUBSET DOMAIN versions : actuals[n] \in Actual(V)
    /\ {advance, returned, repaid} \subseteq [Members -> Nat]
    /\ receipts \in [received : BOOLEAN, recorder : People \cup {Nobody},
                     confirmer : People \cup {Nobody}]
    /\ settlement \in [closed : BOOLEAN, by : People \cup {Nobody}]
    /\ changes \in 0..MaxChanges
    (* the unique indexes *)
    /\ Cardinality(InProgress(versions)) <= 1 /\ Cardinality(Originals \cap Baseline) <= 1
    /\ Cardinality(InProgress(actuals)) <= 1 /\ Cardinality(With(actuals, {"approved"})) <= 1

----------------------------------------------------------------------------
(* Who may do what *)

Finance(p)   == "finance" \in grants[p]
Executive(p) == "executive_approver" \in grants[p]

(* What somebody with Finance access submits goes to the executives. *)
Route(p) == IF Finance(p) THEN "executive_approver" ELSE "finance"
MayDecide(p, x) == x.route \in grants[p] /\ p # x.by /\ p # x.submitter

(* Whoever prepared or submitted any final expenses of the budget. *)
Author(p) == \E n \in DOMAIN actuals : actuals[n].status # "draft" /\ p \in {actuals[n].by, actuals[n].submitter}

(* Mutant: settlement goes the way the expenses went. *)
MutRouteAtSubmission ==
    IF \E n \in With(actuals, {"approved"}) : actuals[n].route = "executive_approver"
    THEN "executive_approver" ELSE "finance"
(* Who settles follows the approved expenses: Finance access given since to
   whoever prepared or submitted them counts as well. *)
SettlementRoute ==
    IF \E n \in With(actuals, {"approved"}) :
          actuals[n].route = "executive_approver" \/ Finance(actuals[n].by) \/ Finance(actuals[n].submitter)
    THEN "executive_approver" ELSE "finance"

MutNeverShut == TRUE \* Mutant: a closed settlement holds nothing
Open == ~ settlement.closed

Correction == changes < MaxChanges /\ changes' = changes + 1

----------------------------------------------------------------------------
(* Budget requests *)

BaselineTotal == MapThenSumSet(LAMBDA v : versions[v].total, Baseline)

Request(kind, total) ==
    /\ InProgress(versions) = {} /\ Len(versions) < MaxVersions
    /\ versions' = Append(versions, [kind |-> kind, total |-> total, by |-> manager, status |-> "draft",
                                     submitter |-> Nobody, route |-> "finance"])
    /\ UNCHANGED <<roles, actuals, money, receipts, settlement>>

(* Called again, it starts over when every original was discarded. *)
CreateBudget ==
    /\ \A v \in Originals : versions[v].status = "discarded"
    /\ Request("original", 0) /\ UNCHANGED changes

RequestAddition ==
    /\ Open /\ Originals \cap Baseline # {}
    /\ Request("addition", 0) /\ UNCHANGED changes

ReviseBudget(v) ==
    /\ Open /\ versions[v].status \in {"returned", "rejected"}
    /\ Request(versions[v].kind, versions[v].total) /\ UNCHANGED changes

ChangeVersion(v, x) ==
    /\ versions' = [versions EXCEPT ![v] = x]
    /\ UNCHANGED <<roles, actuals, money, receipts, settlement>>

SaveBudget(v, n) ==
    /\ Open /\ versions[v].status = "draft"
    /\ ChangeVersion(v, [versions[v] EXCEPT !.total = n]) /\ UNCHANGED changes

SubmitBudget(v) ==
    /\ Open /\ versions[v].status = "draft" /\ versions[v].total > 0
    /\ versions[v].kind = "addition" => Originals \cap Baseline # {}
    /\ ChangeVersion(v, [versions[v] EXCEPT !.status = "submitted", !.submitter = manager, !.route = Route(manager)])
    /\ UNCHANGED changes

(* uq_pbx_approved_original *)
Approvable(v) == v \in Originals => Originals \cap Baseline = {}
(* Nothing here asks whether the settlement is open. *)
DecideBudget(v) ==
    /\ versions[v].status = "submitted" /\ \E p \in People : MayDecide(p, versions[v])
    /\ \/ /\ Approvable(v)
          /\ ChangeVersion(v, [versions[v] EXCEPT !.status = "approved"])
          /\ UNCHANGED changes
       \/ /\ Correction
          /\ \E s \in {"returned", "rejected"} : ChangeVersion(v, [versions[v] EXCEPT !.status = s])

DiscardDraft(v) ==
    /\ Open /\ versions[v].status = "draft" /\ Correction
    /\ ChangeVersion(v, [versions[v] EXCEPT !.status = "discarded"])

----------------------------------------------------------------------------
(* Final expenses: every approved row has a line *)

NoneInHand == With(actuals, {"draft", "submitted", "approved"}) = {}

BlankLine == [amount |-> Blank, via |-> "company", payer |-> Nobody]
BlankLines(V) == [v \in V |-> BlankLine]

Enter(lines) ==
    /\ Len(actuals) < MaxActuals
    /\ actuals' = Append(actuals, [status |-> "draft", complete |-> FALSE, by |-> manager,
                                   submitter |-> Nobody, route |-> "finance", lines |-> lines])
    /\ UNCHANGED <<roles, versions, money, receipts, settlement, changes>>

StartActuals ==
    /\ Open /\ BaselineTotal > 0 /\ NoneInHand
    /\ Enter(BlankLines(Baseline))

MutCopiesOnly(lines) == lines \* Mutant: what was approved since has no line
Completed(lines) == [v \in DOMAIN lines \cup Baseline |-> IF v \in DOMAIN lines THEN lines[v] ELSE BlankLine]
(* The lines are copied; what was approved since gets a blank one. *)
ReviseActuals(n) ==
    /\ Open /\ actuals[n].status = "returned" /\ NoneInHand
    /\ Enter(Completed(actuals[n].lines))

ChangeActuals(n, x) ==
    /\ actuals' = [actuals EXCEPT ![n] = x]
    /\ UNCHANGED <<roles, versions, money, receipts, settlement>>

SaveActuals(n) ==
    /\ Open /\ actuals[n].status = "draft"
    /\ \E V \in SUBSET Baseline, done \in BOOLEAN : \E lines \in [V -> Entries] :
          ChangeActuals(n, [actuals[n] EXCEPT !.lines = Completed(lines), !.complete = done])
    /\ UNCHANGED changes

SubmitActuals(n) ==
    /\ Open /\ actuals[n].status = "draft" /\ actuals[n].complete
    /\ \A v \in DOMAIN actuals[n].lines : actuals[n].lines[v].amount # Blank
    /\ ChangeActuals(n, [actuals[n] EXCEPT !.status = "submitted", !.submitter = manager, !.route = Route(manager)])
    /\ UNCHANGED changes

DecideActuals(n) ==
    /\ Open /\ actuals[n].status = "submitted" /\ \E p \in People : MayDecide(p, actuals[n])
    /\ \/ ChangeActuals(n, [actuals[n] EXCEPT !.status = "approved"]) /\ UNCHANGED changes
       \/ ChangeActuals(n, [actuals[n] EXCEPT !.status = "returned"]) /\ Correction

(* Approved expenses are sent back, by Finance or by who may decide them. *)
ReturnApprovedActuals(n) ==
    /\ Open /\ actuals[n].status = "approved" /\ Correction
    /\ \E p \in People \ {actuals[n].by, actuals[n].submitter} :
          Finance(p) \/ actuals[n].route \in grants[p]
    /\ ChangeActuals(n, [actuals[n] EXCEPT !.status = "returned"])

----------------------------------------------------------------------------
(* Money and settlement *)

(* What a person spent, by the approved final expenses. *)
Spent(p, via) ==
    LET of(n) == {v \in DOMAIN actuals[n].lines :
                     actuals[n].lines[v].via = via /\ actuals[n].lines[v].payer = p}
    IN  MapThenSumSet(LAMBDA n : MapThenSumSet(LAMBDA v : actuals[n].lines[v].amount, of(n)),
                      With(actuals, {"approved"}))
Held(p)        == advance[p] - returned[p] - Spent(p, "advance")
ToReturn(p)    == Max({Held(p), 0})
Outstanding(p) == Spent(p, "personal") + Max({- Held(p), 0}) - repaid[p]

Keeper == Open /\ \E p \in People : Finance(p)
Add(entries, p, n) == [entries EXCEPT ![p] = @ + n]
NoMore == UNCHANGED <<roles, versions, actuals, receipts, settlement>>

RecordFunding(p) ==
    /\ Keeper /\ BaselineTotal > 0 /\ MapThenSumSet(LAMBDA x : advance[x], Members) < MaxMoney
    /\ advance' = Add(advance, p, 1)
    /\ UNCHANGED <<returned, repaid, changes>> /\ NoMore
ReverseFunding(p) ==
    /\ Keeper /\ advance[p] > 0 /\ Correction
    /\ advance' = Add(advance, p, -1)
    /\ UNCHANGED <<returned, repaid>> /\ NoMore

(* Not more than is still held, or still owed. *)
RecordPayment(p) ==
    /\ Keeper /\ With(actuals, {"approved"}) # {}
    /\ \/ ToReturn(p) > 0 /\ returned' = Add(returned, p, 1) /\ UNCHANGED repaid
       \/ Outstanding(p) > 0 /\ repaid' = Add(repaid, p, 1) /\ UNCHANGED returned
    /\ UNCHANGED <<advance, changes>> /\ NoMore
ReversePayment(p) ==
    /\ Keeper /\ Correction
    /\ \/ returned[p] > 0 /\ returned' = Add(returned, p, -1) /\ UNCHANGED repaid
       \/ repaid[p] > 0 /\ repaid' = Add(repaid, p, -1) /\ UNCHANGED returned
    /\ UNCHANGED advance /\ NoMore

(* Recording again withdraws a confirmation. *)
RecordReceipts(p) ==
    /\ Open /\ Finance(p)
    /\ \E all \in BOOLEAN : receipts' = [received |-> all, recorder |-> p, confirmer |-> Nobody]
    /\ UNCHANGED <<roles, versions, actuals, money, settlement, changes>>

ConfirmReceipts(p) ==
    /\ Open /\ SettlementRoute = "executive_approver"
    /\ Executive(p) /\ ~ Author(p) /\ receipts.recorder # p
    /\ receipts.received /\ receipts.confirmer = Nobody
    /\ receipts' = [receipts EXCEPT !.confirmer = p]
    /\ UNCHANGED <<roles, versions, actuals, money, settlement, changes>>

(* pbx_settlement_blockers finds nothing. *)
Unblocked ==
    /\ With(actuals, {"approved"}) # {} /\ With(actuals, {"submitted"}) = {}
    /\ With(versions, {"submitted"}) = {}
    /\ receipts.received
    /\ SettlementRoute = "executive_approver" => receipts.confirmer # Nobody
    /\ \A p \in Members : ToReturn(p) = 0 /\ Outstanding(p) = 0

CloseSettlement(p) ==
    /\ ~ settlement.closed /\ Unblocked
    /\ IF SettlementRoute = "executive_approver" THEN Executive(p) /\ ~ Author(p) ELSE Finance(p)
    /\ settlement' = [closed |-> TRUE, by |-> p]
    /\ UNCHANGED <<roles, versions, actuals, money, receipts, changes>>

ReopenSettlement(p) ==
    /\ settlement.closed /\ (Finance(p) \/ Executive(p)) /\ Correction
    /\ settlement' = [closed |-> FALSE, by |-> Nobody]
    /\ UNCHANGED <<roles, versions, actuals, money, receipts>>

----------------------------------------------------------------------------
(* People *)

(* Access is replaced as a whole, or revoked; only an approver makes or unmakes
   one, never of themselves alone. *)
ChangeAccess(p, caps) ==
    /\ Correction /\ caps # grants[p]
    /\ Executive(p) # ("executive_approver" \in caps) => \E q \in People \ {p} : Executive(q)
    /\ grants' = [grants EXCEPT ![p] = caps]
    /\ UNCHANGED <<manager, versions, actuals, money, receipts, settlement>>
ChangeManager(p) ==
    /\ Correction /\ p # manager
    /\ manager' = p
    /\ UNCHANGED <<grants, versions, actuals, money, receipts, settlement>>

----------------------------------------------------------------------------
Init ==
    /\ manager = Manager /\ grants = Granted /\ changes = 0
    /\ versions = << >> /\ actuals = << >>
    /\ advance = [p \in Members |-> 0] /\ returned = advance /\ repaid = advance
    /\ receipts = [received |-> FALSE, recorder |-> Nobody, confirmer |-> Nobody]
    /\ settlement = [closed |-> FALSE, by |-> Nobody]

Next ==
    \/ CreateBudget \/ RequestAddition \/ StartActuals
    \/ \E v \in DOMAIN versions :
          \/ SubmitBudget(v) \/ DecideBudget(v) \/ ReviseBudget(v) \/ DiscardDraft(v)
          \/ \E n \in Totals : SaveBudget(v, n)
    \/ \E n \in DOMAIN actuals :
          \/ ReviseActuals(n) \/ SaveActuals(n) \/ SubmitActuals(n)
          \/ DecideActuals(n) \/ ReturnApprovedActuals(n)
    \/ \E p \in Members : RecordFunding(p) \/ ReverseFunding(p) \/ RecordPayment(p) \/ ReversePayment(p)
    \/ \E p \in People :
          \/ RecordReceipts(p) \/ ConfirmReceipts(p)
          \/ CloseSettlement(p) \/ ReopenSettlement(p) \/ ChangeManager(p)
          \/ \E caps \in SUBSET Capabilities : ChangeAccess(p, caps)

Spec == Init /\ [][Next]_vars

----------------------------------------------------------------------------
(* Properties *)

(* A closed settlement is even and stays so: what a person was given equals
   what they spent or gave back, in whatever order money was recorded and
   reversed, expenses corrected and people changed; nothing waits for a
   decision that could still change it. *)
ClosedIsEven ==
    settlement.closed =>
        /\ \A p \in Members :
              advance[p] + repaid[p] = Spent(p, "advance") + Spent(p, "personal") + returned[p]
        /\ Cardinality(With(actuals, {"approved"})) = 1
        /\ With(actuals, {"draft", "submitted"}) = {} /\ With(versions, {"submitted"}) = {}

(* ... and at most one version of the budget and one of the final expenses is
   in progress, and one of the expenses approved (TypeOK). *)
BudgetSound == TypeOK /\ ClosedIsEven

(* Approved rows that the final expenses in hand do not show. *)
Hidden == IF actuals = << >> \/ Last(actuals).status = "returned" THEN {}
          ELSE Baseline \ DOMAIN Last(actuals).lines
(* "It cannot be hidden": whatever the manager saves, leaves out or revises,
   every approved row keeps its line; only a row approved while the expenses
   are being entered or decided has none. *)
HiddenOnlyWhenAdded == [][Hidden' \subseteq Hidden \cup {v \in DOMAIN versions : versions[v].status # "approved"}]_vars

(* Nobody closes the settlement of expenses they prepared or submitted,
   whatever access they were given since: who closes as Finance may at most
   have written an earlier submission that was returned. *)
ClosedByAnother ==
    [][settlement'.closed /\ ~ settlement.closed =>
          \A n \in With(actuals, {"approved"}) :
              settlement'.by \notin {actuals[n].by, actuals[n].submitter}]_vars
================================================================================

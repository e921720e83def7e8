------------------------------ MODULE AnnualLeave ------------------------------
(* The annual leave of one employee: granted by the monthly accrual job, taken
   through approvals, settled when the employee leaves.

   leave_ledger is append-only.  The job and the termination workflow of HR
   both read the whole ledger and the contracts, compute in the application
   how much to post, and post it in a later call; nothing locks out the other
   one in between.  A unique key lets a month accrue once; the marker of a
   Polish termination lets one settlement be posted per employee, ever. *)
EXTENDS LeaveRules, FiniteSets

CONSTANTS Countries, Hire,
          Days,          \* the business dates on which something happens
          Exits,         \* termination dates HR may enter
          Versions,      \* contracts HR may add, and the one of the hire
          Openings,      \* opening balances; 0 posts none
          Taken,         \* days of a leave request
          Corrections,   \* days of a manual adjustment
          MaxBalance,    \* policy cap on the balance; 0 is none
          MinService,    \* min_service_days_to_accrue of each country; 0 is none
          MaxRows, MaxOpen  \* bounds: ledger rows when people act, runs and HR calls at a time

ASSUME AnnualAssumption ==
    /\ Countries \subseteq {"AE", "SA", "PL"}
    /\ Days \subseteq Nat /\ Exits \subseteq Nat /\ Hire \in Days /\ \A d \in Days : Hire <= d
    /\ Versions \subseteq [from : Nat, fte : 1..4]
    /\ Openings \subseteq Nat /\ Taken \subseteq Nat \ {0} /\ Corrections \subseteq Int \ {0}
    /\ {MaxBalance, MaxRows, MaxOpen} \subseteq Nat /\ MinService \in [Countries -> Nat]

VARIABLES country, today,
          contracts,     \* employment_contracts
          ledger,        \* leave_ledger rows of type 'annual', in insertion order
          status, exit,  \* employment_status, termination_date
          marker,        \* poland_termination_leave_reconciliations, or NoMarker
          runs,          \* accrual runs that have read and not yet posted
          calls          \* terminations by HR that are not finished

vars == <<country, today, contracts, ledger, status, exit, marker, runs, calls>>

NoDate   == -1
NoMarker == [date |-> NoDate, excess |-> 0, reviewed |-> FALSE, auto |-> FALSE]

RowType  == [kind : {"opening", "accrual", "manual", "deduction", "reversal", "settlement"},
             days : Int, ref : Nat]
Reading  == Nat \X Nat
RunType  == [month : Nat, days : Nat \ {0}, seen : Reading]
CallType == [step : {"fields", "post"}, date : Nat, days : Int, seen : Reading]

TypeOK ==
    /\ country \in Countries /\ today \in Days
    /\ contracts \in SUBSET Versions
    /\ ledger \in Seq(RowType)
    /\ \A i, j \in DOMAIN ledger : \* one accrual a month, one settlement
          ledger[i].kind = ledger[j].kind /\ ledger[i].ref = ledger[j].ref
             /\ ledger[i].kind \in {"accrual", "settlement", "reversal"} => i = j
    /\ status \in {"active", "terminated"} /\ exit \in Exits \cup {NoDate}
    /\ marker \in [date : Exits \cup {NoDate}, excess : Nat, reviewed : BOOLEAN, auto : BOOLEAN]
    /\ runs \in Seq(RunType) /\ calls \in Seq(CallType)

----------------------------------------------------------------------------
(* The ledger read *)

Total(I)   == MapThenSumSet(LAMBDA i : ledger[i].days, I)
Balance    == Total(DOMAIN ledger)
Of(k)      == {i \in DOMAIN ledger : ledger[i].kind = k}
Reversed(i) == \E j \in Of("reversal") : ledger[j].ref = i

GrantKinds == {"opening", "accrual", "settlement"}
(* Rows that grant days; a reversal belongs to what it reverses. *)
Grants ==
    {i \in DOMAIN ledger :
        \/ ledger[i].kind \in GrantKinds
        \/ ledger[i].kind = "reversal" /\ ledger[ledger[i].ref].kind \in GrantKinds}
Granted == Total(Grants)
(* A manual adjustment may or may not be a grant: nothing is computed then. *)
Ambiguous == Of("manual") # {}

(* Mutant: any accrual counts as the one of this month. *)
MutAccruedEver(m) == Of("accrual") # {}
Accrued(m) == \E i \in Of("accrual") : ledger[i].ref = m

MutKeyless(m) == FALSE \* Mutant: no unique key on the row
KeyTaken(m) == \E i \in Of("accrual") : ledger[i].ref = m

(* Rows and contracts are only added: how many there are dates a reading. *)
Now == <<Len(ledger), Cardinality(contracts)>>
Post(k, n, r) == ledger' = Append(ledger, [kind |-> k, days |-> n, ref |-> r])
Added(k, seen) == \E i \in Of(k) : i > seen[1]
Amended(seen)  == Cardinality(contracts) # seen[2]

----------------------------------------------------------------------------
(* The monthly accrual: read and compute, then post.  The errors of three of
   its queries are ignored.  Without the contracts a Polish entitlement is
   blocked, and nothing happens; without the rows of this month ("listed") no
   month looks accrued; without the balance, none is there. *)

Entitled  == ToDate(country, contracts, Hire, today)
AtExit(d) == PolandAtExit(contracts, Hire, d)
Capped(n, balance) == IF MaxBalance = 0 THEN n ELSE Min({n, Max({0, MaxBalance - balance})})
Served == today - Hire >= MinService[country]

RunRead(listed, balance) ==
    /\ Len(runs) + Len(calls) < MaxOpen
    /\ status = "active" /\ Served /\ ~ (listed /\ Accrued(MonthOf(today))) /\ ~ Ambiguous
    /\ \E earned \in {Entitled} \ {Blocked} :
          /\ Capped(earned - Granted, balance) > 0
          /\ runs' = Append(runs, [month |-> MonthOf(today), days |-> Capped(earned - Granted, balance),
                                   seen |-> Now])
    /\ UNCHANGED <<country, today, contracts, ledger, status, exit, marker, calls>>

RunPost(i) ==
    /\ IF KeyTaken(runs[i].month) THEN UNCHANGED ledger
       ELSE Post("accrual", runs[i].days, runs[i].month)
    /\ runs' = RemoveAt(runs, i)
    /\ UNCHANGED <<country, today, contracts, status, exit, marker, calls>>

RunLost(i) ==
    /\ runs' = RemoveAt(runs, i)
    /\ UNCHANGED <<country, today, contracts, ledger, status, exit, marker, calls>>

----------------------------------------------------------------------------
(* HR and approvals *)

AddContract(c) ==
    /\ contracts' = contracts \cup {c}
    /\ UNCHANGED <<country, today, ledger, status, exit, marker, runs, calls>>

(* Approved leave is taken, cancelled leave restored, a balance corrected. *)
Take(n)     == Post("deduction", - n, 0)
Restore(i)  == ~ Reversed(i) /\ Post("reversal", - ledger[i].days, i)
Adjust(n)   == Post("manual", n, 0)
LedgerEntry ==
    /\ Len(ledger) < MaxRows
    /\ \/ \E n \in Taken : Take(n)
       \/ \E i \in Of("deduction") : Restore(i)
       \/ \E n \in Corrections : Adjust(n)
    /\ UNCHANGED <<country, today, contracts, status, exit, marker, runs, calls>>

(* updateEmployee with status 'terminated': terminate_employee, then the other
   fields of the form, then the Polish true-up.  Nothing asks whether the
   employee was terminated before. *)
Terminate(d) ==
    /\ Len(runs) + Len(calls) < MaxOpen
    /\ status' = "terminated" /\ exit' = d
    /\ calls' = Append(calls, [step |-> "fields", date |-> d, days |-> 0, seen |-> Now])
    /\ UNCHANGED <<country, today, contracts, ledger, marker, runs>>

(* The true-up reads contracts and ledger and computes the difference. *)
TrueUpRead(i) ==
    LET due == AtExit(calls[i].date)
    IN  /\ calls[i].step = "fields"
        /\ country = "PL" /\ due # Blocked /\ ~ Ambiguous
        /\ calls' = [calls EXCEPT ![i].step = "post", ![i].days = due - Granted,
                                  ![i].seen = Now]
        /\ UNCHANGED <<country, today, contracts, ledger, status, exit, marker, runs>>

MutTakesAll(n) == n \* Mutant: days already used are clawed back too
(* A claw-back takes what is unused and no more. *)
Applied(n) == IF n >= 0 THEN n ELSE Max({n, Min({Balance, 0}) - Balance})

Marked == marker # NoMarker

(* post_poland_termination_leave_adjustment: once per employee, for the date
   the employee has by now. *)
TrueUpPost(i) ==
    LET c == calls[i]
    IN  /\ c.step = "post"
        /\ IF status # "terminated" \/ Marked THEN UNCHANGED <<ledger, marker>>
           ELSE /\ IF Applied(c.days) = 0 THEN UNCHANGED ledger
                   ELSE Post("settlement", Applied(c.days), 0)
                /\ marker' = [date |-> exit, excess |-> Applied(c.days) - c.days,
                              reviewed |-> FALSE, auto |-> TRUE]
        /\ calls' = RemoveAt(calls, i)
        /\ UNCHANGED <<country, today, contracts, status, exit, runs>>

(* The action ends early: another country, no trustworthy data, a failed
   update of the fields, a failed query, a lost connection. *)
CallEnds(i) ==
    /\ calls' = RemoveAt(calls, i)
    /\ UNCHANGED <<country, today, contracts, ledger, status, exit, marker, runs>>

(* updateEmployee with another status; the termination date stays. *)
Reactivate ==
    /\ status = "terminated"
    /\ status' = "active"
    /\ UNCHANGED <<country, today, contracts, ledger, exit, marker, runs, calls>>

Acknowledge ==
    /\ Marked
    /\ marker' = [marker EXCEPT !.reviewed = TRUE]
    /\ UNCHANGED <<country, today, contracts, ledger, status, exit, runs, calls>>

(* HR confirms to have settled by hand; a marker that exists stays as it is. *)
Confirmed == IF Marked THEN marker ELSE [NoMarker EXCEPT !.date = exit]
Confirm ==
    /\ country = "PL" /\ status = "terminated" /\ exit # NoDate
    /\ marker' = Confirmed
    /\ UNCHANGED <<country, today, contracts, ledger, status, exit, runs, calls>>

(* Runs and calls last seconds. *)
Tick ==
    /\ runs = << >> /\ calls = << >> /\ \E d \in Days : d > today
    /\ today' = Min({d \in Days : d > today})
    /\ UNCHANGED <<country, contracts, ledger, status, exit, marker, runs, calls>>

----------------------------------------------------------------------------
(* createEmployee: the first contract and the opening balance may fail. *)
Init ==
    /\ country \in Countries /\ today = Hire
    /\ contracts \in {{}} \cup {{c} : c \in {x \in Versions : x.from = Hire}}
    /\ \E n \in Openings :
          ledger = IF n = 0 THEN << >> ELSE <<[kind |-> "opening", days |-> n, ref |-> 0]>>
    /\ status = "active" /\ exit = NoDate /\ marker = NoMarker
    /\ runs = << >> /\ calls = << >>

Next ==
    \/ \E listed \in BOOLEAN, balance \in {Balance, 0} : RunRead(listed, balance)
    \/ \E i \in DOMAIN runs : RunPost(i) \/ RunLost(i)
    \/ \E c \in Versions \ contracts : AddContract(c)
    \/ LedgerEntry
    \/ \E d \in Exits : Terminate(d)
    \/ \E i \in DOMAIN calls : TrueUpRead(i) \/ TrueUpPost(i) \/ CallEnds(i)
    \/ Reactivate \/ Acknowledge \/ Confirm
    \/ Tick

(* The job is started every month, and neither are its answers lost nor do its
   queries fail every time; the actions of HR end; the days pass. *)
Fairness ==
    /\ SF_vars(Tick) /\ SF_vars(RunRead(TRUE, Balance))
    /\ SF_vars(\E i \in DOMAIN runs : RunPost(i))
    /\ WF_vars(\E i \in DOMAIN calls : CallEnds(i))

Spec == Init /\ [][Next]_vars /\ Fairness

----------------------------------------------------------------------------
(* Properties *)

(* Whatever contracts HR adds in whatever order, a fraction is
   found exactly when one and the same is in force all through the period. *)
InForce(h, d) ==
    LET c == {x \in h : x.from <= d}
    IN  IF c = {} THEN 0 ELSE (CHOOSE x \in c : \A y \in c : y.from <= x.from).fte
WalkedRight ==
    {h \in SUBSET Versions :
        \A s, e \in Days \cup Exits \cup {x.from : x \in h} : s <= e =>
            ConstantFte(h, s, e) =
                IF \A d \in s..e : InForce(h, d) = InForce(h, s) THEN InForce(h, s) ELSE 0}
FteIsConstant == ValidHistory(contracts) => contracts \in WalkedRight

(* ... and each month accrues at most once and each employee has one
   settlement, whatever runs and terminations are repeated (TypeOK). *)
LeaveSound == TypeOK /\ FteIsConstant

(* Neither repeated runs of the job nor repeated terminations grant more than
   the rules give; it takes a run and a settlement that overlap, or a contract
   added in between. *)
OvergrantOnlyByOverlap ==
    [][/\ \A i \in DOMAIN runs :
             runs' = RemoveAt(runs, i) /\ Granted' > Granted =>
                \/ Granted' <= Entitled \/ Amended(runs[i].seen)
                \/ Added("settlement", runs[i].seen)
       /\ \A i \in DOMAIN calls :
             calls' = RemoveAt(calls, i) /\ Granted' > Granted =>
                \/ Granted' <= AtExit(calls[i].date)
                \/ Amended(calls[i].seen)
                \/ Added("accrual", calls[i].seen)]_vars

(* A true-up takes back nothing that was used; what it could not take back is
   flagged, and then nothing is left; when nothing was written since it read,
   the grants less that excess are what the exit date gives. *)
TrueUpExact ==
    [][\A i \in DOMAIN calls :
          calls' = RemoveAt(calls, i) /\ marker' # marker =>
             /\ Balance' >= Min({Balance, 0})
             /\ marker'.excess > 0 => Balance' = Min({Balance, 0})
             /\ calls[i].seen = Now =>
                   Granted' - marker'.excess = AtExit(calls[i].date)]_vars

(* As long as HR keeps the employee active and the data decide it, what the
   rules give is granted. *)
Owed ==
    /\ status = "active" /\ Served /\ ~ Ambiguous /\ ~ KeyTaken(MonthOf(today))
    /\ Entitled # Blocked /\ Granted < Entitled
    /\ MaxBalance = 0 \/ Balance < MaxBalance
GrantedInTime == []<> ~ Owed

(* The migration that adds the confirmation: it closes the gap that left the
   final settlement blocked forever after HR did what it was told.  The gate
   asks for a marker of the present termination date. *)
ConfirmUnblocks == country = "PL" /\ status = "terminated" => Confirmed.date = exit
==============================================================================

---- MODULE RecoveryLeave ----
(* The recovery leave of one employee: days earned by working on a rest day,
   spent through leave requests, lapsing when their validity ends.

   comp_day_ledger is append-only and its sum is the balance. Four kinds of
   transaction write it under the advisory lock "comp_day_ledger:<employee>":
   the final approval of a leave request, the final approval of a credit, the
   HR attendance register, and a termination; cancelling approved leave takes
   it too. Each is two steps here: it takes its locks and reads, then writes
   and commits. The nightly sweep reads the whole ledger, computes in the
   application what has lapsed, and inserts later, without that lock.
   Days are counted in halves, as the credit rules do. *)
EXTENDS Integers, Sequences, FiniteSets, SequencesExt

CONSTANTS Requests, Credits,
          Start, End, Asked,    \* of each leave request: first and last day, half days
          Rules,                \* of each leave request: its configured funding sources, in order
          Steps,                \* of each leave request: approval steps of its workflow
          WorkDates,            \* of each attendance record: its day, and the day HR may correct it to
          Amounts,              \* of each attendance record: half days its hours can give
          Validity, LastDay,    \* validity of a credit, and the bound on time
          MaxRows, MaxRuns,     \* bounds: ledger rows when people call, sweeps at a time
          InTime                \* TRUE: HR decides a credit before it would have lapsed

ASSUME RecoveryAssumption ==
    /\ Start \in [Requests -> Nat] /\ End \in [Requests -> Nat]
    /\ \A r \in Requests : Start[r] <= End[r]
    /\ Asked \in [Requests -> Nat \ {0}]
    /\ Rules \in [Requests -> Seq({"comp_day", "leave_ledger"})]
    /\ Steps \in [Requests -> {1, 2}]
    /\ WorkDates \in [Credits -> SUBSET Nat]
    /\ Amounts \in [Credits -> SUBSET (Nat \ {0})]
    /\ {Validity, LastDay, MaxRows, MaxRuns} \subseteq Nat /\ InTime \in BOOLEAN

VARIABLES day,      \* business date
          ledger,   \* comp_day_ledger, in insertion order
          booked,   \* sum of a request's leave_ledger rows
          leave,    \* leave_requests.status; rejected and cancelled are "ended"
          credit,   \* the live recovery_credit_requests row of a record, or Nothing
          present,  \* attendance_records.status = 'present'
          open,     \* transactions that hold the advisory lock
          sweeps    \* runs of the expiry job that have read and not yet written

vars == <<day, ledger, booked, leave, credit, present, open, sweeps>>

Nothing == [status |-> "none", date |-> 0, days |-> 0]
Pending == {"submitted", "pending_approval"}
Live    == Pending \cup {"approved"}

RowType == [kind : {"earned", "redeemed", "expired", "reversal"}, days : Int,
            ref : Requests \cup Credits \cup Nat, expiry : Nat]
(* What a transaction is about, the ledger length when it read, the form's days. *)
TxType == [op : {"leave", "credit", "present", "away", "terminate", "cancel"},
           on : Requests \cup Credits \cup {0}, seen : Nat, days : Nat]

TypeOK ==
    /\ day \in 0..LastDay
    /\ ledger \in Seq(RowType)
    /\ \A i \in DOMAIN ledger : \* an earned row adds, every other row takes
          IF ledger[i].kind = "earned" THEN ledger[i].days > 0 ELSE ledger[i].days < 0
    /\ booked \in [Requests -> Int]
    /\ leave \in [Requests -> {"none", "ended"} \cup Live]
    /\ credit \in [Credits -> [status : {"none", "submitted", "approved"}, date : Nat, days : Nat]]
    /\ present \in [Credits -> BOOLEAN]
    /\ open \in SUBSET TxType
    /\ sweeps \in Seq([seen : Nat, day : Nat])

----------------------------------------------------------------------------
(* The ledger read *)

Total(rows, I) == MapThenSumSet(LAMBDA i : rows[i].days, I)
Of(rows, k)  == {i \in DOMAIN rows : rows[i].kind = k}
Balance(rows) == Total(rows, DOMAIN rows)
Reversed(rows, i) == \E j \in Of(rows, "reversal") : rows[j].ref = i

(* Mutant: only redemptions are consumption. *)
MutPoolOfRedemptions(rows) == - Total(rows, Of(rows, "redeemed"))
(* Rows that are neither earned nor positive form one pool of consumption. *)
Pool(rows) == - Total(rows, {i \in DOMAIN rows : rows[i].kind # "earned" /\ rows[i].days < 0})

(* Earned rows in the order they are used up: soonest to lapse first. *)
Before(rows, i) ==
    {j \in Of(rows, "earned") :
        rows[j].expiry < rows[i].expiry \/ (rows[j].expiry = rows[i].expiry /\ j < i)}

(* Mutant: the pool is not used up by the rows before. *)
MutPoolNotUsedUp(rows, i) == IF Pool(rows) >= rows[i].days THEN 0 ELSE rows[i].days - Pool(rows)
(* What the pool leaves of an earned row. *)
Remaining(rows, i) ==
    LET reach == Pool(rows) - Total(rows, Before(rows, i))
    IN  IF reach <= 0 THEN rows[i].days
        ELSE IF reach >= rows[i].days THEN 0 ELSE rows[i].days - reach

MutLapsesLater(rows, d) == {i \in Of(rows, "earned") : rows[i].expiry < d} \* Mutant: a day late
Due(rows, d) == {i \in Of(rows, "earned") : rows[i].expiry <= d}

(* Rows the sweep inserts: one for each earned row that lapsed with something
   left; its idempotency key is the earned row. *)
Lapsed(rows, d) ==
    {[kind |-> "expired", days |-> - Remaining(rows, i), ref |-> i, expiry |-> 0] :
        i \in {j \in Due(rows, d) : Remaining(rows, j) > 0}}

MutNoKey(rows, new) == new \* Mutant: nothing drops a second posting
(* The unique key drops what another run has posted. *)
Unposted(rows, new) == {x \in new : \A i \in Of(rows, "expired") : rows[i].ref # x.ref}

(* What the leave rules draw: comp days of the balance, then leave days; a
   third part stays uncovered. *)
Draw(r, rows) ==
    LET step[i \in 0..Len(Rules[r])] ==
            IF i = 0 THEN [comp |-> 0, leave |-> 0, rest |-> Asked[r]]
            ELSE LET p == step[i - 1]
                     free == Balance(rows) - p.comp
                     d == IF free <= 0 THEN 0 ELSE IF free < p.rest THEN free ELSE p.rest
                 IN  IF Rules[r][i] = "comp_day"
                     THEN [comp |-> p.comp + d, leave |-> p.leave, rest |-> p.rest - d]
                     ELSE [comp |-> p.comp, leave |-> p.leave + p.rest, rest |-> 0]
    IN  step[Len(Rules[r])]

----------------------------------------------------------------------------
(* Transactions *)

MutNoLock == TRUE \* Mutant: decisions about one employee are not serialised
LockFree == open = {}
RowFree(x) == \A t \in open : t.on # x
View(t) == SubSeq(ledger, 1, t.seen)

Enter(o, x, d) ==
    /\ LockFree
    /\ Len(ledger) < MaxRows
    /\ open' = open \cup {[op |-> o, on |-> x, seen |-> Len(ledger), days |-> d]}
    /\ UNCHANGED <<day, ledger, booked, leave, credit, present, sweeps>>

(* The final decision on a leave request, or its cancellation once approved. *)
LastStep(r) == leave[r] = "pending_approval" \/ (leave[r] = "submitted" /\ Steps[r] = 1)
EnterLeave(r)  == LastStep(r) /\ RowFree(r) /\ Enter("leave", r, 0)
EnterCancel(r) == leave[r] = "approved" /\ day < Start[r] /\ RowFree(r) /\ Enter("cancel", r, 0)
EnterCredit(c) ==
    /\ credit[c].status = "submitted" /\ RowFree(c)
    /\ InTime => day < credit[c].date + Validity
    /\ Enter("credit", c, 0)
EnterPresent(c, d) == RowFree(c) /\ (\E w \in WorkDates[c] : w <= day) /\ Enter("present", c, d)
EnterAway(c) == present[c] /\ RowFree(c) /\ Enter("away", c, 0)
EnterTerminate == Enter("terminate", 0, 0)

Done(t) == open' = open \ {t} /\ UNCHANGED <<day, sweeps>>

(* The leave is funded and approved; rules that do not cover it refuse the
   decision and roll it back; without rules its own leave ledger pays. *)
FinishLeave(t) ==
    LET r == t.on
        p == Draw(r, View(t))
    IN  /\ t.op = "leave"
        /\ IF p.rest > 0 /\ Rules[r] # << >>
           THEN UNCHANGED <<ledger, booked, leave>>
           ELSE /\ ledger' = IF p.comp = 0 THEN ledger
                             ELSE Append(ledger, [kind |-> "redeemed", days |-> - p.comp,
                                                  ref |-> r, expiry |-> 0])
                /\ booked' = [booked EXCEPT ![r] = @ - p.leave - p.rest]
                /\ leave' = [leave EXCEPT ![r] = "approved"]
        /\ UNCHANGED <<credit, present>>
        /\ Done(t)

(* Reverses what the approval booked. A redemption cannot be reversed: the
   insert names a column comp_day_ledger does not have, and all is undone. *)
FinishCancel(t) ==
    LET r == t.on
        redeemed == {i \in Of(View(t), "redeemed") : ledger[i].ref = r /\ ~ Reversed(View(t), i)}
    IN  /\ t.op = "cancel"
        /\ IF redeemed # {} THEN UNCHANGED <<booked, leave>>
           ELSE /\ leave' = [leave EXCEPT ![r] = "ended"]
                /\ booked' = [booked EXCEPT ![r] = 0]
        /\ UNCHANGED <<ledger, credit, present>>
        /\ Done(t)

Active(rows, c) == {i \in Of(rows, "earned") : rows[i].ref = c /\ ~ Reversed(rows, i)}

(* The only place a credit is posted; an active one is not posted again. *)
FinishCredit(t) ==
    LET c == t.on
    IN  /\ t.op = "credit"
        /\ ledger' = IF Active(View(t), c) # {} THEN ledger
                     ELSE Append(ledger, [kind |-> "earned", days |-> credit[c].days, ref |-> c,
                                          expiry |-> credit[c].date + Validity])
        /\ credit' = [credit EXCEPT ![c].status = "approved"]
        /\ UNCHANGED <<booked, leave, present>>
        /\ Done(t)

(* The register: a present rest day asks for one credit. *)
FinishPresent(t) ==
    LET c == t.on
    IN  /\ t.op = "present"
        /\ present' = [present EXCEPT ![c] = TRUE]
        /\ credit' = IF credit[c].status # "none" \/ Active(View(t), c) # {} THEN credit
                     ELSE [credit EXCEPT ![c] = [status |-> "submitted", days |-> t.days,
                                                 date |-> Min(WorkDates[c])]]
        /\ UNCHANGED <<ledger, booked, leave>>
        /\ Done(t)

(* Mutant: the cancelled request stays with the record. *)
MutKeepsCancelled(c) == [credit[c] EXCEPT !.status = "cancelled"]
(* Pending or approved, the request is cancelled: the record can ask again. *)
Withdrawn(c) == Nothing
(* The register corrected away from present: the credit is taken back, spent
   or not, and the request of any state is cancelled. *)
FinishAway(t) ==
    LET c == t.on
    IN  /\ t.op = "away"
        /\ present' = [present EXCEPT ![c] = FALSE]
        /\ credit' = [credit EXCEPT ![c] = Withdrawn(c)]
        /\ \/ /\ Active(View(t), c) = {}
              /\ UNCHANGED ledger
           \/ \E i \in Active(View(t), c) :
                 ledger' = Append(ledger, [kind |-> "reversal", days |-> - ledger[i].days,
                                           ref |-> i, expiry |-> 0])
        /\ UNCHANGED <<booked, leave>>
        /\ Done(t)

(* terminate_employee: what is left is forfeited. *)
FinishTerminate(t) ==
    LET b == Balance(View(t))
    IN  /\ t.op = "terminate"
        /\ ledger' = IF b <= 0 THEN ledger
                     ELSE Append(ledger, [kind |-> "reversal", days |-> - b, ref |-> 0, expiry |-> 0])
        /\ UNCHANGED <<booked, leave, credit, present>>
        /\ Done(t)

Finish(t) ==
    \/ FinishLeave(t) \/ FinishCancel(t) \/ FinishCredit(t)
    \/ FinishPresent(t) \/ FinishAway(t) \/ FinishTerminate(t)

----------------------------------------------------------------------------
(* Calls that never touch the ledger *)

(* Two live requests never overlap: checked by the action, and by the
   exclusion constraint of the table. *)
Overlap(r, q) == Start[r] <= End[q] /\ Start[q] <= End[r]
Submit(r) ==
    /\ leave[r] = "none"
    /\ \A q \in Requests \ {r} : leave[q] \in Live => ~ Overlap(r, q)
    /\ leave' = [leave EXCEPT ![r] = "submitted"]
    /\ UNCHANGED <<day, ledger, booked, credit, present, open, sweeps>>

(* A step of the workflow that is not the last, a rejection at any step, and
   a cancellation while nothing is approved. *)
Decide(r) ==
    /\ leave[r] \in Pending /\ RowFree(r)
    /\ \/ leave[r] = "submitted" /\ Steps[r] = 2 /\ leave' = [leave EXCEPT ![r] = "pending_approval"]
       \/ leave' = [leave EXCEPT ![r] = "ended"]
    /\ UNCHANGED <<day, ledger, booked, credit, present, open, sweeps>>

(* HR rejects a credit request, or corrects its date and hours. *)
DecideCredit(c) ==
    /\ credit[c].status = "submitted" /\ RowFree(c)
    /\ \/ credit' = [credit EXCEPT ![c] = Nothing]
       \/ \E w \in WorkDates[c], d \in Amounts[c] :
             credit' = [credit EXCEPT ![c].date = w, ![c].days = d]
    /\ UNCHANGED <<day, ledger, booked, leave, present, open, sweeps>>

----------------------------------------------------------------------------
(* The nightly sweep: read and compute, then insert; a run may be lost, and
   one that finds nothing to insert leaves no trace *)

SweepRead ==
    /\ Len(sweeps) < MaxRuns
    /\ Lapsed(ledger, day) # {}
    /\ sweeps' = Append(sweeps, [seen |-> Len(ledger), day |-> day])
    /\ UNCHANGED <<day, ledger, booked, leave, credit, present, open>>

Fresh(i) == sweeps[i].seen = Len(ledger)
SweepPost(i) ==
    /\ LET rows == SubSeq(ledger, 1, sweeps[i].seen)
           new  == Unposted(ledger, Lapsed(rows, sweeps[i].day))
       IN  \E posted \in SetToSeqs(new) :
              /\ \A j, k \in DOMAIN posted : j < k => posted[j].ref < posted[k].ref
              /\ ledger' = ledger \o posted
    /\ sweeps' = RemoveAt(sweeps, i)
    /\ UNCHANGED <<day, booked, leave, credit, present, open>>

SweepLost(i) ==
    /\ sweeps' = RemoveAt(sweeps, i)
    /\ UNCHANGED <<day, ledger, booked, leave, credit, present, open>>

(* Days pass between transactions, which last milliseconds; a sweep may be
   stalled across midnight. *)
Tick ==
    /\ day < LastDay /\ open = {}
    /\ day' = day + 1
    /\ UNCHANGED <<ledger, booked, leave, credit, present, open, sweeps>>

----------------------------------------------------------------------------
Init ==
    /\ day = 0 /\ ledger = << >> /\ open = {}
    /\ booked = [r \in Requests |-> 0] /\ leave = [r \in Requests |-> "none"]
    /\ credit = [c \in Credits |-> Nothing] /\ present = [c \in Credits |-> FALSE]
    /\ sweeps = << >>

Next ==
    \/ \E r \in Requests : Submit(r) \/ Decide(r) \/ EnterLeave(r) \/ EnterCancel(r)
    \/ \E c \in Credits :
          \/ DecideCredit(c) \/ EnterCredit(c) \/ EnterAway(c)
          \/ \E d \in Amounts[c] : EnterPresent(c, d)
    \/ EnterTerminate
    \/ \E t \in open : Finish(t)
    \/ SweepRead
    \/ \E i \in DOMAIN sweeps : SweepPost(i) \/ SweepLost(i)
    \/ Tick

(* Transactions end and days pass; the job is started every night, and a run
   that is started again and again is not lost every time. *)
Fairness ==
    /\ SF_vars(Tick) /\ WF_vars(\E t \in open : Finish(t))
    /\ WF_vars(SweepRead) /\ SF_vars(\E i \in DOMAIN sweeps : SweepPost(i))

Spec == Init /\ [][Next]_vars /\ Fairness

----------------------------------------------------------------------------
(* Properties *)

(* No decision, however interleaved, spends days that are not there: the
   balance goes below zero only when a sweep posts what it computed before a
   later row, when a decision overlaps such a post, or when the register
   takes back a credit already spent. *)
OverdrawnOnlyBySweep ==
    [][Balance(ledger) >= 0 /\ Balance(ledger') < 0 =>
          \/ \E i \in DOMAIN sweeps : sweeps' = RemoveAt(sweeps, i) /\ ~ Fresh(i)
          \/ \E t \in open \ open' :
                \/ t.op = "away"
                \/ \E i \in (t.seen + 1)..Len(ledger) : ledger[i].kind = "expired"]_vars

(* What the loop of the sweep does, in closed form: when nothing was written
   since its read, what has lapsed in all is what fell due less what was
   spent, and never shrinks.  This is so as long as HR decides each credit
   before it would have lapsed (InTime): one approved later sorts before
   credits that lapsed in part, and what is left of those is passed over. *)
Consumed(rows) == Pool(rows) + Total(rows, Of(rows, "expired"))
Swept(rows)    == - Total(rows, Of(rows, "expired"))
SweepIsExact ==
    [][\A i \in DOMAIN sweeps :
          Fresh(i) /\ sweeps' = RemoveAt(sweeps, i) /\ ledger' # ledger =>
             Swept(ledger') = Max({Swept(ledger),
                                   Total(ledger, Due(ledger, sweeps[i].day)) - Consumed(ledger)})]_vars

(* However many sweeps overlap, a credit lapses once and never beyond itself. *)
ExpiryOnce ==
    \A i \in Of(ledger, "earned") :
        LET x == {j \in Of(ledger, "expired") : ledger[j].ref = i}
        IN  Cardinality(x) <= 1 /\ - Total(ledger, x) <= ledger[i].days

(* Approved leave has cost exactly the days asked for, from all sources
   together; leave in any other state has cost nothing. *)
LeaveBooked ==
    \A r \in Requests :
        Total(ledger, {i \in Of(ledger, "redeemed") : ledger[i].ref = r}) + booked[r]
            = IF leave[r] = "approved" THEN - Asked[r] ELSE 0

(* A credit counts exactly while its request is approved and the register
   says the person was there; a record never earns twice. *)
CreditBacked ==
    \A c \in Credits :
        /\ Cardinality(Active(ledger, c)) = IF credit[c].status = "approved" THEN 1 ELSE 0
        /\ credit[c].status # "none" => present[c]

(* The rows of the ledger are backed by what was decided, through every order
   of approvals, corrections of the register, sweeps and their repetitions:
   fund_and_approve, reconcile_rest_day_attendance, the expiry job. *)
RowsBacked == ExpiryOnce /\ LeaveBooked /\ CreditBacked

(* The two readings of the ledger agree: what the first-in-first-out pool
   leaves (the sweep) is the balance the decisions use. *)
AvailableIsBalance ==
    MapThenSumSet(LAMBDA i : Remaining(ledger, i), Of(ledger, "earned")) = Max({0, Balance(ledger)})

(* When credits are decided in time, what is not used lapses. *)
UnusedLapses == <>[](Balance(ledger) <= 0)

(* The migration header: cancelling approved leave that has not started
   reverses every ledger entry of it, comp days too. *)
CancelServed ==
    [][\A t \in open \ open' : t.op = "cancel" => leave'[t.on] = "ended"]_vars
==============================================================================

----------------------------- MODULE InvPlanning -----------------------------
(***************************************************************************)
(* Reservations against time: one item counted by quantity, the depots it  *)
(* is kept in, the projects and people it goes to, and the equipment       *)
(* requests that reserve it for a window of dates.                         *)
(*                                                                         *)
(* inv_qty_free answers "how many are free at this depot for this period": *)
(* what is on the shelf, plus what is recorded to come back or arrive in   *)
(* time, less every overlapping reservation not yet taken.  Every function *)
(* that promises or removes stock is an action here, with the check that   *)
(* function makes (or does not make) against that number.  Each call is    *)
(* atomic: InvSessions covers how calls interleave.                        *)
(*                                                                         *)
(* Dates are 1, 2, ...; the instant of a call lies strictly between the    *)
(* dates now and now + 1, so `date <= now' reads "the date has passed".    *)
(***************************************************************************)
EXTENDS Integers, Sequences, FiniteSets, SequencesExt

CONSTANTS
    Depots,               \* inv_locations
    Projects,
    Requests,
    RequestSites,         \* [Requests -> Projects \cup {Person}]: whom a request is for
    Person,               \* an employee (requests of kind 'employee')
    LineOrder,            \* the request lines for this item, in sort order
    LineOf,               \* [line -> its request]
    Asked,                \* [line -> quantity asked for at first]
    Stock,                \* [Depots -> Nat], on the shelf at first
    Windows,              \* the windows people ask for: pairs of dates <<from, until>>
    FirstWindow,          \* [Requests -> Windows]
    MaxTime,              \* bound: the last date
    MaxMove,              \* bound: pieces one call asks for
    MaxCalls              \* bound: calls in a behaviour

None == 0                          \* no date recorded
Never == MaxTime + 1               \* the end of an open-ended period
Dates == 1..MaxTime
Amounts == 1..MaxMove
LineSet == Range(LineOrder)
ProjectRequests == {r \in Requests : RequestSites[r] \in Projects}
EmployeeRequests == Requests \ ProjectRequests

ASSUME PlanningData ==
    /\ {MaxTime, MaxMove, MaxCalls} \subseteq Nat
    /\ IsFiniteSet(Projects) /\ LineOrder \in Seq(LineSet)
    /\ Person \notin Projects
    /\ RequestSites \in [Requests -> Projects \cup {Person}]
    /\ LineOf \in [LineSet -> Requests]
    /\ Asked \in [LineSet -> Nat \ {0}]
    /\ Stock \in [Depots -> Nat]
    /\ \A w \in Windows : w[1] \in Dates /\ w[2] \in Dates /\ w[1] < w[2]
    /\ FirstWindow \in [Requests -> Windows]

VARIABLES
    now,
    shelf,                \* good stock per depot
    faulty,               \* stock per depot that is held for inspection or damaged
    site,                 \* per project [qty, due, from]: its balance, the return date recorded
                          \* on it and the depots it was ever dispatched from
    person,               \* pieces employees hold
    transit,              \* per depot [qty, at]: the transfer on its way there
    ended,                \* completed or archived projects
    status,               \* per request
    window,               \* per request <<needed_from, needed_until>>
    line,                 \* per line [open, qty]
    res,                  \* reservations, in the order they were made: [line, depot, qty, out, back,
                          \* lo, hi, done]; done: completed, or released (and then qty is 0)
    issued,               \* per employee request: pieces issued against it
    calls

goods == <<shelf, faulty, site, person, transit>>
plans == <<ended, status, window, line, res, issued>>
planningVars == <<now, goods, plans, calls>>

Live == {"submitted", "in_progress"}
OpenStatuses == Live \cup {"fulfilled"}

------------------------------------------------------------------------------
(* Reservations. *)

(* F[i] summed over the elements i of S, and Of(x) over the rows x that satisfy P. *)
SumOf(F, S) == MapThenSumSet(LAMBDA i : F[i], S)
Total(rs, Of(_), P(_)) == SumOf([i \in DOMAIN rs |-> Of(rs[i])], {i \in DOMAIN rs : P(rs[i])})

Unused(x) == x.qty - x.out
RequestOf(x) == LineOf[x.line]
Overlaps(x, from, until) == x.lo < until /\ from < x.hi

OnTimeReturns(d, from) ==
    SumOf([p \in Projects |-> site[p].qty],
          {p \in Projects : d \in site[p].from /\ now < site[p].due /\ site[p].due <= from})
OnTimeArrivals(d, from) ==
    IF now < transit[d].at /\ transit[d].at <= from THEN transit[d].qty ELSE 0

Booked(rs, d, from, until, own) ==
    Total(rs, Unused, LAMBDA x : ~x.done /\ x.depot = d /\ Overlaps(x, from, until) /\ x.line \notin own)
(* Mutant: what comes back or arrives by the end of the period counts for all of it. *)
MutFreeByEnd(rs, d, from, until, own) ==
    Max({0, shelf[d] + OnTimeReturns(d, until) + OnTimeArrivals(d, until) - Booked(rs, d, from, until, own)})
(* inv_qty_free; own is the line whose reservations are ignored (empty for none). *)
Free(rs, d, from, until, own) ==
    Max({0, shelf[d] + OnTimeReturns(d, from) + OnTimeArrivals(d, from) - Booked(rs, d, from, until, own)})

(* Mutant: every row gets what the first one could take. *)
MutSpreadEachRow(room, q) == [i \in DOMAIN room |-> Min({room[i], q})]
(* q pieces spread over the rows in the order they were made, at most room[i] on row i. *)
Spread(room, q) ==
    [i \in DOMAIN room |->
        LET before == SumOf(room, 1..(i - 1))
        IN  Min({room[i], Max({0, q - before})})]
Spreads(room) == SumOf(room, DOMAIN room)

(* inv_reservation_take: the pieces of request r that are reserved and not out. *)
RoomToTake(rs, r, D) ==
    [i \in DOMAIN rs |-> IF ~rs[i].done /\ RequestOf(rs[i]) = r /\ rs[i].depot \in D THEN Unused(rs[i]) ELSE 0]
Covered(rs, r, D, q) == Min({q, Spreads(RoomToTake(rs, r, D))})
Took(rs, r, D, q) ==
    LET share == Spread(RoomToTake(rs, r, D), q)
    IN  [i \in DOMAIN rs |-> [rs[i] EXCEPT !.out = @ + share[i]]]

(* inv_reservation_return: pieces that came back from project p. *)
RoomToReturn(rs, p) ==
    [i \in DOMAIN rs |-> IF ~rs[i].done /\ RequestSites[RequestOf(rs[i])] = p THEN rs[i].out - rs[i].back ELSE 0]
GaveBack(rs, p, q) ==
    LET share == Spread(RoomToReturn(rs, p), q)
    IN  [i \in DOMAIN rs |-> [rs[i] EXCEPT !.back = @ + share[i],
                                           !.done = @ \/ (share[i] > 0 /\ rs[i].back + share[i] = rs[i].qty)]]

(* inv_release_row on the rows I: a row nothing was taken from is released and
   counts for nothing from then on, a row that is partly out keeps what is out. *)
CutTo(x, q) == [x EXCEPT !.qty = q, !.done = (q = 0)]
MutKeepsWhatIsAway(rs, I) ==          \* Mutant: it keeps what has not come back yet
    [i \in DOMAIN rs |-> IF i \in I /\ ~rs[i].done THEN CutTo(rs[i], rs[i].qty - rs[i].back) ELSE rs[i]]
Released(rs, I) == [i \in DOMAIN rs |-> IF i \in I /\ ~rs[i].done THEN CutTo(rs[i], rs[i].out) ELSE rs[i]]

(* inv_refresh_request_status, for the requests R. *)
LineOut(rs, l) == Total(rs, LAMBDA x : x.out, LAMBDA x : x.line = l)
LineBack(rs, l) == Total(rs, LAMBDA x : x.back, LAMBDA x : x.line = l)
LineReserved(rs, l) == Total(rs, LAMBDA x : x.qty, LAMBDA x : x.line = l)

OpenLines(ln, r) == {l \in LineSet : LineOf[l] = r /\ ln[l].open}

(* Mutant: what is reserved counts as dispatched. *)
MutReservedIsOut(r, l, rs, given) == IF r \in EmployeeRequests THEN given[r] ELSE LineReserved(rs, l)
Done(r, l, rs, given) == IF r \in EmployeeRequests THEN given[r] ELSE LineOut(rs, l)

NewStatus(r, ln, rs, given) ==
    LET L      == OpenLines(ln, r)
        filled == \A l \in L : Done(r, l, rs, given) >= ln[l].qty
        done   == IF r \in EmployeeRequests THEN given[r] ELSE SumOf([l \in LineSet |-> LineOut(rs, l)], L)
        back   == SumOf([l \in LineSet |-> LineBack(rs, l)], L)
    IN  IF filled /\ r \in ProjectRequests /\ done > 0 /\ back = done THEN "closed"
        ELSE IF filled THEN "fulfilled"
        ELSE IF done > 0 THEN "in_progress" ELSE status[r]

Refreshed(R, ln, rs, given) ==
    [r \in Requests |->
        IF r \in R /\ status[r] \in OpenStatuses /\ OpenLines(ln, r) # {} THEN NewStatus(r, ln, rs, given) ELSE status[r]]

RequestsOf(p) == {r \in Requests : RequestSites[r] = p}

------------------------------------------------------------------------------
(* Planning: what managers and warehouse staff do to requests. *)

Call == calls < MaxCalls /\ calls' = calls + 1 /\ UNCHANGED now

Tick ==
    /\ now < MaxTime
    /\ now' = now + 1
    /\ UNCHANGED <<goods, plans, calls>>

Remaining(l) == line[l].qty - LineReserved(res, l)

(* inv_reserve, for the whole window of the request: what is free is reserved. *)
Reserve(l, d, ask) ==
    LET r    == LineOf[l]
        w    == window[r]
        take == Min({ask, Free(res, d, w[1], w[2], {})})
    IN  /\ Call
        /\ status[r] \in Live /\ line[l].open
        /\ w[2] > now
        /\ 0 < ask /\ ask <= Remaining(l)
        /\ take > 0
        /\ res' = Append(res, [line |-> l, depot |-> d, qty |-> take, out |-> 0, back |-> 0,
                               lo |-> w[1], hi |-> w[2], done |-> FALSE])
        /\ status' = [status EXCEPT ![r] = "in_progress"]
        /\ UNCHANGED <<goods, ended, window, line, issued>>

(* inv_release_reservation *)
Release(i) ==
    /\ Call
    /\ i \in DOMAIN res /\ ~res[i].done
    /\ res' = Released(res, {i})
    /\ UNCHANGED <<goods, ended, status, window, line, issued>>

(* inv_update_request_line: never below what is reserved; the status is not refreshed. *)
ChangeLineQty(l, q) ==
    /\ Call
    /\ status[LineOf[l]] \in Live /\ line[l].open
    /\ q # line[l].qty /\ q >= LineReserved(res, l)
    /\ line' = [line EXCEPT ![l].qty = q]
    /\ UNCHANGED <<goods, ended, status, window, res, issued>>

(* inv_cancel_request_line *)
CancelLine(l) ==
    LET rs == Released(res, {i \in DOMAIN res : res[i].line = l})
        ln == [line EXCEPT ![l].open = FALSE]
    IN  /\ Call
        /\ line[l].open /\ status[LineOf[l]] \in OpenStatuses
        /\ res' = rs
        /\ line' = ln
        /\ status' = Refreshed({LineOf[l]}, ln, rs, issued)
        /\ UNCHANGED <<goods, ended, window, issued>>

LinesClosed(r) == [l \in LineSet |-> IF LineOf[l] = r THEN [line[l] EXCEPT !.open = FALSE] ELSE line[l]]

(* inv_cancel_request *)
CancelRequest(r) ==
    /\ Call
    /\ status[r] \in Live
    /\ res' = Released(res, {i \in DOMAIN res : RequestOf(res[i]) = r})
    /\ line' = LinesClosed(r)
    /\ status' = [status EXCEPT ![r] = "cancelled"]
    /\ UNCHANGED <<goods, ended, window, issued>>

(* The rows of line l whose range changes when its request moves to window w:
   equipment that is out keeps its start and is only ever extended. *)
Rescheduled(x, w) == IF x.out > 0 THEN [x EXCEPT !.hi = Max({@, w[2]})] ELSE [x EXCEPT !.lo = w[1], !.hi = w[2]]
Planned(rs, l, w) == {i \in DOMAIN rs : rs[i].line = l /\ ~rs[i].done /\ Rescheduled(rs[i], w) # rs[i]}

(* Per depot, what is planned and not yet out must be free over the union of
   the new ranges, the reservations of the line itself left aside. *)
RangeFits(rs, l, w) ==
    \A d \in Depots :
        LET I == {i \in Planned(rs, l, w) : rs[i].depot = d /\ Unused(rs[i]) > 0}
        IN  I # {} => SumOf([i \in DOMAIN rs |-> Unused(rs[i])], I)
                        <= Free(rs, d, Min({Rescheduled(rs[i], w).lo : i \in I}), Max({Rescheduled(rs[i], w).hi : i \in I}), {l})

(* All or nothing for each line, one line after the other. *)
MoveLine(rs, l, w) ==
    IF RangeFits(rs, l, w) THEN [i \in DOMAIN rs |-> IF i \in Planned(rs, l, w) THEN Rescheduled(rs[i], w) ELSE rs[i]] ELSE rs

MoveLines(r, w) ==
    LET moved[k \in 0..Len(LineOrder)] ==
          IF k = 0 THEN res
          ELSE IF LineOrder[k] \in OpenLines(line, r) THEN MoveLine(moved[k - 1], LineOrder[k], w)
          ELSE moved[k - 1]
    IN  moved[Len(LineOrder)]

(* inv_change_request_window: the request always takes the new dates.  The same
   dates again move the lines that conflicted before and fit by now. *)
ChangeWindow(r, w) ==
    /\ Call
    /\ status[r] \in Live
    /\ window' = [window EXCEPT ![r] = w]
    /\ res' = MoveLines(r, w)
    /\ UNCHANGED <<goods, ended, status, line, issued>>

(* The trigger inv_proj_after_status: a project is completed or archived. *)
EndProject(p) ==
    LET drop == {r \in RequestsOf(p) : status[r] = "submitted"}
        trim == {r \in RequestsOf(p) : status[r] = "in_progress"}
    IN  /\ Call
        /\ p \notin ended
        /\ ended' = ended \cup {p}
        /\ res' = Released(res, {i \in DOMAIN res :
                \/ RequestOf(res[i]) \in drop
                \/ RequestOf(res[i]) \in trim /\ line[res[i].line].open})
        /\ line' = [l \in LineSet |-> IF LineOf[l] \in drop THEN [line[l] EXCEPT !.open = FALSE] ELSE line[l]]
        /\ status' = [r \in Requests |-> IF r \in drop THEN "cancelled" ELSE status[r]]
        /\ UNCHANGED <<goods, window, issued>>

------------------------------------------------------------------------------
(* Movements. *)

Sent(p, q, due, from) ==
    [site[p] EXCEPT !.qty = @ + q, !.due = Max({@, due}), !.from = @ \cup from]

OffShelf(d, q) == shelf[d] >= q /\ shelf' = [shelf EXCEPT ![d] = @ - q]

(* What comes back in good condition is on the shelf, the rest is held. *)
Shelved(d, q, good) ==
    IF good THEN shelf' = [shelf EXCEPT ![d] = @ + q] /\ UNCHANGED faulty
    ELSE faulty' = [faulty EXCEPT ![d] = @ + q] /\ UNCHANGED shelf

(* Mutant: the stock of the day is enough, whatever is reserved until the return. *)
MutFreeToday(d, until) == Free(res, d, now, now + 1, {})
FreeNow(d, until) == Free(res, d, now, until, {})

(* inv_dispatch_to_project without a request *)
Dispatch(d, p, q, due) ==
    /\ Call
    /\ p \notin ended /\ due > now
    /\ q <= FreeNow(d, due)
    /\ OffShelf(d, q)
    /\ site' = [site EXCEPT ![p] = Sent(p, q, due, {d})]
    /\ UNCHANGED <<faulty, person, transit, plans>>

(* ... and against a request, whose own reservations at the depot must cover it. *)
DispatchFor(d, r, q, due) ==
    LET p  == RequestSites[r]
        rs == Took(res, r, {d}, q)
    IN  /\ Call
        /\ p \in Projects \ ended /\ due > now
        /\ status[r] \in Live
        /\ Covered(res, r, {d}, q) = q
        /\ OffShelf(d, q)
        /\ site' = [site EXCEPT ![p] = Sent(p, q, due, {d})]
        /\ res' = rs
        /\ status' = Refreshed({r}, line, rs, issued)
        /\ UNCHANGED <<faulty, person, transit, ended, window, line, issued>>

(* inv_return_from_project *)
Return(p, d, q, good) ==
    LET rs == GaveBack(res, p, q)
    IN  /\ Call
        /\ q <= site[p].qty
        /\ site' = [site EXCEPT ![p].qty = @ - q]
        /\ Shelved(d, q, good)
        /\ res' = rs
        /\ status' = Refreshed(RequestsOf(p), line, rs, issued)
        /\ UNCHANGED <<person, transit, ended, window, line, issued>>

(* inv_issue_to_employee without a request; until = Never when no date is given. *)
Issue(d, q, until) ==
    /\ Call
    /\ until > now
    /\ q <= FreeNow(d, until)
    /\ OffShelf(d, q)
    /\ person' = person + q
    /\ UNCHANGED <<faulty, site, transit, plans>>

(* ... and against a request.  Its reservations are taken first and the rest
   compared with inv_qty_free AFTER that, while every piece is still on the shelf. *)
IssueFor(d, r, q, until) ==
    LET took == Took(res, r, {d}, q)
        rs   == [i \in DOMAIN took |-> [took[i] EXCEPT !.done = @ \/ (RequestOf(took[i]) = r /\ took[i].out = took[i].qty)]]
        given == [issued EXCEPT ![r] = @ + q]
    IN  /\ Call
        /\ r \in EmployeeRequests /\ status[r] \in Live /\ until > now
        /\ issued[r] + q <= SumOf([l \in LineSet |-> line[l].qty], OpenLines(line, r))
        /\ q - Covered(res, r, {d}, q) <= Free(took, d, now, until, {})
        /\ OffShelf(d, q)
        /\ person' = person + q
        /\ res' = rs
        /\ issued' = given
        /\ status' = Refreshed({r}, line, rs, given)
        /\ UNCHANGED <<faulty, site, transit, ended, window, line>>

(* inv_return_from_employee: reservations are not touched. *)
ReturnFromPerson(d, q, good) ==
    /\ Call
    /\ q <= person
    /\ person' = person - q
    /\ Shelved(d, q, good)
    /\ UNCHANGED <<site, transit, plans>>

(* inv_transfer_between_projects: from project p to request r of another
   project.  What r has not reserved gets a reservation of its own, if that
   leaves the reservations of third projects at the origin on the shelf. *)
GiverCredited(p, q) == GaveBack(res, p, q)

HandOver(p, r, q, due, origin) ==
    LET taker  == RequestSites[r]
        given  == GiverCredited(p, q)
        cov    == Covered(given, r, Depots, q)
        took   == Took(given, r, Depots, q)
        extra  == q - cov
        fits(l) == l \in OpenLines(line, r) /\ line[l].qty - LineReserved(took, l) >= extra
        k      == SelectInSeq(LineOrder, fits)
        others == Total(given, Unused, LAMBDA x : /\ ~x.done /\ x.depot = origin /\ Overlaps(x, now, due)
                                                  /\ RequestSites[RequestOf(x)] # p /\ RequestOf(x) # r)
        rs     == IF extra = 0 THEN took
                  ELSE Append(took, [line |-> LineOrder[k], depot |-> origin, qty |-> extra, out |-> extra, back |-> 0,
                                     lo |-> now, hi |-> due, done |-> FALSE])
    IN  /\ Call
        /\ taker \in Projects \ (ended \cup {p}) /\ status[r] \in Live /\ due > now
        /\ q <= site[p].qty
        /\ site[p].from = {} \/ origin \in site[p].from
        /\ extra > 0 => others <= shelf[origin] /\ k > 0
        /\ site' = [site EXCEPT ![p].qty = @ - q, ![taker] = Sent(taker, q, due, {})]
        /\ res' = rs
        /\ status' = Refreshed({r} \cup RequestsOf(p), line, rs, issued)
        /\ UNCHANGED <<shelf, faulty, person, transit, ended, window, line, issued>>

(* inv_transfer_dispatch; one transfer at a time towards each depot. *)
SendTransfer(d, e, q, at) ==
    /\ Call
    /\ d # e /\ transit[e].qty = 0
    /\ at = None \/ at > now
    /\ q <= FreeNow(d, Never)
    /\ OffShelf(d, q)
    /\ transit' = [transit EXCEPT ![e] = [qty |-> q, at |-> at]]
    /\ UNCHANGED <<faulty, site, person, plans>>

(* inv_transfer_receive; receipts may be partial. *)
ReceiveTransfer(e, q, good) ==
    /\ Call
    /\ q <= transit[e].qty
    /\ transit' = [transit EXCEPT ![e].qty = @ - q]
    /\ Shelved(e, q, good)
    /\ UNCHANGED <<site, person, plans>>

(* inv_check_condition: good stock is held, or held stock released; no
   reservation is looked at. *)
CheckShelf(d, q, good) ==
    /\ Call
    /\ IF good THEN faulty[d] >= q /\ faulty' = [faulty EXCEPT ![d] = @ - q] /\ shelf' = [shelf EXCEPT ![d] = @ + q]
       ELSE OffShelf(d, q) /\ faulty' = [faulty EXCEPT ![d] = @ + q]
    /\ UNCHANGED <<site, person, transit, plans>>

PlanningInit ==
    /\ now = 0
    /\ shelf = Stock
    /\ faulty = [d \in Depots |-> 0]
    /\ site = [p \in Projects |-> [qty |-> 0, due |-> None, from |-> {}]]
    /\ person = 0
    /\ transit = [d \in Depots |-> [qty |-> 0, at |-> None]]
    /\ ended = {}
    /\ status = [r \in Requests |-> "submitted"]
    /\ window = FirstWindow
    /\ line = [l \in LineSet |-> [open |-> TRUE, qty |-> Asked[l]]]
    /\ res = <<>>
    /\ issued = [r \in EmployeeRequests |-> 0]
    /\ calls = 0

PlanningNext ==
    \/ Tick
    \/ \E l \in LineSet, d \in Depots : \E q \in Amounts \cup {Remaining(l)} : Reserve(l, d, q)
    \/ \E i \in DOMAIN res : Release(i)
    \/ \E l \in LineSet, q \in Amounts : ChangeLineQty(l, q)
    \/ \E l \in LineSet : CancelLine(l)
    \/ \E r \in Requests : CancelRequest(r)
    \/ \E r \in Requests, w \in Windows : ChangeWindow(r, w)
    \/ \E p \in Projects : EndProject(p)
    \/ \E d \in Depots, p \in Projects, q \in Amounts, due \in Dates : Dispatch(d, p, q, due)
    \/ \E d \in Depots, r \in ProjectRequests, q \in Amounts, due \in Dates : DispatchFor(d, r, q, due)
    \/ \E p \in Projects, d \in Depots, q \in Amounts, good \in BOOLEAN : Return(p, d, q, good)
    \/ \E d \in Depots, q \in Amounts, until \in Dates \cup {Never} : Issue(d, q, until)
    \/ \E d \in Depots, r \in EmployeeRequests, q \in Amounts, until \in Dates \cup {Never} : IssueFor(d, r, q, until)
    \/ \E d \in Depots, q \in Amounts, good \in BOOLEAN : ReturnFromPerson(d, q, good)
    \/ \E p \in Projects, r \in ProjectRequests, q \in Amounts, due \in Dates, d \in Depots : HandOver(p, r, q, due, d)
    \/ \E d, e \in Depots, q \in Amounts, at \in Dates \cup {None} : SendTransfer(d, e, q, at)
    \/ \E e \in Depots, q \in Amounts, good \in BOOLEAN : ReceiveTransfer(e, q, good)
    \/ \E d \in Depots, q \in Amounts, good \in BOOLEAN : CheckShelf(d, q, good)

PlanningSpec == PlanningInit /\ [][PlanningNext]_planningVars

------------------------------------------------------------------------------
(* What must hold. *)

Reservation ==
    [line : LineSet, depot : Depots, qty : Nat, out : Nat, back : Nat, lo : 0..MaxTime, hi : Dates, done : BOOLEAN]

(* Types, and the row constraints of the reservation table. *)
PlanningTypeOK ==
    /\ now \in 0..MaxTime
    /\ shelf \in [Depots -> Nat] /\ faulty \in [Depots -> Nat] /\ person \in Nat
    /\ site \in [Projects -> [qty : Nat, due : 0..MaxTime, from : SUBSET Depots]]
    /\ transit \in [Depots -> [qty : Nat, at : 0..MaxTime]]
    /\ ended \subseteq Projects
    /\ status \in [Requests -> OpenStatuses \cup {"closed", "cancelled"}]
    /\ window \in [Requests -> Windows]
    /\ line \in [LineSet -> [open : BOOLEAN, qty : Nat \ {0}]]
    /\ res \in Seq(Reservation)
    /\ \A i \in DOMAIN res :
          /\ res[i].back <= res[i].out /\ res[i].out <= res[i].qty /\ res[i].lo < res[i].hi
          /\ res[i].done \/ res[i].qty > 0
    /\ issued \in [EmployeeRequests -> Nat]
    /\ calls \in 0..MaxCalls

DemandAt(d, t) == Total(res, Unused, LAMBDA x : ~x.done /\ x.depot = d /\ x.lo <= t /\ t < x.hi)
SupplyAt(d, t) == shelf[d] + OnTimeReturns(d, t) + OnTimeArrivals(d, t)
RowFits(i) ==
    \A t \in Max({now, res[i].lo})..(res[i].hi - 1) : DemandAt(res[i].depot, t) <= SupplyAt(res[i].depot, t)

(* docs/inventory-design.md, invariant 3: a reservation is only made when, at
   every instant of its window, everything reserved is covered by what is on
   the shelf or recorded to be there by then. *)
ReservationsFit ==
    [][Len(res') = Len(res) + 1 /\ Unused(res'[Len(res')]) > 0 => RowFits(Len(res))']_planningVars

(* The same for a reservation whose dates are moved. *)
MovedReservationsFit ==
    [][window' # window => \A i \in DOMAIN res : res'[i] # res[i] /\ Unused(res[i]) > 0 => RowFits(i)']_planningVars

(* "Nothing is ever displaced": equipment that leaves without a reservation
   leaves enough on the shelf for every reservation until its return. *)
Spared(d, until) == \A t \in now..(until - 1) : DemandAt(d, t) <= shelf[d]
NothingDisplaced ==
    [][shelf' # shelf /\ res' = res => \A d \in Depots, q \in Amounts :
        /\ \A p \in Projects, due \in Dates : Dispatch(d, p, q, due) => Spared(d, due)'
        /\ \A until \in Dates \cup {Never} : Issue(d, q, until) => Spared(d, until)'
        /\ \A e \in Depots, at \in Dates \cup {None} : SendTransfer(d, e, q, at) => Spared(d, Never)']_planningVars

(* Comment of inv_issue_to_employee: beyond what the request reserved, only
   stock nobody has reserved is issued. *)
ReservedNow(d, r) ==
    Total(res, Unused, LAMBDA x : ~x.done /\ x.depot = d /\ RequestOf(x) # r /\ x.lo <= now /\ now < x.hi)
IssueSparesReserved ==
    [][\A r \in EmployeeRequests, d \in Depots :
          issued'[r] # issued[r] /\ ReservedNow(d, r) <= shelf[d] => ReservedNow(d, r) <= shelf'[d]]_planningVars

(* A line never holds more reservations than it asks for, whatever was
   released, handed over, completed or changed in between. *)
LineNeverOverReserved == \A l \in LineSet : LineReserved(res, l) <= line[l].qty

(* What the reservations of a project say is out is on the project: no return
   or hand-over is credited twice or to the wrong project. *)
OutstandingOnSite ==
    \A p \in Projects :
        Total(res, LAMBDA x : x.out - x.back, LAMBDA x : RequestSites[RequestOf(x)] = p) <= site[p].qty

(* "fulfilled" and "closed" are only said of requests for which that is so. *)
StatusTrue ==
    \A r \in ProjectRequests : status[r] \in {"fulfilled", "closed"} =>
        \A l \in OpenLines(line, r) :
            /\ LineOut(res, l) >= line[l].qty
            /\ status[r] = "closed" => LineBack(res, l) = LineOut(res, l)

(* A cancelled request or line keeps nothing from anybody. *)
CancelledHoldsNothing ==
    \A i \in DOMAIN res :
        ~line[res[i].line].open \/ status[RequestOf(res[i])] = "cancelled" => res[i].done \/ Unused(res[i]) = 0

(* The reservation rows, the lines and what is on the projects tell one story,
   in whatever order stock was reserved, sent, handed over, returned, declined
   and cancelled: inv_reserve, inv_res_return_credit, inv_res_release. *)
RowsAgree == LineNeverOverReserved /\ OutstandingOnSite /\ CancelledHoldsNothing

(* A request for an employee is fulfilled when all its lines have been issued. *)
FulfilledMeansIssued ==
    \A r \in EmployeeRequests : status[r] = "fulfilled" =>
        issued[r] >= SumOf([l \in LineSet |-> line[l].qty], OpenLines(line, r))
==============================================================================

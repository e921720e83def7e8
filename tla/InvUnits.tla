-------------------------------- MODULE InvUnits --------------------------------
(* Individually tracked equipment: where each unit is, in which kit it is packed,
   for which request it is booked, what the ledger says of it last and whom the
   earlier HR asset register shows with it.

   Every function locks the item of each unit it names before it reads the unit,
   so a call is one step, and a call with several lines is one step a line.  A
   count is the exception: its lines are saved first and confirmed later.

   A request has one line of one unit.  Calls happen between two dates: a date is
   in the future when it is larger than now. *)
EXTENDS Integers, FiniteSets

CONSTANTS Units, Kits, Rented,
          Linked,            \* imported from the HR asset register
          Items, ItemOf,
          Depots, People, Projects,
          Requests,
          For,               \* the employee or the project a request is for
          Asks,              \* the item it asks for
          Window,            \* its dates, <<from, until>>
          None,
          MaxTime            \* bound: the last date

ASSUME UnitData ==
    /\ Kits \subseteq Units /\ Rented \subseteq Units /\ Linked \subseteq Units \ (Kits \cup Rented)
    /\ ItemOf \in [Units -> Items] /\ For \in [Requests -> People \cup Projects] /\ Asks \in [Requests -> Items]
    /\ \A u \in Units, k \in Kits : u \notin Kits => ItemOf[u] # ItemOf[k]
    /\ None \notin Units /\ MaxTime \in Nat
    /\ \A r \in Requests : Window[r][1] \in Nat /\ Window[r][2] \in 1..MaxTime /\ Window[r][1] < Window[r][2]

VARIABLES now,
          unit,              \* inv_units
          last,              \* where the last ledger line of a unit says it went
          checklist,         \* inv_kit_contents
          promise,           \* the reservation of a request's line, and whether it was served
          counted,           \* the line of a unit on an open count
          register           \* open rows of asset_assignments

vars == <<now, unit, last, checklist, promise, counted, register>>

Never == MaxTime + 1         \* no date
Dates == 1..Never
Ahead(t) == t > now

Shelf(d) == <<"warehouse", d>>
With(e) == <<"employee", e>>
On(p) == <<"project", p>>
Transit(d) == <<"transit", d>>
Repair == <<"repair", None>>
In(k) == <<"kit", k>>
Adjustment == <<"adjustment", None>>
Nowhere == <<"nowhere", None>>
Custody == {Repair} \cup {Shelf(d) : d \in Depots} \cup {With(e) : e \in People} \cup {On(p) : p \in Projects}
             \cup {Transit(d) : d \in Depots} \cup {In(k) : k \in Kits}

At(u) == unit[u].at
Life(u) == unit[u].life
IsOn(u, kind) == At(u)[1] = kind

Unit == [life : {"unknown", "draft", "active", "missing", "retired"}, at : Custody \cup {Nowhere},
         place : Depots \cup {None}, fit : BOOLEAN, due : 1..Never]
KitLine == [status : {"none", "present", "missing", "substituted"}, unit : Units \cup {None}]
Promise == [unit : Units \cup {None}, state : {"none", "active", "out", "completed"},
            from : 0..Never, until : 0..Never, served : BOOLEAN]
CountLine == [kind : {"none", "opening", "cycle"}, depot : Depots \cup {None}, n : {0, 1}]

TypeOK ==
    /\ now \in 0..MaxTime
    /\ unit \in [Units -> Unit]
    /\ last \in [Units -> Custody \cup {Adjustment, None}]
    /\ checklist \in [Kits -> [Items -> KitLine]]
    /\ promise \in [Requests -> Promise]
    /\ counted \in [Units -> CountLine]
    /\ register \in [Linked -> SUBSET People]

--------------------------------------------------------------------------------
(* inv_unit_move, inv_ml and inv_mirror_legacy. *)

Moved(u, at, due, fit) ==
    [unit[u] EXCEPT !.at = at, !.fit = fit,
                    !.place = IF at[1] = "warehouse" THEN at[2] ELSE @,
                    !.due = IF at[1] \in {"warehouse", "kit"} THEN Never ELSE due]

Becomes(u, x, to) == unit' = [unit EXCEPT ![u] = x] /\ last' = [last EXCEPT ![u] = to]

(* Mutant: the new holder is added and the old one kept. *)
MutMirror(u, x) ==
    register' = IF u \in Linked /\ x.at[1] = "employee" THEN [register EXCEPT ![u] = @ \cup {x.at[2]}] ELSE register
Mirror(u, x) ==
    register' = IF u \notin Linked \/ x.life = "missing" THEN register
                ELSE [register EXCEPT ![u] = IF x.at[1] = "employee" /\ x.life # "retired" THEN {x.at[2]} ELSE {}]

(* inv_unit_block_reason: none. *)
Handled(u, d, usable) == Life(u) = "active" /\ At(u) = Shelf(d) /\ (usable => unit[u].fit)

Live(r) == promise[r].state \in {"active", "out"}
(* Mutant: only reservations that begin today. *)
MutReservedBy(u, until, but) ==
    \E r \in Requests \ but : Live(r) /\ promise[r].unit = u /\ promise[r].from <= now /\ promise[r].until > now
(* inv_unit_reserved_by, from now. *)
ReservedBy(u, until, but) ==
    \E r \in Requests \ but : Live(r) /\ promise[r].unit = u /\ promise[r].from < until /\ promise[r].until > now

Open(r) == ~promise[r].served
Taken(r) == [promise EXCEPT ![r].state = "out", ![r].served = TRUE]
(* inv_reservation_return for a unit that leaves this project. *)
GaveBack(was, p, u) ==
    LET out == {r \in Requests : For[r] = p /\ was[r].unit = u /\ was[r].state = "out"}
    IN  IF out = {} THEN {was} ELSE {[was EXCEPT ![r].state = "completed"] : r \in out}

--------------------------------------------------------------------------------
(* How a unit comes into the register. *)

Receive(u, d, fit) ==
    /\ Life(u) = "unknown" /\ u \notin Linked
    /\ Becomes(u, [Moved(u, Shelf(d), Never, fit) EXCEPT !.life = "active"], Shelf(d))
    /\ UNCHANGED <<now, checklist, promise, counted, register>>

RegisterUnit(u, at, place, due, fit) ==
    /\ Ahead(due) /\ Life(u) = "unknown" /\ u \notin Linked \cup Rented
    /\ at[1] = "warehouse" => place = at[2] /\ due = Never
    /\ unit' = [unit EXCEPT ![u] = [life |-> "draft", at |-> at, place |-> place, fit |-> fit, due |-> due]]
    /\ UNCHANGED <<now, last, checklist, promise, counted, register>>

Import(u, d, fit) ==
    /\ Life(u) = "unknown" /\ u \in Linked
    /\ \E at \in IF register[u] = {} THEN {Shelf(d)} ELSE {With(e) : e \in register[u]} :
          unit' = [unit EXCEPT ![u] = [life |-> "draft", at |-> at, place |-> d, fit |-> fit, due |-> Never]]
    /\ UNCHANGED <<now, last, checklist, promise, counted, register>>

OpeningCustody(u, due) ==
    /\ Ahead(due) \/ due = unit[u].due
    /\ Life(u) = "draft" /\ (IsOn(u, "employee") \/ IsOn(u, "project"))
    /\ LET x == [unit[u] EXCEPT !.life = "active", !.due = due]
       IN  /\ Becomes(u, x, x.at)
           /\ IF IsOn(u, "employee") THEN Mirror(u, x) ELSE UNCHANGED register
    /\ UNCHANGED <<now, checklist, promise, counted>>

--------------------------------------------------------------------------------
(* Counts, by the line. *)

NoLine == [kind |-> "none", depot |-> None, n |-> 0]

SaveCountLine(u, kind, d, n) ==
    /\ \/ kind = "opening" /\ Life(u) = "draft" /\ At(u) = Shelf(d) /\ n = 1
       \/ kind = "cycle" /\ (Life(u) = "missing" \/ (Life(u) = "active" /\ At(u) = Shelf(d)))
    /\ counted[u] \in {NoLine} \cup [kind : {kind}, depot : {d}, n : {0, 1}]
    /\ counted' = [counted EXCEPT ![u] = [kind |-> kind, depot |-> d, n |-> n]]
    /\ UNCHANGED <<now, unit, last, checklist, promise, register>>

ConfirmCountLine(u, fit) ==
    LET d == counted[u].depot
        opens == counted[u].kind = "opening"
        found == counted[u].kind = "cycle" /\ counted[u].n = 1 /\ Life(u) = "missing"
        lost  == counted[u].kind = "cycle" /\ counted[u].n = 0 /\ Life(u) = "active"
    IN  /\ counted[u] # NoLine
        /\ opens => Life(u) = "draft" /\ At(u) = Shelf(d)
        /\ lost => At(u) = Shelf(d)
        /\ IF opens THEN Becomes(u, [unit[u] EXCEPT !.life = "active", !.fit = fit], Shelf(d))
           ELSE IF found THEN Becomes(u, [Moved(u, Shelf(d), Never, unit[u].fit) EXCEPT !.life = "active"], Shelf(d))
           ELSE IF lost THEN Becomes(u, [unit[u] EXCEPT !.life = "missing"], Adjustment)
           ELSE UNCHANGED <<unit, last>>
        /\ counted' = [counted EXCEPT ![u] = NoLine]
        /\ UNCHANGED <<now, checklist, promise, register>>

DropCountLine(u) ==
    /\ counted[u] # NoLine
    /\ counted' = [counted EXCEPT ![u] = NoLine]
    /\ UNCHANGED <<now, unit, last, checklist, promise, register>>

--------------------------------------------------------------------------------
(* Movements.  A call names a request (in req) or none. *)

Issue(u, d, e, due, req) ==
    /\ Ahead(due) /\ Handled(u, d, TRUE)
    /\ ~ReservedBy(u, due, req)
    /\ \A r \in req : For[r] = e /\ Open(r) /\ Asks[r] = ItemOf[u]
    /\ LET x == Moved(u, With(e), due, unit[u].fit) IN Becomes(u, x, With(e)) /\ Mirror(u, x)
    /\ promise' = [r \in Requests |->
                     IF r \notin req THEN promise[r]
                     ELSE [promise[r] EXCEPT !.served = TRUE,
                                             !.state = IF @ = "active" /\ promise[r].unit = u THEN "completed" ELSE @]]
    /\ UNCHANGED <<now, checklist, counted>>

ReturnFromEmployee(u, d, fit) ==
    /\ IsOn(u, "employee")
    /\ LET x == Moved(u, Shelf(d), Never, fit) IN Becomes(u, x, Shelf(d)) /\ Mirror(u, x)
    /\ UNCHANGED <<now, checklist, promise, counted>>

Reassign(u, to) ==
    /\ Life(u) \in {"draft", "active"}
    /\ \/ /\ to \in {With(e) : e \in People} /\ to # At(u)
          /\ IsOn(u, "employee") \/ (IsOn(u, "warehouse") /\ unit[u].fit)
          /\ ~ReservedBy(u, Never, {})
       \/ IsOn(u, "employee") /\ unit[u].place # None /\ to = Shelf(unit[u].place)
    /\ LET x == Moved(u, to, Never, unit[u].fit) IN Becomes(u, x, to) /\ Mirror(u, x)
    /\ UNCHANGED <<now, checklist, promise, counted>>

Dispatch(u, d, p, due) ==
    /\ Ahead(due) /\ due # Never /\ Handled(u, d, TRUE)
    /\ ~ReservedBy(u, due, {})
    /\ Becomes(u, Moved(u, On(p), due, unit[u].fit), On(p))
    /\ UNCHANGED <<now, checklist, promise, counted, register>>

DispatchFor(r, u, d, due) ==
    /\ Ahead(due) /\ due # Never /\ For[r] \in Projects /\ Open(r) /\ Handled(u, d, TRUE)
    /\ promise[r].unit = u /\ promise[r].state = "active"
    /\ promise' = Taken(r)
    /\ Becomes(u, Moved(u, On(For[r]), due, unit[u].fit), On(For[r]))
    /\ UNCHANGED <<now, checklist, counted, register>>

ReturnFromProject(u, d, fit) ==
    /\ IsOn(u, "project")
    /\ promise' \in GaveBack(promise, At(u)[2], u)
    /\ Becomes(u, Moved(u, Shelf(d), Never, fit), Shelf(d))
    /\ UNCHANGED <<now, checklist, counted, register>>

HandOver(u, r, due) ==
    /\ Ahead(due) /\ due # Never /\ For[r] \in Projects /\ Open(r)
    /\ Life(u) = "active" /\ IsOn(u, "project") /\ At(u) # On(For[r])
    /\ \E back \in GaveBack(promise, At(u)[2], u) :
          \/ /\ promise[r].unit = u /\ promise[r].state = "active"
             /\ promise' = [back EXCEPT ![r].state = "out", ![r].served = TRUE]
          \/ /\ promise[r].state = "none" /\ Asks[r] = ItemOf[u]
             /\ ~\E q \in Requests : back[q].unit = u /\ back[q].state \in {"active", "out"}
                                        /\ back[q].from < due /\ back[q].until > now
             /\ promise' = [back EXCEPT ![r] = [unit |-> u, state |-> "out", from |-> now, until |-> due, served |-> TRUE]]
    /\ Becomes(u, Moved(u, On(For[r]), due, unit[u].fit), On(For[r]))
    /\ UNCHANGED <<now, checklist, counted, register>>

SendTransfer(u, d, to, due) ==
    /\ Ahead(due) /\ d # to /\ Handled(u, d, FALSE) /\ ~ReservedBy(u, Never, {})
    /\ Becomes(u, Moved(u, Transit(to), due, unit[u].fit), Transit(to))
    /\ UNCHANGED <<now, checklist, promise, counted, register>>

ReceiveTransfer(u, fit) ==
    /\ IsOn(u, "transit")
    /\ Becomes(u, Moved(u, Shelf(At(u)[2]), Never, fit), Shelf(At(u)[2]))
    /\ UNCHANGED <<now, checklist, promise, counted, register>>

RepairOut(u, d, due) ==
    /\ Ahead(due) /\ Handled(u, d, FALSE) /\ ~ReservedBy(u, due, {})
    /\ Becomes(u, Moved(u, Repair, due, unit[u].fit), Repair)
    /\ UNCHANGED <<now, checklist, promise, counted, register>>

RepairIn(u, d, fit) ==
    /\ IsOn(u, "repair")
    /\ Becomes(u, Moved(u, Shelf(d), Never, fit), Shelf(d))
    /\ UNCHANGED <<now, checklist, promise, counted, register>>

CheckCondition(u, d) ==
    /\ Handled(u, d, FALSE)
    /\ Becomes(u, [unit[u] EXCEPT !.fit = ~@], Shelf(d))
    /\ UNCHANGED <<now, checklist, promise, counted, register>>

--------------------------------------------------------------------------------
(* Missing, found, retired; rented equipment goes back. *)

Missing(u) ==
    /\ Life(u) = "active" /\ ~IsOn(u, "kit")
    /\ Becomes(u, [unit[u] EXCEPT !.life = "missing"], Adjustment)
    /\ UNCHANGED <<now, checklist, promise, counted, register>>

Found(u, d, fit) ==
    LET x == [Moved(u, Shelf(d), Never, fit) EXCEPT !.life = "active"]
    IN  /\ Life(u) = "missing"
        /\ Becomes(u, x, Shelf(d))
        /\ IF IsOn(u, "employee") THEN Mirror(u, x) ELSE UNCHANGED register
        /\ UNCHANGED <<now, checklist, promise, counted>>

(* Mutant: the contents of the kit are not looked at. *)
MutEmptied(k) == TRUE
Emptied(k) == \A u \in Units : At(u) # In(k)

Retire(u) ==
    /\ Life(u) \in {"active", "missing"} /\ ~IsOn(u, "kit")
    /\ Life(u) = "active" => IsOn(u, "warehouse") \/ IsOn(u, "repair")
    /\ Emptied(u) /\ ~ReservedBy(u, Never, {})
    /\ Becomes(u, [unit[u] EXCEPT !.life = "retired"], Adjustment)
    /\ UNCHANGED <<now, checklist, promise, counted, register>>

ReturnRental(u, d) ==
    /\ u \in Rented /\ Handled(u, d, FALSE)
    /\ Becomes(u, [unit[u] EXCEPT !.life = "retired"], Adjustment)
    /\ UNCHANGED <<now, checklist, promise, counted, register>>

--------------------------------------------------------------------------------
(* Kits. *)

Line(k, i) == checklist[k][i]
Write(k, i, status, u) == checklist' = [checklist EXCEPT ![k][i] = [status |-> status, unit |-> u]]

(* u is packed against the line for item i, as that item or instead of it. *)
Pack(k, d, i, u) ==
    /\ Handled(k, d, FALSE) /\ Handled(u, d, TRUE) /\ u \notin Kits
    /\ \A l \in Kits, j \in Items : Line(l, j).unit # u
    /\ ~ReservedBy(u, Never, {})
    /\ Line(k, i).unit = None
    /\ Becomes(u, Moved(u, In(k), Never, unit[u].fit), In(k))
    /\ Write(k, i, IF ItemOf[u] = i THEN "present" ELSE "substituted", u)
    /\ UNCHANGED <<now, promise, counted, register>>

PackMissing(k, d, i) ==
    /\ Handled(k, d, FALSE) /\ Line(k, i).unit = None
    /\ Write(k, i, "missing", None)
    /\ UNCHANGED <<now, unit, last, promise, counted, register>>

(* Mutant: the line of the item is emptied, not the line that holds the unit. *)
MutCleared(u) ==
    [k \in Kits |-> [i \in Items |-> IF i = ItemOf[u] THEN [status |-> "missing", unit |-> None] ELSE Line(k, i)]]
Cleared(u) ==
    [k \in Kits |-> [i \in Items |-> IF Line(k, i).unit = u THEN [status |-> "missing", unit |-> None] ELSE Line(k, i)]]

Unpack(k, d, u) ==
    /\ Handled(k, d, FALSE) /\ At(u) = In(k)
    /\ Becomes(u, Moved(u, Shelf(d), Never, unit[u].fit), Shelf(d))
    /\ checklist' = Cleared(u)
    /\ UNCHANGED <<now, promise, counted, register>>

(* A line is added or edited: what is expected of a unit is one, the quantity present none. *)
SetKitLine(k, i) ==
    /\ Life(k) # "unknown"
    /\ Write(k, i, IF Line(k, i).status \in {"none", "present"} THEN "missing" ELSE Line(k, i).status, Line(k, i).unit)
    /\ UNCHANGED <<now, unit, last, promise, counted, register>>

RemoveKitLine(k, i) ==
    /\ Line(k, i).status # "none" /\ Line(k, i).unit = None
    /\ Write(k, i, "none", None)
    /\ UNCHANGED <<now, unit, last, promise, counted, register>>

--------------------------------------------------------------------------------
(* Reservations. *)

(* inv_unit_free, at this location for this window. *)
Free(u, d, from, until) ==
    /\ Life(u) = "active" /\ unit[u].fit
    /\ \/ At(u) = Shelf(d)
       \/ IsOn(u, "project") /\ unit[u].place = d /\ now < unit[u].due /\ unit[u].due <= from
       \/ At(u) = Transit(d) /\ now < unit[u].due /\ unit[u].due <= from
    /\ ~\E r \in Requests : Live(r) /\ promise[r].unit = u /\ promise[r].from < until /\ from < promise[r].until

NoPromise == [unit |-> None, state |-> "none", from |-> 0, until |-> 0, served |-> FALSE]

Reserve(r, u, d) ==
    /\ Open(r) /\ promise[r].state = "none" /\ Window[r][2] > now
    /\ ItemOf[u] = Asks[r] /\ Free(u, d, Window[r][1], Window[r][2])
    /\ promise' = [promise EXCEPT ![r] = [@ EXCEPT !.unit = u, !.state = "active", !.from = Window[r][1], !.until = Window[r][2]]]
    /\ UNCHANGED <<now, unit, last, checklist, counted, register>>

Release(r) ==
    /\ promise[r].state = "active"
    /\ promise' = [promise EXCEPT ![r] = [NoPromise EXCEPT !.served = promise[r].served]]
    /\ UNCHANGED <<now, unit, last, checklist, counted, register>>

Tick == now < MaxTime /\ now' = now + 1 /\ UNCHANGED <<unit, last, checklist, promise, counted, register>>

--------------------------------------------------------------------------------
Init ==
    /\ now = 0
    /\ unit = [u \in Units |-> [life |-> "unknown", at |-> Nowhere, place |-> None, fit |-> TRUE, due |-> Never]]
    /\ last = [u \in Units |-> None]
    /\ checklist = [k \in Kits |-> [i \in Items |-> [status |-> "none", unit |-> None]]]
    /\ promise = [r \in Requests |-> NoPromise]
    /\ counted = [u \in Units |-> NoLine]
    /\ register \in [Linked -> SUBSET People]

Arrive(u, d) ==
    \E fit \in BOOLEAN :
       \/ Receive(u, d, fit) \/ Import(u, d, fit)
       \/ \E due \in Dates :
             \/ RegisterUnit(u, Shelf(d), d, Never, fit)
             \/ \E at \in {With(e) : e \in People} \cup {On(p) : p \in Projects}, place \in {d, None} :
                   RegisterUnit(u, at, place, due, fit)

Counting(u, d) ==
    \/ \E kind \in {"opening", "cycle"}, n \in {0, 1} : SaveCountLine(u, kind, d, n)
    \/ \E fit \in BOOLEAN : ConfirmCountLine(u, fit)
    \/ DropCountLine(u)

Out(u, d) ==
    \/ \E due \in Dates :
          \/ \E e \in People, req \in {{}} \cup {{r} : r \in Requests} : Issue(u, d, e, due, req)
          \/ \E p \in Projects : Dispatch(u, d, p, due)
          \/ \E r \in Requests : DispatchFor(r, u, d, due) \/ HandOver(u, r, due)
          \/ \E to \in Depots : SendTransfer(u, d, to, due)
          \/ RepairOut(u, d, due)
    \/ \E to \in Custody : Reassign(u, to)

Back(u, d) ==
    \E fit \in BOOLEAN :
       ReturnFromEmployee(u, d, fit) \/ ReturnFromProject(u, d, fit) \/ ReceiveTransfer(u, fit) \/ RepairIn(u, d, fit)

Record(u, d) ==
    \/ CheckCondition(u, d) \/ Missing(u) \/ Retire(u) \/ ReturnRental(u, d)
    \/ \E fit \in BOOLEAN : Found(u, d, fit)
    \/ \E due \in Dates : OpeningCustody(u, due)

Kitting(d) ==
    \E k \in Kits, i \in Items \ {ItemOf[l] : l \in Kits} :
       \/ \E u \in Units : Pack(k, d, i, u) \/ Unpack(k, d, u)
       \/ PackMissing(k, d, i) \/ SetKitLine(k, i) \/ RemoveKitLine(k, i)

Next ==
    \/ \E u \in Units, d \in Depots : Arrive(u, d) \/ Counting(u, d) \/ Out(u, d) \/ Back(u, d) \/ Record(u, d)
    \/ \E d \in Depots : Kitting(d)
    \/ \E r \in Requests : Release(r) \/ \E u \in Units, d \in Depots : Reserve(r, u, d)
    \/ Tick

Spec == Init /\ [][Next]_vars

--------------------------------------------------------------------------------
(* What is packed and the checklists agree, through substitutions, edited and
   removed lines, lost kits and condition checks: a unit is in a kit exactly when
   one line of that kit, and no line of another, holds it.  inv_pack_kit,
   inv_unpack_kit, inv_set_kit_line. *)
PackedOnList ==
    \A u \in Units :
       LET holds == {kl \in Kits \X Items : Line(kl[1], kl[2]).unit = u}
       IN  IF IsOn(u, "kit") THEN \E i \in Items : holds = {<<At(u)[2], i>>} ELSE holds = {}

(* The contents of an owned kit can be unpacked again: no way of losing, finding,
   counting or retiring the kit leaves something in a retired one. *)
NothingStranded ==
    \A u \in Units : IsOn(u, "kit") => Life(u) = "active" /\ (At(u)[2] \notin Rented => Life(At(u)[2]) # "retired")

(* The ledger explains where a unit in use is: its last movement went there
   (inv_ledger_problems, for drafts and active units). *)
InUseWhereLedgerSays ==
    \A u \in Units : Life(u) \in {"draft", "active"} /\ last[u] # None => At(u) = last[u]

(* A booked unit stays within reach of its booking: until the booked window is
   over no call retires it (rented ones may go back), packs it into a kit, or gives it away without a
   request of its own beyond the start of that window. *)
BookedComesBack ==
    \A r \in Requests : promise[r].state = "active" /\ promise[r].until > now =>
        LET u == promise[r].unit
        IN  /\ Life(u) = "retired" => u \in Rented
            /\ ~IsOn(u, "kit")
            /\ Life(u) = "active" /\ ~IsOn(u, "warehouse") => unit[u].due <= promise[r].from
                                                      \/ \E q \in Requests : promise[q].unit = u /\ promise[q].state = "out"

(* An employee who holds linked equipment is the one, and the only one, the HR
   register shows with it (inv_mirror_legacy). *)
HolderInRegister ==
    \A u \in Linked : Life(u) = "active" /\ IsOn(u, "employee") => register[u] = {At(u)[2]}

(* The records of a unit go with it wherever it is issued, sent, lost, found or
   counted: those above, its last movement line and its HR assignment. *)
UnitsSound == TypeOK /\ InUseWhereLedgerSays /\ HolderInRegister

--------------------------------------------------------------------------------
(* inv_ledger_problems finds nothing, "so stock and ledger can never disagree". *)
LedgerAgrees ==
    \A u \in Units : last[u] # None =>
        IF last[u] = Adjustment THEN Life(u) \in {"missing", "retired"}
        ELSE At(u) = last[u] /\ (IsOn(u, "warehouse") => Life(u) \in {"active", "draft"})

(* "so HR's employee page never disagrees with Inventory": what is back on a shelf
   is with nobody. *)
RegisterAgrees ==
    \A u \in Linked : Life(u) = "active" /\ IsOn(u, "warehouse") => register[u] = {}

(* The checklist of a kit says present of what is in it: "missing: it is not". *)
LinesAreTrue ==
    \A k \in Kits, i \in Items : Line(k, i).status = "missing" => Line(k, i).unit = None

(* The status of a request is "true to what has physically happened": what is
   recorded as out on a project is not on the shelf. *)
OutIsOut ==
    \A r \in Requests : promise[r].state = "out" => ~(Life(promise[r].unit) = "active" /\ IsOn(promise[r].unit, "warehouse"))

(* What was packed into a kit can be unpacked, whoever owns the kit. *)
KitsGoBackEmpty == \A u \in Units : IsOn(u, "kit") => Life(At(u)[2]) # "retired"
================================================================================

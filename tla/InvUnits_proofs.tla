---------------------------- MODULE InvUnits_proofs ----------------------------
(***************************************************************************)
(* Proofs about InvUnits, for any equipment, any places to keep it and any *)
(* requests for it.                                                        *)
(***************************************************************************)
EXTENDS InvUnits, TLAPS

Ledgered == Custody \cup {Adjustment, None}

(* The ledger is silent about a unit that has not been registered. *)
UnknownIsNowhere ==
    \A u \in Units : Life(u) = "unknown" => At(u) = Nowhere /\ last[u] = None

(* What is reserved or out is a unit in use, or one that was. *)
PromisedUnits ==
    \A r \in Requests : promise[r].state # "none" =>
        /\ promise[r].unit \in Units
        /\ Life(promise[r].unit) \notin {"unknown", "draft"}
        /\ promise[r].from <= MaxTime

(* A line of a count says where. *)
Counted ==
    \A u \in Units : counted[u].kind # "none" => counted[u].depot \in Depots

IInv ==
    /\ TypeOK
    /\ Counted
    /\ UnknownIsNowhere
    /\ InUseWhereLedgerSays
    /\ HolderInRegister
    /\ NothingStranded
    /\ PackedOnList
    /\ PromisedUnits
    /\ BookedComesBack

------------------------------------------------------------------------------
(* What a step may do to the one unit it is about. *)

(* No other unit moves, and the records keep their types. *)
Alone(u) ==
    /\ unit' \in [Units -> Unit] /\ last' \in [Units -> Ledgered]
    /\ register' \in [Linked -> SUBSET People]
    /\ \A v \in Units \ {u} : unit'[v] = unit[v] /\ last'[v] = last[v]
    /\ \A v \in Linked \ {u} : register'[v] = register[v]

(* u is registered, and waits to be opened. *)
Entered(u) ==
    Life(u) = "unknown" /\ Life(u)' = "draft" /\ ~IsOn(u, "kit")' /\ last'[u] = last[u]

(* u is put on a shelf. *)
Shelved(u) ==
    /\ Life(u)' = "active" \/ (Life(u) # "unknown" /\ Life(u)' = Life(u))
    /\ ~IsOn(u, "kit") /\ IsOn(u, "warehouse")' /\ last'[u] = At(u)'

Held(u) == u \in Linked /\ IsOn(u, "employee")' => register'[u] = {At(u)'[2]}

(* u leaves for somewhere else, whoever had booked it. *)
SentOut(u) ==
    /\ Life(u) \in {"draft", "active"} /\ Life(u)' = Life(u)
    /\ ~IsOn(u, "kit") /\ ~IsOn(u, "kit")' /\ last'[u] = At(u)' /\ Held(u)
    /\ \A r \in Requests : promise'[r].state = "active" /\ promise'[r].unit = u /\ promise'[r].until > now =>
          \/ unit'[u].due <= promise'[r].from
          \/ \E q \in Requests : promise'[q].unit = u /\ promise'[q].state = "out"

(* A draft that is with somebody is in use from now on. *)
Opened(u) ==
    Life(u) = "draft" /\ Life(u)' = "active" /\ ~IsOn(u, "kit")' /\ last'[u] = At(u)' /\ Held(u)

(* u is no longer in use. *)
Dropped(u) ==
    /\ Life(u) \in {"active", "missing"} /\ Life(u)' \in {"missing", "retired"}
    /\ At(u)' = At(u) /\ ~IsOn(u, "kit")
    /\ Life(u)' = "retired" => u \in Rented \/ (Emptied(u) /\ ~ReservedBy(u, Never, {}))

(* The promises of other units stay, and none becomes active. *)
Kept(u) ==
    /\ promise' \in [Requests -> Promise]
    /\ \A r \in Requests : promise'[r].state # "none" =>
          \/ /\ promise[r].state # "none" /\ promise'[r].unit = promise[r].unit
             /\ promise'[r].from = promise[r].from /\ promise'[r].until = promise[r].until
             /\ promise'[r].state = "active" => promise[r].state = "active"
          \/ /\ promise'[r].unit = u /\ promise'[r].from <= MaxTime /\ promise'[r].state # "active"
             /\ Life(u) = "active"
    /\ \A r \in Requests : promise[r].unit # u /\ promise[r].state = "out" =>
          promise'[r].unit = promise[r].unit /\ promise'[r].state = "out"

Moves(u) ==
    /\ UNCHANGED <<now, checklist>>
    /\ counted' = counted \/ counted' = [counted EXCEPT ![u] = NoLine]
    /\ Alone(u) /\ Kept(u)
    /\ Entered(u) \/ Shelved(u) \/ SentOut(u) \/ Opened(u) \/ Dropped(u)

------------------------------------------------------------------------------
(* Places, and the records a movement writes. *)

LEMMA Places ==
    /\ \A d \in Depots : Shelf(d) \in Custody /\ Shelf(d)[1] = "warehouse"
    /\ \A d \in Depots : Transit(d) \in Custody /\ Transit(d)[1] = "transit"
    /\ \A e \in People : With(e) \in Custody /\ With(e)[1] = "employee" /\ With(e)[2] = e
    /\ \A p \in Projects : On(p) \in Custody /\ On(p)[1] = "project"
    /\ \A k \in Kits : In(k) \in Custody /\ In(k)[1] = "kit" /\ In(k)[2] = k
    /\ Repair \in Custody /\ Repair[1] = "repair" /\ Nowhere[1] = "nowhere"
    /\ \A at \in Custody \cup {Nowhere} :
          /\ at[1] \in {"warehouse", "transit"} => at[2] \in Depots
          /\ at[1] = "employee" => at[2] \in People
          /\ at[1] = "project" => at[2] \in Projects
          /\ at[1] = "kit" => at[2] \in Kits /\ at = In(at[2])
BY DEF Custody, Shelf, Transit, With, On, In, Repair, Nowhere

LEMMA Dated == Never \in Dates /\ Never > MaxTime /\ MaxTime \in Nat
BY UnitData DEF Never, Dates

LEMMA UnitFields ==
    ASSUME TypeOK, NEW u \in Units
    PROVE  /\ unit[u] \in Unit /\ At(u) \in Custody \cup {Nowhere}
           /\ unit[u].fit \in BOOLEAN /\ unit[u].due \in Dates /\ unit[u].place \in Depots \cup {None}
           /\ Life(u) \in {"unknown", "draft", "active", "missing", "retired"}
BY DEF TypeOK, Unit, At, Life, Dates

LEMMA MovedIs ==
    ASSUME TypeOK, NEW u \in Units, NEW at \in Custody, NEW due \in Dates, NEW fit \in BOOLEAN
    PROVE  /\ Moved(u, at, due, fit) \in Unit
           /\ Moved(u, at, due, fit).life = Life(u) /\ Moved(u, at, due, fit).at = at
           /\ at[1] \notin {"warehouse", "kit"} => Moved(u, at, due, fit).due = due
<1>1. unit[u] \in Unit
  BY UnitFields
<1>2. Never \in 1..Never
  BY Dated DEF Dates
<1>3. at[1] = "warehouse" => at[2] \in Depots
  BY Places
<1>4. QED
  BY <1>1, <1>2, <1>3 DEF Moved, Unit, Life, Dates

(* A new life is written over the old one. *)
LEMMA Alive ==
    ASSUME NEW x \in Unit, NEW life \in {"draft", "active", "missing", "retired"}
    PROVE  /\ [x EXCEPT !.life = life] \in Unit
           /\ [x EXCEPT !.life = life].life = life /\ [x EXCEPT !.life = life].at = x.at
BY DEF Unit

LEMMA BecomesIs ==
    ASSUME TypeOK, NEW u \in Units, NEW x \in Unit, NEW to \in Custody \cup {Adjustment}, Becomes(u, x, to)
    PROVE  /\ unit' \in [Units -> Unit] /\ last' \in [Units -> Ledgered]
           /\ unit'[u] = x /\ At(u)' = x.at /\ Life(u)' = x.life /\ last'[u] = to
           /\ \A v \in Units \ {u} : unit'[v] = unit[v] /\ last'[v] = last[v]
BY DEF Becomes, TypeOK, Ledgered, At, Life

LEMMA MirrorIs ==
    ASSUME TypeOK, NEW u \in Units, NEW x \in Unit, Mirror(u, x)
    PROVE  /\ register' \in [Linked -> SUBSET People]
           /\ \A v \in Linked \ {u} : register'[v] = register[v]
           /\ x.life \notin {"missing", "retired"} /\ u \in Linked /\ x.at[1] = "employee" => register'[u] = {x.at[2]}
<1>1. x.at[1] = "employee" => x.at[2] \in People
  BY Places DEF Unit
<1>2. register \in [Linked -> SUBSET People]
  BY DEF TypeOK
<1>3. CASE u \notin Linked \/ x.life = "missing"
  BY <1>2, <1>3 DEF Mirror
<1>4. CASE ~(u \notin Linked \/ x.life = "missing")
  <2> DEFINE holders == IF x.at[1] = "employee" /\ x.life # "retired" THEN {x.at[2]} ELSE {}
  <2>1. holders \in SUBSET People
    BY <1>1
  <2>2. register' = [register EXCEPT ![u] = holders]
    BY <1>4 DEF Mirror
  <2>3. QED
    BY <1>2, <1>4, <2>1, <2>2
<1>5. QED
  BY <1>3, <1>4

LEMMA SamePromises == ASSUME TypeOK, UNCHANGED promise, NEW u \in Units PROVE Kept(u)
BY DEF Kept, TypeOK

------------------------------------------------------------------------------
(* Every call about a unit is one of these moves. *)

LEMMA Onto ==
    ASSUME TypeOK, NEW u \in Units, NEW d \in Depots, NEW fit \in BOOLEAN,
           Life(u) # "unknown", ~IsOn(u, "kit"), Becomes(u, Moved(u, Shelf(d), Never, fit), Shelf(d)),
           register' \in [Linked -> SUBSET People], \A v \in Linked \ {u} : register'[v] = register[v]
    PROVE  Alone(u) /\ Shelved(u)
<1>1. Shelf(d) \in Custody /\ Shelf(d)[1] = "warehouse" /\ Never \in Dates
  BY Places, Dated
<1>2. /\ Moved(u, Shelf(d), Never, fit) \in Unit
      /\ Moved(u, Shelf(d), Never, fit).life = Life(u)
      /\ Moved(u, Shelf(d), Never, fit).at = Shelf(d)
  BY <1>1, MovedIs
<1>3. QED
  BY <1>1, <1>2, BecomesIs DEF Alone, Shelved, IsOn

LEMMA OntoAlive ==
    ASSUME TypeOK, NEW u \in Units, NEW d \in Depots, NEW fit \in BOOLEAN, ~IsOn(u, "kit"),
           Becomes(u, [Moved(u, Shelf(d), Never, fit) EXCEPT !.life = "active"], Shelf(d)),
           register' \in [Linked -> SUBSET People], \A v \in Linked \ {u} : register'[v] = register[v]
    PROVE  Alone(u) /\ Shelved(u)
<1> DEFINE x == [Moved(u, Shelf(d), Never, fit) EXCEPT !.life = "active"]
<1>1. Shelf(d) \in Custody /\ Shelf(d)[1] = "warehouse" /\ Never \in Dates
  BY Places, Dated
<1>2. Moved(u, Shelf(d), Never, fit) \in Unit /\ Moved(u, Shelf(d), Never, fit).at = Shelf(d)
  BY <1>1, MovedIs
<1>3. x \in Unit /\ x.life = "active" /\ x.at = Shelf(d)
  BY <1>2, Alive
<1>4. Becomes(u, x, Shelf(d))
  OBVIOUS
<1> HIDE DEF x
<1>5. QED
  BY <1>1, <1>3, <1>4, BecomesIs DEF Alone, Shelved, IsOn

(* Into use: received, opened on a count, found. *)
LEMMA ReceiveMoves ==
    ASSUME IInv, NEW u \in Units, NEW d \in Depots, NEW fit \in BOOLEAN, Receive(u, d, fit)
    PROVE  Moves(u)
<1>1. TypeOK /\ At(u) = Nowhere
  BY DEF IInv, UnknownIsNowhere, Receive
<1>2. ~IsOn(u, "kit")
  BY <1>1, Places DEF IsOn
<1>3. Alone(u) /\ Shelved(u)
  BY <1>1, <1>2, OntoAlive DEF Receive, TypeOK
<1>4. QED
  BY <1>1, <1>3, SamePromises DEF Receive, Moves, TypeOK

LEMMA RegisterMoves ==
    ASSUME IInv, NEW u \in Units, NEW at \in Custody, NEW place \in Depots \cup {None}, NEW due \in Dates,
           NEW fit \in BOOLEAN, at[1] # "kit", RegisterUnit(u, at, place, due, fit)
    PROVE  Moves(u)
<1>1. [life |-> "draft", at |-> at, place |-> place, fit |-> fit, due |-> due] \in Unit
  BY DEF Unit, Dates
<1>2. Alone(u) /\ Entered(u)
  BY <1>1 DEF IInv, TypeOK, RegisterUnit, Alone, Entered, Life, At, IsOn, Ledgered
<1>3. QED
  BY <1>2, SamePromises DEF RegisterUnit, Moves, IInv, TypeOK

LEMMA ImportMoves ==
    ASSUME IInv, NEW u \in Units, NEW d \in Depots, NEW fit \in BOOLEAN, Import(u, d, fit)
    PROVE  Moves(u)
<1>1. PICK at \in IF register[u] = {} THEN {Shelf(d)} ELSE {With(e) : e \in register[u]} :
         unit' = [unit EXCEPT ![u] = [life |-> "draft", at |-> at, place |-> d, fit |-> fit, due |-> Never]]
  BY DEF Import
<1>2. at \in Custody /\ at[1] # "kit" /\ Never \in Dates
  BY <1>1, Places, Dated DEF IInv, TypeOK, Import
<1>3. [life |-> "draft", at |-> at, place |-> d, fit |-> fit, due |-> Never] \in Unit
  BY <1>2 DEF Unit, Dates
<1>4. Alone(u) /\ Entered(u)
  BY <1>1, <1>2, <1>3 DEF IInv, TypeOK, Import, Alone, Entered, Life, At, IsOn, Ledgered
<1>5. QED
  BY <1>4, SamePromises DEF Import, Moves, IInv, TypeOK

LEMMA OpeningMoves ==
    ASSUME IInv, NEW u \in Units, NEW due \in Dates, OpeningCustody(u, due)
    PROVE  Moves(u)
<1> DEFINE x == [[unit[u] EXCEPT !.life = "active"] EXCEPT !.due = due]
<1>1. unit[u] \in Unit /\ At(u) \in Custody /\ (IsOn(u, "employee") \/ IsOn(u, "project"))
  BY UnitFields, Places DEF IInv, OpeningCustody, IsOn
<1>2. x \in Unit /\ x.life = "active" /\ x.at = At(u)
  BY <1>1 DEF Unit, At, Dates
<1>3. Becomes(u, x, x.at) /\ (IF IsOn(u, "employee") THEN Mirror(u, x) ELSE UNCHANGED register)
  BY DEF OpeningCustody
<1> HIDE DEF x
<1>4. /\ register' \in [Linked -> SUBSET People]
      /\ \A v \in Linked \ {u} : register'[v] = register[v]
      /\ u \in Linked /\ IsOn(u, "employee") => register'[u] = {At(u)[2]}
  BY <1>2, <1>3, MirrorIs DEF IInv, TypeOK, IsOn
<1>5. Alone(u) /\ At(u)' = At(u) /\ last'[u] = At(u)' /\ Life(u)' = "active"
  BY <1>1, <1>2, <1>3, <1>4, BecomesIs DEF IInv, Alone
<1>6. Opened(u)
  BY <1>1, <1>4, <1>5 DEF Opened, Held, IsOn, OpeningCustody
<1>7. QED
  BY <1>5, <1>6, SamePromises DEF OpeningCustody, Moves, IInv, TypeOK

(* Back on a shelf. *)
LEMMA Placed ==
    ASSUME IInv, NEW u \in Units, NEW kind \in {"warehouse", "employee", "project", "transit", "repair"}, IsOn(u, kind)
    PROVE  Life(u) # "unknown" /\ ~IsOn(u, "kit") /\ At(u) \in Custody
BY UnitFields, Places DEF IInv, UnknownIsNowhere, IsOn

LEMMA BackFromEmployee ==
    ASSUME IInv, NEW u \in Units, NEW d \in Depots, NEW fit \in BOOLEAN, ReturnFromEmployee(u, d, fit)
    PROVE  Moves(u)
<1> DEFINE x == Moved(u, Shelf(d), Never, fit)
<1>1. TypeOK /\ Life(u) # "unknown" /\ ~IsOn(u, "kit")
  BY Placed DEF IInv, ReturnFromEmployee
<1>2. x \in Unit
  BY <1>1, MovedIs, Places, Dated
<1>3. Becomes(u, x, Shelf(d)) /\ Mirror(u, x)
  BY DEF ReturnFromEmployee
<1>4. register' \in [Linked -> SUBSET People] /\ \A v \in Linked \ {u} : register'[v] = register[v]
  BY <1>1, <1>2, <1>3, MirrorIs
<1>5. Alone(u) /\ Shelved(u)
  BY <1>1, <1>3, <1>4, Onto
<1>6. QED
  BY <1>1, <1>5, SamePromises DEF ReturnFromEmployee, Moves, TypeOK

LEMMA Returned ==
    ASSUME TypeOK, NEW u \in Units, NEW p, NEW back \in GaveBack(promise, p, u)
    PROVE  /\ back \in [Requests -> Promise]
           /\ \A r \in Requests :
                 \/ back[r] = promise[r]
                 \/ /\ promise[r].unit = u /\ promise[r].state = "out"
                    /\ back[r] = [promise[r] EXCEPT !.state = "completed"]
<1>1. promise \in [Requests -> Promise]
  BY DEF TypeOK
<1>2. CASE back = promise
  BY <1>1, <1>2
<1>3. CASE back # promise
  <2>1. PICK q \in Requests : promise[q].unit = u /\ promise[q].state = "out" /\ back = [promise EXCEPT ![q].state = "completed"]
    BY <1>3 DEF GaveBack
  <2> DEFINE given == [promise[q] EXCEPT !.state = "completed"]
  <2>2. given \in Promise
    BY <1>1 DEF Promise
  <2>3. back = [promise EXCEPT ![q] = given]
    BY <2>1
  <2>4. back[q] = given /\ \A r \in Requests \ {q} : back[r] = promise[r]
    BY <1>1, <2>3
  <2>5. QED
    BY <1>1, <2>1, <2>2, <2>3, <2>4
<1>4. QED
  BY <1>2, <1>3

LEMMA GivenBack ==
    ASSUME TypeOK, NEW u \in Units, NEW p, promise' \in GaveBack(promise, p, u)
    PROVE  Kept(u)
<1>1. promise' \in [Requests -> Promise]
  BY Returned
<1>2. ASSUME NEW r \in Requests
      PROVE  /\ promise'[r].unit = promise[r].unit /\ promise'[r].from = promise[r].from
             /\ promise'[r].until = promise[r].until
             /\ \/ promise'[r].state = promise[r].state
                \/ promise[r].unit = u /\ promise[r].state = "out" /\ promise'[r].state = "completed"
  <2>1. promise[r] \in Promise
    BY DEF TypeOK
  <2>2. CASE promise'[r] = promise[r]
    BY <2>2
  <2>3. CASE promise'[r] # promise[r]
    <3>1. /\ promise[r].unit = u /\ promise[r].state = "out"
          /\ promise'[r] = [promise[r] EXCEPT !.state = "completed"]
      BY <2>3, Returned
    <3>2. QED
      BY <2>1, <3>1 DEF Promise
  <2>4. QED
    BY <2>2, <2>3
<1>3. QED
  BY <1>1, <1>2 DEF Kept

LEMMA BackFromProject ==
    ASSUME IInv, NEW u \in Units, NEW d \in Depots, NEW fit \in BOOLEAN, ReturnFromProject(u, d, fit)
    PROVE  Moves(u)
<1>1. TypeOK /\ Life(u) # "unknown" /\ ~IsOn(u, "kit")
  BY Placed DEF IInv, ReturnFromProject
<1>2. Alone(u) /\ Shelved(u)
  BY <1>1, Onto DEF ReturnFromProject, TypeOK
<1>3. Kept(u)
  BY <1>1, GivenBack DEF ReturnFromProject
<1>4. QED
  BY <1>1, <1>2, <1>3 DEF ReturnFromProject, Moves, TypeOK

LEMMA BackFromTransit ==
    ASSUME IInv, NEW u \in Units, NEW fit \in BOOLEAN, ReceiveTransfer(u, fit)
    PROVE  Moves(u)
<1>1. TypeOK /\ Life(u) # "unknown" /\ ~IsOn(u, "kit")
  BY Placed DEF IInv, ReceiveTransfer
<1>2. At(u)[2] \in Depots
  BY <1>1, UnitFields, Places DEF ReceiveTransfer, IsOn
<1>3. Alone(u) /\ Shelved(u)
  BY <1>1, <1>2, Onto DEF ReceiveTransfer, TypeOK
<1>4. QED
  BY <1>1, <1>3, SamePromises DEF ReceiveTransfer, Moves, TypeOK

LEMMA BackFromRepair ==
    ASSUME IInv, NEW u \in Units, NEW d \in Depots, NEW fit \in BOOLEAN, RepairIn(u, d, fit)
    PROVE  Moves(u)
<1>1. TypeOK /\ Life(u) # "unknown" /\ ~IsOn(u, "kit")
  BY Placed DEF IInv, RepairIn
<1>2. Alone(u) /\ Shelved(u)
  BY <1>1, Onto DEF RepairIn, TypeOK
<1>3. QED
  BY <1>1, <1>2, SamePromises DEF RepairIn, Moves, TypeOK

LEMMA FoundMoves ==
    ASSUME IInv, NEW u \in Units, NEW d \in Depots, NEW fit \in BOOLEAN, Found(u, d, fit)
    PROVE  Moves(u)
<1> DEFINE x == [Moved(u, Shelf(d), Never, fit) EXCEPT !.life = "active"]
<1>1. TypeOK /\ ~IsOn(u, "kit")
  BY DEF IInv, NothingStranded, Found
<1>2. Moved(u, Shelf(d), Never, fit) \in Unit
  BY <1>1, MovedIs, Places, Dated
<1>3. x \in Unit
  BY <1>2, Alive
<1>4. Becomes(u, x, Shelf(d)) /\ (IF IsOn(u, "employee") THEN Mirror(u, x) ELSE UNCHANGED register)
  BY DEF Found
<1>5. register' \in [Linked -> SUBSET People] /\ \A v \in Linked \ {u} : register'[v] = register[v]
  <2> HIDE DEF x
  <2>1. QED
    BY <1>1, <1>3, <1>4, MirrorIs DEF TypeOK
<1>6. Alone(u) /\ Shelved(u)
  BY <1>1, <1>4, <1>5, OntoAlive
<1>7. QED
  BY <1>1, <1>6, SamePromises DEF Found, Moves, TypeOK

(* What is handled is on a shelf and in use. *)
LEMMA InHand ==
    ASSUME IInv, NEW u \in Units, NEW d \in Depots, NEW usable \in BOOLEAN, Handled(u, d, usable)
    PROVE  Life(u) = "active" /\ IsOn(u, "warehouse") /\ ~IsOn(u, "kit") /\ At(u) = Shelf(d) /\ TypeOK
BY Places DEF IInv, Handled, IsOn

LEMMA CheckMoves ==
    ASSUME IInv, NEW u \in Units, NEW d \in Depots, CheckCondition(u, d)
    PROVE  Moves(u)
<1> DEFINE x == [unit[u] EXCEPT !.fit = ~@]
<1>1. TypeOK /\ Life(u) = "active" /\ IsOn(u, "warehouse") /\ ~IsOn(u, "kit") /\ At(u) = Shelf(d)
  BY InHand DEF CheckCondition
<1>2. x \in Unit /\ x.life = "active" /\ x.at = Shelf(d) /\ Shelf(d) \in Custody
  <2> DEFINE other == ~unit[u].fit
  <2>1. other \in BOOLEAN /\ unit[u] \in Unit /\ Shelf(d) \in Custody
    BY <1>1, UnitFields, Places
  <2>2. x = [unit[u] EXCEPT !.fit = other]
    OBVIOUS
  <2> HIDE DEF other, x
  <2>3. QED
    BY <1>1, <2>1, <2>2 DEF Unit, At, Life
<1>3. Becomes(u, x, Shelf(d)) /\ UNCHANGED register
  BY DEF CheckCondition
<1> HIDE DEF x
<1>4. Alone(u) /\ Shelved(u)
  BY <1>1, <1>2, <1>3, BecomesIs, Places DEF Alone, Shelved, IsOn, TypeOK
<1>5. QED
  BY <1>1, <1>4, SamePromises DEF CheckCondition, Moves, TypeOK

(* No longer in use. *)
LEMMA OutOfUse ==
    ASSUME TypeOK, NEW u \in Units, NEW life \in {"missing", "retired"}, Life(u) \in {"active", "missing"},
           Becomes(u, [unit[u] EXCEPT !.life = life], Adjustment), UNCHANGED register
    PROVE  Alone(u) /\ At(u)' = At(u) /\ Life(u)' = life
<1> DEFINE x == [unit[u] EXCEPT !.life = life]
<1>1. x \in Unit /\ x.life = life /\ x.at = At(u)
  <2>1. unit[u] \in Unit
    BY UnitFields
  <2>2. QED
    BY <2>1 DEF At, Unit
<1>2. Becomes(u, x, Adjustment)
  OBVIOUS
<1> HIDE DEF x
<1>3. QED
  BY <1>1, <1>2, BecomesIs DEF Alone, TypeOK

LEMMA MissingMoves == ASSUME IInv, NEW u \in Units, Missing(u) PROVE Moves(u)
BY OutOfUse, SamePromises DEF Missing, Moves, IInv, TypeOK, Dropped

LEMMA RetireMoves == ASSUME IInv, NEW u \in Units, Retire(u) PROVE Moves(u)
BY OutOfUse, SamePromises DEF Retire, Moves, IInv, TypeOK, Dropped

LEMMA RentalMoves == ASSUME IInv, NEW u \in Units, NEW d \in Depots, ReturnRental(u, d) PROVE Moves(u)
BY InHand, OutOfUse, SamePromises DEF ReturnRental, Moves, IInv, TypeOK, Dropped

(* Counted: opened, found, lost, or as expected. *)
LEMMA CountMoves ==
    ASSUME IInv, NEW u \in Units, NEW fit \in BOOLEAN, ConfirmCountLine(u, fit)
    PROVE  UNCHANGED <<unit, last>> \/ Moves(u)
<1> DEFINE d == counted[u].depot
           opens == counted[u].kind = "opening"
           found == counted[u].kind = "cycle" /\ counted[u].n = 1 /\ Life(u) = "missing"
           lost  == counted[u].kind = "cycle" /\ counted[u].n = 0 /\ Life(u) = "active"
<1>1. TypeOK /\ counted[u] \in CountLine /\ UNCHANGED <<now, checklist, promise, register>>
  BY DEF IInv, TypeOK, ConfirmCountLine
<1>2. counted' = [counted EXCEPT ![u] = NoLine]
  BY DEF ConfirmCountLine
<1>3. register' \in [Linked -> SUBSET People]
  BY <1>1 DEF TypeOK
<1>4. CASE opens
  <2> DEFINE x == [[unit[u] EXCEPT !.life = "active"] EXCEPT !.fit = fit]
  <2>1. Life(u) = "draft" /\ At(u) = Shelf(d) /\ Becomes(u, x, Shelf(d))
    BY <1>4 DEF ConfirmCountLine
  <2>2. x \in Unit /\ x.life = "active" /\ x.at = At(u)
    BY <1>1, UnitFields DEF Unit, At
  <2>3. IsOn(u, "warehouse") /\ ~IsOn(u, "kit") /\ At(u) \in Custody
    <3>1. Shelf(d)[1] = "warehouse"
      BY DEF Shelf
    <3>2. QED
      BY <2>1, <3>1, Placed DEF IsOn
  <2> HIDE DEF x
  <2>4. Alone(u) /\ Shelved(u)
    BY <1>1, <1>3, <2>1, <2>2, <2>3, BecomesIs DEF Alone, Shelved, IsOn
  <2>5. QED
    BY <1>1, <1>2, <2>4, SamePromises DEF Moves
<1>5. CASE ~opens /\ found
  <2>1. ~IsOn(u, "kit") /\ d \in Depots
    BY <1>1, <1>5 DEF IInv, NothingStranded, CountLine, Counted
  <2>2. Becomes(u, [Moved(u, Shelf(d), Never, unit[u].fit) EXCEPT !.life = "active"], Shelf(d))
    BY <1>5 DEF ConfirmCountLine
  <2>3. unit[u].fit \in BOOLEAN
    BY <1>1, UnitFields
  <2>4. Alone(u) /\ Shelved(u)
    BY <1>1, <1>3, <2>1, <2>2, <2>3, OntoAlive
  <2>5. QED
    BY <1>1, <1>2, <2>4, SamePromises DEF Moves
<1>6. CASE ~opens /\ ~found /\ lost
  <2>1. At(u) = Shelf(d) /\ Becomes(u, [unit[u] EXCEPT !.life = "missing"], Adjustment)
    BY <1>6 DEF ConfirmCountLine
  <2>2. ~IsOn(u, "kit")
    BY <2>1 DEF Shelf, IsOn
  <2>3. Alone(u) /\ Dropped(u)
    BY <1>1, <1>6, <2>1, <2>2, OutOfUse DEF Dropped
  <2>4. QED
    BY <1>1, <1>2, <2>3, SamePromises DEF Moves
<1>7. CASE ~opens /\ ~found /\ ~lost
  BY <1>2, <1>7 DEF ConfirmCountLine
<1>8. QED
  BY <1>4, <1>5, <1>6, <1>7

(* Away from the shelf. *)
Away == {at \in Custody : at[1] \notin {"warehouse", "kit"}}

LEMMA Leaves ==
    ASSUME TypeOK, NEW u \in Units, NEW at \in Away, NEW due \in Dates,
           Becomes(u, Moved(u, at, due, unit[u].fit), at),
           register' \in [Linked -> SUBSET People], \A v \in Linked \ {u} : register'[v] = register[v]
    PROVE  /\ Alone(u) /\ Life(u)' = Life(u) /\ At(u)' = at /\ last'[u] = at /\ unit'[u].due = due
           /\ ~IsOn(u, "kit")'
<1> DEFINE x == Moved(u, at, due, unit[u].fit)
<1>1. unit[u].fit \in BOOLEAN /\ at \in Custody /\ at[1] \notin {"warehouse", "kit"}
  BY UnitFields DEF Away
<1>2. x \in Unit /\ x.life = Life(u) /\ x.at = at /\ x.due = due
  BY <1>1, MovedIs
<1>3. Becomes(u, x, at)
  OBVIOUS
<1> HIDE DEF x
<1>4. QED
  BY <1>1, <1>2, <1>3, BecomesIs DEF Alone, IsOn

LEMMA Destinations ==
    /\ \A e \in People : With(e) \in Away
    /\ \A p \in Projects : On(p) \in Away
    /\ \A d \in Depots : Transit(d) \in Away
    /\ Repair \in Away
BY Places DEF Away

LEMMA NotPromised ==
    ASSUME IInv, NEW u \in Units, NEW due \in Dates, NEW but \in SUBSET Requests, ~ReservedBy(u, due, but),
           NEW r \in Requests \ but, promise[r].state = "active", promise[r].unit = u, promise[r].until > now
    PROVE  due <= promise[r].from
<1>1. promise[r].from \in Int /\ due \in Int
  BY Dated DEF IInv, TypeOK, Promise, Dates, Never
<1>2. ~(promise[r].from < due)
  BY DEF ReservedBy, Live
<1>3. QED
  BY <1>1, <1>2

(* What was free for the asking leaves, and no promise changes. *)
LEMMA SentFree ==
    ASSUME IInv, NEW u \in Units, NEW at \in Away, NEW due \in Dates, ~ReservedBy(u, due, {}),
           Life(u) \in {"draft", "active"}, ~IsOn(u, "kit"),
           Becomes(u, Moved(u, at, due, unit[u].fit), at),
           register' \in [Linked -> SUBSET People], \A v \in Linked \ {u} : register'[v] = register[v],
           u \in Linked /\ at[1] = "employee" => register'[u] = {at[2]},
           UNCHANGED <<now, checklist, promise, counted>>
    PROVE  Moves(u)
<1>1. /\ Alone(u) /\ Life(u)' = Life(u) /\ At(u)' = at /\ last'[u] = at /\ unit'[u].due = due
      /\ ~IsOn(u, "kit")'
  BY Leaves DEF IInv
<1>2. Held(u)
  BY <1>1 DEF Held, IsOn
<1>3. ASSUME NEW r \in Requests, promise'[r].state = "active", promise'[r].unit = u, promise'[r].until > now
      PROVE  unit'[u].due <= promise'[r].from
  BY <1>1, <1>3, NotPromised
<1>4. SentOut(u)
  BY <1>1, <1>2, <1>3 DEF SentOut
<1>5. QED
  BY <1>1, <1>4, SamePromises DEF Moves, IInv

LEMMA DispatchMoves ==
    ASSUME IInv, NEW u \in Units, NEW d \in Depots, NEW p \in Projects, NEW due \in Dates, Dispatch(u, d, p, due)
    PROVE  Moves(u)
<1>1. Life(u) = "active" /\ ~IsOn(u, "kit") /\ On(p) \in Away /\ On(p)[1] # "employee"
  BY InHand, Destinations, Places DEF Dispatch
<1>2. QED
  BY <1>1, SentFree DEF Dispatch, IInv, TypeOK

LEMMA TransferMoves ==
    ASSUME IInv, NEW u \in Units, NEW d \in Depots, NEW to \in Depots, NEW due \in Dates, SendTransfer(u, d, to, due)
    PROVE  Moves(u)
<1>1. Life(u) = "active" /\ ~IsOn(u, "kit") /\ Transit(to) \in Away /\ Transit(to)[1] # "employee"
  BY InHand, Destinations, Places DEF SendTransfer
<1>2. ~ReservedBy(u, due, {})
  BY Dated DEF SendTransfer, ReservedBy, IInv, TypeOK, Promise, Dates, Never, PromisedUnits, Live
<1>3. QED
  BY <1>1, <1>2, SentFree DEF SendTransfer, IInv, TypeOK

LEMMA RepairMoves ==
    ASSUME IInv, NEW u \in Units, NEW d \in Depots, NEW due \in Dates, RepairOut(u, d, due)
    PROVE  Moves(u)
<1>1. Life(u) = "active" /\ ~IsOn(u, "kit") /\ Repair \in Away /\ Repair[1] # "employee"
  BY InHand, Destinations, Places DEF RepairOut
<1>2. QED
  BY <1>1, SentFree DEF RepairOut, IInv, TypeOK

LEMMA ReassignMoves ==
    ASSUME IInv, NEW u \in Units, NEW to \in Custody, Reassign(u, to)
    PROVE  Moves(u)
<1> DEFINE x == Moved(u, to, Never, unit[u].fit)
<1>1. TypeOK /\ unit[u].fit \in BOOLEAN /\ Life(u) \in {"draft", "active"} /\ Never \in Dates
  BY UnitFields, Dated DEF Reassign, IInv
<1>2. x \in Unit /\ x.life = Life(u) /\ x.at = to
  BY <1>1, MovedIs
<1>3. Becomes(u, x, to) /\ Mirror(u, x) /\ UNCHANGED <<now, checklist, promise, counted>>
  BY DEF Reassign
<1>4. /\ register' \in [Linked -> SUBSET People]
      /\ \A v \in Linked \ {u} : register'[v] = register[v]
      /\ u \in Linked /\ to[1] = "employee" => register'[u] = {to[2]}
  <2> HIDE DEF x
  <2>1. QED
    BY <1>1, <1>2, <1>3, MirrorIs
<1>5. CASE to \in {With(e) : e \in People}
  <2>1. to \in Away /\ to[1] = "employee"
    BY <1>5, Destinations, Places
  <2>2. ~ReservedBy(u, Never, {}) /\ ~IsOn(u, "kit")
    BY <2>1 DEF Reassign, IsOn, Shelf
  <2>3. QED
    BY <1>1, <1>3, <1>4, <2>1, <2>2, SentFree
<1>6. CASE to \notin {With(e) : e \in People}
  <2>1. IsOn(u, "employee") /\ unit[u].place # None /\ to = Shelf(unit[u].place)
    BY <1>6 DEF Reassign
  <2>2. unit[u].place \in Depots /\ Life(u) # "unknown" /\ ~IsOn(u, "kit")
    BY <1>1, <2>1, UnitFields, Placed
  <2>3. Alone(u) /\ Shelved(u)
    BY <1>1, <1>3, <1>4, <2>1, <2>2, Onto
  <2>4. QED
    BY <1>1, <1>3, <2>3, SamePromises DEF Moves
<1>7. QED
  BY <1>5, <1>6

(* Away for a request. *)
LEMMA IssueMoves ==
    ASSUME IInv, NEW u \in Units, NEW d \in Depots, NEW e \in People, NEW due \in Dates,
           NEW req \in SUBSET Requests, Issue(u, d, e, due, req)
    PROVE  Moves(u)
<1> DEFINE x == Moved(u, With(e), due, unit[u].fit)
<1>1. TypeOK /\ Life(u) = "active" /\ ~IsOn(u, "kit") /\ unit[u].fit \in BOOLEAN
  BY InHand, UnitFields DEF Issue
<1>2. With(e) \in Away /\ With(e) \in Custody /\ With(e)[1] = "employee"
  BY Destinations, Places
<1>3. x \in Unit /\ x.life = "active" /\ x.at = With(e)
  BY <1>1, <1>2, MovedIs
<1>4. Becomes(u, x, With(e)) /\ Mirror(u, x)
  BY DEF Issue
<1>5. /\ register' \in [Linked -> SUBSET People]
      /\ \A v \in Linked \ {u} : register'[v] = register[v]
      /\ u \in Linked => register'[u] = {With(e)[2]}
  <2> HIDE DEF x
  <2>1. QED
    BY <1>1, <1>2, <1>3, <1>4, MirrorIs
<1>6. /\ Alone(u) /\ Life(u)' = Life(u) /\ At(u)' = With(e) /\ last'[u] = With(e) /\ unit'[u].due = due
      /\ ~IsOn(u, "kit")'
  BY <1>1, <1>2, <1>4, <1>5, Leaves
<1>7. ASSUME NEW r \in Requests
      PROVE  /\ promise'[r] \in Promise /\ promise'[r].unit = promise[r].unit
             /\ promise'[r].from = promise[r].from /\ promise'[r].until = promise[r].until
             /\ r \notin req => promise'[r].state = promise[r].state
             /\ r \in req /\ ~(promise[r].state = "active" /\ promise[r].unit = u) => promise'[r].state = promise[r].state
             /\ r \in req /\ promise[r].state = "active" /\ promise[r].unit = u => promise'[r].state = "completed"
  <2>1. promise[r] \in Promise
    BY <1>1 DEF TypeOK
  <2>2. promise'[r] = IF r \notin req THEN promise[r]
                      ELSE [promise[r] EXCEPT !.served = TRUE,
                                              !.state = IF promise[r].state = "active" /\ promise[r].unit = u
                                                        THEN "completed" ELSE promise[r].state]
    BY DEF Issue
  <2>3. CASE r \notin req
    BY <2>1, <2>2, <2>3
  <2>4. CASE r \in req
    <3> DEFINE state == IF promise[r].state = "active" /\ promise[r].unit = u THEN "completed" ELSE promise[r].state
    <3>1. state \in {"none", "active", "out", "completed"}
      BY <2>1 DEF Promise
    <3>2. promise'[r] = [[promise[r] EXCEPT !.served = TRUE] EXCEPT !.state = state]
      BY <2>2, <2>4
    <3>3. /\ promise'[r] \in Promise /\ promise'[r].unit = promise[r].unit
          /\ promise'[r].from = promise[r].from /\ promise'[r].until = promise[r].until /\ promise'[r].state = state
      <4> HIDE DEF state
      <4>1. QED
        BY <2>1, <3>1, <3>2 DEF Promise
    <3>4. QED
      BY <2>4, <3>3
  <2>5. QED
    BY <2>3, <2>4
<1>8. promise' \in [Requests -> Promise]
  BY <1>7 DEF Issue
<1>9. Kept(u)
  BY <1>7, <1>8 DEF Kept
<1>10. ASSUME NEW r \in Requests, promise'[r].state = "active", promise'[r].unit = u, promise'[r].until > now
       PROVE  unit'[u].due <= promise'[r].from
  <2>1. r \notin req /\ promise[r].state = "active"
    BY <1>7, <1>10
  <2>2. due <= promise[r].from
    BY <1>7, <1>10, <2>1, NotPromised DEF Issue
  <2>3. QED
    BY <1>6, <1>7, <2>2
<1>11. SentOut(u)
  BY <1>1, <1>2, <1>5, <1>6, <1>10 DEF SentOut, Held, IsOn
<1>12. QED
  BY <1>6, <1>9, <1>11 DEF Moves, Issue

LEMMA OntoProject ==
    ASSUME IInv, NEW u \in Units, NEW p \in Projects, NEW due \in Dates, Life(u) = "active", ~IsOn(u, "kit"),
           Becomes(u, Moved(u, On(p), due, unit[u].fit), On(p)), UNCHANGED register,
           NEW r \in Requests, promise'[r].unit = u, promise'[r].state = "out"
    PROVE  Alone(u) /\ SentOut(u)
<1>1. TypeOK /\ On(p) \in Away /\ On(p)[1] = "project"
  BY Destinations, Places DEF IInv
<1>2. /\ Alone(u) /\ Life(u)' = Life(u) /\ At(u)' = On(p) /\ last'[u] = On(p)
      /\ ~IsOn(u, "kit")'
  BY <1>1, Leaves DEF TypeOK
<1>3. QED
  BY <1>1, <1>2 DEF SentOut, Held, IsOn

LEMMA DispatchForMoves ==
    ASSUME IInv, NEW u \in Units, NEW d \in Depots, NEW r \in Requests, NEW due \in Dates, DispatchFor(r, u, d, due)
    PROVE  Moves(u)
<1>1. TypeOK /\ Life(u) = "active" /\ ~IsOn(u, "kit") /\ For[r] \in Projects
  BY InHand DEF DispatchFor
<1>2. /\ promise[r] \in Promise /\ promise[r].unit = u /\ promise[r].state = "active"
      /\ promise' = [promise EXCEPT ![r] = [[promise[r] EXCEPT !.state = "out"] EXCEPT !.served = TRUE]]
  BY <1>1 DEF TypeOK, DispatchFor, Taken
<1> DEFINE taken == [[promise[r] EXCEPT !.state = "out"] EXCEPT !.served = TRUE]
<1>3. /\ taken \in Promise /\ taken.unit = u /\ taken.state = "out"
      /\ taken.from = promise[r].from /\ taken.until = promise[r].until
  BY <1>2 DEF Promise
<1> HIDE DEF taken
<1>4. /\ promise' \in [Requests -> Promise] /\ promise'[r] = taken
      /\ \A q \in Requests \ {r} : promise'[q] = promise[q]
  BY <1>1, <1>2, <1>3 DEF TypeOK, taken
<1>5. Kept(u)
  BY <1>2, <1>3, <1>4 DEF Kept
<1>6. Alone(u) /\ SentOut(u)
  BY <1>1, <1>3, <1>4, OntoProject DEF DispatchFor
<1>7. QED
  BY <1>5, <1>6 DEF Moves, DispatchFor

LEMMA HandOverMoves ==
    ASSUME IInv, NEW u \in Units, NEW r \in Requests, NEW due \in Dates, HandOver(u, r, due)
    PROVE  Moves(u)
<1>1. TypeOK /\ Life(u) = "active" /\ ~IsOn(u, "kit") /\ For[r] \in Projects
  BY Placed DEF HandOver, IInv
<1>2. PICK back \in GaveBack(promise, At(u)[2], u) :
         \/ /\ promise[r].unit = u /\ promise[r].state = "active"
            /\ promise' = [back EXCEPT ![r] = [[back[r] EXCEPT !.state = "out"] EXCEPT !.served = TRUE]]
         \/ /\ promise[r].state = "none"
            /\ promise' = [back EXCEPT ![r] = [unit |-> u, state |-> "out", from |-> now, until |-> due, served |-> TRUE]]
  BY DEF HandOver
<1>3. /\ back \in [Requests -> Promise] /\ promise \in [Requests -> Promise]
      /\ \A q \in Requests :
            \/ back[q] = promise[q]
            \/ /\ promise[q].unit = u /\ promise[q].state = "out"
               /\ back[q] = [promise[q] EXCEPT !.state = "completed"]
  BY <1>1, Returned DEF TypeOK
<1>4. PICK taken \in Promise :
         /\ taken.unit = u /\ taken.state = "out" /\ taken.from <= MaxTime
         /\ promise' = [back EXCEPT ![r] = taken]
  <2>1. CASE promise[r].state = "none"
    <3>1. now \in 0..Never /\ due \in 0..Never /\ now <= MaxTime
      BY <1>1, Dated DEF TypeOK, Dates, Never
    <3>2. [unit |-> u, state |-> "out", from |-> now, until |-> due, served |-> TRUE] \in Promise
      BY <3>1 DEF Promise
    <3>3. QED
      BY <1>2, <1>3, <2>1, <3>1, <3>2
  <2>2. CASE promise[r].state # "none"
    <3>1. promise[r].unit = u /\ promise[r].state = "active" /\ back[r] = promise[r] /\ promise[r] \in Promise
      BY <1>2, <1>3, <2>2
    <3>2. promise' = [back EXCEPT ![r] = [[promise[r] EXCEPT !.state = "out"] EXCEPT !.served = TRUE]]
      BY <1>2, <2>2, <3>1
    <3>3. promise[r].from <= MaxTime
      BY <2>2 DEF IInv, PromisedUnits
    <3> DEFINE taken == [[promise[r] EXCEPT !.state = "out"] EXCEPT !.served = TRUE]
    <3>4. taken \in Promise /\ taken.unit = u /\ taken.state = "out" /\ taken.from = promise[r].from
      BY <3>1 DEF Promise
    <3>5. promise' = [back EXCEPT ![r] = taken]
      BY <3>2
    <3> HIDE DEF taken
    <3>6. QED
      BY <3>3, <3>4, <3>5
  <2>3. QED
    BY <2>1, <2>2
<1>5. promise' \in [Requests -> Promise] /\ promise'[r] = taken /\ \A q \in Requests \ {r} : promise'[q] = back[q]
  BY <1>3, <1>4
<1>6. ASSUME NEW q \in Requests \ {r}
      PROVE  /\ promise'[q].unit = promise[q].unit /\ promise'[q].from = promise[q].from
             /\ promise'[q].until = promise[q].until
             /\ \/ promise'[q].state = promise[q].state
                \/ promise[q].unit = u /\ promise[q].state = "out" /\ promise'[q].state = "completed"
  <2>1. promise'[q] = back[q] /\ promise[q] \in Promise
    BY <1>3, <1>5
  <2>2. CASE back[q] = promise[q]
    BY <2>1, <2>2
  <2>3. CASE back[q] = [promise[q] EXCEPT !.state = "completed"] /\ promise[q].unit = u /\ promise[q].state = "out"
    BY <2>1, <2>3 DEF Promise
  <2>4. QED
    BY <1>3, <2>2, <2>3
<1>7. promise[r].unit = u \/ promise[r].state = "none"
  BY <1>2
<1>8. Kept(u)
  BY <1>1, <1>4, <1>5, <1>6, <1>7 DEF Kept
<1>9. Alone(u) /\ SentOut(u)
  <2>1. promise'[r].unit = u /\ promise'[r].state = "out"
    BY <1>4, <1>5
  <2>2. Becomes(u, Moved(u, On(For[r]), due, unit[u].fit), On(For[r])) /\ UNCHANGED register
    BY DEF HandOver
  <2>3. QED
    BY <1>1, <2>1, <2>2, OntoProject
<1>10. QED
  BY <1>8, <1>9 DEF Moves, HandOver

------------------------------------------------------------------------------
(* A step moves one unit, packs or unpacks one, or leaves them all where they are. *)
Still == UNCHANGED <<unit, last, register>>

Packing(k, u) ==
    \E d \in Depots, i \in Items : Pack(k, d, i, u)
Unpacking(k, u) ==
    \E d \in Depots : Unpack(k, d, u)

LEMMA Steps ==
    ASSUME IInv, Next
    PROVE  \/ Still /\ UNCHANGED <<now, promise, checklist>> /\ counted' \in [Units -> CountLine] /\ Counted'
           \/ \E u \in Units : Moves(u)
           \/ \E k \in Kits, u \in Units : Packing(k, u) \/ Unpacking(k, u)
           \/ \E k \in Kits, d \in Depots, i \in Items : PackMissing(k, d, i) \/ SetKitLine(k, i) \/ RemoveKitLine(k, i)
           \/ \E r \in Requests : Release(r) \/ \E u \in Units, d \in Depots : Reserve(r, u, d)
           \/ Tick
<1> DEFINE Goal == Still /\ UNCHANGED <<now, promise, checklist>> /\ counted' \in [Units -> CountLine] /\ Counted'
<1>1. ASSUME NEW u \in Units, NEW d \in Depots, Arrive(u, d)
      PROVE  Moves(u)
  <2>1. Shelf(d) \in Custody /\ Shelf(d)[1] # "kit" /\ Never \in Dates
    BY Places, Dated
  <2>2. \A at \in {With(e) : e \in People} \cup {On(p) : p \in Projects} : at \in Custody /\ at[1] # "kit"
    BY Places
  <2>3. QED
    BY <1>1, <2>1, <2>2, ReceiveMoves, ImportMoves, RegisterMoves DEF Arrive
<1>2. ASSUME NEW u \in Units, NEW d \in Depots, Counting(u, d)
      PROVE  Goal \/ Moves(u)
  <2>1. ASSUME NEW kind \in {"opening", "cycle"}, NEW n \in {0, 1}, SaveCountLine(u, kind, d, n)
        PROVE  Goal
    <3>1. [kind |-> kind, depot |-> d, n |-> n] \in CountLine
      BY DEF CountLine
    <3>2. QED
      BY <2>1, <3>1 DEF SaveCountLine, Still, IInv, TypeOK, Counted
  <2>2. counted' = [counted EXCEPT ![u] = NoLine] => counted' \in [Units -> CountLine] /\ Counted'
    <3>1. NoLine \in CountLine /\ NoLine.kind = "none"
      BY DEF NoLine, CountLine
    <3>2. QED
      BY <3>1 DEF IInv, TypeOK, Counted
  <2>3. ASSUME NEW fit \in BOOLEAN, ConfirmCountLine(u, fit)
        PROVE  Goal \/ Moves(u)
    BY <2>2, <2>3, CountMoves DEF ConfirmCountLine, Still
  <2>4. ASSUME DropCountLine(u)
        PROVE  Goal
    BY <2>2, <2>4 DEF DropCountLine, Still
  <2>5. QED
    BY <1>2, <2>1, <2>3, <2>4 DEF Counting
<1>3. ASSUME NEW u \in Units, NEW d \in Depots, Out(u, d)
      PROVE  Moves(u)
  BY <1>3, IssueMoves, DispatchMoves, DispatchForMoves, HandOverMoves, TransferMoves, RepairMoves, ReassignMoves DEF Out
<1>4. ASSUME NEW u \in Units, NEW d \in Depots, Back(u, d)
      PROVE  Moves(u)
  BY <1>4, BackFromEmployee, BackFromProject, BackFromTransit, BackFromRepair DEF Back
<1>5. ASSUME NEW u \in Units, NEW d \in Depots, Record(u, d)
      PROVE  Moves(u)
  BY <1>5, CheckMoves, MissingMoves, RetireMoves, RentalMoves, FoundMoves, OpeningMoves DEF Record
<1> HIDE DEF Goal
<1>6. QED
  BY <1>1, <1>2, <1>3, <1>4, <1>5 DEF Next, Kitting, Packing, Unpacking, Goal

LEMMA PackIs ==
    ASSUME IInv, NEW k \in Kits, NEW u \in Units, NEW d \in Depots, NEW i \in Items, Pack(k, d, i, u)
    PROVE  /\ Alone(u) /\ Life(u) = "active" /\ Life(u)' = "active" /\ At(u)' = In(k) /\ last'[u] = In(k)
           /\ ~IsOn(u, "kit") /\ IsOn(u, "kit")' /\ u # k /\ Life(k) = "active"
<1> DEFINE x == Moved(u, In(k), Never, unit[u].fit)
<1>1. TypeOK /\ Life(u) = "active" /\ ~IsOn(u, "kit") /\ unit[u].fit \in BOOLEAN /\ Life(k) = "active" /\ u # k
  BY InHand, UnitFields, UnitData DEF Pack
<1>2. In(k) \in Custody /\ In(k)[1] = "kit" /\ Never \in Dates
  BY Places, Dated
<1>3. x \in Unit /\ x.life = Life(u) /\ x.at = In(k)
  BY <1>1, <1>2, MovedIs
<1>4. Becomes(u, x, In(k)) /\ UNCHANGED register
  BY DEF Pack
<1> HIDE DEF x
<1>5. QED
  BY <1>1, <1>2, <1>3, <1>4, BecomesIs DEF Alone, IsOn, TypeOK

LEMMA UnpackIs ==
    ASSUME IInv, NEW k \in Kits, NEW u \in Units, NEW d \in Depots, Unpack(k, d, u)
    PROVE  /\ Alone(u) /\ Life(u) = "active" /\ Life(u)' = "active" /\ last'[u] = At(u)'
           /\ IsOn(u, "kit") /\ ~IsOn(u, "kit")' /\ IsOn(u, "warehouse")'
<1> DEFINE x == Moved(u, Shelf(d), Never, unit[u].fit)
<1>1. TypeOK /\ unit[u].fit \in BOOLEAN /\ IsOn(u, "kit")
  BY UnitFields, Places DEF IInv, Unpack, IsOn
<1>2. Life(u) = "active"
  BY <1>1 DEF IInv, NothingStranded
<1>3. Shelf(d) \in Custody /\ Shelf(d)[1] = "warehouse" /\ Never \in Dates
  BY Places, Dated
<1>4. x \in Unit /\ x.life = Life(u) /\ x.at = Shelf(d)
  BY <1>1, <1>3, MovedIs
<1>5. Becomes(u, x, Shelf(d)) /\ UNCHANGED register
  BY DEF Unpack
<1> HIDE DEF x
<1>6. QED
  BY <1>1, <1>2, <1>3, <1>4, <1>5, BecomesIs DEF Alone, IsOn, TypeOK

(* One line of a checklist is written. *)
LEMMA WriteIs ==
    ASSUME TypeOK, NEW k \in Kits, NEW i \in Items, NEW status \in {"none", "present", "missing", "substituted"},
           NEW v \in Units \cup {None}, Write(k, i, status, v)
    PROVE  /\ checklist' \in [Kits -> [Items -> KitLine]] /\ Line(k, i)'.unit = v
           /\ \A l \in Kits, j \in Items : <<l, j>> # <<k, i>> => Line(l, j)' = Line(l, j)
<1> DEFINE line == [status |-> status, unit |-> v]
<1>1. line \in KitLine /\ line.unit = v
  BY DEF KitLine
<1>2. checklist' = [checklist EXCEPT ![k][i] = line]
  BY DEF Write
<1> HIDE DEF line
<1>3. QED
  BY <1>1, <1>2 DEF TypeOK, Line

LEMMA Lines ==
    ASSUME TypeOK, NEW k \in Kits, NEW i \in Items
    PROVE  Line(k, i).status \in {"none", "present", "missing", "substituted"} /\ Line(k, i).unit \in Units \cup {None}
BY DEF TypeOK, KitLine, Line

LEMMA ClearedIs ==
    ASSUME TypeOK, NEW u \in Units, checklist' = Cleared(u)
    PROVE  /\ checklist' \in [Kits -> [Items -> KitLine]]
           /\ \A l \in Kits, j \in Items :
                 Line(l, j)'.unit = IF Line(l, j).unit = u THEN None ELSE Line(l, j).unit
<1>1. [status |-> "missing", unit |-> None] \in KitLine
  BY DEF KitLine
<1>2. ASSUME NEW l \in Kits, NEW j \in Items
      PROVE  Line(l, j) \in KitLine
  BY DEF TypeOK, Line
<1>3. QED
  BY <1>1, <1>2 DEF Cleared, Line

LEMMA ReserveIs ==
    ASSUME IInv, NEW r \in Requests, NEW u \in Units, NEW d \in Depots, Reserve(r, u, d)
    PROVE  /\ promise' \in [Requests -> Promise] /\ promise[r].state = "none"
           /\ promise'[r].unit = u /\ promise'[r].state = "active" /\ promise'[r].from <= MaxTime
           /\ promise'[r].from = Window[r][1]
           /\ \A q \in Requests \ {r} : promise'[q] = promise[q]
<1> DEFINE p == [[[[promise[r] EXCEPT !.unit = u] EXCEPT !.state = "active"] EXCEPT !.from = Window[r][1]] EXCEPT !.until = Window[r][2]]
<1>1. promise \in [Requests -> Promise]
  BY DEF IInv, TypeOK
<1>2. Window[r][1] \in 0..Never /\ Window[r][2] \in 0..Never /\ Window[r][1] <= MaxTime
  BY UnitData DEF Never
<1>3. p \in Promise /\ p.unit = u /\ p.state = "active" /\ p.from = Window[r][1]
  BY <1>1, <1>2 DEF Promise
<1>4. promise' = [promise EXCEPT ![r] = p]
  BY DEF Reserve
<1> HIDE DEF p
<1>5. QED
  BY <1>1, <1>2, <1>3, <1>4 DEF Reserve

LEMMA ReleaseIs ==
    ASSUME IInv, NEW r \in Requests, Release(r)
    PROVE  /\ promise' \in [Requests -> Promise] /\ promise[r].state = "active" /\ promise'[r].state = "none"
           /\ \A q \in Requests \ {r} : promise'[q] = promise[q]
<1> DEFINE p == [NoPromise EXCEPT !.served = promise[r].served]
<1>1. promise \in [Requests -> Promise] /\ promise[r].served \in BOOLEAN
  BY DEF IInv, TypeOK, Promise
<1>2. p \in Promise /\ p.state = "none"
  BY <1>1, Dated DEF Promise, NoPromise, Dates
<1>3. promise' = [promise EXCEPT ![r] = p]
  BY DEF Release
<1> HIDE DEF p
<1>4. QED
  BY <1>1, <1>2, <1>3 DEF Release

------------------------------------------------------------------------------
(* The invariant holds at first, and each part of it after every step. *)

LEMMA InitIInv == Init => IInv
<1> SUFFICES ASSUME Init PROVE IInv
  OBVIOUS
<1>1. [life |-> "unknown", at |-> Nowhere, place |-> None, fit |-> TRUE, due |-> Never] \in Unit
  BY Dated DEF Unit, Dates
<1>2. NoPromise \in Promise /\ NoPromise.state = "none"
  BY Dated DEF NoPromise, Promise, Dates
<1>3. NoLine \in CountLine /\ NoLine.kind = "none"
  BY DEF NoLine, CountLine
<1>4. [status |-> "none", unit |-> None] \in KitLine
  BY DEF KitLine
<1>5. TypeOK
  BY <1>1, <1>2, <1>3, <1>4, Dated DEF Init, TypeOK
<1>6. \A u \in Units : Life(u) = "unknown" /\ At(u) = Nowhere /\ last[u] = None /\ ~IsOn(u, "kit")
  BY Places DEF Init, Life, At, IsOn
<1>7. Counted /\ PromisedUnits /\ BookedComesBack
  BY <1>2, <1>3 DEF Init, Counted, PromisedUnits, BookedComesBack
<1>8. UnknownIsNowhere /\ InUseWhereLedgerSays /\ HolderInRegister /\ NothingStranded
  BY <1>6, UnitData DEF UnknownIsNowhere, InUseWhereLedgerSays, HolderInRegister, NothingStranded
<1>9. PackedOnList
  BY <1>6, UnitData DEF PackedOnList, Init, Line
<1>10. QED
  BY <1>5, <1>7, <1>8, <1>9 DEF IInv

LEMMA TypesStep == ASSUME IInv, Next PROVE TypeOK' /\ Counted'
<1>0. TypeOK /\ Counted
  BY DEF IInv
<1>1. ASSUME NEW u \in Units, Moves(u) PROVE TypeOK' /\ Counted'
  <2>1. NoLine \in CountLine /\ NoLine.kind = "none"
    BY DEF NoLine, CountLine
  <2>2. counted' \in [Units -> CountLine] /\ Counted'
    BY <1>0, <1>1, <2>1 DEF Moves, TypeOK, Counted
  <2>3. QED
    BY <1>0, <1>1, <2>2 DEF Moves, Alone, Kept, TypeOK, Ledgered
<1>2. ASSUME NEW k \in Kits, NEW u \in Units, Packing(k, u) \/ Unpacking(k, u) PROVE TypeOK' /\ Counted'
  <2>1. ASSUME NEW d \in Depots, NEW i \in Items, Pack(k, d, i, u) PROVE TypeOK' /\ Counted'
    <3>1. checklist' \in [Kits -> [Items -> KitLine]]
      BY <1>0, <2>1, WriteIs DEF Pack
    <3>2. QED
      BY <1>0, <2>1, <3>1, PackIs DEF Pack, Alone, TypeOK, Ledgered, Counted
  <2>2. ASSUME NEW d \in Depots, Unpack(k, d, u) PROVE TypeOK' /\ Counted'
    <3>1. checklist' \in [Kits -> [Items -> KitLine]]
      BY <1>0, <2>2, ClearedIs DEF Unpack
    <3>2. QED
      BY <1>0, <2>2, <3>1, UnpackIs DEF Unpack, Alone, TypeOK, Ledgered, Counted
  <2>3. QED
    BY <1>2, <2>1, <2>2 DEF Packing, Unpacking
<1>3. ASSUME NEW k \in Kits, NEW d \in Depots, NEW i \in Items,
             PackMissing(k, d, i) \/ SetKitLine(k, i) \/ RemoveKitLine(k, i)
      PROVE  TypeOK' /\ Counted'
  <2>1. checklist' \in [Kits -> [Items -> KitLine]]
    BY <1>0, <1>3, WriteIs, Lines DEF PackMissing, SetKitLine, RemoveKitLine
  <2>2. UNCHANGED <<now, unit, last, promise, counted, register>>
    BY <1>3 DEF PackMissing, SetKitLine, RemoveKitLine
  <2>3. QED
    BY <1>0, <2>1, <2>2 DEF TypeOK, Counted
<1>4. ASSUME NEW r \in Requests, Release(r) \/ \E u \in Units, d \in Depots : Reserve(r, u, d) PROVE TypeOK' /\ Counted'
  <2>1. promise' \in [Requests -> Promise]
    BY <1>4, ReleaseIs, ReserveIs
  <2>2. QED
    BY <1>0, <1>4, <2>1 DEF Release, Reserve, TypeOK, Counted
<1>5. ASSUME Tick PROVE TypeOK' /\ Counted'
  BY <1>0, <1>5, Dated DEF Tick, TypeOK, Counted
<1>6. QED
  BY <1>0, <1>1, <1>2, <1>3, <1>4, <1>5, Steps DEF Still, TypeOK

(* The unit a step is about keeps its records; the others keep what they have. *)
LEMMA RecordsStep ==
    ASSUME IInv, Next
    PROVE  UnknownIsNowhere' /\ InUseWhereLedgerSays' /\ HolderInRegister'
<1> DEFINE Good(u) == /\ Life(u)' = "unknown" => At(u)' = Nowhere /\ last'[u] = None
                      /\ Life(u)' \in {"draft", "active"} /\ last'[u] # None => At(u)' = last'[u]
                      /\ u \in Linked /\ Life(u)' = "active" /\ IsOn(u, "employee")' => register'[u] = {At(u)'[2]}
<1>1. ASSUME NEW u \in Units, unit'[u] = unit[u], last'[u] = last[u], u \in Linked => register'[u] = register[u]
      PROVE  Good(u)
  BY <1>1 DEF IInv, UnknownIsNowhere, InUseWhereLedgerSays, HolderInRegister, Life, At, IsOn
<1>2. ASSUME NEW u \in Units, Moves(u)
      PROVE  Good(u)
  <2>1. CASE Entered(u)
    BY <2>1 DEF Entered, IInv, UnknownIsNowhere
  <2>2. CASE Shelved(u)
    BY <2>2 DEF Shelved, IsOn
  <2>3. CASE SentOut(u)
    BY <2>3 DEF SentOut, Held
  <2>4. CASE Opened(u)
    BY <2>4 DEF Opened, Held
  <2>5. CASE Dropped(u)
    BY <2>5 DEF Dropped
  <2>6. QED
    BY <1>2, <2>1, <2>2, <2>3, <2>4, <2>5 DEF Moves
<1>3. ASSUME NEW k \in Kits, NEW u \in Units, Packing(k, u) \/ Unpacking(k, u)
      PROVE  Good(u)
  BY <1>3, PackIs, UnpackIs, Places DEF Packing, Unpacking, IsOn
<1> DEFINE Others(u) == \A v \in Units \ {u} : unit'[v] = unit[v] /\ last'[v] = last[v] /\ (v \in Linked => register'[v] = register[v])
<1>4. ASSUME NEW u \in Units, Alone(u)
      PROVE  Others(u)
  BY <1>4 DEF Alone
<1>5. ASSUME NEW u \in Units, Good(u), Others(u)
      PROVE  \A v \in Units : Good(v)
  BY <1>1, <1>5
<1> HIDE DEF Good, Others
<1>6. \A u \in Units : Good(u)
  <2>1. CASE Still
    BY <1>1, <2>1, UnitData DEF Still
  <2>2. CASE ~Still
    <3>1. PICK u \in Units : Moves(u) \/ \E k \in Kits : Packing(k, u) \/ Unpacking(k, u)
      BY <2>2, Steps DEF Still, PackMissing, SetKitLine, RemoveKitLine, Release, Reserve, Tick
    <3>2. Good(u) /\ Others(u)
      BY <1>2, <1>3, <1>4, <3>1, PackIs, UnpackIs DEF Moves, Packing, Unpacking
    <3>3. QED
      BY <1>5, <3>2
  <2>3. QED
    BY <2>1, <2>2
<1>7. QED
  BY <1>6, UnitData DEF Good, UnknownIsNowhere, InUseWhereLedgerSays, HolderInRegister

(* Only Pack puts something into a kit, and what is in one does not go out of use. *)
LEMMA StrandedStep == ASSUME IInv, Next PROVE NothingStranded'
<1> DEFINE Safe(u) == \A k \in Kits : At(u) = In(k) => Life(u) = "active" /\ (k \notin Rented => Life(k) # "retired")
<1>1. \A u \in Units : Safe(u)
  BY Places DEF IInv, NothingStranded, IsOn
<1>2. \A k \in Kits, u \in Units : ~IsOn(u, "kit") => At(u) # In(k)
  BY Places DEF IsOn
<1>3. ASSUME NEW u \in Units, Moves(u), NEW v \in Units
      PROVE  Safe(v)'
  <2>1. ~IsOn(u, "kit")'
    <3>1. Life(u) # "active" => ~IsOn(u, "kit")
      BY DEF IInv, NothingStranded
    <3>2. QED
      BY <1>3, <3>1 DEF Moves, Entered, Opened, Shelved, Dropped, SentOut, IsOn
  <2>2. CASE v = u
    BY <2>1, <2>2, Places DEF IsOn
  <2>3. CASE v # u
    <3> SUFFICES ASSUME NEW k \in Kits, At(v)' = In(k)
                 PROVE  Life(v)' = "active" /\ (k \notin Rented => Life(k)' # "retired")
      OBVIOUS
    <3>1. At(v) = In(k) /\ Life(v)' = Life(v)
      BY <1>3, <2>3 DEF Moves, Alone, At, Life
    <3>2. Life(v) = "active" /\ (k \notin Rented => Life(k) # "retired")
      BY <1>1, <3>1
    <3>3. CASE k # u
      BY <1>3, <3>1, <3>2, <3>3, UnitData DEF Moves, Alone, Life
    <3>4. CASE k = u
      <4>1. ~Emptied(u)
        BY <3>1, <3>4 DEF Emptied
      <4>2. QED
        BY <1>3, <3>1, <3>2, <3>4, <4>1 DEF Moves, Entered, Shelved, SentOut, Opened, Dropped
    <3>5. QED
      BY <3>3, <3>4
  <2>4. QED
    BY <2>2, <2>3
<1>4. ASSUME NEW l \in Kits, NEW u \in Units, Packing(l, u) \/ Unpacking(l, u), NEW v \in Units
      PROVE  Safe(v)'
  <2>1. /\ Alone(u) /\ Life(u) = "active" /\ Life(u)' = "active"
        /\ ~IsOn(u, "kit")' \/ (At(u)' = In(l) /\ Life(l) = "active")
    BY <1>4, PackIs, UnpackIs DEF Packing, Unpacking
  <2>2. \A k \in Kits : Life(k)' = Life(k)
    BY <2>1, UnitData DEF Alone, Life
  <2>3. CASE v = u
    BY <2>1, <2>2, <2>3, Places DEF IsOn
  <2>4. CASE v # u
    <3>1. Life(v)' = Life(v) /\ At(v)' = At(v)
      BY <2>1, <2>4 DEF Alone, Life, At
    <3>2. QED
      BY <1>1, <2>2, <3>1
  <2>5. QED
    BY <2>3, <2>4
<1>5. ASSUME UNCHANGED unit, NEW v \in Units
      PROVE  Safe(v)'
  BY <1>1, <1>5 DEF At, Life
<1> HIDE DEF Safe
<1>6. \A v \in Units : Safe(v)'
  BY <1>3, <1>4, <1>5, Steps DEF Still, PackMissing, SetKitLine, RemoveKitLine, Release, Reserve, Tick
<1>7. ASSUME NEW u \in Units, IsOn(u, "kit")'
      PROVE  \E k \in Kits : At(u)' = In(k) /\ At(u)'[2] = k
  <2>1. TypeOK'
    BY TypesStep
  <2>2. At(u)' \in Custody \cup {Nowhere}
    BY <2>1 DEF TypeOK, Unit, At
  <2>3. QED
    BY <1>7, <2>2, Places DEF IsOn
<1>8. QED
  BY <1>6, <1>7 DEF Safe, NothingStranded

(* The lines that hold u. *)
Holds(u) == {kl \in Kits \X Items : Line(kl[1], kl[2]).unit = u}

LEMMA ListedStep == ASSUME IInv, Next PROVE PackedOnList'
<1>0. \A u \in Units : IF IsOn(u, "kit") THEN \E i \in Items : Holds(u) = {<<At(u)[2], i>>} ELSE Holds(u) = {}
  BY DEF IInv, PackedOnList, Holds
<1> DEFINE Listed(u) == IF IsOn(u, "kit") THEN \E i \in Items : Holds(u) = {<<At(u)[2], i>>} ELSE Holds(u) = {}
<1>1. ASSUME NEW v \in Units, unit'[v] = unit[v], Holds(v)' = Holds(v)
      PROVE  Listed(v)'
  BY <1>0, <1>1 DEF IsOn, At
<1>2. ASSUME UNCHANGED checklist PROVE \A v \in Units : Holds(v)' = Holds(v)
  BY <1>2 DEF Holds, Line
<1>3. ASSUME NEW u \in Units, Moves(u), NEW v \in Units
      PROVE  Listed(v)'
  <2>1. ~IsOn(u, "kit") /\ ~IsOn(u, "kit")'
    <3>1. Life(u) # "active" => ~IsOn(u, "kit")
      BY DEF IInv, NothingStranded
    <3>2. QED
      BY <1>3, <3>1 DEF Moves, Entered, Opened, Shelved, Dropped, SentOut, IsOn
  <2>2. QED
    BY <1>0, <1>1, <1>2, <1>3, <2>1 DEF Moves, Alone
<1>4. ASSUME NEW k \in Kits, NEW u \in Units, NEW d \in Depots, NEW i \in Items, Pack(k, d, i, u), NEW v \in Units
      PROVE  Listed(v)'
  <2>1. /\ Line(k, i)'.unit = u /\ Line(k, i).unit = None
        /\ \A l \in Kits, j \in Items : <<l, j>> # <<k, i>> => Line(l, j)' = Line(l, j)
    BY <1>4, WriteIs DEF Pack, IInv
  <2>2. CASE v = u
    <3>1. IsOn(u, "kit")' /\ At(u)'[2] = k
      BY <1>4, PackIs, Places
    <3>2. Holds(u) = {}
      BY <1>4 DEF Pack, Holds
    <3>3. Holds(u)' = {<<k, i>>}
      BY <2>1, <3>2 DEF Holds
    <3>4. QED
      BY <2>2, <3>1, <3>3
  <2>3. CASE v # u
    <3>1. Holds(v)' = Holds(v)
      BY <2>1, <2>3, UnitData DEF Holds
    <3>2. QED
      BY <1>1, <1>4, <2>3, <3>1, PackIs DEF Alone
  <2>4. QED
    BY <2>2, <2>3
<1>5. ASSUME NEW k \in Kits, NEW u \in Units, NEW d \in Depots, Unpack(k, d, u), NEW v \in Units
      PROVE  Listed(v)'
  <2>1. \A l \in Kits, j \in Items : Line(l, j)'.unit = IF Line(l, j).unit = u THEN None ELSE Line(l, j).unit
    BY <1>5, ClearedIs DEF Unpack, IInv
  <2>2. CASE v = u
    <3>1. Holds(u)' = {}
      BY <2>1, UnitData DEF Holds
    <3>2. QED
      BY <1>5, <2>2, <3>1, UnpackIs
  <2>3. CASE v # u
    <3>1. Holds(v)' = Holds(v)
      BY <2>1, <2>3, UnitData DEF Holds
    <3>2. QED
      BY <1>1, <1>5, <2>3, <3>1, UnpackIs DEF Alone
  <2>4. QED
    BY <2>2, <2>3
<1>6. ASSUME NEW k \in Kits, NEW d \in Depots, NEW i \in Items,
             PackMissing(k, d, i) \/ SetKitLine(k, i) \/ RemoveKitLine(k, i), NEW v \in Units
      PROVE  Listed(v)'
  <2>1. \A l \in Kits, j \in Items : Line(l, j)'.unit = Line(l, j).unit
    <3>1. Line(k, i).status \in {"none", "present", "missing", "substituted"} /\ Line(k, i).unit \in Units \cup {None}
      BY Lines DEF IInv
    <3>2. PICK status \in {"none", "present", "missing", "substituted"} : Write(k, i, status, Line(k, i).unit)
      BY <1>6, <3>1 DEF PackMissing, SetKitLine, RemoveKitLine
    <3>3. Line(k, i)'.unit = Line(k, i).unit
      BY <3>1, <3>2, WriteIs DEF IInv
    <3>4. ASSUME NEW l \in Kits, NEW j \in Items, <<l, j>> # <<k, i>> PROVE Line(l, j)' = Line(l, j)
      BY <3>1, <3>2, <3>4, WriteIs DEF IInv
    <3>5. QED
      BY <3>3, <3>4
  <2>2. Holds(v)' = Holds(v)
    BY <2>1 DEF Holds
  <2>3. QED
    BY <1>1, <1>6, <2>2 DEF PackMissing, SetKitLine, RemoveKitLine
<1>7. ASSUME UNCHANGED <<unit, checklist>>, NEW v \in Units
      PROVE  Listed(v)'
  BY <1>1, <1>2, <1>7
<1> HIDE DEF Listed
<1>8. \A v \in Units : Listed(v)'
  BY <1>3, <1>4, <1>5, <1>6, <1>7, Steps DEF Packing, Unpacking, Still, Release, Reserve, Tick
<1>9. QED
  BY <1>8 DEF Listed, PackedOnList, Holds

LEMMA PromisedStep == ASSUME IInv, Next PROVE PromisedUnits'
<1> DEFINE InUse(u) == u \in Units /\ Life(u) \notin {"unknown", "draft"}
           Fine(r) == promise[r].state # "none" => InUse(promise[r].unit) /\ promise[r].from <= MaxTime
<1>0. \A r \in Requests : Fine(r)
  BY DEF IInv, PromisedUnits
<1>1. ASSUME NEW u \in Units, Moves(u), NEW r \in Requests
      PROVE  Fine(r)'
  <2>1. \A v \in Units : InUse(v) => InUse(v)'
    <3>1. InUse(u) => InUse(u)'
      BY <1>1 DEF Moves, Entered, Shelved, SentOut, Opened, Dropped
    <3>2. QED
      BY <1>1, <3>1 DEF Moves, Alone, Life
  <2>2. CASE promise[r].state # "none" /\ promise'[r].unit = promise[r].unit /\ promise'[r].from = promise[r].from
    BY <1>0, <2>1, <2>2
  <2>3. CASE promise'[r].state # "none" /\ promise'[r].unit = u /\ promise'[r].from <= MaxTime /\ promise'[r].state # "active"
             /\ InUse(u)
    BY <2>1, <2>3
  <2>4. QED
    BY <1>1, <2>2, <2>3 DEF Moves, Kept
<1>2. ASSUME NEW k \in Kits, NEW u \in Units, Packing(k, u) \/ Unpacking(k, u), NEW r \in Requests
      PROVE  Fine(r)'
  <2>1. Alone(u) /\ Life(u)' = Life(u) /\ UNCHANGED promise
    BY <1>2, PackIs, UnpackIs DEF Packing, Unpacking, Pack, Unpack
  <2>2. \A v \in Units : Life(v)' = Life(v)
    BY <2>1 DEF Alone, Life
  <2>3. QED
    BY <1>0, <2>1, <2>2
<1>3. ASSUME NEW q \in Requests, NEW u \in Units, NEW d \in Depots, Reserve(q, u, d), NEW r \in Requests
      PROVE  Fine(r)'
  <2>1. Life(u) = "active" /\ UNCHANGED unit
    BY <1>3 DEF Reserve, Free
  <2>2. QED
    BY <1>0, <1>3, <2>1, ReserveIs DEF Life
<1>4. ASSUME NEW q \in Requests, Release(q), NEW r \in Requests
      PROVE  Fine(r)'
  BY <1>0, <1>4, ReleaseIs DEF Release, Life
<1>5. ASSUME UNCHANGED <<unit, promise>>, NEW r \in Requests
      PROVE  Fine(r)'
  BY <1>0, <1>5 DEF Life
<1>6. \A r \in Requests : Fine(r)'
  <2> HIDE DEF Fine
  <2>1. QED
    BY <1>1, <1>2, <1>3, <1>4, <1>5, Steps DEF Still, PackMissing, SetKitLine, RemoveKitLine, Tick
<1>7. QED
  BY <1>6 DEF PromisedUnits

(* An active promise whose window is not over reserves its unit. *)
LEMMA ActiveReserves ==
    ASSUME IInv, NEW r \in Requests, promise[r].state = "active", promise[r].until > now
    PROVE  ReservedBy(promise[r].unit, Never, {})
<1>1. promise[r].from < Never
  <2>1. promise[r].from \in Int /\ promise[r].from <= MaxTime
    BY Dated DEF IInv, PromisedUnits, TypeOK, Promise
  <2>2. QED
    BY <2>1, Dated DEF Never
<1>2. Live(r) /\ r \in Requests \ {}
  BY DEF Live
<1>3. \E q \in Requests \ {} : Live(q) /\ promise[q].unit = promise[r].unit /\ promise[q].from < Never /\ promise[q].until > now
  BY <1>1, <1>2
<1>4. QED
  BY <1>3, Zenon DEF ReservedBy

LEMMA BookedStep == ASSUME IInv, Next PROVE BookedComesBack'
<1> DEFINE Excused(u, from) == unit[u].due <= from \/ \E q \in Requests : promise[q].unit = u /\ promise[q].state = "out"
           Near(u, from) == /\ Life(u) = "retired" => u \in Rented
                            /\ ~IsOn(u, "kit")
                            /\ Life(u) = "active" /\ ~IsOn(u, "warehouse") => Excused(u, from)
           Bound(r) == promise[r].state = "active" /\ promise[r].until > now => Near(promise[r].unit, promise[r].from)
<1>0. \A r \in Requests : Bound(r)
  BY DEF IInv, BookedComesBack
<1> DEFINE InUse(r) == promise[r].unit \in Units /\ Life(promise[r].unit) \notin {"unknown", "draft"}
<1>1. \A r \in Requests : promise[r].state = "active" => InUse(r)
  BY DEF IInv, PromisedUnits
<1>2. ASSUME NEW u \in Units, Moves(u), NEW r \in Requests, promise'[r].state = "active", promise'[r].until > now'
      PROVE  Bound(r)'
  <2>1. /\ promise[r].state = "active" /\ promise'[r].unit = promise[r].unit /\ promise'[r].from = promise[r].from
        /\ promise[r].until > now
    BY <1>2 DEF Moves, Kept
  <2>2. Near(promise[r].unit, promise[r].from) /\ InUse(r)
    BY <1>0, <1>1, <2>1
  <2>3. CASE promise[r].unit = u
    <3>1. CASE Shelved(u)
      BY <2>1, <2>2, <2>3, <3>1 DEF Shelved, IsOn
    <3>2. CASE SentOut(u)
      BY <1>2, <2>1, <2>2, <2>3, <3>2 DEF SentOut, Moves
    <3>3. CASE Dropped(u)
      <4>1. ReservedBy(u, Never, {})
        BY <2>1, <2>3, ActiveReserves
      <4>2. QED
        BY <2>1, <2>3, <3>3, <4>1 DEF Dropped, IsOn
    <3>4. QED
      BY <1>2, <2>2, <2>3, <3>1, <3>2, <3>3 DEF Moves, Entered, Opened
  <2>4. CASE promise[r].unit # u
    <3>1. unit'[promise[r].unit] = unit[promise[r].unit]
      BY <1>2, <2>2, <2>4 DEF Moves, Alone
    <3>2. ASSUME NEW q \in Requests, promise[q].unit = promise[r].unit, promise[q].state = "out"
          PROVE  promise'[q].unit = promise[q].unit /\ promise'[q].state = "out"
      BY <1>2, <2>4, <3>2 DEF Moves, Kept
    <3>3. QED
      BY <2>1, <2>2, <3>1, <3>2 DEF Life, IsOn, At
  <2>5. QED
    BY <2>3, <2>4
<1>3. ASSUME NEW k \in Kits, NEW u \in Units, Packing(k, u) \/ Unpacking(k, u),
             NEW r \in Requests, promise'[r].state = "active", promise'[r].until > now'
      PROVE  Bound(r)'
  <2>1. Alone(u) /\ UNCHANGED <<promise, now>>
    BY <1>3, PackIs, UnpackIs DEF Packing, Unpacking, Pack, Unpack
  <2>2. promise[r].state = "active" /\ Near(promise[r].unit, promise[r].from) /\ InUse(r)
    BY <1>0, <1>1, <1>3, <2>1
  <2>3. promise[r].unit # u
    <3>1. Unpacking(k, u) => IsOn(u, "kit")
      BY UnpackIs DEF Unpacking
    <3>2. Packing(k, u) => ~ReservedBy(u, Never, {})
      BY DEF Packing, Pack
    <3>3. promise[r].until > now
      BY <1>3, <2>1
    <3>4. ReservedBy(promise[r].unit, Never, {})
      BY <2>2, <3>3, ActiveReserves
    <3>5. ~IsOn(promise[r].unit, "kit")
      BY <2>2
    <3>6. QED
      BY <1>3, <3>1, <3>2, <3>4, <3>5
  <2>4. unit'[promise[r].unit] = unit[promise[r].unit]
    BY <2>1, <2>2, <2>3 DEF Alone
  <2>5. QED
    BY <2>1, <2>2, <2>4 DEF Life, IsOn, At
<1>4. ASSUME NEW p \in Requests, NEW u \in Units, NEW d \in Depots, Reserve(p, u, d),
             NEW r \in Requests, promise'[r].state = "active", promise'[r].until > now'
      PROVE  Bound(r)'
  <2>1. UNCHANGED <<unit, now>> /\ promise[p].state = "none" /\ \A q \in Requests \ {p} : promise'[q] = promise[q]
    BY <1>4, ReserveIs DEF Reserve
  <2>2. CASE r = p
    <3>1. Free(u, d, Window[r][1], Window[r][2]) /\ promise'[r].unit = u /\ promise'[r].from = Window[r][1]
      BY <1>4, <2>2, ReserveIs DEF Reserve
    <3>2. QED
      BY <2>1, <3>1, Places DEF Free, Life, IsOn, At
  <2>3. CASE r # p
    <3>1. promise'[r] = promise[r] /\ Near(promise[r].unit, promise[r].from)
      BY <1>0, <1>4, <2>1, <2>3
    <3>2. ASSUME NEW q \in Requests, promise[q].state = "out" PROVE promise'[q] = promise[q]
      BY <2>1, <3>2
    <3>3. QED
      BY <2>1, <3>1, <3>2 DEF Life, IsOn, At
  <2>4. QED
    BY <2>2, <2>3
<1>5. ASSUME NEW p \in Requests, Release(p),
             NEW r \in Requests, promise'[r].state = "active", promise'[r].until > now'
      PROVE  Bound(r)'
  <2>1. UNCHANGED <<unit, now>> /\ promise[p].state = "active" /\ \A q \in Requests \ {p} : promise'[q] = promise[q]
    BY <1>5, ReleaseIs DEF Release
  <2>2. promise'[r] = promise[r] /\ Near(promise[r].unit, promise[r].from)
    BY <1>0, <1>5, <2>1, ReleaseIs
  <2>3. ASSUME NEW q \in Requests, promise[q].state = "out" PROVE promise'[q] = promise[q]
    BY <2>1, <2>3
  <2>4. QED
    BY <2>1, <2>2, <2>3 DEF Life, IsOn, At
<1>6. ASSUME UNCHANGED <<unit, promise>>, now' = now \/ Tick,
             NEW r \in Requests, promise'[r].state = "active", promise'[r].until > now'
      PROVE  Bound(r)'
  <2>1. promise[r].until > now
    <3>1. promise[r].until \in Int /\ now \in Int
      BY Dated DEF IInv, TypeOK, Promise, Never
    <3>2. QED
      BY <1>6, <3>1 DEF Tick
  <2>2. QED
    BY <1>0, <1>6, <2>1 DEF Life, IsOn, At
<1> HIDE DEF Near
<1>7. ASSUME NEW r \in Requests PROVE Bound(r)'
  <2>1. SUFFICES ASSUME promise'[r].state = "active", promise'[r].until > now' PROVE Bound(r)'
    OBVIOUS
  <2> HIDE DEF Bound
  <2>2. QED
    BY <1>2, <1>3, <1>4, <1>5, <1>6, <2>1, Steps
       DEF Still, PackMissing, SetKitLine, RemoveKitLine, Tick
<1>8. QED
  BY <1>7 DEF Near, BookedComesBack

------------------------------------------------------------------------------
LEMMA StepIInv == IInv /\ [Next]_vars => IInv'
<1> SUFFICES ASSUME IInv, [Next]_vars PROVE IInv'
  OBVIOUS
<1>1. CASE Next
  BY <1>1, TypesStep, RecordsStep, StrandedStep, ListedStep, PromisedStep, BookedStep DEF IInv
<1>2. CASE UNCHANGED vars
  BY <1>2 DEF vars, IInv, TypeOK, Counted, UnknownIsNowhere, InUseWhereLedgerSays, HolderInRegister, NothingStranded,
              PackedOnList, PromisedUnits, BookedComesBack, Life, At, IsOn, Line
<1>3. QED
  BY <1>1, <1>2

LEMMA Inductive == Spec => []IInv
BY InitIInv, StepIInv, PTL DEF Spec

(* The records of a unit go with it wherever it is issued, sent, lost, found or
   counted: its last movement line and its HR assignment, through every function
   that moves a unit. *)
THEOREM RecordsFollow == Spec => []UnitsSound
<1>1. IInv => UnitsSound
  BY DEF IInv, UnitsSound
<1>2. QED
  BY <1>1, Inductive, PTL

(* What is packed and the checklists agree, whatever is substituted, edited,
   removed, lost, found or counted: inv_pack_kit, inv_unpack_kit, inv_set_kit_line. *)
THEOREM ChecklistsHold == Spec => []PackedOnList
<1>1. IInv => PackedOnList
  BY DEF IInv
<1>2. QED
  BY <1>1, Inductive, PTL

(* No way of losing, finding, counting or retiring a kit the firm owns leaves
   something in a retired one. *)
THEOREM KitsOpen == Spec => []NothingStranded
<1>1. IInv => NothingStranded
  BY DEF IInv
<1>2. QED
  BY <1>1, Inductive, PTL

(* A booked unit stays within reach of its booking: inv_unit_reserved_by is asked
   by every call that could take it away. *)
THEOREM BookingsHold == Spec => []BookedComesBack
<1>1. IInv => BookedComesBack
  BY DEF IInv
<1>2. QED
  BY <1>1, Inductive, PTL
================================================================================

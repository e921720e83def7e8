----------------------------- MODULE InvSessions -----------------------------
(***************************************************************************)
(* The transaction protocol every Inventory write goes through, seen from  *)
(* several database sessions at once.                                      *)
(*                                                                         *)
(* A call runs as one READ COMMITTED transaction.  A movement reads the    *)
(* status of the request it names BEFORE it holds anything, claims its     *)
(* idempotency key, takes the company's movement counter, writes the       *)
(* header (a foreign-key share lock on the request), locks its items in    *)
(* one global order, checks the stock, locks the reservation rows and      *)
(* finally the request rows whose status it refreshes.  A planning call    *)
(* (reserve, cancel, change dates) starts from the request row instead.    *)
(* Locks are kept until the transaction ends; a refusal, a lost connection *)
(* or a deadlock rolls everything back.                                    *)
(*                                                                         *)
(* Each request has one line on one item, and each call moves one piece    *)
(* per item: multi-line calls matter here only through the set of items    *)
(* they lock.  Dates, bins, rentals and conditions belong to InvPlanning.  *)
(***************************************************************************)
EXTENDS Integers, Sequences, FiniteSets, FiniteSetsExt

CONSTANTS
    Sessions,             \* database connections
    Keys,                 \* idempotency keys
    Items,
    Requests,             \* equipment requests, already submitted
    Calls,                \* the calls people can make: records of CallType
    ItemOf,               \* [Requests -> Items], the item of the request's line
    EmployeeRequest,      \* the requests of kind 'employee'; the others are project requests
    ProjectOf,            \* the project (or person) a request is for
    Asked,                \* [Requests -> Nat], quantity of the line
    Stock,                \* [Items -> Nat], what is on the shelf at first
    Rank,                 \* position of an item or request in uuid order
    MaxStarts             \* bound: transactions started in a behaviour

KeyedKinds == {"receive", "dispatch", "issue", "return", "transfer"}
PlanningKinds == {"reserve", "cancel", "window"}

(* src is the request whose project gives the equipment up (transfer only). *)
CallType ==
    [kind : KeyedKinds \cup PlanningKinds, key : Keys, user : STRING,
     items : SUBSET Items, req : Requests, src : Requests]

ASSUME CallsAreTyped == Calls \subseteq CallType
ASSUME RequestData ==
    /\ IsFiniteSet(Requests) /\ ItemOf \in [Requests -> Items]
    /\ EmployeeRequest \subseteq Requests
    /\ Asked \in [Requests -> Nat \ {0}]
    /\ Stock \in [Items -> Nat]
    /\ Rank \in [Items \cup Requests -> Nat]
    /\ MaxStarts \in Nat

Movements == {c \in Calls : c.kind \in KeyedKinds}
NoCall == [kind |-> "none"]

Live == {"submitted", "in_progress"}
Open == Live \cup {"fulfilled"}
Statuses == Open \cup {"closed", "cancelled"}

(* A request with its line (asked), what was issued to a person, and the
   totals of its active and completed reservations: reserved pieces, how many
   of those went out, and how many came back. *)
RequestRow ==
    [status : Statuses, asked : Nat, issued : Nat, reserved : Nat, out : Nat, back : Nat]

VARIABLES
    tx,                   \* per session: [pc, call, todo], todo the locks not yet taken
    held,                 \* per session: the locks it holds
    idem,                 \* inv_idempotency: per key the call and its movement, mv = 0 when unused
    ledger,               \* inv_movements
    shelf,                \* inv_balances: good stock on the shelf, per item
    req,                  \* inv_requests with their line and the totals of its reservations
    answers,              \* what the callers of movements were told
    started

db == <<idem, ledger, shelf, req>>
vars == <<tx, held, idem, ledger, shelf, req, answers, started>>

------------------------------------------------------------------------------
(* Locks. *)

KeyLock(k) == <<"key", k>>
ShareLock(r) == <<"share", r>>
RowLock(r) == <<"row", r>>
ResLock(r) == <<"res", r>>
ItemLock(i) == <<"item", i>>
Counter == <<"counter", "movement">>

Locks == {Counter} \cup ({"key"} \X Keys) \cup ({"item"} \X Items)
           \cup ({"share", "row", "res"} \X Requests)

Conflict(a, b) ==
    \/ a = b /\ a[1] # "share"
    \/ a[1] = "share" /\ b = RowLock(a[2])
    \/ b[1] = "share" /\ a = RowLock(b[2])

Siblings(r) == {q \in Requests : ProjectOf[q] = ProjectOf[r]}

(* Where equipment comes back from, or is handed on from. *)
Giver(c) == IF c.kind = "transfer" THEN c.src ELSE c.req

Needs(c, a) ==
    \/ c.kind \in KeyedKinds /\ a \in {KeyLock(c.key), Counter}
    \/ c.kind = "receive" /\ \E i \in c.items : a = ItemLock(i)
    \/ c.kind \notin {"receive", "cancel"} /\ a = ItemLock(ItemOf[c.req])
    \/ c.kind \in {"dispatch", "issue", "transfer"} /\ a \in {ShareLock(c.req), ResLock(c.req), RowLock(c.req)}
    \/ c.kind \in {"return", "transfer"} /\ \E q \in Siblings(Giver(c)) : a \in {ResLock(q), RowLock(q)}
    \/ c.kind \in PlanningKinds /\ a = RowLock(c.req)
    \/ c.kind \in {"cancel", "window"} /\ a = ResLock(c.req)

LocksOf(c) == {a \in Locks : Needs(c, a)}

(* The order in which a call reaches its locks.  A movement ends with the
   request rows, a planning call starts with one; a transfer re-reads its
   destination request FOR UPDATE before it touches a reservation. *)
Stage(c, a) ==
    CASE a[1] = "key"     -> 0
      [] a[1] = "counter" -> 1
      [] a[1] = "share"   -> 2
      [] a[1] = "row" /\ c.kind \in PlanningKinds -> 2
      [] a[1] = "item"    -> 3
      [] a = RowLock(c.req) /\ c.kind = "transfer" -> 4
      [] a[1] = "res"     -> 5
      [] OTHER            -> 6

Earlier(c, a, b) ==
    \/ Stage(c, a) < Stage(c, b)
    \/ Stage(c, a) = Stage(c, b) /\ Rank[a[2]] < Rank[b[2]]

NextLock(s, a) ==
    /\ a \in tx[s].todo
    /\ \A b \in tx[s].todo \ {a} : Earlier(tx[s].call, a, b)

(* Mutant: the stock of an item is read without inv_lock_item. *)
MutNoItemLock(s, a) == a[1] = "item" \/ \A t \in Sessions \ {s} : \A b \in held[t] : ~Conflict(a, b)
(* Mutant: the key is looked up, not claimed by an insert. *)
MutKeyNotClaimed(s, a) == a[1] = "key" \/ \A t \in Sessions \ {s} : \A b \in held[t] : ~Conflict(a, b)
Free(s, a) == \A t \in Sessions \ {s} : \A b \in held[t] : ~Conflict(a, b)

WaitsFor(s, t) ==
    /\ s # t
    /\ tx[s].pc = "locking"
    /\ \E a \in tx[s].todo, b \in held[t] : NextLock(s, a) /\ Conflict(a, b)

(* A set of sessions each of which waits for another member. *)
Knot(S) == S # {} /\ \A s \in S : \E t \in S : WaitsFor(s, t)

------------------------------------------------------------------------------
(* What the functions read and write once the locks are held. *)

Promised(q) == req[q].reserved - req[q].out
PromisedFrom(i, Q) == MapThenSumSet(Promised, {q \in Q : ItemOf[q] = i})
FreeStock(i) ==
    IF PromisedFrom(i, Requests) < shelf[i] THEN shelf[i] - PromisedFrom(i, Requests) ELSE 0

(* The reservation a returned piece is credited to: the earliest of the
   project that still has something out. *)
Owing(r) == {q \in Siblings(r) : ItemOf[q] = ItemOf[r] /\ req[q].out > req[q].back}
Credited(r, q) == q \in Owing(r) /\ \A p \in Owing(r) \ {q} : Rank[q] < Rank[p]

DispatchLegal(c) == Promised(c.req) >= 1 /\ shelf[ItemOf[c.req]] >= 1

(* Mutant: the lines of the request are not looked at again under the locks. *)
MutIssueTrustsFirstRead(c) == shelf[ItemOf[c.req]] >= 1 /\ (Promised(c.req) >= 1 \/ FreeStock(ItemOf[c.req]) >= 1)
IssueLegal(c) ==
    /\ req[c.req].issued < req[c.req].asked
    /\ Promised(c.req) >= 1 \/ FreeStock(ItemOf[c.req]) >= 1
    /\ shelf[ItemOf[c.req]] >= 1

TransferLegal(c) ==
    /\ req[c.req].status \in Live
    /\ ItemOf[c.src] = ItemOf[c.req] /\ ProjectOf[c.src] # ProjectOf[c.req]
    /\ Owing(c.src) # {}
    /\ \/ Promised(c.req) >= 1
       \/ /\ PromisedFrom(ItemOf[c.req], Requests \ (Siblings(c.src) \cup {c.req})) <= shelf[ItemOf[c.req]]
          /\ req[c.req].asked > req[c.req].reserved

Legal(c) ==
    CASE c.kind = "receive"  -> c.items # {}
      [] c.kind = "dispatch" -> DispatchLegal(c)
      [] c.kind = "issue"    -> IssueLegal(c)
      [] c.kind = "return"   -> Owing(c.req) # {}
      [] c.kind = "transfer" -> TransferLegal(c)
      [] c.kind = "reserve"  -> /\ req[c.req].status \in Live
                                /\ req[c.req].asked > req[c.req].reserved
                                /\ FreeStock(ItemOf[c.req]) >= 1
      [] c.kind = "cancel"   -> req[c.req].status \in Live
      [] c.kind = "window"   -> req[c.req].status \in Live

(* inv_refresh_request_status: a request follows what has physically moved. *)
Refreshed(q, r) ==
    LET done   == IF r \in EmployeeRequest THEN q.issued ELSE q.out
        filled == done >= q.asked
    IN  IF q.status \notin Open \/ q.asked = 0 THEN q
        ELSE [q EXCEPT !.status =
               IF filled /\ r \notin EmployeeRequest /\ done > 0 /\ q.back = q.out THEN "closed"
               ELSE IF filled THEN "fulfilled"
               ELSE IF done > 0 THEN "in_progress" ELSE q.status]

Took(q, r) == IF q.reserved > q.out THEN [q EXCEPT !.out = @ + 1] ELSE q
GaveBack(q) == [q EXCEPT !.back = @ + 1]
(* Mutant: a cancellation gives back what was asked for, not what is reserved. *)
MutCancelReleasesAsked(q) == [q EXCEPT !.reserved = @ - q.asked, !.asked = 0, !.status = "cancelled"]
Cancelled(q) == [q EXCEPT !.reserved = q.out, !.asked = 0, !.status = "cancelled"]
Arrived(q) ==
    IF q.reserved > q.out THEN [q EXCEPT !.out = @ + 1]
    ELSE [q EXCEPT !.out = @ + 1, !.reserved = @ + 1]

(* The request rows after the call, before their status is refreshed. *)
Touched(c, r) ==
    CASE c.kind = "dispatch" /\ r = c.req -> Took(req[r], r)
      [] c.kind = "issue" /\ r = c.req    -> [Took(req[r], r) EXCEPT !.issued = @ + 1]
      [] c.kind \in {"return", "transfer"} /\ Credited(Giver(c), r) -> GaveBack(req[r])
      [] c.kind = "transfer" /\ r = c.req -> Arrived(req[r])
      [] c.kind = "reserve" /\ r = c.req -> [req[r] EXCEPT !.reserved = @ + 1, !.status = "in_progress"]
      [] c.kind = "cancel" /\ r = c.req  -> Cancelled(req[r])
      [] OTHER -> req[r]

(* Mutant: a movement refreshes only the request it names. *)
MutRefreshOwnOnly(c) == {r \in Requests : c.kind \in KeyedKinds /\ r = c.req}
RowsRefreshed(c) == {r \in Requests : c.kind \in KeyedKinds /\ RowLock(r) \in LocksOf(c)}

NewReq(c) ==
    [r \in Requests |-> IF r \in RowsRefreshed(c) THEN Refreshed(Touched(c, r), r) ELSE Touched(c, r)]

NewShelf(c) ==
    CASE c.kind = "receive" -> [i \in Items |-> IF i \in c.items THEN shelf[i] + 1 ELSE shelf[i]]
      [] c.kind \in {"dispatch", "issue"} -> [shelf EXCEPT ![ItemOf[c.req]] = @ - 1]
      [] c.kind = "return" -> [shelf EXCEPT ![ItemOf[c.req]] = @ + 1]
      [] OTHER -> shelf

------------------------------------------------------------------------------
(* Steps of a session. *)

Idle == [pc |-> "idle", call |-> NoCall, todo |-> {}]

(* Mutant: locks that belong to the connection and outlive the transaction. *)
MutLocksOutlive(s) == tx' = [tx EXCEPT ![s] = Idle] /\ UNCHANGED held

(* The transaction is over: every lock goes. *)
End(s) ==
    /\ tx' = [tx EXCEPT ![s] = Idle]
    /\ held' = [held EXCEPT ![s] = {}]

Answer(c, n) == IF c \in Movements THEN answers \cup {<<c, n>>} ELSE answers

(* inv_replaying: this user already committed this key, so the checks that
   depend on the time of the first call are not run again. *)
MutNeverReplaying(c) == FALSE       \* Mutant: the first checks are run again for a retry
Replaying(c) == idem[c.key].mv # 0 /\ idem[c.key].call.user = c.user

(* The status of the request as the function reads it before it holds any
   lock.  inv_transfer_between_projects does not ask inv_replaying. *)
PassesFirstCheck(c) ==
    CASE c.kind = "dispatch" -> c.req \notin EmployeeRequest /\ (req[c.req].status \in Live \/ Replaying(c))
      [] c.kind = "issue"    -> c.req \in EmployeeRequest /\ (req[c.req].status \in Live \/ Replaying(c))
      [] c.kind = "transfer" -> c.req \notin EmployeeRequest /\ req[c.req].status \in Live
      [] OTHER -> TRUE

Begin(s, c) ==
    /\ tx[s].pc = "idle"
    /\ started < MaxStarts
    /\ started' = started + 1
    /\ IF PassesFirstCheck(c)
       THEN /\ tx' = [tx EXCEPT ![s] = [pc |-> "locking", call |-> c, todo |-> LocksOf(c)]]
            /\ UNCHANGED <<held, answers>>
       ELSE /\ answers' = Answer(c, 0)
            /\ UNCHANGED <<tx, held>>
    /\ UNCHANGED db

(* The insert into inv_idempotency waits for a transaction that holds the
   same key.  Then the key is new, or it is answered from its row. *)
Claim(s) ==
    LET c == tx[s].call
        k == KeyLock(c.key)
    IN  /\ tx[s].pc = "locking" /\ NextLock(s, k) /\ Free(s, k)
        /\ IF idem[c.key].mv = 0
           THEN /\ tx' = [tx EXCEPT ![s].todo = @ \ {k}]
                /\ held' = [held EXCEPT ![s] = @ \cup {k}]
                /\ UNCHANGED answers
           ELSE /\ End(s)
                /\ answers' = Answer(c, IF idem[c.key].call = c THEN idem[c.key].mv ELSE 0)
        /\ UNCHANGED <<db, started>>

(* Every other lock.  A return refreshes only the project's open requests; a
   date change locks items only when something is reserved. *)
PassedOver(c, a) ==
    \/ /\ a[1] = "row" /\ req[a[2]].status \notin Open
       /\ c.kind = "return" \/ (c.kind = "transfer" /\ a # RowLock(c.req))
    \/ c.kind = "window" /\ a[1] \in {"item", "res"} /\ req[c.req].reserved = req[c.req].back

Acquire(s) ==
    /\ tx[s].pc = "locking"
    /\ \E a \in tx[s].todo :
         /\ a[1] # "key" /\ NextLock(s, a)
         /\ tx' = [tx EXCEPT ![s].todo = @ \ {a}]
         /\ IF PassedOver(tx[s].call, a) THEN UNCHANGED held
            ELSE Free(s, a) /\ held' = [held EXCEPT ![s] = @ \cup {a}]
    /\ UNCHANGED <<db, answers, started>>

(* All locks are held: the stock and the reservations are read and the call
   is found legal, or refused and rolled back. *)
Decide(s) ==
    /\ tx[s].pc = "locking" /\ tx[s].todo = {}
    /\ IF Legal(tx[s].call)
       THEN tx' = [tx EXCEPT ![s].pc = "decided"] /\ UNCHANGED <<held, answers>>
       ELSE End(s) /\ answers' = Answer(tx[s].call, 0)
    /\ UNCHANGED <<db, started>>

(* Everything the call writes becomes visible at once.  The reply may never
   reach the caller, who will then try again with the same key. *)
Commit(s, delivered) ==
    LET c == tx[s].call
        n == Len(ledger) + 1
    IN  /\ tx[s].pc = "decided"
        /\ IF c \in Movements
           THEN /\ ledger' = Append(ledger, c)
                /\ idem' = [idem EXCEPT ![c.key] = [call |-> c, mv |-> n]]
           ELSE UNCHANGED <<ledger, idem>>
        /\ shelf' = NewShelf(c)
        /\ req' = NewReq(c)
        /\ answers' = IF delivered THEN Answer(c, n) ELSE answers
        /\ End(s)
        /\ UNCHANGED started

(* The connection drops before the commit: a rollback, and no reply. *)
Drop(s) ==
    /\ tx[s].pc # "idle"
    /\ End(s)
    /\ UNCHANGED <<db, answers, started>>

(* Postgres breaks a cycle of waits by failing one of its transactions. *)
Victim(s) ==
    /\ \E S \in SUBSET Sessions : s \in S /\ Knot(S)
    /\ End(s)
    /\ answers' = Answer(tx[s].call, 0)
    /\ UNCHANGED <<db, started>>

Init ==
    /\ tx = [s \in Sessions |-> Idle]
    /\ held = [s \in Sessions |-> {}]
    /\ idem = [k \in Keys |-> [call |-> NoCall, mv |-> 0]]
    /\ ledger = <<>>
    /\ shelf = Stock
    /\ req = [r \in Requests |-> [status |-> "submitted", asked |-> Asked[r], issued |-> 0,
                                  reserved |-> 0, out |-> 0, back |-> 0]]
    /\ answers = {}
    /\ started = 0

Step(s) == Claim(s) \/ Acquire(s) \/ Decide(s) \/ (\E d \in BOOLEAN : Commit(s, d)) \/ Victim(s)

Next ==
    \E s \in Sessions :
        \/ \E c \in Calls : Begin(s, c)
        \/ Claim(s)
        \/ Acquire(s)
        \/ Decide(s)
        \/ \E d \in BOOLEAN : Commit(s, d)
        \/ Drop(s)
        \/ Victim(s)

Spec == Init /\ [][Next]_vars

(* The database runs every statement it was sent; nobody is obliged to call. *)
FairSpec == Spec /\ \A s \in Sessions : WF_vars(Step(s))

------------------------------------------------------------------------------
(* What must hold. *)

Transaction ==
    [pc : {"idle", "locking", "decided"}, call : Calls \cup {NoCall}, todo : SUBSET Locks]
IdemRow == [call : Calls \cup {NoCall}, mv : Nat]

TypeOK ==
    /\ tx \in [Sessions -> Transaction]
    /\ held \in [Sessions -> SUBSET Locks]
    /\ idem \in [Keys -> IdemRow]
    /\ ledger \in Seq(Movements)
    /\ shelf \in [Items -> Int]
    /\ req \in [Requests -> RequestRow]
    /\ answers \subseteq Movements \X Nat
    /\ started \in 0..MaxStarts

(* docs/inventory-design.md, invariants 2 and 3: whatever the sessions do at
   the same instant, stock is never negative and everything promised to a
   request is on the shelf. *)
PromisesOnShelf == \A i \in Items : PromisedFrom(i, Requests) <= shelf[i]

(* A movement is never recorded for a request that is cancelled, fulfilled or
   closed at that instant, although its status was read before any lock. *)
OnlyLiveRequestsServed ==
    [][\A r \in Requests :
          req'[r].out > req[r].out \/ req'[r].issued > req[r].issued => req[r].status \in Live]_vars

(* The status of a request is true to what has physically moved, also when
   returns, issues and cancellations of one project run side by side. *)
StatusFollowsGoods ==
    \A r \in Requests : req[r].status \in Open \cup {"closed"} =>
        LET done == IF r \in EmployeeRequest THEN req[r].issued ELSE req[r].out
        IN  /\ (req[r].status \in {"fulfilled", "closed"}) = (done >= req[r].asked)
            /\ (req[r].status = "closed") = (r \notin EmployeeRequest /\ req[r].back >= req[r].asked)

(* Promise of the module header: no set of sessions waits in a circle. *)
NoDeadlock == ~ \E S \in SUBSET Sessions : Knot(S)

(* InvOnce, with nothing hidden: the ledger and the answers are its state. *)
Once == INSTANCE InvOnce WITH Movements <- Movements, ledger <- ledger, answers <- answers
MovesOnce == Once!Spec

(* The answer of a repeated call (same user, key and content) once its
   movement is on the ledger is never a refusal.  A hand-over is the exception:
   it looks at the status of the request before it asks for the recorded answer. *)
RetryIsAnswered ==
    [][\A c \in {m \in Movements : m.kind # "transfer"} :
          <<c, 0>> \in answers' \ answers => \A n \in DOMAIN ledger : ledger[n] # c]_vars

(* Every transaction ends, with an answer, a refusal or a rollback. *)
EveryCallEnds == \A s \in Sessions : tx[s].pc # "idle" ~> tx[s].pc = "idle"
==============================================================================

------------------------- MODULE InvSessions_proofs -------------------------
(***************************************************************************)
(* Proofs about InvSessions, for any number of sessions, keys, items and   *)
(* requests and any set of calls: first the locks and keys, then, on top   *)
(* of them, the request rows, what callers are told and the stock the      *)
(* promises rest on.                                                       *)
(***************************************************************************)
EXTENDS InvSessions, SumTheorems

(* A session that is running a call runs a real one, and a decided call has
   nothing left to lock. *)
CallsAreReal ==
    \A s \in Sessions :
        /\ tx[s].pc # "idle" => tx[s].call \in Calls
        /\ tx[s].pc = "decided" => tx[s].todo = {}

(* What the locks are for: no two sessions hold conflicting ones. *)
LocksExclude ==
    \A s, t \in Sessions : s # t =>
        \A a \in held[s], b \in held[t] : ~Conflict(a, b)

(* A movement has its key still to claim, or holds an unused one. *)
KeysAreClaimed ==
    \A s \in Sessions :
        tx[s].pc # "idle" /\ tx[s].call \in Movements =>
            \/ KeyLock(tx[s].call.key) \in tx[s].todo
            \/ /\ KeyLock(tx[s].call.key) \in held[s]
               /\ idem[tx[s].call.key].mv = 0

(* inv_idempotency and inv_movements tell the same story. *)
KeysMatchLedger ==
    /\ \A k \in Keys : idem[k].mv # 0 =>
          /\ idem[k].mv \in DOMAIN ledger
          /\ ledger[idem[k].mv] = idem[k].call
    /\ \A n \in DOMAIN ledger : idem[ledger[n].key].mv = n

------------------------------------------------------------------------------
(* Typing of one transaction record, and of its locks. *)
LEMMA SessionTypes ==
    ASSUME TypeOK, NEW s \in Sessions
    PROVE  /\ tx[s].pc \in {"idle", "locking", "decided"}
           /\ tx[s].call \in Calls \cup {NoCall}
           /\ tx[s].todo \in SUBSET Locks
           /\ held[s] \in SUBSET Locks
BY DEF TypeOK, Transaction

LEMMA CallTypes ==
    ASSUME NEW c \in Calls
    PROVE  /\ c.req \in Requests /\ c.src \in Requests /\ c.key \in Keys
           /\ c.items \in SUBSET Items /\ ItemOf[c.req] \in Items
           /\ c.kind \in KeyedKinds \cup PlanningKinds
BY CallsAreTyped, RequestData DEF CallType

(* A row stays a row, whatever a call does to it. *)
LEMMA RowTypes ==
    ASSUME TypeOK, NEW c \in Calls
    PROVE  NewReq(c) \in [Requests -> RequestRow]
<1>1. ASSUME NEW q \in RequestRow, NEW r \in Requests
      PROVE  Refreshed(q, r) \in RequestRow
  BY <1>1 DEF Refreshed, RequestRow, Statuses, Open, Live
<1>2. ASSUME NEW q \in RequestRow, NEW r \in Requests
      PROVE  Took(q, r) \in RequestRow /\ Arrived(q) \in RequestRow
  <2>1. q.out + 1 \in Nat /\ q.reserved + 1 \in Nat
    BY <1>2 DEF RequestRow
  <2>2. [q EXCEPT !.out = @ + 1] \in RequestRow
    BY <1>2, <2>1 DEF RequestRow
  <2>3. [q EXCEPT !.out = @ + 1, !.reserved = @ + 1] \in RequestRow
    <3>1. [q EXCEPT !.out = @ + 1] \in [status : Statuses, asked : Nat, issued : Nat,
                                       reserved : Nat, out : Nat, back : Nat]
      BY <2>2 DEF RequestRow
    <3>2. [[q EXCEPT !.out = @ + 1] EXCEPT !.reserved = q.reserved + 1] \in RequestRow
      BY <3>1, <2>1 DEF RequestRow
    <3>3. QED
      BY <3>2, <1>2 DEF RequestRow
  <2>4. QED
    BY <2>2, <2>3, <1>2 DEF Took, Arrived
<1>3. ASSUME NEW q \in RequestRow
      PROVE  /\ GaveBack(q) \in RequestRow
             /\ Cancelled(q) \in RequestRow
             /\ [q EXCEPT !.issued = @ + 1] \in RequestRow
             /\ [q EXCEPT !.reserved = @ + 1, !.status = "in_progress"] \in RequestRow
  <2>1. q.back + 1 \in Nat /\ q.issued + 1 \in Nat /\ q.reserved + 1 \in Nat /\ q.out \in Nat
    BY <1>3 DEF RequestRow
  <2>2. {"cancelled", "in_progress"} \subseteq Statuses
    BY DEF Statuses, Open, Live
  <2>3. QED
    BY <1>3, <2>1, <2>2 DEF RequestRow, GaveBack, Cancelled
<1>4. ASSUME NEW r \in Requests
      PROVE  Touched(c, r) \in RequestRow
  <2>1. req[r] \in RequestRow
    BY DEF TypeOK
  <2>2. [Took(req[r], r) EXCEPT !.issued = @ + 1] \in RequestRow
    BY <1>2, <1>3, <2>1
  <2>3. QED
    BY <1>2, <1>3, <2>1, <2>2 DEF Touched
<1>5. QED
  BY <1>1, <1>4 DEF NewReq

(* The type invariant. *)
LEMMA InitTypes == Init => TypeOK
<1> SUFFICES ASSUME Init PROVE TypeOK
  OBVIOUS
<1>1. req \in [Requests -> RequestRow]
  BY RequestData DEF Init, RequestRow, Statuses, Open, Live
<1>2. shelf \in [Items -> Int] /\ started \in 0..MaxStarts
  BY RequestData DEF Init
<1>3. ledger \in Seq(Movements) /\ answers \subseteq Movements \X Nat
  BY DEF Init
<1>4. /\ tx \in [Sessions -> Transaction]
      /\ held \in [Sessions -> SUBSET Locks]
      /\ idem \in [Keys -> IdemRow]
  BY DEF Init, Idle, Transaction, IdemRow
<1>5. QED
  BY <1>1, <1>2, <1>3, <1>4 DEF TypeOK

(* Ending a transaction, and answering its caller, keep the types. *)
LEMMA EndTypes ==
    ASSUME TypeOK, NEW s \in Sessions, End(s)
    PROVE  /\ tx' \in [Sessions -> Transaction]
           /\ held' \in [Sessions -> SUBSET Locks]
BY DEF TypeOK, Transaction, End, Idle

LEMMA AnswerTypes ==
    ASSUME TypeOK, NEW c, NEW n \in Nat
    PROVE  Answer(c, n) \subseteq Movements \X Nat
BY DEF TypeOK, Answer

LEMMA StepTypes == TypeOK /\ CallsAreReal /\ [Next]_vars => TypeOK'
<1> SUFFICES ASSUME TypeOK, CallsAreReal, [Next]_vars PROVE TypeOK'
  OBVIOUS
<1>1. ASSUME NEW s \in Sessions, NEW c \in Calls, Begin(s, c) PROVE TypeOK'
  <2>1. LocksOf(c) \in SUBSET Locks
    BY DEF LocksOf
  <2>2. started' \in 0..MaxStarts
    BY <1>1, RequestData DEF Begin, TypeOK
  <2>3. answers' \subseteq Movements \X Nat
    BY <1>1, AnswerTypes DEF Begin, TypeOK
  <2>4. /\ tx' \in [Sessions -> Transaction]
        /\ held' \in [Sessions -> SUBSET Locks]
    <3>1. [pc |-> "locking", call |-> c, todo |-> LocksOf(c)] \in Transaction
      BY <2>1 DEF Transaction
    <3>2. CASE PassesFirstCheck(c)
      BY <1>1, <3>1, <3>2 DEF Begin, TypeOK
    <3>3. CASE ~PassesFirstCheck(c)
      BY <1>1, <3>3 DEF Begin, TypeOK
    <3>4. QED
      BY <3>2, <3>3
  <2>5. QED
    BY <1>1, <2>2, <2>3, <2>4 DEF Begin, TypeOK, db
<1>2. ASSUME NEW s \in Sessions, Claim(s) PROVE TypeOK'
  <2> DEFINE c == tx[s].call
             k == KeyLock(c.key)
  <2>1. k \in Locks
    BY <1>2, SessionTypes DEF Claim, NextLock
  <2>2. CASE idem[c.key].mv = 0
    <3>1. tx' = [tx EXCEPT ![s].todo = @ \ {k}] /\ held' = [held EXCEPT ![s] = @ \cup {k}]
          /\ UNCHANGED <<answers, db, started>>
      BY <1>2, <2>2 DEF Claim
    <3>2. tx' \in [Sessions -> Transaction] /\ held' \in [Sessions -> SUBSET Locks]
      BY <3>1, <2>1 DEF TypeOK, Transaction
    <3>3. QED
      BY <3>1, <3>2 DEF TypeOK, db
  <2>3. CASE idem[c.key].mv # 0
    <3>1. c \in Calls
      BY <1>2 DEF Claim, CallsAreReal
    <3>2. idem[c.key].mv \in Nat
      BY <3>1, CallTypes DEF TypeOK, IdemRow
    <3>3. End(s) /\ answers' = Answer(c, IF idem[c.key].call = c THEN idem[c.key].mv ELSE 0)
          /\ UNCHANGED <<db, started>>
      BY <1>2, <2>3 DEF Claim
    <3>4. answers' \subseteq Movements \X Nat
      BY <3>2, <3>3, AnswerTypes
    <3>5. QED
      BY <3>3, <3>4, EndTypes DEF TypeOK, db
  <2>4. QED
    BY <2>2, <2>3
<1>3. ASSUME NEW s \in Sessions, Acquire(s) PROVE TypeOK'
  <2>1. PICK a \in tx[s].todo :
           /\ tx' = [tx EXCEPT ![s].todo = @ \ {a}]
           /\ held' = held \/ held' = [held EXCEPT ![s] = @ \cup {a}]
    BY <1>3 DEF Acquire
  <2>2. a \in Locks
    BY SessionTypes
  <2>3. UNCHANGED <<db, answers, started>>
    BY <1>3 DEF Acquire
  <2>4. tx' \in [Sessions -> Transaction]
    BY <2>1 DEF TypeOK, Transaction
  <2>5. held' \in [Sessions -> SUBSET Locks]
    BY <2>1, <2>2 DEF TypeOK
  <2>6. QED
    BY <2>3, <2>4, <2>5 DEF TypeOK, db
<1>4. ASSUME NEW s \in Sessions, Decide(s) PROVE TypeOK'
  <2>1. CASE Legal(tx[s].call)
    <3>1. tx' = [tx EXCEPT ![s].pc = "decided"] /\ UNCHANGED <<held, answers, db, started>>
      BY <1>4, <2>1 DEF Decide
    <3>2. tx' \in [Sessions -> Transaction]
      BY <3>1 DEF TypeOK, Transaction
    <3>3. QED
      BY <3>1, <3>2 DEF TypeOK, db
  <2>2. CASE ~Legal(tx[s].call)
    <3>1. End(s) /\ answers' = Answer(tx[s].call, 0) /\ UNCHANGED <<db, started>>
      BY <1>4, <2>2 DEF Decide
    <3>2. QED
      BY <3>1, EndTypes, AnswerTypes DEF TypeOK, db
  <2>3. QED
    BY <2>1, <2>2
<1>5. ASSUME NEW s \in Sessions, NEW d \in BOOLEAN, Commit(s, d) PROVE TypeOK'
  <2> DEFINE c == tx[s].call
             n == Len(ledger) + 1
  <2>1. c \in Calls
    BY <1>5 DEF Commit, CallsAreReal
  <2>2. n \in Nat /\ ledger \in Seq(Movements)
    BY DEF TypeOK
  <2>3. ledger' \in Seq(Movements) /\ idem' \in [Keys -> IdemRow]
    <3>1. CASE c \in Movements
      <4>1. ledger' = Append(ledger, c) /\ idem' = [idem EXCEPT ![c.key] = [call |-> c, mv |-> n]]
        BY <1>5, <3>1 DEF Commit
      <4>2. ledger' \in Seq(Movements)
        BY <2>2, <3>1, <4>1
      <4>3. [call |-> c, mv |-> n] \in IdemRow
        BY <2>1, <2>2 DEF IdemRow
      <4>4. idem' \in [Keys -> IdemRow]
        BY <4>1, <4>3 DEF TypeOK
      <4>5. QED
        BY <4>2, <4>4
    <3>2. CASE c \notin Movements
      BY <1>5, <3>2 DEF Commit, TypeOK
    <3>3. QED
      BY <3>1, <3>2
  <2>4. shelf' \in [Items -> Int]
    <3>1. NewShelf(c) \in [Items -> Int]
      BY <2>1, CallTypes DEF NewShelf, TypeOK
    <3>2. QED
      BY <1>5, <3>1 DEF Commit
  <2>5. req' \in [Requests -> RequestRow]
    BY <1>5, <2>1, RowTypes DEF Commit
  <2>6. answers' \subseteq Movements \X Nat
    BY <1>5, <2>2, AnswerTypes DEF Commit, TypeOK
  <2>7. End(s) /\ started' = started
    BY <1>5 DEF Commit
  <2>8. QED
    BY <2>3, <2>4, <2>5, <2>6, <2>7, EndTypes DEF TypeOK
<1>6. ASSUME NEW s \in Sessions, Drop(s) PROVE TypeOK'
  BY <1>6, EndTypes DEF Drop, TypeOK, db
<1>7. ASSUME NEW s \in Sessions, Victim(s) PROVE TypeOK'
  <2>1. End(s) /\ answers' = Answer(tx[s].call, 0) /\ UNCHANGED <<db, started>>
    BY <1>7 DEF Victim
  <2>2. QED
    BY <2>1, EndTypes, AnswerTypes DEF TypeOK, db
<1>8. CASE UNCHANGED vars
  BY <1>8 DEF vars, TypeOK
<1>9. QED
  BY <1>1, <1>2, <1>3, <1>4, <1>5, <1>6, <1>7, <1>8 DEF Next

(* Calls are real: only Begin starts one, only Decide empties the list. *)
LEMMA StepCalls == TypeOK /\ CallsAreReal /\ [Next]_vars => CallsAreReal'
<1> SUFFICES ASSUME TypeOK, CallsAreReal, [Next]_vars PROVE CallsAreReal'
  OBVIOUS
<1> USE DEF CallsAreReal
<1>1. ASSUME NEW s \in Sessions, End(s) PROVE CallsAreReal'
  BY <1>1 DEF End, Idle, TypeOK
<1>2. ASSUME NEW s \in Sessions, NEW c \in Calls, Begin(s, c) PROVE CallsAreReal'
  <2>1. CASE PassesFirstCheck(c)
    BY <1>2, <2>1 DEF Begin, TypeOK
  <2>2. CASE ~PassesFirstCheck(c)
    BY <1>2, <2>2 DEF Begin
  <2>3. QED
    BY <2>1, <2>2
<1>3. ASSUME NEW s \in Sessions, Claim(s) PROVE CallsAreReal'
  <2>1. tx[s].pc = "locking"
    BY <1>3 DEF Claim
  <2>2. CASE tx' = [tx EXCEPT ![s].todo = @ \ {KeyLock(tx[s].call.key)}]
    BY <2>1, <2>2 DEF TypeOK, Transaction
  <2>3. QED
    BY <1>1, <1>3, <2>2 DEF Claim
<1>4. ASSUME NEW s \in Sessions, Acquire(s) PROVE CallsAreReal'
  <2>1. PICK a \in tx[s].todo : tx' = [tx EXCEPT ![s].todo = @ \ {a}]
    BY <1>4 DEF Acquire
  <2>2. tx[s].pc = "locking"
    BY <1>4 DEF Acquire
  <2>3. QED
    BY <2>1, <2>2 DEF TypeOK, Transaction
<1>5. ASSUME NEW s \in Sessions, Decide(s) PROVE CallsAreReal'
  <2>1. tx[s].pc = "locking" /\ tx[s].todo = {}
    BY <1>5 DEF Decide
  <2>2. CASE tx' = [tx EXCEPT ![s].pc = "decided"]
    BY <2>1, <2>2 DEF TypeOK, Transaction
  <2>3. QED
    BY <1>1, <1>5, <2>2 DEF Decide
<1>6. CASE UNCHANGED vars
  BY <1>6 DEF vars
<1>7. QED
  BY <1>1, <1>2, <1>3, <1>4, <1>5, <1>6 DEF Next, Commit, Drop, Victim

(* Locks exclude: a lock is taken only when no other session holds one that
   conflicts with it, and is never passed on. *)
LEMMA ConflictIsMutual == \A a, b : Conflict(a, b) <=> Conflict(b, a)
BY DEF Conflict

LEMMA TakingIsExclusive ==
    ASSUME TypeOK, LocksExclude, NEW s \in Sessions, NEW a, Free(s, a),
           held' = [held EXCEPT ![s] = @ \cup {a}]
    PROVE  LocksExclude'
<1> SUFFICES ASSUME NEW t \in Sessions, NEW u \in Sessions, t # u,
                    NEW b \in held'[t], NEW c \in held'[u]
             PROVE  ~Conflict(b, c)
  BY DEF LocksExclude
<1>1. held'[s] = held[s] \cup {a} /\ \A v \in Sessions \ {s} : held'[v] = held[v]
  BY DEF TypeOK
<1>2. CASE t = s
  BY <1>1, <1>2 DEF LocksExclude, Free
<1>3. CASE u = s
  BY <1>1, <1>3, ConflictIsMutual DEF LocksExclude, Free
<1>4. CASE t # s /\ u # s
  BY <1>1, <1>4 DEF LocksExclude
<1>5. QED
  BY <1>2, <1>3, <1>4

LEMMA StepLocks == TypeOK /\ LocksExclude /\ [Next]_vars => LocksExclude'
<1> SUFFICES ASSUME TypeOK, LocksExclude, [Next]_vars PROVE LocksExclude'
  OBVIOUS
<1>1. ASSUME NEW s \in Sessions, End(s) PROVE LocksExclude'
  <2>1. held'[s] = {} /\ \A v \in Sessions \ {s} : held'[v] = held[v]
    BY <1>1 DEF End, TypeOK
  <2>2. QED
    BY <2>1 DEF LocksExclude
<1>2. CASE UNCHANGED held
  BY <1>2 DEF LocksExclude
<1>3. ASSUME NEW s \in Sessions, NEW c \in Calls, Begin(s, c) PROVE UNCHANGED held
  BY <1>3 DEF Begin
<1>4. ASSUME NEW s \in Sessions, Claim(s) PROVE LocksExclude'
  BY <1>1, <1>4, TakingIsExclusive DEF Claim
<1>5. ASSUME NEW s \in Sessions, Acquire(s) PROVE LocksExclude'
  <2>1. PICK a \in tx[s].todo :
           held' = held \/ (Free(s, a) /\ held' = [held EXCEPT ![s] = @ \cup {a}])
    BY <1>5 DEF Acquire
  <2>2. QED
    BY <1>2, <2>1, TakingIsExclusive
<1>6. ASSUME NEW s \in Sessions, Decide(s) PROVE LocksExclude'
  BY <1>1, <1>2, <1>6 DEF Decide
<1>7. CASE UNCHANGED vars
  BY <1>2, <1>7 DEF vars
<1>8. QED
  BY <1>1, <1>2, <1>3, <1>4, <1>5, <1>6, <1>7 DEF Next, Commit, Drop, Victim

(* A key is claimed by one session at a time, and used by one movement. *)
LEMMA StepKeys ==
    TypeOK /\ CallsAreReal /\ LocksExclude /\ KeysAreClaimed /\ KeysMatchLedger /\ [Next]_vars
      => KeysAreClaimed' /\ KeysMatchLedger'
<1> SUFFICES ASSUME TypeOK, CallsAreReal, LocksExclude, KeysAreClaimed, KeysMatchLedger, [Next]_vars
             PROVE  KeysAreClaimed' /\ KeysMatchLedger'
  OBVIOUS
<1>1. ASSUME UNCHANGED db PROVE KeysMatchLedger'
  BY <1>1 DEF KeysMatchLedger, db
<1>2. ASSUME NEW s \in Sessions, End(s), UNCHANGED db PROVE KeysAreClaimed'
  <2>1. tx'[s].pc = "idle" /\ \A t \in Sessions \ {s} : tx'[t] = tx[t] /\ held'[t] = held[t]
    BY <1>2 DEF End, Idle, TypeOK
  <2>2. QED
    BY <1>2, <2>1 DEF KeysAreClaimed, db
<1>3. ASSUME NEW s \in Sessions, NEW c \in Calls, Begin(s, c) PROVE KeysAreClaimed'
  <2>1. CASE PassesFirstCheck(c)
    <3>1. tx'[s].call = c /\ tx'[s].todo = LocksOf(c) /\ \A t \in Sessions \ {s} : tx'[t] = tx[t]
      BY <1>3, <2>1 DEF Begin, TypeOK
    <3>2. c \in Movements => KeyLock(c.key) \in LocksOf(c)
      BY CallTypes DEF Movements, LocksOf, Needs, Locks, KeyLock
    <3>3. held' = held /\ idem' = idem
      BY <1>3, <2>1 DEF Begin, db
    <3>4. QED
      BY <3>1, <3>2, <3>3 DEF KeysAreClaimed
  <2>2. CASE ~PassesFirstCheck(c)
    BY <1>3, <2>2 DEF Begin, KeysAreClaimed, db
  <2>3. QED
    BY <2>1, <2>2
<1>4. ASSUME NEW s \in Sessions, Claim(s) PROVE KeysAreClaimed'
  <2> DEFINE k == KeyLock(tx[s].call.key)
  <2>1. UNCHANGED db
    BY <1>4 DEF Claim
  <2>2. CASE idem[tx[s].call.key].mv = 0
    <3>1. tx' = [tx EXCEPT ![s].todo = @ \ {k}] /\ held' = [held EXCEPT ![s] = @ \cup {k}]
      BY <1>4, <2>2 DEF Claim
    <3>2. /\ tx'[s].call = tx[s].call /\ k \in held'[s]
          /\ \A t \in Sessions \ {s} : tx'[t] = tx[t] /\ held'[t] = held[t]
      BY <3>1 DEF TypeOK, Transaction
    <3>3. QED
      BY <2>1, <2>2, <3>2 DEF KeysAreClaimed, db
  <2>3. CASE idem[tx[s].call.key].mv # 0
    BY <1>2, <1>4, <2>1, <2>3 DEF Claim
  <2>4. QED
    BY <2>2, <2>3
<1>5. ASSUME NEW s \in Sessions, Acquire(s) PROVE KeysAreClaimed'
  <2>1. PICK a \in tx[s].todo :
           /\ a[1] # "key"
           /\ tx' = [tx EXCEPT ![s].todo = @ \ {a}]
           /\ held' = held \/ held' = [held EXCEPT ![s] = @ \cup {a}]
    BY <1>5 DEF Acquire
  <2>2. a # KeyLock(tx[s].call.key)
    BY <2>1 DEF KeyLock
  <2>3. /\ tx'[s].call = tx[s].call /\ tx'[s].pc = tx[s].pc /\ tx'[s].todo = tx[s].todo \ {a}
        /\ \A t \in Sessions \ {s} : tx'[t] = tx[t]
    BY <2>1 DEF TypeOK, Transaction
  <2>4. \A t \in Sessions : held[t] \subseteq held'[t]
    BY <2>1 DEF TypeOK
  <2>5. UNCHANGED db
    BY <1>5 DEF Acquire
  <2>6. QED
    BY <2>2, <2>3, <2>4, <2>5 DEF KeysAreClaimed, db
<1>6. ASSUME NEW s \in Sessions, Decide(s) PROVE KeysAreClaimed'
  <2>1. UNCHANGED db
    BY <1>6 DEF Decide
  <2>2. CASE Legal(tx[s].call)
    <3>1. tx' = [tx EXCEPT ![s].pc = "decided"] /\ held' = held /\ tx[s].pc = "locking"
      BY <1>6, <2>2 DEF Decide
    <3>2. \A t \in Sessions : tx'[t].call = tx[t].call /\ tx'[t].todo = tx[t].todo
                             /\ (tx'[t].pc # "idle" => tx[t].pc # "idle")
      BY <3>1 DEF TypeOK, Transaction
    <3>3. QED
      BY <2>1, <3>1, <3>2 DEF KeysAreClaimed, db
  <2>3. CASE ~Legal(tx[s].call)
    BY <1>2, <1>6, <2>1, <2>3 DEF Decide
  <2>4. QED
    BY <2>2, <2>3
<1>7. ASSUME NEW s \in Sessions, NEW d \in BOOLEAN, Commit(s, d)
      PROVE  KeysAreClaimed' /\ KeysMatchLedger'
  <2> DEFINE c == tx[s].call
             n == Len(ledger) + 1
  <2>1. End(s) /\ c \in Calls
    BY <1>7 DEF Commit, CallsAreReal
  <2>2. tx'[s].pc = "idle" /\ \A t \in Sessions \ {s} : tx'[t] = tx[t] /\ held'[t] = held[t]
    BY <2>1 DEF End, Idle, TypeOK
  <2>3. CASE c \notin Movements
    <3>1. ledger' = ledger /\ idem' = idem
      BY <1>7, <2>3 DEF Commit
    <3>2. QED
      BY <2>2, <3>1 DEF KeysAreClaimed, KeysMatchLedger
  <2>4. CASE c \in Movements
    <3>1. ledger' = Append(ledger, c) /\ idem' = [idem EXCEPT ![c.key] = [call |-> c, mv |-> n]]
      BY <1>7, <2>4 DEF Commit
    <3>2. c.key \in Keys
      BY <2>1, CallTypes
    <3>3. KeyLock(c.key) \in held[s] /\ idem[c.key].mv = 0
      BY <1>7, <2>4 DEF Commit, KeysAreClaimed, CallsAreReal
    <3>4. idem'[c.key] = [call |-> c, mv |-> n] /\ \A k \in Keys \ {c.key} : idem'[k] = idem[k]
      BY <3>1, <3>2 DEF TypeOK
    <3>5. /\ DOMAIN ledger' = DOMAIN ledger \cup {n} /\ n \notin DOMAIN ledger /\ n # 0
          /\ ledger'[n] = c /\ \A m \in DOMAIN ledger : ledger'[m] = ledger[m] /\ m # 0
      BY <3>1 DEF TypeOK
    <3>6. \A m \in DOMAIN ledger : ledger[m].key \in Keys \ {c.key}
      <4>1. ASSUME NEW m \in DOMAIN ledger PROVE ledger[m] \in Calls
        BY DEF TypeOK, Movements
      <4>2. QED
        BY <3>3, <3>5, <4>1, CallTypes DEF KeysMatchLedger
    <3>7. KeysMatchLedger'
      BY <3>2, <3>4, <3>5, <3>6 DEF KeysMatchLedger
    <3>8. \A t \in Sessions \ {s} : KeyLock(c.key) \notin held[t]
      BY <3>3 DEF LocksExclude, Conflict, KeyLock
    <3>9. ASSUME NEW t \in Sessions, tx'[t].pc # "idle", tx'[t].call \in Movements
          PROVE  \/ KeyLock(tx'[t].call.key) \in tx'[t].todo
                 \/ KeyLock(tx'[t].call.key) \in held'[t] /\ idem'[tx'[t].call.key].mv = 0
      <4>1. t # s /\ tx'[t] = tx[t] /\ held'[t] = held[t]
        BY <2>2, <3>9
      <4>2. tx[t].call.key \in Keys
        BY <3>9, <4>1, CallTypes DEF Movements
      <4>3. QED
        BY <3>4, <3>8, <3>9, <4>1, <4>2 DEF KeysAreClaimed
    <3>10. KeysAreClaimed'
      BY <3>9 DEF KeysAreClaimed
    <3>11. QED
      BY <3>7, <3>10
  <2>5. QED
    BY <2>3, <2>4
<1>8. CASE UNCHANGED vars
  BY <1>8 DEF vars, db, KeysAreClaimed, KeysMatchLedger
<1>9. QED
  BY <1>1, <1>2, <1>3, <1>4, <1>5, <1>6, <1>7, <1>8
     DEF Next, Begin, Claim, Acquire, Decide, Drop, Victim

------------------------------------------------------------------------------
(* The inductive invariant. *)
IInv == TypeOK /\ CallsAreReal /\ LocksExclude /\ KeysAreClaimed /\ KeysMatchLedger

LEMMA InitIInv == Init => IInv
<1> SUFFICES ASSUME Init PROVE IInv
  OBVIOUS
<1>1. TypeOK
  BY InitTypes
<1>2. CallsAreReal /\ KeysAreClaimed
  BY DEF Init, Idle, CallsAreReal, KeysAreClaimed
<1>3. LocksExclude /\ KeysMatchLedger
  BY DEF Init, LocksExclude, KeysMatchLedger
<1>4. QED
  BY <1>1, <1>2, <1>3 DEF IInv

LEMMA StepIInv == IInv /\ [Next]_vars => IInv'
BY StepTypes, StepCalls, StepLocks, StepKeys DEF IInv

LEMMA Inductive == Spec => []IInv
BY InitIInv, StepIInv, PTL DEF Spec

(* Types hold in every reachable state. *)
THEOREM TypesHold == Spec => []TypeOK
BY Inductive, PTL DEF IInv

(* pg_advisory_xact_lock, row locks and the unique key do their work: at no
   time do two sessions hold conflicting locks. *)
THEOREM LocksHold == Spec => []LocksExclude
BY Inductive, PTL DEF IInv

(* The table of keys and the ledger agree: a key has one movement at most. *)
THEOREM KeysHold == Spec => []KeysMatchLedger
BY Inductive, PTL DEF IInv

------------------------------------------------------------------------------
(* Every step of the protocol is a step of InvOnce, or invisible to it. *)
LEMMA InitOnce == Init => Once!Init
BY DEF Init, Once!Init

LEMMA StepOnce == IInv /\ [Next]_vars => [Once!Next]_(Once!vars)
<1> SUFFICES ASSUME IInv, [Next]_vars PROVE [Once!Next]_(Once!vars)
  OBVIOUS
<1> USE DEF IInv
<1>1. CASE UNCHANGED <<ledger, answers>>
  BY <1>1 DEF Once!vars
<1>2. ASSUME NEW c, ledger' = ledger, answers' = Answer(c, 0) PROVE [Once!Next]_(Once!vars)
  <2>1. CASE c \in Movements
    BY <1>2, <2>1 DEF Answer, Once!Next, Once!Refuse
  <2>2. CASE c \notin Movements
    BY <1>1, <1>2, <2>2 DEF Answer
  <2>3. QED
    BY <2>1, <2>2
<1>3. ASSUME NEW s \in Sessions, NEW c \in Calls, Begin(s, c) PROVE [Once!Next]_(Once!vars)
  BY <1>1, <1>2, <1>3 DEF Begin, db
<1>4. ASSUME NEW s \in Sessions, Claim(s) PROVE [Once!Next]_(Once!vars)
  <2> DEFINE c == tx[s].call
             m == idem[c.key].mv
  <2>1. ledger' = ledger
    BY <1>4 DEF Claim, db
  <2>2. CASE m = 0
    BY <1>1, <1>4, <2>1, <2>2 DEF Claim
  <2>3. CASE m # 0 /\ idem[c.key].call # c
    BY <1>2, <1>4, <2>1, <2>3 DEF Claim
  <2>4. CASE m # 0 /\ idem[c.key].call = c
    <3>1. answers' = Answer(c, m)
      BY <1>4, <2>4 DEF Claim
    <3>2. c.key \in Keys
      BY <1>4, CallTypes DEF Claim, CallsAreReal
    <3>3. m \in DOMAIN ledger /\ ledger[m] = c
      BY <2>4, <3>2 DEF KeysMatchLedger
    <3>4. CASE c \in Movements
      BY <2>1, <3>1, <3>3, <3>4 DEF Answer, Once!Next, Once!Replay
    <3>5. CASE c \notin Movements
      BY <1>1, <2>1, <3>1, <3>5 DEF Answer
    <3>6. QED
      BY <3>4, <3>5
  <2>5. QED
    BY <2>2, <2>3, <2>4
<1>5. ASSUME NEW s \in Sessions, NEW d \in BOOLEAN, Commit(s, d) PROVE [Once!Next]_(Once!vars)
  <2> DEFINE c == tx[s].call
             n == Len(ledger) + 1
  <2>1. CASE c \notin Movements
    <3>1. ledger' = ledger /\ answers' = answers
      BY <1>5, <2>1 DEF Commit, Answer
    <3>2. QED
      BY <1>1, <3>1
  <2>2. CASE c \in Movements
    <3>1. ledger' = Append(ledger, c) /\ answers' \in {answers, answers \cup {<<c, n>>}}
      BY <1>5, <2>2 DEF Commit, Answer
    <3>2. idem[c.key].mv = 0
      BY <1>5, <2>2 DEF Commit, CallsAreReal, KeysAreClaimed
    <3>3. \A m \in DOMAIN ledger : ledger[m].key # c.key
      <4>1. \A m \in DOMAIN ledger : m # 0
        BY DEF TypeOK
      <4>2. QED
        BY <3>2, <4>1 DEF KeysMatchLedger
    <3>4. Once!Record(c)
      BY <3>1, <3>3 DEF Once!Record, Once!KeyUsed
    <3>5. QED
      BY <2>2, <3>4 DEF Once!Next
  <2>3. QED
    BY <2>1, <2>2
<1>6. ASSUME NEW s \in Sessions, Acquire(s) PROVE [Once!Next]_(Once!vars)
  BY <1>1, <1>6 DEF Acquire, db
<1>7. ASSUME NEW s \in Sessions, Decide(s) PROVE [Once!Next]_(Once!vars)
  BY <1>1, <1>2, <1>7 DEF Decide, db
<1>8. ASSUME NEW s \in Sessions, Drop(s) \/ Victim(s) PROVE [Once!Next]_(Once!vars)
  BY <1>1, <1>2, <1>8 DEF Drop, Victim, db
<1>9. CASE UNCHANGED vars
  BY <1>1, <1>9 DEF vars
<1>10. QED
  BY <1>3, <1>4, <1>5, <1>6, <1>7, <1>8, <1>9 DEF Next

(* The protocol keeps what InvOnce promises: a key moves stock at most once,
   a repeated call is answered with the first movement, and a refusal moves
   nothing, whatever the sessions interleave, drop or deadlock. *)
THEOREM ProtocolMovesOnce == Spec => MovesOnce
<1>1. Init => Once!Init
  BY InitOnce
<1>2. IInv /\ [Next]_vars => [Once!Next]_(Once!vars)
  BY StepOnce
<1>3. QED
  BY <1>1, <1>2, Inductive, PTL DEF Spec, MovesOnce, Once!Spec

------------------------------------------------------------------------------
(* Rows, answers and promised stock. *)

(* What has physically moved for a request. *)
Done(q, r) == IF r \in EmployeeRequest THEN q.issued ELSE q.out

(* A row whose status is true to its counts. *)
Sound(q, r) ==
    /\ q.out <= q.reserved /\ q.back <= q.out
    /\ q.status = "cancelled" => q.asked = 0 /\ q.reserved = q.out
    /\ q.status # "cancelled" =>
          /\ q.asked >= 1 /\ q.reserved <= q.asked
          /\ q.status \in {"fulfilled", "closed"} <=> Done(q, r) >= q.asked
          /\ q.status = "closed" <=> r \notin EmployeeRequest /\ q.back >= q.asked

RowsSound == \A r \in Requests : Sound(req[r], r)

(* The rows a return or a hand-over passes over are not open, and stay so; a
   date change need not hold what it does not read. *)
MayPass(c, a) ==
    \/ /\ a[1] = "row" /\ req[a[2]].status \notin Open
       /\ c.kind = "return" \/ (c.kind = "transfer" /\ a # RowLock(c.req))
    \/ c.kind = "window" /\ a[1] \in {"item", "res"}

(* A call holds the locks it names, except those it has still to take. *)
LocksCovered ==
    \A s \in Sessions : tx[s].pc # "idle" =>
        /\ tx[s].todo \subseteq LocksOf(tx[s].call)
        /\ \A a \in LocksOf(tx[s].call) \ tx[s].todo : a \in held[s] \/ MayPass(tx[s].call, a)

(* The kind of a request is asked before anything else, and never changes. *)
RightKind(c) ==
    /\ c.kind \in {"dispatch", "transfer"} => c.req \notin EmployeeRequest
    /\ c.kind = "issue" => c.req \in EmployeeRequest

KindsFit ==
    /\ \A s \in Sessions : tx[s].pc # "idle" => RightKind(tx[s].call)
    /\ \A n \in DOMAIN ledger : RightKind(ledger[n])

(* What the row of its request must be for a call, whatever is on the shelf. *)
Justified(c) ==
    LET q == req[c.req]
    IN  /\ c.kind = "dispatch" => q.reserved > q.out
        /\ c.kind = "issue"    => q.issued < q.asked
        /\ c.kind = "transfer" => /\ q.status \in Live /\ ProjectOf[c.src] # ProjectOf[c.req]
                                  /\ q.reserved > q.out \/ q.asked > q.reserved
        /\ c.kind = "reserve"  => q.status \in Live /\ q.asked > q.reserved
        /\ c.kind = "cancel"   => q.status \in Live

(* What was legal when the call looked is so until it commits. *)
DecidedIsLegal == \A s \in Sessions : tx[s].pc = "decided" => Justified(tx[s].call)

(* A key that is locked has not been used. *)
HeldKeysAreNew ==
    \A s \in Sessions, k \in Keys : KeyLock(k) \in held[s] => idem[k].mv = 0

RowInv == RowsSound /\ LocksCovered /\ KindsFit /\ DecidedIsLegal /\ HeldKeysAreNew

------------------------------------------------------------------------------
(* Rows, by field. *)

LEMMA RowFields ==
    ASSUME NEW q \in RequestRow
    PROVE  /\ q.status \in Statuses
           /\ q.asked \in Nat /\ q.issued \in Nat /\ q.reserved \in Nat /\ q.out \in Nat /\ q.back \in Nat
BY DEF RequestRow

(* q and p differ in nothing but what came back. *)
SameButBack(p, q) ==
    /\ p.status = q.status /\ p.asked = q.asked /\ p.issued = q.issued
    /\ p.reserved = q.reserved /\ p.out = q.out

LEMMA RefreshedIs ==
    ASSUME NEW q \in RequestRow, NEW r \in Requests
    PROVE  LET p == Refreshed(q, r)
               filled == Done(q, r) >= q.asked
           IN  /\ p \in RequestRow
               /\ p.asked = q.asked /\ p.issued = q.issued
               /\ p.reserved = q.reserved /\ p.out = q.out /\ p.back = q.back
               /\ q.status \notin Open => p = q
               /\ q.status \in Open /\ q.asked # 0 =>
                     p.status = IF filled /\ r \notin EmployeeRequest /\ Done(q, r) > 0 /\ q.back = q.out THEN "closed"
                                ELSE IF filled THEN "fulfilled"
                                ELSE IF Done(q, r) > 0 THEN "in_progress" ELSE q.status
BY DEF Refreshed, RequestRow, Done, Statuses, Open, Live

LEMMA TookIs ==
    ASSUME NEW q \in RequestRow, NEW r \in Requests
    PROVE  /\ Took(q, r) \in RequestRow
           /\ Took(q, r).status = q.status /\ Took(q, r).asked = q.asked /\ Took(q, r).issued = q.issued
           /\ Took(q, r).reserved = q.reserved /\ Took(q, r).back = q.back
           /\ Took(q, r).out = IF q.reserved > q.out THEN q.out + 1 ELSE q.out
BY DEF Took, RequestRow

LEMMA GaveBackIs ==
    ASSUME NEW q \in RequestRow
    PROVE  GaveBack(q) \in RequestRow /\ SameButBack(GaveBack(q), q) /\ GaveBack(q).back = q.back + 1
BY DEF GaveBack, RequestRow, SameButBack

LEMMA CancelledIs ==
    ASSUME NEW q \in RequestRow
    PROVE  /\ Cancelled(q) \in RequestRow
           /\ Cancelled(q).status = "cancelled" /\ Cancelled(q).asked = 0 /\ Cancelled(q).reserved = q.out
           /\ Cancelled(q).out = q.out /\ Cancelled(q).back = q.back /\ Cancelled(q).issued = q.issued
<1>1. "cancelled" \in Statuses
  BY DEF Statuses
<1>2. QED
  BY <1>1 DEF Cancelled, RequestRow

LEMMA ArrivedIs ==
    ASSUME NEW q \in RequestRow
    PROVE  /\ Arrived(q) \in RequestRow
           /\ Arrived(q).status = q.status /\ Arrived(q).asked = q.asked /\ Arrived(q).issued = q.issued
           /\ Arrived(q).back = q.back /\ Arrived(q).out = q.out + 1
           /\ Arrived(q).reserved = IF q.reserved > q.out THEN q.reserved ELSE q.reserved + 1
<1>1. CASE q.reserved > q.out
  BY <1>1 DEF Arrived, RequestRow
<1>2. CASE ~(q.reserved > q.out)
  <2> DEFINE p == [q EXCEPT !.out = q.out + 1]
  <2>1. p \in RequestRow /\ p.out = q.out + 1 /\ p.reserved = q.reserved /\ p.status = q.status
        /\ p.asked = q.asked /\ p.issued = q.issued /\ p.back = q.back
    BY DEF RequestRow
  <2>2. Arrived(q) = [p EXCEPT !.reserved = q.reserved + 1]
    BY <1>2 DEF Arrived
  <2> HIDE DEF p
  <2>3. QED
    BY <1>2, <2>1, <2>2 DEF RequestRow
<1>3. QED
  BY <1>1, <1>2

------------------------------------------------------------------------------
(* A refresh makes the status of an open row true. *)

Loose(q, r) ==
    /\ q.out <= q.reserved /\ q.back <= q.out /\ q.reserved <= q.asked /\ q.asked >= 1
    /\ q.status \in Open /\ (q.status = "fulfilled" => Done(q, r) >= q.asked)

LEMMA SoundIsLoose ==
    ASSUME NEW q \in RequestRow, NEW r \in Requests, Sound(q, r), q.status \in Open
    PROVE  Loose(q, r)
BY DEF Sound, Loose, Open, Live

LEMMA RefreshSettles ==
    ASSUME NEW q \in RequestRow, NEW r \in Requests, Loose(q, r)
    PROVE  Sound(Refreshed(q, r), r)
<1> DEFINE p == Refreshed(q, r)
<1>1. /\ p.asked = q.asked /\ p.issued = q.issued
      /\ p.reserved = q.reserved /\ p.out = q.out /\ p.back = q.back
      /\ p.status = IF Done(q, r) >= q.asked /\ r \notin EmployeeRequest /\ Done(q, r) > 0 /\ q.back = q.out THEN "closed"
                    ELSE IF Done(q, r) >= q.asked THEN "fulfilled"
                    ELSE IF Done(q, r) > 0 THEN "in_progress" ELSE q.status
  BY RefreshedIs DEF Loose
<1>2. Done(p, r) = Done(q, r)
  BY <1>1 DEF Done
<1>3. q.asked \in Nat /\ q.issued \in Nat /\ q.reserved \in Nat /\ q.out \in Nat /\ q.back \in Nat
  BY RowFields
<1> HIDE DEF p
<1>4. ASSUME r \in EmployeeRequest PROVE Sound(p, r)
  BY <1>1, <1>2, <1>3, <1>4 DEF Sound, Loose, Open, Live, Done
<1>5. ASSUME r \notin EmployeeRequest PROVE Sound(p, r)
  BY <1>1, <1>2, <1>3, <1>5 DEF Sound, Loose, Open, Live, Done
<1>6. QED
  BY <1>4, <1>5 DEF p

LEMMA RefreshKeeps ==
    ASSUME NEW q \in RequestRow, NEW r \in Requests, Sound(q, r)
    PROVE  Sound(Refreshed(q, r), r)
<1>1. CASE q.status \in Open
  BY <1>1, SoundIsLoose, RefreshSettles
<1>2. CASE q.status \notin Open
  BY <1>2, RefreshedIs
<1>3. QED
  BY <1>1, <1>2

(* A call that is justified meets a live request. *)
LEMMA JustifiedIsLive ==
    ASSUME TypeOK, RowsSound, NEW c \in Calls, RightKind(c), Justified(c),
           c.kind \in {"dispatch", "issue", "transfer", "reserve", "cancel"}
    PROVE  req[c.req].status \in Live
<1>1. req[c.req] \in RequestRow /\ Sound(req[c.req], c.req)
  BY CallTypes DEF TypeOK, RowsSound
<1>2. QED
  BY <1>1, RowFields DEF Sound, Justified, RightKind, Done, Statuses, Open, Live

(* What a call does to a row that is not open: at most a piece comes back. *)
LEMMA TouchedSound ==
    ASSUME TypeOK, RowsSound, NEW c \in Calls, RightKind(c), Justified(c), NEW r \in Requests
    PROVE  /\ Touched(c, r) \in RequestRow
           /\ Loose(Touched(c, r), r) \/ Sound(Touched(c, r), r)
           /\ Sound(Touched(c, r), r) \/ (c.kind \in KeyedKinds /\ RowLock(r) \in LocksOf(c))
           /\ req[r].status \notin Open => SameButBack(Touched(c, r), req[r])
           /\ RowLock(r) \notin LocksOf(c) => Touched(c, r) = req[r]
           /\ r # c.req => SameButBack(Touched(c, r), req[r])
<1>1. /\ req[r] \in RequestRow /\ Sound(req[r], r) /\ c.req \in Requests /\ c.src \in Requests
      /\ c.kind \in KeyedKinds \cup PlanningKinds
  BY CallTypes DEF TypeOK, RowsSound
<1>2. \A q \in Requests : RowLock(q) \in Locks /\ RowLock(q)[1] = "row" /\ RowLock(q)[2] = q
  BY DEF RowLock, Locks
<1>3. CASE c.kind = "dispatch" /\ r = c.req
  <2>1. Touched(c, r) = Took(req[r], r)
    BY <1>3 DEF Touched
  <2>2. req[r].status \in Live /\ r \notin EmployeeRequest /\ req[r].reserved > req[r].out
    BY <1>3, JustifiedIsLive DEF RightKind, Justified
  <2>3. Loose(Took(req[r], r), r)
    BY <1>1, <2>2, TookIs, RowFields DEF Loose, Sound, Open, Live, Done
  <2>4. RowLock(r) \in LocksOf(c)
    BY <1>2, <1>3 DEF LocksOf, Needs
  <2>5. QED
    BY <1>1, <1>3, <2>1, <2>2, <2>3, <2>4, TookIs DEF KeyedKinds, Open
<1>4. CASE c.kind = "issue" /\ r = c.req
  <2> DEFINE q == Took(req[r], r)
             p == [q EXCEPT !.issued = q.issued + 1]
  <2>1. Touched(c, r) = p
    BY <1>4 DEF Touched
  <2>2. req[r].status \in Live /\ r \in EmployeeRequest
    BY <1>4, JustifiedIsLive DEF RightKind
  <2>3. /\ q \in RequestRow /\ q.status = req[r].status /\ q.asked = req[r].asked /\ q.reserved = req[r].reserved
        /\ q.back = req[r].back /\ q.out = IF req[r].reserved > req[r].out THEN req[r].out + 1 ELSE req[r].out
    BY <1>1, TookIs
  <2>4. /\ p \in RequestRow /\ p.status = q.status /\ p.asked = q.asked /\ p.reserved = q.reserved
        /\ p.back = q.back /\ p.out = q.out
    <3> HIDE DEF q
    <3>1. QED
      BY <2>3 DEF RequestRow
  <2> HIDE DEF p, q
  <2>5. Loose(p, r)
    BY <1>1, <2>2, <2>3, <2>4, RowFields DEF Loose, Sound, Open, Live
  <2>6. RowLock(r) \in LocksOf(c)
    BY <1>2, <1>4 DEF LocksOf, Needs
  <2>7. QED
    BY <1>1, <1>4, <2>1, <2>2, <2>4, <2>5, <2>6 DEF KeyedKinds, Open
<1>5. CASE c.kind \in {"return", "transfer"} /\ Credited(Giver(c), r)
  <2>1. Touched(c, r) = GaveBack(req[r])
    <3>1. c.kind = "transfer" => r # c.req
      BY <1>5 DEF Justified, Credited, Owing, Siblings, Giver
    <3>2. QED
      BY <1>5, <3>1 DEF Touched
  <2>2. req[r].out > req[r].back /\ r \in Siblings(Giver(c))
    BY <1>5 DEF Credited, Owing
  <2>3. RowLock(r) \in LocksOf(c)
    BY <1>2, <1>5, <2>2 DEF LocksOf, Needs
  <2>4. req[r].status \in Open => Loose(GaveBack(req[r]), r)
    BY <1>1, <2>2, GaveBackIs, SoundIsLoose, RowFields DEF Loose, SameButBack, Done
  <2>5. req[r].status \notin Open => Sound(GaveBack(req[r]), r)
    BY <1>1, <2>2, GaveBackIs, RowFields DEF Sound, SameButBack, Done, Open, Live, Statuses
  <2>6. QED
    BY <1>1, <1>5, <2>1, <2>3, <2>4, <2>5, GaveBackIs DEF KeyedKinds
<1>6. CASE c.kind = "transfer" /\ r = c.req /\ ~Credited(Giver(c), r)
  <2>1. Touched(c, r) = Arrived(req[r])
    BY <1>6 DEF Touched
  <2>2. /\ req[r].status \in Live /\ r \notin EmployeeRequest
        /\ req[r].reserved > req[r].out \/ req[r].asked > req[r].reserved
    BY <1>6 DEF RightKind, Justified
  <2>3. Loose(Arrived(req[r]), r)
    BY <1>1, <2>2, ArrivedIs, RowFields DEF Loose, Sound, Open, Live, Done
  <2>4. RowLock(r) \in LocksOf(c)
    BY <1>2, <1>6 DEF LocksOf, Needs
  <2>5. QED
    BY <1>1, <1>6, <2>1, <2>2, <2>3, <2>4, ArrivedIs DEF KeyedKinds, Open
<1>7. CASE c.kind = "reserve" /\ r = c.req
  <2> DEFINE q == [req[r] EXCEPT !.reserved = req[r].reserved + 1]
             p == [q EXCEPT !.status = "in_progress"]
  <2>1. Touched(c, r) = p
    BY <1>7 DEF Touched
  <2>2. req[r].status \in Live /\ req[r].asked > req[r].reserved
    BY <1>7 DEF Justified
  <2>3. /\ q \in RequestRow /\ q.issued = req[r].issued /\ q.asked = req[r].asked
        /\ q.reserved = req[r].reserved + 1 /\ q.back = req[r].back /\ q.out = req[r].out
    BY <1>1 DEF RequestRow
  <2>4. /\ p \in RequestRow /\ p.status = "in_progress" /\ p.issued = req[r].issued /\ p.asked = req[r].asked
        /\ p.reserved = req[r].reserved + 1 /\ p.back = req[r].back /\ p.out = req[r].out
    <3> HIDE DEF q
    <3>1. "in_progress" \in Statuses
      BY DEF Statuses, Open, Live
    <3>2. QED
      BY <2>3, <3>1 DEF RequestRow
  <2> HIDE DEF p, q
  <2>5. Sound(p, r)
    BY <1>1, <2>2, <2>4, RowFields DEF Sound, Live, Done
  <2>6. RowLock(r) \in LocksOf(c)
    BY <1>2, <1>7 DEF LocksOf, Needs, PlanningKinds
  <2>7. QED
    BY <1>1, <1>7, <2>1, <2>2, <2>4, <2>5, <2>6 DEF Open
<1>8. CASE c.kind = "cancel" /\ r = c.req
  <2>1. Touched(c, r) = Cancelled(req[r])
    BY <1>8 DEF Touched
  <2>2. req[r].status \in Live
    BY <1>8 DEF Justified
  <2>3. Sound(Cancelled(req[r]), r)
    BY <1>1, CancelledIs, RowFields DEF Sound
  <2>4. RowLock(r) \in LocksOf(c)
    BY <1>2, <1>8 DEF LocksOf, Needs, PlanningKinds
  <2>5. QED
    BY <1>1, <1>8, <2>1, <2>2, <2>3, <2>4, CancelledIs DEF Open
<1>9. CASE ~(c.kind \in {"dispatch", "issue", "transfer", "reserve", "cancel"} /\ r = c.req)
           /\ ~(c.kind \in {"return", "transfer"} /\ Credited(Giver(c), r))
  <2>1. Touched(c, r) = req[r]
    BY <1>1, <1>9 DEF Touched, KeyedKinds, PlanningKinds
  <2>2. QED
    BY <1>1, <2>1 DEF SameButBack
<1>10. QED
  BY <1>3, <1>4, <1>5, <1>6, <1>7, <1>8, <1>9

------------------------------------------------------------------------------
(* A commit. *)

LEMMA InvParts ==
    ASSUME IInv
    PROVE  TypeOK /\ CallsAreReal /\ LocksExclude /\ KeysAreClaimed /\ KeysMatchLedger
BY DEF IInv

LEMMA RowInvParts ==
    ASSUME RowInv
    PROVE  RowsSound /\ LocksCovered /\ KindsFit /\ DecidedIsLegal /\ HeldKeysAreNew
BY DEF RowInv

(* The rows a justified call writes are sound; those it does not lock stay as
   they are, and those that are not open get a piece back at most. *)
LEMMA CommitRows ==
    ASSUME TypeOK, RowsSound, NEW c \in Calls, RightKind(c), Justified(c), NEW r \in Requests
    PROVE  /\ Sound(NewReq(c)[r], r)
           /\ req[r].status \notin Open => SameButBack(NewReq(c)[r], req[r])
           /\ RowLock(r) \notin LocksOf(c) => NewReq(c)[r] = req[r]
<1> DEFINE q == Touched(c, r)
<1>1. /\ q \in RequestRow
      /\ Loose(q, r) \/ Sound(q, r)
      /\ Sound(q, r) \/ r \in RowsRefreshed(c)
      /\ req[r].status \notin Open => SameButBack(q, req[r])
      /\ RowLock(r) \notin LocksOf(c) => q = req[r]
  BY TouchedSound DEF RowsRefreshed
<1>2. NewReq(c)[r] = IF r \in RowsRefreshed(c) THEN Refreshed(q, r) ELSE q
  BY DEF NewReq
<1> HIDE DEF q
<1>3. CASE r \in RowsRefreshed(c)
  <2>1. Sound(Refreshed(q, r), r)
    BY <1>1, RefreshSettles, RefreshKeeps
  <2>2. req[r].status \notin Open => Refreshed(q, r) = q
    <3>1. req[r].status \notin Open => q.status \notin Open
      BY <1>1 DEF SameButBack
    <3>2. QED
      BY <1>1, <3>1, RefreshedIs
  <2>3. RowLock(r) \in LocksOf(c)
    BY <1>3 DEF RowsRefreshed
  <2>4. QED
    BY <1>1, <1>2, <1>3, <2>1, <2>2, <2>3
<1>4. CASE r \notin RowsRefreshed(c)
  BY <1>1, <1>2, <1>4
<1>5. QED
  BY <1>3, <1>4

(* A call that has decided is a real and justified one, and writes NewReq. *)
LEMMA CommitIs ==
    ASSUME IInv, RowInv, NEW s \in Sessions, NEW d \in BOOLEAN, Commit(s, d)
    PROVE  /\ tx[s].call \in Calls /\ RightKind(tx[s].call) /\ Justified(tx[s].call)
           /\ tx[s].pc = "decided" /\ tx[s].todo = {} /\ End(s)
           /\ req' \in [Requests -> RequestRow]
           /\ \A r \in Requests : req'[r] = NewReq(tx[s].call)[r]
<1>1. tx[s].pc = "decided" /\ End(s) /\ req' = NewReq(tx[s].call)
  BY DEF Commit
<1>2. tx[s].call \in Calls /\ tx[s].todo = {}
  BY <1>1 DEF IInv, CallsAreReal
<1>3. RightKind(tx[s].call) /\ Justified(tx[s].call)
  BY <1>1 DEF RowInv, KindsFit, DecidedIsLegal
<1>4. NewReq(tx[s].call) \in [Requests -> RequestRow]
  BY <1>2, InvParts, RowTypes
<1>5. QED
  BY <1>1, <1>2, <1>3, <1>4

(* Only a commit writes a request row. *)
LEMMA RowsWritten ==
    ASSUME [Next]_vars
    PROVE  req' = req \/ \E s \in Sessions, d \in BOOLEAN : Commit(s, d)
<1>1. ASSUME NEW s \in Sessions, NEW c \in Calls, Begin(s, c) PROVE req' = req
  BY <1>1 DEF Begin, db
<1>2. ASSUME NEW s \in Sessions, Claim(s) \/ Acquire(s) \/ Decide(s) \/ Drop(s) \/ Victim(s)
      PROVE  req' = req
  BY <1>2 DEF Claim, Acquire, Decide, Drop, Victim, db
<1>3. CASE UNCHANGED vars
  BY <1>3 DEF vars
<1>4. QED
  BY <1>1, <1>2, <1>3 DEF Next

LEMMA StepRowsSound == IInv /\ RowInv /\ [Next]_vars => RowsSound'
<1> SUFFICES ASSUME IInv, RowInv, [Next]_vars, NEW r \in Requests PROVE Sound(req'[r], r)
  BY DEF RowsSound
<1>1. CASE req' = req
  BY <1>1 DEF RowInv, RowsSound
<1>2. ASSUME NEW s \in Sessions, NEW d \in BOOLEAN, Commit(s, d) PROVE Sound(req'[r], r)
  BY <1>2, CommitIs, CommitRows, InvParts, RowInvParts
<1>3. QED
  BY <1>1, <1>2, RowsWritten

(* A closed or cancelled request gets a piece back at most. *)
LEMMA ClosedStays ==
    ASSUME IInv, RowInv, [Next]_vars, NEW r \in Requests, req[r].status \notin Open
    PROVE  req'[r].status \notin Open
<1>1. CASE req' = req
  BY <1>1
<1>2. ASSUME NEW s \in Sessions, NEW d \in BOOLEAN, Commit(s, d) PROVE req'[r].status \notin Open
  <2>1. SameButBack(req'[r], req[r])
    BY <1>2, CommitIs, CommitRows, InvParts, RowInvParts
  <2>2. QED
    BY <2>1 DEF SameButBack
<1>3. QED
  BY <1>1, <1>2, RowsWritten

LEMMA LockShapes ==
    ASSUME NEW a \in Locks, a[1] = "row"
    PROVE  a[2] \in Requests
BY DEF Locks, Counter

LEMMA MayPassStays ==
    ASSUME IInv, RowInv, [Next]_vars, NEW c, NEW a \in Locks, MayPass(c, a)
    PROVE  MayPass(c, a)'
<1>1. CASE a[1] = "row" /\ req[a[2]].status \notin Open
  <2>1. a[2] \in Requests
    BY <1>1, LockShapes
  <2>2. req'[a[2]].status \notin Open
    BY <1>1, <2>1, ClosedStays
  <2>3. QED
    BY <1>1, <2>2 DEF MayPass
<1>2. CASE c.kind = "window" /\ a[1] \in {"item", "res"}
  BY <1>2 DEF MayPass
<1>3. QED
  BY <1>1, <1>2 DEF MayPass

------------------------------------------------------------------------------
(* What a session holds covers what its call names. *)

Covered(s) ==
    tx[s].pc # "idle" =>
        /\ tx[s].todo \subseteq LocksOf(tx[s].call)
        /\ \A a \in LocksOf(tx[s].call) \ tx[s].todo : a \in held[s] \/ MayPass(tx[s].call, a)

LEMMA SameCovered ==
    ASSUME IInv, RowInv, [Next]_vars, NEW s \in Sessions,
           tx'[s].call = tx[s].call, tx'[s].todo = tx[s].todo, held'[s] = held[s],
           tx'[s].pc # "idle" => tx[s].pc # "idle"
    PROVE  Covered(s)'
<1>1. PICK c : c = tx[s].call
  OBVIOUS
<1>2. ASSUME tx'[s].pc # "idle", NEW a \in LocksOf(c) \ tx[s].todo
      PROVE  a \in held[s] \/ MayPass(c, a)'
  <2>1. a \in held[s] \/ MayPass(c, a)
    BY <1>1, <1>2 DEF RowInv, LocksCovered
  <2>2. a \in Locks
    BY DEF LocksOf
  <2>3. QED
    BY <2>1, <2>2, MayPassStays
<1>3. tx'[s].pc # "idle" => tx[s].todo \subseteq LocksOf(c)
  BY <1>1 DEF RowInv, LocksCovered
<1>4. tx'[s].call = c
  BY <1>1
<1>5. QED
  BY <1>2, <1>3, <1>4 DEF Covered, MayPass

LEMMA OthersCovered ==
    ASSUME IInv, RowInv, [Next]_vars, NEW s \in Sessions, Covered(s)',
           \A t \in Sessions \ {s} : tx'[t] = tx[t] /\ held'[t] = held[t]
    PROVE  LocksCovered'
<1>1. ASSUME NEW t \in Sessions \ {s} PROVE Covered(t)'
  BY <1>1, SameCovered
<1>2. \A t \in Sessions : Covered(t)'
  BY <1>1
<1>3. QED
  BY <1>2 DEF LocksCovered, Covered

(* What a step does to the session that takes it; nobody else's changes. *)
LEMMA EndIs ==
    ASSUME TypeOK, NEW s \in Sessions, End(s)
    PROVE  /\ tx'[s].pc = "idle" /\ held'[s] = {}
           /\ \A t \in Sessions \ {s} : tx'[t] = tx[t] /\ held'[t] = held[t]
BY DEF End, Idle, TypeOK

LEMMA BeginIs ==
    ASSUME TypeOK, NEW s \in Sessions, NEW c \in Calls, Begin(s, c)
    PROVE  /\ held' = held
           /\ \A t \in Sessions \ {s} : tx'[t] = tx[t]
           /\ \/ tx' = tx /\ answers' = Answer(c, 0) /\ ~PassesFirstCheck(c)
              \/ /\ tx'[s].pc = "locking" /\ tx'[s].call = c /\ tx'[s].todo = LocksOf(c)
                 /\ PassesFirstCheck(c) /\ answers' = answers
<1>1. CASE PassesFirstCheck(c)
  BY <1>1 DEF Begin, TypeOK
<1>2. CASE ~PassesFirstCheck(c)
  BY <1>2 DEF Begin
<1>3. QED
  BY <1>1, <1>2

LEMMA ClaimIs ==
    ASSUME TypeOK, NEW s \in Sessions, Claim(s), idem[tx[s].call.key].mv = 0
    PROVE  /\ tx'[s].pc = tx[s].pc /\ tx'[s].call = tx[s].call
           /\ tx'[s].todo = tx[s].todo \ {KeyLock(tx[s].call.key)}
           /\ held'[s] = held[s] \cup {KeyLock(tx[s].call.key)}
           /\ \A t \in Sessions \ {s} : tx'[t] = tx[t] /\ held'[t] = held[t]
           /\ tx[s].pc = "locking"
<1>1. /\ tx' = [tx EXCEPT ![s].todo = @ \ {KeyLock(tx[s].call.key)}]
      /\ held' = [held EXCEPT ![s] = @ \cup {KeyLock(tx[s].call.key)}] /\ tx[s].pc = "locking"
  BY DEF Claim
<1>2. QED
  BY <1>1 DEF TypeOK, Transaction

LEMMA AcquireIs ==
    ASSUME TypeOK, NEW s \in Sessions, Acquire(s)
    PROVE  \E a \in tx[s].todo :
           /\ a[1] # "key" /\ tx'[s].pc = tx[s].pc /\ tx'[s].call = tx[s].call
           /\ tx'[s].todo = tx[s].todo \ {a} /\ tx[s].pc = "locking"
           /\ \/ (PassedOver(tx[s].call, a) /\ held'[s] = held[s])
              \/ held'[s] = held[s] \cup {a}
           /\ \A t \in Sessions \ {s} : tx'[t] = tx[t] /\ held'[t] = held[t]
<1>1. PICK a \in tx[s].todo :
        /\ a[1] # "key" /\ tx' = [tx EXCEPT ![s].todo = @ \ {a}]
        /\ IF PassedOver(tx[s].call, a) THEN UNCHANGED held
           ELSE Free(s, a) /\ held' = [held EXCEPT ![s] = @ \cup {a}]
  BY DEF Acquire
<1>2. /\ tx'[s].pc = tx[s].pc /\ tx'[s].call = tx[s].call
      /\ tx'[s].todo = tx[s].todo \ {a}
      /\ \A t \in Sessions \ {s} : tx'[t] = tx[t]
  BY <1>1 DEF TypeOK, Transaction
<1>3. CASE PassedOver(tx[s].call, a)
  BY <1>1, <1>2, <1>3 DEF Acquire
<1>4. CASE ~PassedOver(tx[s].call, a)
  <2>1. held'[s] = held[s] \cup {a} /\ \A t \in Sessions \ {s} : held'[t] = held[t]
    BY <1>1, <1>4 DEF TypeOK
  <2>2. QED
    BY <1>1, <1>2, <2>1 DEF Acquire
<1>5. QED
  BY <1>3, <1>4

LEMMA DecideIs ==
    ASSUME TypeOK, NEW s \in Sessions, Decide(s)
    PROVE  \/ /\ End(s) /\ answers' = Answer(tx[s].call, 0)
           \/ /\ Legal(tx[s].call) /\ tx[s].pc = "locking" /\ tx[s].todo = {} /\ held' = held
              /\ tx'[s].pc = "decided" /\ tx'[s].call = tx[s].call /\ tx'[s].todo = tx[s].todo
              /\ \A t \in Sessions \ {s} : tx'[t] = tx[t]
              /\ answers' = answers
<1>1. CASE Legal(tx[s].call)
  <2>1. /\ tx' = [tx EXCEPT ![s].pc = "decided"] /\ held' = held /\ tx[s].pc = "locking"
        /\ tx[s].todo = {} /\ answers' = answers
    BY <1>1 DEF Decide
  <2>2. QED
    BY <1>1, <2>1 DEF TypeOK, Transaction
<1>2. CASE ~Legal(tx[s].call)
  BY <1>2 DEF Decide
<1>3. QED
  BY <1>1, <1>2

LEMMA StepCovered == IInv /\ RowInv /\ [Next]_vars => LocksCovered'
<1> SUFFICES ASSUME IInv, RowInv, [Next]_vars PROVE LocksCovered'
  OBVIOUS
<1> USE InvParts
<1>1. ASSUME NEW s \in Sessions, End(s) PROVE LocksCovered'
  <2>1. Covered(s)'
    BY <1>1, EndIs DEF Covered
  <2>2. QED
    BY <1>1, <2>1, EndIs, OthersCovered
<1>2. ASSUME UNCHANGED <<tx, held>> PROVE LocksCovered'
  <2>1. \A s \in Sessions : Covered(s)'
    BY <1>2, SameCovered
  <2>2. QED
    BY <2>1 DEF LocksCovered, Covered
<1>3. ASSUME NEW s \in Sessions, NEW c \in Calls, Begin(s, c) PROVE LocksCovered'
  <2>1. CASE tx' = tx
    BY <1>2, <1>3, <2>1, BeginIs
  <2>2. CASE tx' # tx
    <3>1. tx'[s].call = c /\ tx'[s].todo = LocksOf(c)
      BY <1>3, <2>2, BeginIs
    <3>2. Covered(s)'
      <4>1. LocksOf(c)' = LocksOf(c)
        BY DEF LocksOf, Needs, Locks
      <4>2. QED
        BY <3>1, <4>1 DEF Covered
    <3>3. QED
      BY <1>3, <3>2, BeginIs, OthersCovered
  <2>3. QED
    BY <2>1, <2>2
<1>4. ASSUME NEW s \in Sessions, Claim(s) PROVE LocksCovered'
  <2>1. CASE idem[tx[s].call.key].mv # 0
    BY <1>1, <1>4, <2>1 DEF Claim
  <2>2. CASE idem[tx[s].call.key].mv = 0
    <3>1. PICK c, k : c = tx[s].call /\ k = KeyLock(tx[s].call.key)
      OBVIOUS
    <3>2. /\ tx'[s].call = c /\ tx'[s].todo = tx[s].todo \ {k} /\ held'[s] = held[s] \cup {k}
          /\ tx[s].pc = "locking"
      BY <1>4, <2>2, <3>1, ClaimIs
    <3>3. /\ tx[s].todo \subseteq LocksOf(c)
          /\ \A a \in LocksOf(c) \ tx[s].todo : a \in held[s] \/ MayPass(c, a)
      BY <3>1, <3>2 DEF RowInv, LocksCovered
    <3>4. \A a \in LocksOf(c) \ tx[s].todo : a \in held[s] \/ MayPass(c, a)'
      BY <3>3, MayPassStays DEF LocksOf
    <3>5. Covered(s)'
      BY <3>2, <3>3, <3>4 DEF Covered, MayPass
    <3>6. QED
      BY <1>4, <2>2, <3>5, ClaimIs, OthersCovered
  <2>3. QED
    BY <2>1, <2>2
<1>5. ASSUME NEW s \in Sessions, Acquire(s) PROVE LocksCovered'
  <2>1. PICK c : c = tx[s].call
    OBVIOUS
  <2>2. PICK b \in tx[s].todo :
          /\ tx'[s].call = c /\ tx'[s].todo = tx[s].todo \ {b} /\ tx[s].pc = "locking"
          /\ (PassedOver(c, b) /\ held'[s] = held[s]) \/ held'[s] = held[s] \cup {b}
          /\ \A t \in Sessions \ {s} : tx'[t] = tx[t] /\ held'[t] = held[t]
    BY <1>5, <2>1, AcquireIs
  <2>3. /\ tx[s].todo \subseteq LocksOf(c)
        /\ \A a \in LocksOf(c) \ tx[s].todo : a \in held[s] \/ MayPass(c, a)
    BY <2>1, <2>2 DEF RowInv, LocksCovered
  <2>4. \A a \in LocksOf(c) \ tx[s].todo : a \in held[s] \/ MayPass(c, a)'
    BY <2>3, MayPassStays DEF LocksOf
  <2>5. b \in held'[s] \/ MayPass(c, b)'
    <3>1. PassedOver(c, b) => MayPass(c, b)
      BY DEF PassedOver, MayPass
    <3>2. b \in Locks
      BY <2>3 DEF LocksOf
    <3>3. QED
      BY <2>2, <3>1, <3>2, MayPassStays
  <2>6. Covered(s)'
    BY <2>2, <2>3, <2>4, <2>5 DEF Covered, MayPass
  <2>7. QED
    BY <2>2, <2>6, OthersCovered
<1>6. ASSUME NEW s \in Sessions, Decide(s) PROVE LocksCovered'
  <2>1. CASE End(s)
    BY <1>1, <2>1
  <2>2. CASE ~End(s)
    <3>1. Covered(s)'
      BY <1>6, <2>2, DecideIs, SameCovered
    <3>2. QED
      BY <1>6, <2>2, <3>1, DecideIs, OthersCovered
  <2>3. QED
    BY <2>1, <2>2
<1>7. CASE UNCHANGED vars
  BY <1>2, <1>7 DEF vars
<1>8. QED
  BY <1>1, <1>3, <1>4, <1>5, <1>6, <1>7 DEF Next, Commit, Drop, Victim

------------------------------------------------------------------------------
(* The kind of the request is asked first, also of a repeated call. *)
LEMMA PassedIsRight ==
    ASSUME NEW c \in Calls, PassesFirstCheck(c)
    PROVE  RightKind(c)
BY DEF PassesFirstCheck, RightKind

LEMMA StepKinds == IInv /\ RowInv /\ [Next]_vars => KindsFit'
<1> SUFFICES ASSUME IInv, RowInv, [Next]_vars PROVE KindsFit'
  OBVIOUS
<1> USE InvParts, RowInvParts
<1>1. ASSUME UNCHANGED ledger,
             \A t \in Sessions : tx'[t].pc # "idle" => tx[t].pc # "idle" /\ tx'[t].call = tx[t].call
      PROVE  KindsFit'
  BY <1>1 DEF KindsFit, RightKind
<1>2. ASSUME NEW s \in Sessions, End(s), UNCHANGED ledger PROVE KindsFit'
  <2>1. \A t \in Sessions : tx'[t].pc # "idle" => tx'[t] = tx[t]
    BY <1>2, EndIs
  <2>2. QED
    BY <1>1, <1>2, <2>1
<1>3. ASSUME NEW s \in Sessions, NEW c \in Calls, Begin(s, c) PROVE KindsFit'
  <2>1. ledger' = ledger
    BY <1>3 DEF Begin, db
  <2>2. CASE tx' = tx
    BY <1>1, <2>1, <2>2
  <2>3. CASE tx' # tx
    <3>1. tx'[s].call = c /\ RightKind(c) /\ \A t \in Sessions \ {s} : tx'[t] = tx[t]
      BY <1>3, <2>3, BeginIs, PassedIsRight
    <3>2. QED
      BY <2>1, <3>1 DEF KindsFit, RightKind
  <2>4. QED
    BY <2>2, <2>3
<1>4. ASSUME NEW s \in Sessions, Claim(s) PROVE KindsFit'
  <2>1. ledger' = ledger
    BY <1>4 DEF Claim, db
  <2>2. CASE idem[tx[s].call.key].mv = 0
    <3>1. \A t \in Sessions : tx'[t].pc # "idle" => tx[t].pc # "idle" /\ tx'[t].call = tx[t].call
      BY <1>4, <2>2, ClaimIs
    <3>2. QED
      BY <1>1, <2>1, <3>1
  <2>3. CASE idem[tx[s].call.key].mv # 0
    BY <1>2, <1>4, <2>1, <2>3 DEF Claim
  <2>4. QED
    BY <2>2, <2>3
<1>5. ASSUME NEW s \in Sessions, Acquire(s) PROVE KindsFit'
  <2>1. ledger' = ledger
    BY <1>5 DEF Acquire, db
  <2>2. \A t \in Sessions : tx'[t].pc # "idle" => tx[t].pc # "idle" /\ tx'[t].call = tx[t].call
    BY <1>5, AcquireIs
  <2>3. QED
    BY <1>1, <2>1, <2>2
<1>6. ASSUME NEW s \in Sessions, Decide(s) PROVE KindsFit'
  <2>1. ledger' = ledger
    BY <1>6 DEF Decide, db
  <2>2. CASE End(s)
    BY <1>2, <2>1, <2>2
  <2>3. CASE ~End(s)
    <3>1. \A t \in Sessions : tx'[t].pc # "idle" => tx[t].pc # "idle" /\ tx'[t].call = tx[t].call
      BY <1>6, <2>3, DecideIs
    <3>2. QED
      BY <1>1, <2>1, <3>1
  <2>4. QED
    BY <2>2, <2>3
<1>7. ASSUME NEW s \in Sessions, NEW d \in BOOLEAN, Commit(s, d) PROVE KindsFit'
  <2>1. \A t \in Sessions : tx'[t].pc # "idle" => tx'[t] = tx[t]
    BY <1>7, CommitIs, EndIs
  <2>2. RightKind(tx[s].call)
    BY <1>7, CommitIs
  <2>3. CASE ledger' = ledger
    BY <1>1, <2>1, <2>3
  <2>4. CASE ledger' = Append(ledger, tx[s].call)
    <3>1. \A n \in DOMAIN ledger' : ledger'[n] = tx[s].call \/ (n \in DOMAIN ledger /\ ledger'[n] = ledger[n])
      BY <2>4 DEF TypeOK
    <3>2. QED
      BY <2>1, <2>2, <3>1 DEF KindsFit, RightKind
  <2>5. QED
    BY <1>7, <2>3, <2>4 DEF Commit
<1>8. ASSUME NEW s \in Sessions, Drop(s) \/ Victim(s) PROVE KindsFit'
  BY <1>2, <1>8 DEF Drop, Victim, db
<1>9. CASE UNCHANGED vars
  BY <1>1, <1>9 DEF vars
<1>10. QED
  BY <1>3, <1>4, <1>5, <1>6, <1>7, <1>8, <1>9 DEF Next

------------------------------------------------------------------------------
(* What a call found legal is still so when it commits: the row it looked at
   is locked, and the calls that pass locked rows by write none that is open. *)
LEMMA LegalIsJustified ==
    ASSUME TypeOK, NEW c \in Calls, Legal(c)
    PROVE  Justified(c)
<1>1. req[c.req] \in RequestRow /\ c.kind \in KeyedKinds \cup PlanningKinds
  BY CallTypes DEF TypeOK
<1>2. /\ req[c.req].asked \in Nat /\ req[c.req].issued \in Nat
      /\ req[c.req].reserved \in Nat /\ req[c.req].out \in Nat
  BY <1>1, RowFields
<1>3. CASE c.kind = "dispatch"
  BY <1>2, <1>3 DEF Legal, DispatchLegal, Promised, Justified
<1>4. CASE c.kind = "issue"
  BY <1>2, <1>4 DEF Legal, IssueLegal, Justified
<1>5. CASE c.kind = "transfer"
  <2>1. TransferLegal(c)
    BY <1>5 DEF Legal
  <2>2. /\ req[c.req].status \in Live /\ ProjectOf[c.src] # ProjectOf[c.req]
        /\ Promised(c.req) >= 1 \/ req[c.req].asked > req[c.req].reserved
    BY <2>1 DEF TransferLegal
  <2>3. QED
    BY <1>2, <1>5, <2>2 DEF Promised, Justified
<1>6. CASE c.kind = "reserve"
  BY <1>6 DEF Legal, Justified
<1>7. CASE c.kind = "cancel"
  BY <1>7 DEF Legal, Justified
<1>8. CASE c.kind \in {"receive", "return", "window"}
  BY <1>8 DEF Justified
<1>9. QED
  BY <1>1, <1>3, <1>4, <1>5, <1>6, <1>7, <1>8 DEF KeyedKinds, PlanningKinds

LEMMA RowHeldAlone ==
    ASSUME IInv, NEW s \in Sessions, NEW t \in Sessions, s # t, NEW r \in Requests,
           RowLock(r) \in held[s]
    PROVE  RowLock(r) \notin held[t]
BY DEF IInv, LocksExclude, Conflict, RowLock

(* A commit leaves alone the row another call has decided about. *)
LEMMA RowOfAnother ==
    ASSUME IInv, RowInv, NEW s \in Sessions, NEW d \in BOOLEAN, Commit(s, d),
           NEW t \in Sessions, t # s, tx[t].pc = "decided",
           tx[t].call.kind \in {"dispatch", "issue", "transfer", "reserve", "cancel"}
    PROVE  req'[tx[t].call.req] = req[tx[t].call.req]
<1> USE InvParts, RowInvParts
<1> DEFINE c == tx[t].call
<1>1. /\ tx[s].call \in Calls /\ RightKind(tx[s].call) /\ Justified(tx[s].call)
      /\ tx[s].pc = "decided" /\ tx[s].todo = {}
      /\ \A r \in Requests : req'[r] = NewReq(tx[s].call)[r]
  BY CommitIs
<1>2. c \in Calls /\ Justified(c) /\ RightKind(c) /\ tx[t].todo = {} /\ c.req \in Requests
  BY CallTypes DEF CallsAreReal, DecidedIsLegal, KindsFit
<1>3. req[c.req].status \in Live
  BY <1>2, JustifiedIsLive
<1>4. RowLock(c.req) \in LocksOf(c) /\ RowLock(c.req)[1] = "row" /\ RowLock(c.req)[2] = c.req
  BY <1>2 DEF LocksOf, Needs, Locks, RowLock, PlanningKinds
<1>5. RowLock(c.req) \in held[t]
  BY <1>2, <1>4 DEF LocksCovered, MayPass
<1>6. RowLock(c.req) \notin held[s]
  BY <1>2, <1>5, RowHeldAlone
<1>7. RowLock(c.req) \notin LocksOf(tx[s].call)
  BY <1>1, <1>3, <1>4, <1>6 DEF LocksCovered, MayPass, Open
<1>8. QED
  BY <1>1, <1>2, <1>7, CommitRows

LEMMA StepDecided == IInv /\ RowInv /\ [Next]_vars => DecidedIsLegal'
<1> SUFFICES ASSUME IInv, RowInv, [Next]_vars PROVE DecidedIsLegal'
  OBVIOUS
<1> USE InvParts, RowInvParts
<1>1. ASSUME UNCHANGED req,
             \A t \in Sessions : tx'[t].pc = "decided" => tx[t].pc = "decided" /\ tx'[t].call = tx[t].call
      PROVE  DecidedIsLegal'
  BY <1>1 DEF DecidedIsLegal, Justified
<1>2. ASSUME NEW s \in Sessions, End(s), UNCHANGED req PROVE DecidedIsLegal'
  <2>1. \A t \in Sessions : tx'[t].pc = "decided" => tx'[t] = tx[t]
    BY <1>2, EndIs
  <2>2. QED
    BY <1>1, <1>2, <2>1
<1>3. ASSUME NEW s \in Sessions, NEW c \in Calls, Begin(s, c) PROVE DecidedIsLegal'
  <2>1. req' = req
    BY <1>3 DEF Begin, db
  <2>2. \A t \in Sessions : tx'[t].pc = "decided" => tx'[t] = tx[t]
    BY <1>3, BeginIs
  <2>3. QED
    BY <1>1, <2>1, <2>2
<1>4. ASSUME NEW s \in Sessions, Claim(s) PROVE DecidedIsLegal'
  <2>1. req' = req
    BY <1>4 DEF Claim, db
  <2>2. CASE idem[tx[s].call.key].mv = 0
    BY <1>1, <1>4, <2>1, <2>2, ClaimIs
  <2>3. CASE idem[tx[s].call.key].mv # 0
    BY <1>2, <1>4, <2>1, <2>3 DEF Claim
  <2>4. QED
    BY <2>2, <2>3
<1>5. ASSUME NEW s \in Sessions, Acquire(s) PROVE DecidedIsLegal'
  <2>1. req' = req
    BY <1>5 DEF Acquire, db
  <2>2. \A t \in Sessions : tx'[t].pc = "decided" => tx[t].pc = "decided" /\ tx'[t].call = tx[t].call
    BY <1>5, AcquireIs
  <2>3. QED
    BY <1>1, <2>1, <2>2
<1>6. ASSUME NEW s \in Sessions, Decide(s) PROVE DecidedIsLegal'
  <2>1. req' = req
    BY <1>6 DEF Decide, db
  <2>2. CASE End(s)
    BY <1>2, <2>1, <2>2
  <2>3. CASE ~End(s)
    <3>1. /\ Legal(tx[s].call) /\ tx[s].pc = "locking" /\ tx'[s].call = tx[s].call
          /\ \A t \in Sessions \ {s} : tx'[t] = tx[t]
      BY <1>6, <2>3, DecideIs
    <3>2. tx[s].call \in Calls
      BY <3>1 DEF CallsAreReal
    <3>3. Justified(tx[s].call)
      BY <3>1, <3>2, LegalIsJustified
    <3>4. QED
      BY <2>1, <3>1, <3>3 DEF DecidedIsLegal, Justified
  <2>4. QED
    BY <2>2, <2>3
<1>7. ASSUME NEW s \in Sessions, NEW d \in BOOLEAN, Commit(s, d) PROVE DecidedIsLegal'
  <2>1. /\ tx[s].call \in Calls /\ RightKind(tx[s].call) /\ Justified(tx[s].call)
        /\ tx[s].pc = "decided" /\ tx[s].todo = {}
        /\ \A r \in Requests : req'[r] = NewReq(tx[s].call)[r]
    BY <1>7, CommitIs
  <2>2. ASSUME NEW t \in Sessions, tx'[t].pc = "decided"
        PROVE  Justified(tx[t].call)' /\ tx'[t].call = tx[t].call
    <3>1. t # s /\ tx'[t] = tx[t]
      BY <1>7, <2>2, CommitIs, EndIs
    <3>2. PICK c \in Calls : c = tx[t].call
      BY <2>2, <3>1 DEF CallsAreReal
    <3>3. Justified(c) /\ RightKind(c) /\ tx[t].todo = {} /\ c.req \in Requests
      BY <2>2, <3>1, <3>2, CallTypes DEF CallsAreReal, DecidedIsLegal, KindsFit
    <3>4. CASE c.kind \notin {"dispatch", "issue", "transfer", "reserve", "cancel"}
      BY <3>1, <3>2, <3>4 DEF Justified
    <3>5. CASE c.kind \in {"dispatch", "issue", "transfer", "reserve", "cancel"}
      <4>1. req'[c.req] = req[c.req]
        BY <1>7, <2>2, <3>1, <3>2, <3>5, RowOfAnother
      <4>2. QED
        BY <3>1, <3>2, <3>3, <4>1 DEF Justified
    <3>6. QED
      BY <3>4, <3>5
  <2>3. QED
    BY <2>2 DEF DecidedIsLegal, Justified
<1>8. ASSUME NEW s \in Sessions, Drop(s) \/ Victim(s) PROVE DecidedIsLegal'
  BY <1>2, <1>8 DEF Drop, Victim, db
<1>9. CASE UNCHANGED vars
  BY <1>1, <1>9 DEF vars
<1>10. QED
  BY <1>3, <1>4, <1>5, <1>6, <1>7, <1>8, <1>9 DEF Next

------------------------------------------------------------------------------
(* A key is locked only while it is unused: a movement writes it under its
   lock, and lets the lock go with the same commit. *)
LEMMA StepHeldKeys == IInv /\ RowInv /\ [Next]_vars => HeldKeysAreNew'
<1> SUFFICES ASSUME IInv, RowInv, [Next]_vars PROVE HeldKeysAreNew'
  OBVIOUS
<1> USE InvParts, RowInvParts
<1>1. ASSUME UNCHANGED idem,
             \A t \in Sessions, k \in Keys : KeyLock(k) \in held'[t] => KeyLock(k) \in held[t]
      PROVE  HeldKeysAreNew'
  BY <1>1 DEF HeldKeysAreNew
<1>2. ASSUME NEW s \in Sessions, End(s), UNCHANGED idem PROVE HeldKeysAreNew'
  <2>1. \A t \in Sessions, k \in Keys : KeyLock(k) \in held'[t] => KeyLock(k) \in held[t]
    BY <1>2, EndIs
  <2>2. QED
    BY <1>1, <1>2, <2>1
<1>3. ASSUME NEW s \in Sessions, NEW c \in Calls, Begin(s, c) PROVE HeldKeysAreNew'
  BY <1>1, <1>3, BeginIs DEF Begin, db
<1>4. ASSUME NEW s \in Sessions, Claim(s) PROVE HeldKeysAreNew'
  <2>1. idem' = idem
    BY <1>4 DEF Claim, db
  <2>2. CASE idem[tx[s].call.key].mv = 0
    <3>1. \A k \in Keys : KeyLock(k) = KeyLock(tx[s].call.key) => idem[k].mv = 0
      BY <2>2 DEF KeyLock
    <3>2. QED
      BY <1>4, <2>1, <2>2, <3>1, ClaimIs DEF HeldKeysAreNew
  <2>3. CASE idem[tx[s].call.key].mv # 0
    BY <1>2, <1>4, <2>1, <2>3 DEF Claim
  <2>4. QED
    BY <2>2, <2>3
<1>5. ASSUME NEW s \in Sessions, Acquire(s) PROVE HeldKeysAreNew'
  <2>1. idem' = idem
    BY <1>5 DEF Acquire, db
  <2>2. PICK a \in tx[s].todo :
          /\ a[1] # "key"
          /\ held'[s] = held[s] \/ held'[s] = held[s] \cup {a}
          /\ \A t \in Sessions \ {s} : held'[t] = held[t]
    BY <1>5, AcquireIs
  <2>3. QED
    BY <1>1, <2>1, <2>2 DEF KeyLock
<1>6. ASSUME NEW s \in Sessions, Decide(s) PROVE HeldKeysAreNew'
  <2>1. idem' = idem
    BY <1>6 DEF Decide, db
  <2>2. CASE End(s)
    BY <1>2, <2>1, <2>2
  <2>3. CASE ~End(s)
    BY <1>1, <1>6, <2>1, <2>3, DecideIs
  <2>4. QED
    BY <2>2, <2>3
<1>7. ASSUME NEW s \in Sessions, NEW d \in BOOLEAN, Commit(s, d) PROVE HeldKeysAreNew'
  <2> DEFINE c == tx[s].call
  <2>1. c \in Calls /\ End(s) /\ tx[s].pc # "idle" /\ tx[s].todo = {}
    BY <1>7, CommitIs
  <2>2. CASE idem' = idem
    BY <1>2, <2>1, <2>2
  <2>3. CASE idem' # idem
    <3>1. c \in Movements /\ idem' = [idem EXCEPT ![c.key] = [call |-> c, mv |-> Len(ledger) + 1]]
      BY <1>7, <2>3 DEF Commit
    <3>2. KeyLock(c.key) \in held[s]
      BY <2>1, <3>1 DEF KeysAreClaimed
    <3>3. \A t \in Sessions \ {s} : KeyLock(c.key) \notin held[t]
      BY <3>2 DEF LocksExclude, Conflict, KeyLock
    <3>4. \A k \in Keys : k # c.key => idem'[k] = idem[k]
      BY <3>1 DEF TypeOK
    <3>5. QED
      BY <2>1, <3>3, <3>4, EndIs DEF HeldKeysAreNew
  <2>4. QED
    BY <2>2, <2>3
<1>8. ASSUME NEW s \in Sessions, Drop(s) \/ Victim(s) PROVE HeldKeysAreNew'
  BY <1>2, <1>8 DEF Drop, Victim, db
<1>9. CASE UNCHANGED vars
  BY <1>1, <1>9 DEF vars
<1>10. QED
  BY <1>3, <1>4, <1>5, <1>6, <1>7, <1>8, <1>9 DEF Next

------------------------------------------------------------------------------
(* The inductive invariant, on top of IInv. *)
LEMMA InitRows == Init => RowInv
<1> SUFFICES ASSUME Init PROVE RowInv
  OBVIOUS
<1>1. ASSUME NEW r \in Requests PROVE Sound(req[r], r)
  <2>1. req[r] = [status |-> "submitted", asked |-> Asked[r], issued |-> 0,
                  reserved |-> 0, out |-> 0, back |-> 0]
    BY DEF Init
  <2>2. Asked[r] \in Nat /\ Asked[r] # 0
    BY RequestData
  <2>3. QED
    BY <2>1, <2>2 DEF Sound, Done
<1>2. LocksCovered /\ DecidedIsLegal /\ HeldKeysAreNew
  BY DEF Init, Idle, LocksCovered, DecidedIsLegal, HeldKeysAreNew
<1>3. KindsFit
  BY DEF Init, Idle, KindsFit
<1>4. QED
  BY <1>1, <1>2, <1>3 DEF RowInv, RowsSound

LEMMA StepRowInv == IInv /\ RowInv /\ [Next]_vars => RowInv'
BY StepRowsSound, StepCovered, StepKinds, StepDecided, StepHeldKeys DEF RowInv

LEMMA RowsInductive == Spec => [](IInv /\ RowInv)
<1>1. Init => IInv /\ RowInv
  BY InitIInv, InitRows
<1>2. (IInv /\ RowInv) /\ [Next]_vars => (IInv /\ RowInv)'
  BY StepIInv, StepRowInv
<1>3. QED
  BY <1>1, <1>2, PTL DEF Spec

(* inv_refresh_request_status, run by each movement on every row it locks,
   keeps the status of a request true to what has physically moved, whatever
   returns, issues and cancellations of a project run side by side. *)
THEOREM StatusIsTrue == Spec => []StatusFollowsGoods
<1>1. IInv /\ RowInv => StatusFollowsGoods
  BY DEF RowInv, RowsSound, Sound, StatusFollowsGoods, Done, Open, Live
<1>2. QED
  BY <1>1, RowsInductive, PTL

------------------------------------------------------------------------------
(* Equipment goes out, and is issued, for live requests only. *)
LEMMA StepServed ==
    ASSUME IInv, RowInv, [Next]_vars, NEW r \in Requests,
           req'[r].out > req[r].out \/ req'[r].issued > req[r].issued
    PROVE  req[r].status \in Live
<1> USE InvParts, RowInvParts
<1>1. req[r] \in RequestRow
  BY DEF TypeOK
<1>2. req' # req
  BY <1>1, RowFields
<1>3. PICK s \in Sessions, d \in BOOLEAN : Commit(s, d)
  BY <1>2, RowsWritten
<1>4. PICK c \in Calls : c = tx[s].call
  BY <1>3, CommitIs
<1>5. RightKind(c) /\ Justified(c) /\ req'[r] = NewReq(c)[r]
  BY <1>3, <1>4, CommitIs
<1>6. req'[r].out = Touched(c, r).out /\ req'[r].issued = Touched(c, r).issued
  BY <1>5, TouchedSound, RefreshedIs DEF NewReq
<1>7. ~SameButBack(Touched(c, r), req[r])
  BY <1>1, <1>6, RowFields DEF SameButBack
<1>8. r = c.req
  BY <1>5, <1>7, TouchedSound
<1>9. CASE c.kind \in {"dispatch", "issue", "transfer", "reserve", "cancel"}
  BY <1>5, <1>8, <1>9, JustifiedIsLive
<1>10. CASE c.kind \notin {"dispatch", "issue", "transfer", "reserve", "cancel"}
  <2>1. Touched(c, r) \in {GaveBack(req[r]), req[r]}
    BY <1>10 DEF Touched
  <2>2. QED
    BY <1>1, <1>7, <2>1, GaveBackIs DEF SameButBack
<1>11. QED
  BY <1>9, <1>10

(* The status read before any lock is read again where it counts: no movement
   is recorded for a request that is closed, cancelled or fulfilled by then. *)
THEOREM OnlyLiveServed == Spec => OnlyLiveRequestsServed
<1>1. IInv /\ RowInv /\ [Next]_vars =>
        [\A r \in Requests :
            req'[r].out > req[r].out \/ req'[r].issued > req[r].issued => req[r].status \in Live]_vars
  BY StepServed
<1>2. QED
  BY <1>1, RowsInductive, PTL DEF Spec, OnlyLiveRequestsServed

------------------------------------------------------------------------------
(* A repeated call. *)

LEMMA AnswerAdds ==
    ASSUME NEW c, NEW m, NEW n, answers' = Answer(c, n), <<m, 0>> \in answers' \ answers
    PROVE  m = c /\ n = 0
BY DEF Answer

(* A movement on the ledger has its key in the table, with its own call. *)
LEMMA RecordedIs ==
    ASSUME IInv, RowInv, NEW n \in DOMAIN ledger
    PROVE  /\ ledger[n] \in Calls /\ ledger[n].key \in Keys
           /\ idem[ledger[n].key].mv = n /\ n # 0
           /\ idem[ledger[n].key].call = ledger[n] /\ RightKind(ledger[n])
<1> USE InvParts, RowInvParts
<1>1. n \in 1..Len(ledger) /\ ledger[n] \in Movements
  BY DEF TypeOK
<1>2. ledger[n] \in Calls /\ ledger[n].key \in Keys
  BY <1>1, CallTypes DEF Movements
<1>3. idem[ledger[n].key].mv = n /\ n # 0
  BY <1>1 DEF KeysMatchLedger
<1>4. idem[ledger[n].key].call = ledger[n]
  BY <1>2, <1>3 DEF KeysMatchLedger
<1>5. QED
  BY <1>2, <1>3, <1>4 DEF KindsFit

(* Until it has claimed its key, a call waits for nothing else. *)
LEMMA KeyComesFirst ==
    ASSUME RowInv, NEW s \in Sessions, tx[s].pc = "locking", tx[s].call \in Calls,
           KeyLock(tx[s].call.key) \in tx[s].todo, NEW a \in tx[s].todo, NextLock(s, a)
    PROVE  a = KeyLock(tx[s].call.key)
<1> DEFINE c == tx[s].call
           k == KeyLock(c.key)
<1>1. SUFFICES ASSUME a # k PROVE FALSE
  OBVIOUS
<1>2. Earlier(c, a, k)
  BY <1>1 DEF NextLock
<1>3. Stage(c, k) = 0
  <2>1. \A b : b[1] = "key" => Stage(c, b) = 0
    BY DEF Stage, RowLock
  <2>2. k[1] = "key"
    BY DEF KeyLock
  <2> HIDE DEF c, k
  <2>3. QED
    BY <2>1, <2>2
<1>4. ASSUME a[1] # "key" PROVE Stage(c, a) \in {1, 2, 3, 4, 5, 6}
  <2>1. CASE a[1] \in {"counter", "share"}
    BY <2>1 DEF Stage
  <2>2. CASE a[1] = "row" /\ c.kind \in PlanningKinds
    BY <2>2 DEF Stage
  <2>3. CASE a[1] \notin {"counter", "share"} /\ ~(a[1] = "row" /\ c.kind \in PlanningKinds)
    BY <1>4, <2>3 DEF Stage
  <2>4. QED
    BY <2>1, <2>2, <2>3
<1>5. ~(Stage(c, a) \in {1, 2, 3, 4, 5, 6})
  BY <1>2, <1>3 DEF Earlier
<1>6. a[1] = "key"
  BY <1>4, <1>5
<1>7. Needs(c, a)
  BY DEF RowInv, LocksCovered, LocksOf
<1>8. QED
  BY <1>1, <1>6, <1>7 DEF Needs, KeyLock, Counter, ItemLock, ShareLock, ResLock, RowLock

LEMMA StepRetry ==
    ASSUME IInv, RowInv, [Next]_vars, NEW m \in Movements, m.kind # "transfer",
           <<m, 0>> \in answers' \ answers, NEW n \in DOMAIN ledger, ledger[n] = m
    PROVE  FALSE
<1> USE InvParts, RowInvParts
<1>1. /\ m \in Calls /\ m.key \in Keys /\ n # 0 /\ RightKind(m)
      /\ idem[m.key].mv = n /\ idem[m.key].call = m
  BY RecordedIs
<1>2. ASSUME NEW s \in Sessions, NEW c \in Calls, Begin(s, c) PROVE FALSE
  <2>1. m = c /\ ~PassesFirstCheck(m)
    BY <1>2, BeginIs, AnswerAdds
  <2>2. PassesFirstCheck(m)
    BY <1>1 DEF PassesFirstCheck, Replaying, RightKind
  <2>3. QED
    BY <2>1, <2>2
<1>3. ASSUME NEW s \in Sessions, Claim(s) PROVE FALSE
  <2> DEFINE c == tx[s].call
  <2>1. CASE idem[c.key].mv = 0
    BY <1>3, <2>1 DEF Claim
  <2>2. CASE idem[c.key].mv # 0
    <3>1. answers' = Answer(c, IF idem[c.key].call = c THEN idem[c.key].mv ELSE 0)
      BY <1>3, <2>2 DEF Claim
    <3>2. m = c /\ (IF idem[c.key].call = c THEN idem[c.key].mv ELSE 0) = 0
      BY <3>1, AnswerAdds
    <3>3. QED
      BY <1>1, <3>2
  <2>3. QED
    BY <2>1, <2>2
<1>4. ASSUME NEW s \in Sessions, Acquire(s) \/ Drop(s) PROVE FALSE
  BY <1>4 DEF Acquire, Drop
(* A refused call, or the victim of a deadlock, would have its key to claim. *)
<1>5. ASSUME NEW s \in Sessions, answers' = Answer(tx[s].call, 0), tx[s].pc # "idle"
      PROVE  m = tx[s].call /\ KeyLock(m.key) \in tx[s].todo
  <2>1. m = tx[s].call
    BY <1>5, AnswerAdds
  <2>2. QED
    BY <1>1, <1>5, <2>1 DEF KeysAreClaimed
<1>6. ASSUME NEW s \in Sessions, Decide(s) PROVE FALSE
  <2>1. tx[s].pc = "locking" /\ tx[s].todo = {}
    BY <1>6 DEF Decide
  <2>2. answers' = Answer(tx[s].call, 0)
    BY <1>6, DecideIs
  <2>3. QED
    BY <1>5, <2>1, <2>2
<1>7. ASSUME NEW s \in Sessions, NEW d \in BOOLEAN, Commit(s, d) PROVE FALSE
  <2>1. answers' = Answer(tx[s].call, Len(ledger) + 1)
    BY <1>7 DEF Commit
  <2>2. Len(ledger) + 1 # 0
    BY DEF TypeOK
  <2>3. QED
    BY <2>1, <2>2, AnswerAdds
<1>8. ASSUME NEW s \in Sessions, Victim(s) PROVE FALSE
  <2>1. PICK t \in Sessions : WaitsFor(s, t)
    BY <1>8 DEF Victim, Knot
  <2>2. PICK a \in tx[s].todo, b \in held[t] : NextLock(s, a) /\ Conflict(a, b)
    BY <2>1 DEF WaitsFor
  <2>3. m = tx[s].call /\ KeyLock(m.key) \in tx[s].todo /\ tx[s].pc = "locking"
    BY <1>5, <1>8, <2>1 DEF Victim, WaitsFor
  <2>4. a = KeyLock(m.key)
    BY <1>1, <2>2, <2>3, KeyComesFirst
  <2>5. b = KeyLock(m.key)
    BY <2>2, <2>4 DEF Conflict, KeyLock, RowLock
  <2>6. idem[m.key].mv = 0
    BY <1>1, <2>5 DEF HeldKeysAreNew
  <2>7. QED
    BY <1>1, <2>6
<1>9. CASE UNCHANGED vars
  BY <1>9 DEF vars
<1>10. QED
  BY <1>2, <1>3, <1>4, <1>6, <1>7, <1>8, <1>9 DEF Next

(* Once its movement is on the ledger, a call that is sent again is never told
   that it failed: not by the checks that come before the key, not by the key,
   not as the victim of a deadlock. *)
THEOREM RetriesAreAnswered == Spec => RetryIsAnswered
<1>1. IInv /\ RowInv /\ [Next]_vars =>
        [\A c \in {m \in Movements : m.kind # "transfer"} :
            <<c, 0>> \in answers' \ answers => \A n \in DOMAIN ledger : ledger[n] # c]_vars
  BY StepRetry
<1>2. QED
  BY <1>1, RowsInductive, PTL DEF Spec, RetryIsAnswered

------------------------------------------------------------------------------
(* The pieces promised of an item, as a sum over its requests. *)

OfItem(i) == {q \in Requests : ItemOf[q] = i}
Promises == [q \in Requests |-> Promised(q)]

LEMMA OfItemIs == \A i : IsFiniteSet(OfItem(i)) /\ OfItem(i) \subseteq Requests
BY RequestData, FS_Subset DEF OfItem

LEMMA PromisedIs == \A i \in Items : PromisedFrom(i, Requests) = SumOver(Promises, OfItem(i))
<1> SUFFICES ASSUME NEW i \in Items PROVE PromisedFrom(i, Requests) = SumOver(Promises, OfItem(i))
  OBVIOUS
<1>1. PICK S : S = OfItem(i) /\ IsFiniteSet(S) /\ S \subseteq Requests
  BY OfItemIs
<1> DEFINE Adds(it) == it = [s \in SUBSET S |-> IF s = {} THEN 0
                                ELSE Promised(CHOOSE x \in s : TRUE) + it[s \ {CHOOSE x \in s : TRUE}]]
           it == CHOOSE jt : Adds(jt)
<1>2. \A s \in SUBSET S : s # {} => Promises[First(s)] = Promised(CHOOSE x \in s : TRUE)
  BY <1>1 DEF Promises, First
<1>3. Adds(it)
  <2>1. PICK jt : AddsUp(jt, Promises, S)
    BY <1>1, SumExists
  <2>2. jt = [s \in SUBSET S |-> IF s = {} THEN 0 ELSE Promises[First(s)] + jt[s \ {First(s)}]]
    BY <2>1 DEF AddsUp
  <2>3. \A s \in SUBSET S :
          jt[s] = IF s = {} THEN 0 ELSE Promised(CHOOSE x \in s : TRUE) + jt[s \ {CHOOSE x \in s : TRUE}]
    BY <1>2, <2>2 DEF First
  <2>4. Adds(jt)
    BY <2>2, <2>3
  <2> HIDE DEF Adds
  <2>5. QED
    BY <2>4
<1>4. AddsUp(it, Promises, S)
  <2> HIDE DEF it
  <2>1. QED
    BY <1>2, <1>3 DEF AddsUp, First
<1>5. PromisedFrom(i, Requests) = it[S]
  BY <1>1 DEF PromisedFrom, OfItem, MapThenSumSet, MapThenFoldSet
<1>6. QED
  BY <1>1, <1>4, <1>5, SumIs

LEMMA PromisedIsNext == (\A i \in Items : PromisedFrom(i, Requests) = SumOver(Promises, OfItem(i)))'
BY PromisedIs, PTL

LEMMA PromisesType ==
    ASSUME TypeOK
    PROVE  \A q \in Requests : Promises[q] = req[q].reserved - req[q].out /\ Promises[q] \in Int
<1> SUFFICES ASSUME NEW q \in Requests
             PROVE  Promises[q] = req[q].reserved - req[q].out /\ Promises[q] \in Int
  OBVIOUS
<1>1. req[q] \in RequestRow
  BY DEF TypeOK
<1>2. QED
  BY <1>1, RowFields DEF Promises, Promised

LEMMA PromisedType ==
    ASSUME TypeOK, NEW i \in Items
    PROVE  PromisedFrom(i, Requests) \in Int /\ shelf[i] \in Int
<1>1. SumOver(Promises, OfItem(i)) \in Int
  BY OfItemIs, PromisesType, SumType
<1>2. QED
  BY <1>1, PromisedIs DEF TypeOK

------------------------------------------------------------------------------
(* What a call changes of the promise to a request. *)
LEMMA PromiseAfter ==
    ASSUME TypeOK, RowsSound, NEW c \in Calls, RightKind(c), Justified(c), NEW r \in Requests
    PROVE  LET p == req[r].reserved - req[r].out
               n == NewReq(c)[r].reserved - NewReq(c)[r].out
           IN  /\ n \in Int
               /\ r # c.req => n = p
               /\ r = c.req => /\ c.kind = "dispatch" => n = p - 1
                               /\ c.kind = "issue"    => n = IF p >= 1 THEN p - 1 ELSE p
                               /\ c.kind = "reserve"  => n = p + 1
                               /\ c.kind \notin {"dispatch", "issue", "reserve"} => n <= p
<1>0. PICK q, m : q = Touched(c, r) /\ m = NewReq(c)[r]
  OBVIOUS
<1> DEFINE p == req[r].reserved - req[r].out
           n == m.reserved - m.out
<1> SUFFICES /\ n \in Int
             /\ r # c.req => n = p
             /\ r = c.req => /\ c.kind = "dispatch" => n = p - 1
                             /\ c.kind = "issue"    => n = IF p >= 1 THEN p - 1 ELSE p
                             /\ c.kind = "reserve"  => n = p + 1
                             /\ c.kind \notin {"dispatch", "issue", "reserve"} => n <= p
  BY <1>0
<1>1. /\ req[r] \in RequestRow /\ Sound(req[r], r) /\ c.req \in Requests /\ c.src \in Requests
      /\ c.kind \in KeyedKinds \cup PlanningKinds
  BY CallTypes DEF TypeOK, RowsSound
<1>2. q \in RequestRow /\ (r # c.req => SameButBack(q, req[r]))
  BY <1>0, TouchedSound
<1>3. m.reserved = q.reserved /\ m.out = q.out
  BY <1>0, <1>2, RefreshedIs DEF NewReq
<1>4. /\ q.reserved \in Nat /\ q.out \in Nat /\ req[r].reserved \in Nat /\ req[r].out \in Nat
      /\ req[r].out <= req[r].reserved
  BY <1>1, <1>2, RowFields DEF Sound
<1>5. CASE r # c.req
  BY <1>2, <1>3, <1>4, <1>5 DEF SameButBack
<1>6. CASE r = c.req /\ c.kind = "dispatch"
  <2>1. q = Took(req[r], r) /\ req[r].reserved > req[r].out
    BY <1>0, <1>6 DEF Touched, Justified
  <2>2. q.reserved = req[r].reserved /\ q.out = req[r].out + 1
    BY <1>1, <2>1, TookIs
  <2>3. QED
    BY <1>3, <1>4, <1>6, <2>2
<1>7. CASE r = c.req /\ c.kind = "issue"
  <2>1. q = [Took(req[r], r) EXCEPT !.issued = @ + 1]
    BY <1>0, <1>7 DEF Touched
  <2>2. Took(req[r], r) \in RequestRow
    BY <1>1, TookIs
  <2>3. q.reserved = Took(req[r], r).reserved /\ q.out = Took(req[r], r).out
    BY <2>1, <2>2 DEF RequestRow
  <2>4. q.reserved = req[r].reserved /\ q.out = IF req[r].reserved > req[r].out THEN req[r].out + 1 ELSE req[r].out
    BY <1>1, <2>3, TookIs
  <2>5. QED
    BY <1>3, <1>4, <1>7, <2>4
<1>8. CASE r = c.req /\ c.kind = "transfer"
  <2>1. ~Credited(Giver(c), r)
    BY <1>8 DEF Justified, Credited, Owing, Siblings, Giver
  <2>2. q = Arrived(req[r])
    BY <1>0, <1>8, <2>1 DEF Touched
  <2>3. q.out = req[r].out + 1 /\ q.reserved = IF req[r].reserved > req[r].out THEN req[r].reserved ELSE req[r].reserved + 1
    BY <1>1, <2>2, ArrivedIs
  <2>4. QED
    BY <1>3, <1>4, <1>8, <2>3
<1>9. CASE r = c.req /\ c.kind = "reserve"
  <2> DEFINE u == [req[r] EXCEPT !.reserved = req[r].reserved + 1]
  <2>1. q = [u EXCEPT !.status = "in_progress"]
    BY <1>0, <1>9 DEF Touched
  <2>2. u \in RequestRow /\ u.reserved = req[r].reserved + 1 /\ u.out = req[r].out
    BY <1>1, <1>4 DEF RequestRow
  <2> HIDE DEF u
  <2>3. q.reserved = req[r].reserved + 1 /\ q.out = req[r].out
    BY <2>1, <2>2 DEF RequestRow
  <2>4. QED
    BY <1>3, <1>4, <1>9, <2>3
<1>10. CASE r = c.req /\ c.kind = "cancel"
  <2>1. q = Cancelled(req[r])
    BY <1>0, <1>10 DEF Touched
  <2>2. q.reserved = req[r].out /\ q.out = req[r].out
    BY <1>1, <2>1, CancelledIs
  <2>3. QED
    BY <1>3, <1>4, <1>10, <2>2
<1>11. CASE r = c.req /\ c.kind \in {"receive", "return", "window"}
  <2>1. q \in {GaveBack(req[r]), req[r]}
    BY <1>0, <1>11 DEF Touched
  <2>2. q.reserved = req[r].reserved /\ q.out = req[r].out
    BY <1>1, <2>1, GaveBackIs DEF SameButBack
  <2>3. QED
    BY <1>3, <1>4, <1>11, <2>2
<1>12. QED
  BY <1>1, <1>5, <1>6, <1>7, <1>8, <1>9, <1>10, <1>11 DEF KeyedKinds, PlanningKinds

LEMMA ShelfAfter ==
    ASSUME TypeOK, NEW c \in Calls, NEW i \in Items
    PROVE  /\ NewShelf(c)[i] \in Int
           /\ c.kind \notin {"dispatch", "issue"} \/ i # ItemOf[c.req] => NewShelf(c)[i] >= shelf[i]
           /\ NewShelf(c)[i] >= shelf[i] - 1
<1>1. shelf \in [Items -> Int] /\ ItemOf[c.req] \in Items
  BY CallTypes DEF TypeOK
<1>2. QED
  BY <1>1 DEF NewShelf

(* What a commit leaves of an item beyond its promises: not less, except that
   an issue to a person or a reservation may take one free piece. *)
Slack(i) == shelf[i] - PromisedFrom(i, Requests)
TakesFree(c, i) ==
    /\ i = ItemOf[c.req]
    /\ c.kind = "reserve" \/ (c.kind = "issue" /\ req[c.req].reserved <= req[c.req].out)

LEMMA CommitSlack ==
    ASSUME IInv, RowInv, TypeOK', NEW s \in Sessions, NEW d \in BOOLEAN, Commit(s, d), NEW i \in Items
    PROVE  /\ Slack(i) \in Int /\ Slack(i)' \in Int
           /\ ~TakesFree(tx[s].call, i) => Slack(i)' >= Slack(i)
           /\ Slack(i)' >= Slack(i) - 1
<1> USE InvParts, RowInvParts
<1>1. PICK c \in Calls : c = tx[s].call
  BY CommitIs
<1>2. RightKind(c) /\ Justified(c) /\ \A r \in Requests : req'[r] = NewReq(c)[r]
  BY <1>1, CommitIs
<1>3. shelf' = NewShelf(c) /\ c.req \in Requests
  BY <1>1, CallTypes DEF Commit
<1>4. PICK F, G, S, r : /\ F = Promises /\ G = Promises' /\ S = OfItem(i) /\ r = c.req
                        /\ IsFiniteSet(S) /\ S \subseteq Requests
  BY OfItemIs
<1>5. Slack(i) = shelf[i] - SumOver(F, S) /\ Slack(i)' = shelf'[i] - SumOver(G, S)
  BY <1>4, PromisedIs, PromisedIsNext DEF Slack, OfItem
<1>6. \A q \in Requests : F[q] = req[q].reserved - req[q].out /\ F[q] \in Int
  BY <1>4, PromisesType
<1>7. \A q \in Requests : G[q] = NewReq(c)[q].reserved - NewReq(c)[q].out /\ G[q] \in Int
  <2>1. (\A q \in Requests : Promises[q] = req[q].reserved - req[q].out)'
    BY DEF Promises, Promised
  <2>2. \A q \in Requests : NewReq(c)[q].reserved - NewReq(c)[q].out \in Int
    BY <1>2, PromiseAfter
  <2>3. QED
    BY <1>2, <1>4, <2>1, <2>2
<1>8. /\ \A q \in Requests \ {r} : G[q] = F[q]
      /\ c.kind = "dispatch" => G[r] = F[r] - 1
      /\ c.kind = "issue"    => G[r] = IF F[r] >= 1 THEN F[r] - 1 ELSE F[r]
      /\ c.kind = "reserve"  => G[r] = F[r] + 1
      /\ c.kind \notin {"dispatch", "issue", "reserve"} => G[r] <= F[r]
  <2>1. ASSUME NEW q \in Requests \ {r} PROVE G[q] = F[q]
    BY <1>2, <1>3, <1>4, <1>6, <1>7, PromiseAfter
  <2>2. F[r] = req[r].reserved - req[r].out /\ G[r] = NewReq(c)[r].reserved - NewReq(c)[r].out
    BY <1>3, <1>4, <1>6, <1>7
  <2>3. QED
    BY <1>2, <1>3, <1>4, <2>1, <2>2, PromiseAfter
<1>9. SumOver(F, S) \in Int /\ SumOver(G, S) \in Int /\ shelf[i] \in Int /\ shelf'[i] \in Int
  BY <1>4, <1>6, <1>7, SumType DEF TypeOK
<1>10. /\ c.kind \notin {"dispatch", "issue"} \/ i # ItemOf[r] => shelf'[i] >= shelf[i]
       /\ shelf'[i] >= shelf[i] - 1
  BY <1>3, <1>4, ShelfAfter
<1>11. CASE r \notin S
  <2>1. SumOver(G, S) = SumOver(F, S)
    BY <1>4, <1>8, <1>11, SumSame
  <2>2. i # ItemOf[r]
    BY <1>3, <1>4, <1>11 DEF OfItem
  <2>3. QED
    BY <1>5, <1>9, <1>10, <2>1, <2>2
<1>12. CASE r \in S
  <2>1. SumOver(G, S) = SumOver(F, S) + G[r] - F[r]
    BY <1>4, <1>6, <1>7, <1>8, <1>12, SumChange
  <2>2. i = ItemOf[r] /\ F[r] \in Int /\ G[r] \in Int
    BY <1>4, <1>6, <1>7, <1>12 DEF OfItem
  <2>3. F[r] >= 1 <=> req[r].reserved > req[r].out
    <3>1. req[r] \in RequestRow
      BY <1>3, <1>4 DEF TypeOK
    <3>2. QED
      BY <1>3, <1>4, <1>6, <3>1, RowFields
  <2>4. c.kind = "dispatch" => G[r] - F[r] = -1
    BY <1>8, <2>2
  <2>5. c.kind = "issue" => G[r] - F[r] = (IF F[r] >= 1 THEN -1 ELSE 0)
    BY <1>8, <2>2
  <2>6. c.kind = "issue" /\ ~(F[r] >= 1) => TakesFree(c, i)
    <3>1. req[r] \in RequestRow
      BY <1>3, <1>4 DEF TypeOK
    <3>2. QED
      BY <1>4, <2>2, <2>3, <3>1, RowFields DEF TakesFree
  <2>7. c.kind = "reserve" => TakesFree(c, i) /\ G[r] - F[r] = 1 /\ shelf'[i] >= shelf[i]
    BY <1>4, <1>8, <1>10, <2>2 DEF TakesFree
  <2>8. c.kind \notin {"dispatch", "issue", "reserve"} => G[r] - F[r] <= 0 /\ shelf'[i] >= shelf[i]
    BY <1>8, <1>10, <2>2
  <2>9. PICK x, y, u, v, g : x = shelf[i] /\ y = shelf'[i] /\ u = SumOver(F, S) /\ v = SumOver(G, S) /\ g = G[r] - F[r]
    OBVIOUS
  <2>10. /\ x \in Int /\ y \in Int /\ u \in Int /\ v \in Int /\ g \in Int
         /\ v = u + g /\ y >= x - 1 /\ Slack(i) = x - u /\ Slack(i)' = y - v
    BY <1>5, <1>9, <1>10, <2>1, <2>2, <2>9
  <2>11. CASE c.kind = "dispatch"
    BY <2>4, <2>9, <2>10, <2>11
  <2>12. CASE c.kind = "issue"
    BY <1>1, <2>5, <2>6, <2>9, <2>10, <2>12
  <2>13. CASE c.kind = "reserve"
    BY <1>1, <2>7, <2>9, <2>10, <2>13
  <2>14. CASE c.kind \notin {"dispatch", "issue", "reserve"}
    BY <2>8, <2>9, <2>10, <2>14
  <2>15. QED
    BY <2>11, <2>12, <2>13, <2>14
<1>13. QED
  BY <1>11, <1>12

------------------------------------------------------------------------------
(* A free piece that a call has seen under the lock of its item is there when
   it commits. *)
FreeStays ==
    \A s \in Sessions : tx[s].pc = "decided" =>
        \A i \in Items : TakesFree(tx[s].call, i) => Slack(i) >= 1

StockInv == (\A i \in Items : Slack(i) >= 0) /\ FreeStays

LEMMA LegalIsFree ==
    ASSUME TypeOK, NEW c \in Calls, Legal(c), NEW i \in Items, TakesFree(c, i)
    PROVE  Slack(i) >= 1
<1>1. i = ItemOf[c.req] /\ c.req \in Requests /\ PromisedFrom(i, Requests) \in Int /\ shelf[i] \in Int
  BY CallTypes, PromisedType DEF TakesFree
<1>2. FreeStock(i) >= 1
  <2>1. CASE c.kind = "reserve"
    BY <1>1, <2>1 DEF Legal
  <2>2. CASE c.kind = "issue" /\ req[c.req].reserved <= req[c.req].out
    <3>1. req[c.req] \in RequestRow
      BY <1>1 DEF TypeOK
    <3>2. ~(Promised(c.req) >= 1)
      BY <2>2, <3>1, RowFields DEF Promised
    <3>3. QED
      BY <1>1, <2>2, <3>2 DEF Legal, IssueLegal
  <2>3. QED
    BY <2>1, <2>2 DEF TakesFree
<1>3. PromisedFrom(i, Requests) < shelf[i]
  BY <1>1, <1>2 DEF FreeStock
<1>4. QED
  BY <1>1, <1>3 DEF Slack

LEMMA SameSlack ==
    ASSUME UNCHANGED <<req, shelf>>
    PROVE  \A i \in Items : Slack(i)' = Slack(i)
<1>1. Promises' = Promises
  BY DEF Promises, Promised
<1>2. \A i : OfItem(i)' = OfItem(i)
  BY DEF OfItem
<1>3. QED
  BY <1>1, <1>2, PromisedIs, PromisedIsNext DEF Slack

(* A step that neither writes nor decides keeps what was seen. *)
LEMMA SameFree ==
    ASSUME StockInv, UNCHANGED <<req, shelf>>,
           \A t \in Sessions : tx'[t].pc = "decided" => tx[t].pc = "decided" /\ tx'[t].call = tx[t].call
    PROVE  StockInv'
<1>1. \A i \in Items : Slack(i)' = Slack(i)
  BY SameSlack
<1>2. \A t \in Sessions, i \in Items :
        tx'[t].pc = "decided" /\ TakesFree(tx[t].call, i)' => TakesFree(tx[t].call, i)
  BY DEF TakesFree
<1>3. QED
  BY <1>1, <1>2 DEF StockInv, FreeStays, TakesFree

(* The item whose free piece a call has seen is locked against the others. *)
LEMMA FreeOfAnother ==
    ASSUME IInv, RowInv, NEW s \in Sessions, NEW d \in BOOLEAN, Commit(s, d),
           NEW t \in Sessions, t # s, tx[t].pc = "decided",
           NEW i \in Items, TakesFree(tx[t].call, i)
    PROVE  ~TakesFree(tx[s].call, i)
<1> USE InvParts, RowInvParts
<1>1. ASSUME NEW u \in Sessions, tx[u].pc = "decided", TakesFree(tx[u].call, i)
      PROVE  ItemLock(i) \in held[u]
  <2>1. PICK c \in Calls : c = tx[u].call /\ tx[u].todo = {} /\ c.req \in Requests
    BY <1>1, CallTypes DEF CallsAreReal
  <2>2. c.kind \in {"reserve", "issue"} /\ i = ItemOf[c.req]
    BY <1>1, <2>1 DEF TakesFree
  <2>3. ItemLock(i) \in Locks /\ ItemLock(i)[1] = "item"
    BY DEF ItemLock, Locks
  <2>4. ItemLock(i) \in LocksOf(c)
    BY <2>2, <2>3 DEF LocksOf, Needs
  <2>5. QED
    BY <1>1, <2>1, <2>2, <2>3, <2>4 DEF LocksCovered, MayPass
<1>2. SUFFICES ASSUME TakesFree(tx[s].call, i) PROVE FALSE
  OBVIOUS
<1>3. ItemLock(i) \in held[s] /\ ItemLock(i) \in held[t]
  BY <1>1, <1>2, CommitIs
<1>4. QED
  BY <1>3 DEF LocksExclude, Conflict, ItemLock

LEMMA StepStock == IInv /\ IInv' /\ RowInv /\ StockInv /\ [Next]_vars => StockInv'
<1> SUFFICES ASSUME IInv, IInv', RowInv, StockInv, [Next]_vars PROVE StockInv'
  OBVIOUS
<1> USE InvParts, RowInvParts
<1>0. TypeOK'
  BY DEF IInv
<1>1. ASSUME NEW s \in Sessions, End(s), UNCHANGED db PROVE StockInv'
  <2>1. \A t \in Sessions : tx'[t].pc = "decided" => tx'[t] = tx[t]
    BY <1>1, EndIs
  <2>2. QED
    BY <1>1, <2>1, SameFree DEF db
<1>2. ASSUME NEW s \in Sessions, NEW c \in Calls, Begin(s, c) PROVE StockInv'
  <2>1. \A t \in Sessions : tx'[t].pc = "decided" => tx'[t] = tx[t]
    BY <1>2, BeginIs
  <2>2. QED
    BY <1>2, <2>1, SameFree DEF Begin, db
<1>3. ASSUME NEW s \in Sessions, Claim(s) PROVE StockInv'
  <2>1. CASE idem[tx[s].call.key].mv = 0
    <3>1. \A t \in Sessions : tx'[t].pc = "decided" => tx[t].pc = "decided" /\ tx'[t].call = tx[t].call
      BY <1>3, <2>1, ClaimIs
    <3>2. QED
      BY <1>3, <3>1, SameFree DEF Claim, db
  <2>2. CASE idem[tx[s].call.key].mv # 0
    BY <1>1, <1>3, <2>2 DEF Claim
  <2>3. QED
    BY <2>1, <2>2
<1>4. ASSUME NEW s \in Sessions, Acquire(s) PROVE StockInv'
  <2>1. \A t \in Sessions : tx'[t].pc = "decided" => tx[t].pc = "decided" /\ tx'[t].call = tx[t].call
    BY <1>4, AcquireIs
  <2>2. QED
    BY <1>4, <2>1, SameFree DEF Acquire, db
<1>5. ASSUME NEW s \in Sessions, Decide(s) PROVE StockInv'
  <2>1. UNCHANGED db
    BY <1>5 DEF Decide
  <2>2. CASE End(s)
    BY <1>1, <2>1, <2>2
  <2>3. CASE ~End(s)
    <3>1. /\ Legal(tx[s].call) /\ tx[s].pc = "locking" /\ tx'[s].call = tx[s].call
          /\ \A t \in Sessions \ {s} : tx'[t] = tx[t]
      BY <1>5, <2>3, DecideIs
    <3>2. tx[s].call \in Calls
      BY <3>1 DEF CallsAreReal
    <3>3. \A i \in Items : TakesFree(tx[s].call, i) => Slack(i) >= 1
      BY <3>1, <3>2, LegalIsFree
    <3>4. \A i \in Items : Slack(i)' = Slack(i)
      BY <2>1, SameSlack DEF db
    <3>5. \A t \in Sessions, i \in Items : TakesFree(tx[t].call, i)' => TakesFree(tx[t].call, i)
      <4>1. \A t \in Sessions : tx'[t].call = tx[t].call
        BY <3>1
      <4>2. QED
        BY <2>1, <4>1 DEF TakesFree, db
    <3>6. QED
      BY <3>1, <3>3, <3>4, <3>5 DEF StockInv, FreeStays, TakesFree
  <2>4. QED
    BY <2>2, <2>3
<1>6. ASSUME NEW s \in Sessions, NEW d \in BOOLEAN, Commit(s, d) PROVE StockInv'
  <2>1. ASSUME NEW i \in Items PROVE Slack(i)' >= 0
    <3>1. Slack(i) >= 0 /\ (TakesFree(tx[s].call, i) => Slack(i) >= 1)
      BY <1>6, CommitIs DEF StockInv, FreeStays
    <3>2. QED
      BY <1>0, <1>6, <3>1, CommitSlack
  <2>2. ASSUME NEW t \in Sessions, tx'[t].pc = "decided", NEW i \in Items, TakesFree(tx[t].call, i)'
        PROVE  Slack(i)' >= 1
    <3>1. t # s /\ tx'[t] = tx[t]
      BY <1>6, <2>2, CommitIs, EndIs
    <3>2. tx[t].call.kind \in {"reserve", "issue"}
      BY <2>2, <3>1 DEF TakesFree
    <3>3. req'[tx[t].call.req] = req[tx[t].call.req]
      BY <1>6, <2>2, <3>1, <3>2, RowOfAnother
    <3>4. TakesFree(tx[t].call, i)
      BY <2>2, <3>1, <3>3 DEF TakesFree
    <3>5. Slack(i) >= 1
      BY <2>2, <3>1, <3>4 DEF StockInv, FreeStays
    <3>6. ~TakesFree(tx[s].call, i)
      BY <1>6, <2>2, <3>1, <3>4, FreeOfAnother
    <3>7. QED
      BY <1>0, <1>6, <3>5, <3>6, CommitSlack
  <2>3. QED
    BY <2>1, <2>2 DEF StockInv, FreeStays
<1>7. ASSUME NEW s \in Sessions, Drop(s) \/ Victim(s) PROVE StockInv'
  BY <1>1, <1>7 DEF Drop, Victim
<1>8. CASE UNCHANGED vars
  BY <1>8, SameFree DEF vars
<1>9. QED
  BY <1>2, <1>3, <1>4, <1>5, <1>6, <1>7, <1>8 DEF Next

LEMMA InitStock == Init => StockInv
<1> SUFFICES ASSUME Init PROVE StockInv
  OBVIOUS
<1>1. FreeStays
  BY DEF Init, Idle, FreeStays
<1>2. ASSUME NEW i \in Items PROVE Slack(i) >= 0
  <2>1. \A q \in Requests : Promises[q] = 0
    BY DEF Init, Promises, Promised
  <2>2. SumOver(Promises, OfItem(i)) = 0
    BY <2>1, OfItemIs, SumZero
  <2>3. shelf[i] \in Nat
    BY RequestData DEF Init
  <2>4. QED
    BY <2>2, <2>3, PromisedIs DEF Slack
<1>3. QED
  BY <1>1, <1>2 DEF StockInv

LEMMA StockInductive == Spec => [](IInv /\ RowInv /\ StockInv)
<1>1. Init => IInv /\ RowInv /\ StockInv
  BY InitIInv, InitRows, InitStock
<1>2. (IInv /\ RowInv /\ StockInv) /\ [Next]_vars => (IInv /\ RowInv /\ StockInv)'
  BY StepIInv, StepRowInv, StepStock
<1>3. QED
  BY <1>1, <1>2, PTL DEF Spec

(* Invariants 2 and 3 of docs/inventory-design.md: whatever the sessions do at
   the same instant, everything promised to a request is on the shelf. *)
THEOREM PromisesAreCovered == Spec => []PromisesOnShelf
<1>1. IInv /\ StockInv => PromisesOnShelf
  BY InvParts, PromisedType DEF StockInv, Slack, PromisesOnShelf
<1>2. QED
  BY <1>1, StockInductive, PTL
============================================================================

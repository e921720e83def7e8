------------------------- MODULE AccountAdmin_proofs -------------------------
(***************************************************************************)
(* Proofs about AccountAdmin, for any number of people and any set of      *)
(* actions they take at the same time.                                     *)
(***************************************************************************)
EXTENDS AccountAdmin, FiniteSetTheorems, TLAPS

(* How far an action can be. *)
Deactivating(o) ==
    /\ o.call \in Calls /\ o.call.kind = "deactivate" /\ ~o.undo
    /\ o.at = "record" \/ (o.at \in {"holdings", "ban"} /\ o.phase = "asked")
Reactivating(o) ==
    /\ o.call \in Calls /\ o.call.kind = "reactivate"
    /\ o.at = "record" \/ (o.at = "unban" /\ ~o.undo /\ o.phase = "asked")
Withdrawing(o) ==
    o.call \in Calls /\ o.call.kind = "revoke" /\ ~o.undo /\ o.at = "record"

Actions ==
    [call : Calls \cup {NoCall}, at : {"holdings", "ban", "record", "unban", "end"},
     phase : {"asked", "waiting", "decided"}, undo : BOOLEAN]

(* o is a state the action of administrator a can be in. *)
Possible(a, o) ==
    /\ o \in Actions
    /\ o = Idle \/ (o.call.by = a /\ (Deactivating(o) \/ Reactivating(o) \/ Withdrawing(o)))

TypeOK ==
    /\ grants \in SUBSET Users
    /\ status \in [Users -> {"invited", "active", "deactivated"}]
    /\ banned \in [Users -> BOOLEAN]
    /\ op \in [Users -> Actions] /\ \A a \in Users : Possible(a, op[a])
    /\ told \in [Users -> {"nothing", "done", "failed"}]

(* What the advisory locks are for. *)
LocksExclude ==
    \A a, b \in Users :
        a # b /\ op[a].phase = "decided" /\ op[b].phase = "decided" => Revoking(a) # Revoking(b)

(* A revocation that was found legal still leaves somebody. *)
RevocationsSpare ==
    \A a \in Users : op[a].phase = "decided" /\ Revoking(a) => \E v \in grants : v # Target(a)

GrantInv == TypeOK /\ LocksExclude /\ RevocationsSpare /\ GrantRemains

------------------------------------------------------------------------------
(* Actions go on from one call to the next. *)

LEMMA CallTypes ==
    ASSUME NEW c \in Calls
    PROVE  /\ c.kind \in {"deactivate", "reactivate", "revoke"}
           /\ c.by \in Users /\ c.user \in Users /\ c.by # c.user
BY AccountData DEF CallType, StatusKinds

LEMMA IdleIsPossible == ASSUME NEW a \in Users PROVE Possible(a, Idle)
BY DEF Possible, Actions, Idle

(* Whatever ends or goes on, ends in a possible state that has no lock. *)
LEMMA GoesOn ==
    ASSUME TypeOK, NEW a \in Users, op[a] # Idle,
           (~op[a].undo /\ Proceed(a)) \/ OnError(a) \/ \E report \in {"done", "failed"} : Ended(a, report)
    PROVE  /\ told' \in [Users -> {"nothing", "done", "failed"}]
           /\ \E o \in Actions : /\ op' = [op EXCEPT ![a] = o]
                                 /\ Possible(a, o) /\ o.phase = "asked"
                                 /\ o = Idle \/ o.call = op[a].call
<1> DEFINE Goal == \E o \in Actions : /\ op' = [op EXCEPT ![a] = o]
                                      /\ Possible(a, o) /\ o.phase = "asked"
                                      /\ o = Idle \/ o.call = op[a].call
<1>1. ASSUME NEW report \in {"done", "failed"}, Ended(a, report)
      PROVE  told' \in [Users -> {"nothing", "done", "failed"}] /\ Goal
  <2>1. Possible(a, Idle) /\ Idle \in Actions /\ Idle.phase = "asked"
    BY IdleIsPossible DEF Possible, Idle
  <2>2. QED
    BY <1>1, <2>1 DEF Ended, TypeOK
<1>2. ASSUME ~op[a].undo, Proceed(a)
      PROVE  told' \in [Users -> {"nothing", "done", "failed"}] /\ Goal
  <2> DEFINE next == After(op[a].call.kind, op[a].at)
             o == [[op[a] EXCEPT !.at = next] EXCEPT !.phase = "asked"]
  <2>1. CASE next = "end"
    BY <1>1, <1>2, <2>1 DEF Proceed
  <2>2. CASE next # "end"
    <3>1. op[a] \in Actions /\ Possible(a, op[a])
      BY DEF TypeOK
    <3>2. op' = [op EXCEPT ![a] = o] /\ UNCHANGED told
      BY <1>2, <2>2, <3>1 DEF Proceed, Actions
    <3>3. /\ o \in Actions /\ o.phase = "asked" /\ o.call = op[a].call
          /\ o.at = next /\ o.undo = op[a].undo
      BY <2>2, <3>1 DEF After, Actions
    <3>4. Possible(a, o)
      BY <1>2, <2>2, <3>1, <3>3 DEF Possible, Deactivating, Reactivating, Withdrawing, After
    <3>5. QED
      BY <3>2, <3>3, <3>4 DEF TypeOK
  <2>3. QED
    BY <2>1, <2>2
<1>3. ASSUME OnError(a)
      PROVE  told' \in [Users -> {"nothing", "done", "failed"}] /\ Goal
  <2> DEFINE o == [[[op[a] EXCEPT !.at = "record"] EXCEPT !.phase = "asked"] EXCEPT !.undo = TRUE]
  <2>1. CASE ~At(a, "unban")
    BY <1>1, <1>3, <2>1 DEF OnError
  <2>2. CASE At(a, "unban")
    <3>1. op[a] \in Actions /\ Possible(a, op[a])
      BY DEF TypeOK
    <3>2. op' = [op EXCEPT ![a] = o] /\ UNCHANGED told
      BY <1>3, <2>2, <3>1 DEF OnError, Actions
    <3>3. o \in Actions /\ o.phase = "asked" /\ o.call = op[a].call /\ o.at = "record" /\ o.undo
      BY <3>1 DEF Actions
    <3>4. Possible(a, o)
      BY <2>2, <3>1, <3>3 DEF Possible, Deactivating, Reactivating, Withdrawing, At, Idle
    <3>5. QED
      BY <3>2, <3>3, <3>4 DEF TypeOK
  <2>3. QED
    BY <2>1, <2>2
<1>4. QED
  BY <1>1, <1>2, <1>3

(* One step moves at most one action, and only Decide takes a lock. *)
Moves(a, o) ==
    /\ op' = [op EXCEPT ![a] = o]
    /\ Possible(a, o) /\ (o = Idle \/ o.call \in Calls)
    /\ o.phase = "decided" => Decide(a) /\ Allowed(a) /\ LockFree(a) /\ o.call = op[a].call

LEMMA Turn ==
    ASSUME TypeOK, Next
    PROVE  /\ told' \in [Users -> {"nothing", "done", "failed"}]
           /\ op' = op \/ \E a \in Users, o \in Actions : Moves(a, o)
<1> DEFINE Goal == /\ told' \in [Users -> {"nothing", "done", "failed"}]
                   /\ op' = op \/ \E a \in Users, o \in Actions : Moves(a, o)
<1>0. \A a \in Users : op[a] \in Actions /\ Possible(a, op[a])
  BY DEF TypeOK
<1>1. ASSUME NEW c \in Calls, Start(c)
      PROVE  Goal
  <2> DEFINE o == [call |-> c, at |-> First(c.kind), phase |-> "asked", undo |-> FALSE]
  <2>1. c.by \in Users /\ c.kind \in {"deactivate", "reactivate", "revoke"}
    BY CallTypes
  <2>2. /\ First(c.kind) \in {"holdings", "record"}
        /\ c.kind # "deactivate" => First(c.kind) = "record"
    BY <2>1 DEF First
  <2>3. o \in Actions /\ Possible(c.by, o) /\ o.phase = "asked" /\ o.call \in Calls
    BY <2>1, <2>2 DEF Actions, Possible, Deactivating, Reactivating, Withdrawing
  <2>4. op' = [op EXCEPT ![c.by] = o] /\ told' = [told EXCEPT ![c.by] = "nothing"]
    BY <1>1 DEF Start
  <2>5. QED
    <3>1. Moves(c.by, o)
      BY <2>3, <2>4 DEF Moves
    <3>2. QED
      BY <2>1, <2>3, <2>4, <3>1 DEF TypeOK
<1>2. ASSUME NEW a \in Users, op[a] # Idle,
             (~op[a].undo /\ Proceed(a)) \/ OnError(a)
      PROVE  Goal
  <2>1. PICK o \in Actions : /\ op' = [op EXCEPT ![a] = o]
                             /\ Possible(a, o) /\ o.phase = "asked"
                             /\ o = Idle \/ o.call = op[a].call
    BY <1>2, GoesOn
  <2>2. op[a].call \in Calls
    BY <1>0, <1>2 DEF Possible, Deactivating, Reactivating, Withdrawing
  <2>3. Moves(a, o)
    BY <2>1, <2>2 DEF Moves
  <2>4. told' \in [Users -> {"nothing", "done", "failed"}]
    BY <1>2, GoesOn
  <2>5. QED
    BY <2>3, <2>4
<1>3. ASSUME NEW a \in Users
      PROVE  /\ At(a, "holdings") \/ At(a, "ban") \/ At(a, "unban") => op[a] # Idle /\ ~op[a].undo
             /\ At(a, "record") => op[a] # Idle
  BY <1>0 DEF Possible, Deactivating, Reactivating, Withdrawing, At, Idle
<1>4. ASSUME NEW a \in Users, Holdings(a) PROVE Goal
  BY <1>2, <1>3, <1>4 DEF Holdings
<1>5. ASSUME NEW a \in Users, NEW value \in BOOLEAN, SetBan(a, value) PROVE Goal
  <2>1. At(a, "ban") \/ At(a, "unban")
    BY <1>5 DEF SetBan
  <2>2. Proceed(a) \/ OnError(a)
    BY <1>5 DEF SetBan
  <2>3. QED
    BY <1>2, <1>3, <2>1, <2>2
<1>6. ASSUME NEW a \in Users, At(a, "record"), NEW phase \in {"waiting", "decided"},
             op' = [op EXCEPT ![a].phase = phase], UNCHANGED told,
             phase = "decided" => Decide(a) /\ Allowed(a) /\ LockFree(a)
      PROVE  Goal
  <2> DEFINE o == [op[a] EXCEPT !.phase = phase]
  <2>1. op' = [op EXCEPT ![a] = o]
    BY <1>6
  <2>2. o \in Actions /\ o.at = "record" /\ o.call = op[a].call /\ o.undo = op[a].undo /\ o.phase = phase
    BY <1>0, <1>6 DEF Actions, At
  <2>3. Possible(a, o) /\ o.call \in Calls
    BY <1>0, <1>3, <1>6, <2>2 DEF Possible, Deactivating, Reactivating, Withdrawing, At
  <2>4. QED
    BY <1>6, <2>1, <2>2, <2>3 DEF Moves, TypeOK
<1>7. ASSUME NEW a \in Users, CheckRole(a) PROVE Goal
  <2>1. CASE a \in grants
    BY <1>6, <1>7, <2>1 DEF CheckRole
  <2>2. CASE a \notin grants
    BY <1>2, <1>3, <1>7, <2>2 DEF CheckRole
  <2>3. QED
    BY <2>1, <2>2
<1>8. ASSUME NEW a \in Users, Decide(a) PROVE Goal
  <2>1. CASE Allowed(a)
    <3>1. At(a, "record") /\ LockFree(a) /\ op' = [op EXCEPT ![a].phase = "decided"] /\ UNCHANGED told
      BY <1>8, <2>1 DEF Decide
    <3>2. QED
      BY <1>6, <1>8, <2>1, <3>1
  <2>2. CASE ~Allowed(a)
    BY <1>2, <1>3, <1>8, <2>2 DEF Decide
  <2>3. QED
    BY <2>1, <2>2
<1>9. ASSUME NEW a \in Users, Write(a) PROVE Goal
  BY <1>2, <1>3, <1>9 DEF Write
<1>10. ASSUME NEW a \in Users, Fail(a) PROVE Goal
  BY <1>2, <1>10 DEF Fail
<1>11. ASSUME NEW a \in Users, Killed(a) PROVE Goal
  <2>1. Moves(a, Idle) /\ Idle \in Actions /\ UNCHANGED told
    BY <1>11, IdleIsPossible DEF Killed, Moves, Possible, Idle
  <2>2. QED
    BY <2>1 DEF TypeOK
<1>12. ASSUME NEW a \in Users, NEW u \in Users, AssignRole(a, u) PROVE Goal
  BY <1>12 DEF AssignRole, TypeOK
<1>13. ASSUME NEW a \in Users, SelfActivate(a) PROVE Goal
  BY <1>13 DEF SelfActivate, TypeOK
<1>14. QED
  BY <1>1, <1>4, <1>5, <1>7, <1>8, <1>9, <1>10, <1>11, <1>12, <1>13 DEF Next

LEMMA StepTypes == TypeOK /\ [Next]_vars => TypeOK'
<1> SUFFICES ASSUME TypeOK, [Next]_vars PROVE TypeOK'
  OBVIOUS
<1>1. CASE UNCHANGED vars
  BY <1>1 DEF vars, accounts, TypeOK, Possible, Deactivating, Reactivating, Withdrawing
<1>2. CASE Next
  <2>1. \A a \in Users : Possible(a, op[a]) /\ op[a] \in Actions
    BY DEF TypeOK
  <2>2. /\ op' \in [Users -> Actions] /\ \A a \in Users : Possible(a, op'[a])
        /\ told' \in [Users -> {"nothing", "done", "failed"}]
    <3>1. CASE op' = op
      BY <1>2, <2>1, <3>1, Turn DEF TypeOK
    <3>2. ASSUME NEW a \in Users, NEW o \in Actions, Moves(a, o)
          PROVE  op' \in [Users -> Actions] /\ \A b \in Users : Possible(b, op'[b])
      <4>1. op' = [op EXCEPT ![a] = o] /\ Possible(a, o) /\ op \in [Users -> Actions]
        BY <3>2 DEF Moves, TypeOK
      <4>2. QED
        BY <4>1, <2>1
    <3>3. QED
      BY <1>2, <3>1, <3>2, Turn
  <2>3. \A a \in Users : op[a] # Idle => Target(a) \in Users
    BY <2>1, CallTypes DEF Possible, Deactivating, Reactivating, Withdrawing, Target
  <2>4. /\ grants' \in SUBSET Users
        /\ status' \in [Users -> {"invited", "active", "deactivated"}]
        /\ banned' \in [Users -> BOOLEAN]
    <3>1. CASE \E c \in Calls : Start(c)
      BY <3>1 DEF Start, accounts, TypeOK
    <3>2. ASSUME NEW a \in Users, Holdings(a) \/ CheckRole(a) \/ Decide(a) \/ Fail(a) \/ Killed(a)
          PROVE  UNCHANGED accounts
      BY <3>2 DEF Holdings, CheckRole, Decide, Fail, Killed
    <3>3. ASSUME NEW a \in Users, NEW value \in BOOLEAN, SetBan(a, value)
          PROVE  /\ UNCHANGED <<grants, status>> /\ banned' \in [Users -> BOOLEAN]
      BY <3>3 DEF SetBan, TypeOK
    <3>4. ASSUME NEW a \in Users, Write(a)
          PROVE  /\ grants' \in SUBSET Users /\ UNCHANGED banned
                 /\ status' \in [Users -> {"invited", "active", "deactivated"}]
      BY <3>4 DEF Write, TypeOK, NewStatus
    <3>5. ASSUME NEW a \in Users, NEW u \in Users, AssignRole(a, u)
          PROVE  grants' \in SUBSET Users /\ UNCHANGED <<status, banned>>
      BY <3>5 DEF AssignRole, TypeOK
    <3>6. ASSUME NEW a \in Users, SelfActivate(a)
          PROVE  UNCHANGED <<grants, banned>> /\ status' \in [Users -> {"invited", "active", "deactivated"}]
      BY <3>6 DEF SelfActivate, TypeOK
    <3>7. QED
      BY <1>2, <3>1, <3>2, <3>3, <3>4, <3>5, <3>6 DEF Next, TypeOK, accounts
  <2>5. \A a \in Users : Possible(a, op[a])' <=> Possible(a, op'[a])
    BY DEF Possible, Deactivating, Reactivating, Withdrawing
  <2>6. QED
    BY <2>2, <2>4, <2>5 DEF TypeOK
<1>3. QED
  BY <1>1, <1>2

------------------------------------------------------------------------------
(* A grant always remains. *)

(* Where a decided action comes from: it was decided before, or is decided now. *)
LEMMA DecidedSince ==
    ASSUME TypeOK, [Next]_vars, NEW b \in Users, op'[b].phase = "decided"
    PROVE  /\ op'[b].call = op[b].call
           /\ \/ op'[b] = op[b]
              \/ Decide(b) /\ Allowed(b) /\ LockFree(b) /\ \A a \in Users \ {b} : op'[a] = op[a]
<1>1. CASE op' = op
  BY <1>1
<1>2. ASSUME NEW a \in Users, NEW o \in Actions, Moves(a, o)
      PROVE  /\ op'[b].call = op[b].call
             /\ \/ op'[b] = op[b]
                \/ Decide(b) /\ Allowed(b) /\ LockFree(b) /\ \A c \in Users \ {b} : op'[c] = op[c]
  <2>1. op' = [op EXCEPT ![a] = o] /\ op \in [Users -> Actions]
    BY <1>2 DEF Moves, TypeOK
  <2>2. CASE a # b
    BY <2>1, <2>2
  <2>3. CASE a = b
    <3>1. op'[b] = o /\ \A c \in Users \ {b} : op'[c] = op[c]
      BY <2>1, <2>3
    <3>2. QED
      BY <1>2, <2>3, <3>1 DEF Moves
  <2>4. QED
    BY <2>2, <2>3
<1>3. QED
  BY <1>1, <1>2, Turn DEF vars

LEMMA StepLocks == TypeOK /\ LocksExclude /\ [Next]_vars => LocksExclude'
<1> SUFFICES ASSUME TypeOK, LocksExclude, [Next]_vars,
                    NEW a \in Users, NEW b \in Users, a # b,
                    op'[a].phase = "decided", op'[b].phase = "decided"
             PROVE  Revoking(a)' # Revoking(b)'
  BY DEF LocksExclude
<1>1. op'[a].call = op[a].call /\ op'[b].call = op[b].call
  BY DecidedSince
<1>2. SUFFICES (op[a].call.kind = "revoke") # (op[b].call.kind = "revoke")
  BY <1>1 DEF Revoking
<1>3. CASE op'[a] = op[a] /\ op'[b] = op[b]
  <2>1. op[a].phase = "decided" /\ op[b].phase = "decided"
    BY <1>3
  <2>2. QED
    BY <2>1 DEF LocksExclude, Revoking
<1>4. CASE LockFree(a) /\ \A c \in Users \ {a} : op'[c] = op[c]
  <2>1. b \in Users \ {a} /\ op[b].phase = "decided"
    BY <1>4
  <2>2. QED
    BY <1>4, <2>1 DEF LockFree, Revoking
<1>5. CASE LockFree(b) /\ \A c \in Users \ {b} : op'[c] = op[c]
  <2>1. a \in Users \ {b} /\ op[a].phase = "decided"
    BY <1>5
  <2>2. QED
    BY <1>5, <2>1 DEF LockFree, Revoking
<1>6. QED
  BY <1>3, <1>4, <1>5, DecidedSince

(* How the set of grants can shrink. *)
LEMMA GrantsShrink ==
    ASSUME TypeOK, [Next]_vars
    PROVE  \/ grants \subseteq grants'
           \/ \E a \in Users : /\ op[a].phase = "decided" /\ Revoking(a)
                               /\ grants' = grants \ {Target(a)}
                               /\ \A b \in Users : op'[b].phase = "decided" => b # a /\ op'[b] = op[b]
<1> DEFINE Goal == \E a \in Users : /\ op[a].phase = "decided" /\ Revoking(a)
                                    /\ grants' = grants \ {Target(a)}
                                    /\ \A b \in Users : op'[b].phase = "decided" => b # a /\ op'[b] = op[b]
<1>1. CASE UNCHANGED vars
  BY <1>1 DEF vars, accounts
<1>2. ASSUME NEW a \in Users, Write(a)
      PROVE  grants \subseteq grants' \/ Goal
  <2>1. CASE ~Revoking(a)
    BY <1>2, <2>1 DEF Write
  <2>2. CASE Revoking(a)
    <3>1. op[a].phase = "decided" /\ grants' = grants \ {Target(a)}
      BY <1>2, <2>2 DEF Write
    <3>2. op[a] # Idle
      BY <3>1 DEF Idle
    <3>3. PICK o \in Actions : op' = [op EXCEPT ![a] = o] /\ o.phase = "asked"
      <4>1. (~op[a].undo /\ Proceed(a)) \/ OnError(a)
        BY <1>2 DEF Write
      <4>2. QED
        BY <3>2, <4>1, GoesOn
    <3>4. \A b \in Users : op'[b].phase = "decided" => b # a /\ op'[b] = op[b]
      BY <3>3 DEF TypeOK
    <3>5. QED
      BY <2>2, <3>1, <3>4
  <2>3. QED
    BY <2>1, <2>2
<1>3. ASSUME Next, \A a \in Users : ~Write(a)
      PROVE  grants \subseteq grants'
  BY <1>3 DEF Next, Start, Holdings, SetBan, CheckRole, Decide, Fail, Killed, AssignRole, SelfActivate, accounts
<1>4. QED
  BY <1>1, <1>2, <1>3

(* More than one grant: somebody else has one. *)
LEMMA AnotherGrant ==
    ASSUME TypeOK, NEW u, Cardinality(grants) > 1
    PROVE  \E v \in grants : v # u
<1> SUFFICES ASSUME grants \subseteq {u} PROVE FALSE
  OBVIOUS
<1>1. IsFiniteSet({u}) /\ Cardinality({u}) = 1
  BY FS_Singleton
<1>2. Cardinality(grants) <= 1
  BY <1>1, FS_Subset
<1>3. Cardinality(grants) \in Nat
  BY <1>1, FS_Subset, FS_CardinalityType
<1>4. QED
  BY <1>2, <1>3

LEMMA StepGrants == GrantInv /\ [Next]_vars => RevocationsSpare' /\ GrantRemains'
<1> SUFFICES ASSUME GrantInv, [Next]_vars PROVE RevocationsSpare' /\ GrantRemains'
  OBVIOUS
<1> USE DEF GrantInv
<1>1. ASSUME NEW b \in Users, op'[b].phase = "decided", op'[b].call.kind = "revoke",
             grants \subseteq grants' \/ op'[b] = op[b]
      PROVE  \E v \in grants : v # op'[b].call.user
  <2>1. op'[b].call = op[b].call /\ Revoking(b)
    BY <1>1, DecidedSince DEF Revoking
  <2>2. CASE op'[b] = op[b]
    BY <1>1, <2>1, <2>2 DEF RevocationsSpare, Target
  <2>3. CASE Allowed(b)
    BY <2>1, <2>3, AnotherGrant DEF Allowed, Target
  <2>4. QED
    BY <1>1, <2>2, <2>3, DecidedSince
<1>2. CASE grants \subseteq grants'
  BY <1>1, <1>2 DEF RevocationsSpare, GrantRemains, Revoking, Target
<1>3. ASSUME NEW a \in Users, op[a].phase = "decided", Revoking(a), grants' = grants \ {Target(a)},
             \A b \in Users : op'[b].phase = "decided" => b # a /\ op'[b] = op[b]
      PROVE  RevocationsSpare' /\ GrantRemains'
  <2>1. \A b \in Users : op'[b].phase = "decided" => ~Revoking(b)'
    BY <1>3 DEF LocksExclude, Revoking
  <2>2. GrantRemains'
    BY <1>3 DEF RevocationsSpare, GrantRemains
  <2>3. QED
    BY <2>1, <2>2 DEF RevocationsSpare
<1>4. QED
  BY <1>2, <1>3, GrantsShrink

LEMMA InitGrants == Init => GrantInv
<1> SUFFICES ASSUME Init PROVE GrantInv
  OBVIOUS
<1>1. TypeOK
  BY AccountData, IdleIsPossible DEF Init, TypeOK, Possible
<1>2. LocksExclude /\ RevocationsSpare
  BY DEF Init, LocksExclude, RevocationsSpare, Idle
<1>3. GrantRemains
  BY AccountData DEF Init, GrantRemains
<1>4. QED
  BY <1>1, <1>2, <1>3 DEF GrantInv

LEMMA StepGrantInv == GrantInv /\ [Next]_vars => GrantInv'
BY StepTypes, StepLocks, StepGrants DEF GrantInv

LEMMA GrantInductive == Spec => []GrantInv
BY InitGrants, StepGrantInv, PTL DEF Spec

(* Whoever revokes whom at the same moment, and although the caller's own
   grant may be gone by then, revoke_role_grant leaves a grant. *)
THEOREM GrantStays == Spec => []GrantRemains
<1>1. GrantInv => GrantRemains
  BY DEF GrantInv
<1>2. QED
  BY <1>1, GrantInductive, PTL

------------------------------------------------------------------------------
(* When each account has one administrator who looks after it, and no reply
   to a lifted block is lost, nobody shown as deactivated can sign in. *)

OneKeeper ==
    \A c, d \in Calls :
        c.kind \in StatusKinds /\ d.kind \in StatusKinds /\ c.user = d.user => c.by = d.by

(* The sign-in block stands while an account is being restored, and before it
   is marked deactivated; it is only lifted from an active account. *)
Fence(o, st, blocked) ==
    /\ o.call.kind = "reactivate" => blocked[o.call.user]
    /\ o.at = "unban" => st[o.call.user] = "active"
    /\ o.call.kind = "deactivate" /\ o.at = "record" => blocked[o.call.user]

SignInInv == TypeOK /\ LessAccess /\ \A a \in Users : Fence(op[a], status, banned)

LEMMA Outcomes ==
    ASSUME TypeOK, NEW a \in Users, op[a] # Idle
    PROVE  /\ Proceed(a) \/ OnError(a) => \A b \in Users \ {a} : op'[b] = op[b]
           /\ Proceed(a) => \/ op'[a] = Idle /\ After(op[a].call.kind, op[a].at) = "end"
                            \/ op'[a].call = op[a].call /\ op'[a].at = After(op[a].call.kind, op[a].at)
           /\ OnError(a) => \/ op'[a] = Idle
                            \/ At(a, "unban") /\ op'[a].call = op[a].call /\ op'[a].at = "record"
<1>1. op \in [Users -> Actions] /\ op[a] \in Actions
  BY DEF TypeOK
<1>2. CASE Proceed(a)
  <2> DEFINE next == After(op[a].call.kind, op[a].at)
             o == [[op[a] EXCEPT !.at = next] EXCEPT !.phase = "asked"]
  <2>1. CASE next = "end"
    <3>1. op' = [op EXCEPT ![a] = Idle]
      BY <1>2, <2>1 DEF Proceed, Ended
    <3>2. op'[a] = Idle /\ \A b \in Users \ {a} : op'[b] = op[b]
      BY <1>1, <3>1
    <3>3. QED
      BY <2>1, <3>2
  <2>2. CASE next # "end"
    <3>1. op' = [op EXCEPT ![a] = o]
      BY <1>1, <1>2, <2>2 DEF Proceed, Actions
    <3>2. o.call = op[a].call /\ o.at = next
      BY <1>1 DEF Actions
    <3>3. op'[a] = o /\ \A b \in Users \ {a} : op'[b] = op[b]
      BY <1>1, <3>1
    <3>4. OnError(a) => \/ op'[a] = Idle
                        \/ At(a, "unban") /\ op'[a].call = op[a].call /\ op'[a].at = "record"
      BY <1>1, <3>2, <3>3 DEF OnError, Ended, Actions
    <3>5. QED
      BY <3>2, <3>3, <3>4
  <2>3. QED
    BY <2>1, <2>2
<1>3. CASE OnError(a) /\ ~Proceed(a)
  <2> DEFINE o == [[[op[a] EXCEPT !.at = "record"] EXCEPT !.phase = "asked"] EXCEPT !.undo = TRUE]
  <2>1. CASE ~At(a, "unban")
    <3>1. op' = [op EXCEPT ![a] = Idle]
      BY <1>3, <2>1 DEF OnError, Ended
    <3>2. QED
      BY <1>1, <1>3, <3>1
  <2>2. CASE At(a, "unban")
    <3>1. op' = [op EXCEPT ![a] = o]
      BY <1>1, <1>3, <2>2 DEF OnError, Actions
    <3>2. o.call = op[a].call /\ o.at = "record"
      BY <1>1 DEF Actions
    <3>3. QED
      BY <1>1, <1>3, <2>2, <3>1, <3>2
  <2>3. QED
    BY <2>1, <2>2
<1>4. QED
  BY <1>2, <1>3

(* After the last call there is nothing left. *)
LEMMA EndIsEnd ==
    ASSUME TypeOK, NEW a \in Users, op[a] # Idle, Proceed(a),
           After(op[a].call.kind, op[a].at) = "end"
    PROVE  op'[a] = Idle /\ told' = [told EXCEPT ![a] = "done"]
BY DEF Proceed, Ended, TypeOK

(* Two administrators never work on the status of one account. *)
LEMMA Apart ==
    ASSUME OneKeeper, TypeOK, NEW a \in Users, NEW b \in Users, a # b,
           op[a].call.kind \in StatusKinds, op[b].call.kind \in StatusKinds
    PROVE  Target(a) # Target(b)
<1>1. /\ op[a] # Idle /\ op[b] # Idle
      /\ Possible(a, op[a]) /\ Possible(b, op[b])
  BY DEF TypeOK, StatusKinds, Idle, NoCall
<1>2. /\ op[a].call \in Calls /\ op[a].call.by = a
      /\ op[b].call \in Calls /\ op[b].call.by = b
  BY <1>1 DEF Possible, Deactivating, Reactivating, Withdrawing
<1>3. QED
  BY <1>2 DEF OneKeeper, Target

(* What the calls of an action are about. *)
LEMMA Stages ==
    ASSUME TypeOK, NEW a \in Users, op[a] # Idle
    PROVE  /\ op[a].call \in Calls /\ Target(a) \in Users
           /\ op[a].call.kind \in {"deactivate", "reactivate", "revoke"}
           /\ At(a, "holdings") \/ At(a, "ban") => op[a].call.kind = "deactivate" /\ ~op[a].undo
           /\ At(a, "unban") => op[a].call.kind = "reactivate" /\ ~op[a].undo
           /\ op[a].undo => op[a].call.kind = "reactivate"
           /\ op[a].at \in {"holdings", "ban", "unban", "record"}
BY CallTypes DEF TypeOK, Possible, Deactivating, Reactivating, Withdrawing, Target, At

LEMMA NotIdle ==
    ASSUME NEW a \in Users, At(a, "holdings") \/ At(a, "ban") \/ At(a, "unban") \/ At(a, "record")
    PROVE  op[a] # Idle
BY DEF At, Idle

(* An action that fails leaves every fence where it was. *)
LEMMA FailureKeepsFences ==
    ASSUME SignInInv, NEW a \in Users, op[a] # Idle, OnError(a)
    PROVE  \A b \in Users : Fence(op'[b], status, banned)
<1>1. Fence(Idle, status, banned)
  BY DEF Fence, Idle, NoCall
<1>2. \A b \in Users \ {a} : op'[b] = op[b]
  BY Outcomes DEF SignInInv
<1>3. op'[a] = Idle \/ (At(a, "unban") /\ op'[a].call = op[a].call /\ op'[a].at = "record")
  BY Outcomes DEF SignInInv
<1>4. Fence(op'[a], status, banned)
  BY <1>1, <1>3, Stages DEF SignInInv, Fence
<1>5. QED
  BY <1>2, <1>4 DEF SignInInv

LEMMA StepSignIn ==
    OneKeeper /\ ~UnbanReplyLost /\ SignInInv /\ [Next]_vars => SignInInv'
<1> SUFFICES ASSUME OneKeeper, ~UnbanReplyLost, SignInInv, [Next]_vars
             PROVE  LessAccess' /\ \A b \in Users : Fence(op'[b], status', banned')
  <2>1. OneKeeper /\ ~UnbanReplyLost /\ SignInInv /\ [Next]_vars => TypeOK'
    BY StepTypes DEF SignInInv
  <2>2. (\A a \in Users : Fence(op[a], status, banned))' <=> \A b \in Users : Fence(op'[b], status', banned')
    BY DEF Fence
  <2>3. QED
    BY <2>1, <2>2 DEF SignInInv
<1> DEFINE Goal == LessAccess' /\ \A b \in Users : Fence(op'[b], status', banned')
<1>0. /\ TypeOK
      /\ LessAccess
      /\ \A b \in Users : Fence(op[b], status, banned)
      /\ Fence(Idle, status, banned) /\ Fence(Idle, status', banned')
  BY DEF SignInInv, Fence, Idle, NoCall
<1>1. ASSUME UNCHANGED <<status, banned>>, \A b \in Users : Fence(op'[b], status, banned)
      PROVE  Goal
  BY <1>0, <1>1 DEF LessAccess
<1>2. CASE UNCHANGED vars
  BY <1>0, <1>1, <1>2 DEF vars, accounts
<1>3. ASSUME NEW c \in Calls, Start(c)
      PROVE  Goal
  <2> DEFINE o == [call |-> c, at |-> First(c.kind), phase |-> "asked", undo |-> FALSE]
  <2>1. op' = [op EXCEPT ![c.by] = o] /\ UNCHANGED <<status, banned>>
    BY <1>3 DEF Start, accounts
  <2>2. Fence(o, status, banned)
    <3>1. c.user \in Users /\ c.kind \in {"deactivate", "reactivate", "revoke"}
      BY CallTypes
    <3>2. c.kind = "reactivate" => banned[c.user]
      <4>1. c.kind = "reactivate" => status[c.user] = "deactivated"
        BY <1>3 DEF Start, StatusKinds
      <4>2. QED
        BY <1>0, <3>1, <4>1 DEF LessAccess
    <3>3. First(c.kind) # "unban" /\ (c.kind = "deactivate" => First(c.kind) # "record")
      BY <3>1 DEF First
    <3>4. QED
      BY <3>2, <3>3 DEF Fence
  <2>3. \A b \in Users : op'[b] = op[b] \/ op'[b] = o
    BY <1>0, <2>1 DEF TypeOK
  <2>4. QED
    BY <1>0, <1>1, <2>1, <2>2, <2>3
<1>4. ASSUME NEW a \in Users, Holdings(a)
      PROVE  Goal
  <2>1. op[a] # Idle /\ UNCHANGED <<status, banned>> /\ At(a, "holdings")
    BY <1>4, NotIdle DEF Holdings, accounts
  <2>2. CASE Proceed(a)
    <3>1. op'[a] = Idle \/ (op'[a].call = op[a].call /\ op'[a].at = "ban")
      BY <1>0, <2>1, <2>2, Outcomes, Stages DEF After, At
    <3>2. Fence(op'[a], status, banned)
      BY <1>0, <3>1 DEF Fence
    <3>3. QED
      BY <1>0, <1>1, <2>1, <2>2, <3>2, Outcomes
  <2>3. CASE OnError(a)
    BY <1>1, <2>1, <2>3, FailureKeepsFences
  <2>4. QED
    BY <1>4, <2>2, <2>3 DEF Holdings
<1>5. ASSUME NEW a \in Users, SetBan(a, TRUE)
      PROVE  Goal
  <2>1. op[a] # Idle /\ At(a, "ban") /\ UNCHANGED status /\ banned' = [banned EXCEPT ![Target(a)] = TRUE]
    BY <1>5, NotIdle DEF SetBan
  <2>2. Target(a) \in Users /\ \A u \in Users : banned'[u] = (u = Target(a) \/ banned[u])
    BY <1>0, <2>1, Stages DEF TypeOK
  <2>3. LessAccess'
    BY <1>0, <2>1, <2>2 DEF LessAccess
  <2>4. \A b \in Users \ {a} : op'[b] = op[b]
    BY <1>0, <1>5, <2>1, Outcomes DEF SetBan
  <2>5. ASSUME NEW b \in Users \ {a}
        PROVE  Fence(op'[b], status', banned')
    <3>1. CASE op[b] = Idle
      BY <1>0, <2>4, <3>1
    <3>2. CASE op[b] # Idle
      <4>1. op[b].call.user \in Users
        BY <1>0, <3>2, Stages DEF Target
      <4>2. QED
        BY <1>0, <2>1, <2>2, <2>4, <4>1 DEF Fence
    <3>3. QED
      BY <3>1, <3>2
  <2>6. Fence(op'[a], status', banned')
    <3>1. /\ op'[a] = Idle \/ (op'[a].call = op[a].call /\ op'[a].at = "record")
          /\ op[a].call.kind = "deactivate"
      BY <1>0, <1>5, <2>1, Outcomes, Stages DEF SetBan, After, At
    <3>2. QED
      BY <1>0, <2>2, <3>1 DEF Fence, Target
  <2>7. QED
    BY <2>3, <2>5, <2>6
<1>6. ASSUME NEW a \in Users, SetBan(a, FALSE)
      PROVE  Goal
  <2>1. /\ op[a] # Idle /\ At(a, "unban") /\ UNCHANGED status /\ Proceed(a)
        /\ banned' = [banned EXCEPT ![Target(a)] = FALSE]
    BY <1>6, NotIdle DEF SetBan
  <2>2. /\ Target(a) \in Users /\ op[a].call.kind = "reactivate"
        /\ \A u \in Users \ {Target(a)} : banned'[u] = banned[u]
    BY <1>0, <2>1, Stages DEF TypeOK
  <2>3. status[Target(a)] = "active"
    BY <1>0, <2>1 DEF Fence, At, Target
  <2>4. LessAccess'
    BY <1>0, <2>1, <2>2, <2>3 DEF LessAccess
  <2>5. op'[a] = Idle /\ \A b \in Users \ {a} : op'[b] = op[b]
    <3>1. After(op[a].call.kind, op[a].at) = "end"
      BY <2>1, <2>2 DEF After, At
    <3>2. QED
      BY <1>0, <2>1, <3>1, Outcomes, EndIsEnd
  <2>6. ASSUME NEW b \in Users \ {a}, op[b].call.kind \in StatusKinds
        PROVE  op[b].call.user \in Users \ {Target(a)}
    <3>1. Target(b) # Target(a)
      BY <1>0, <2>2, <2>6, Apart DEF StatusKinds
    <3>2. op[b] # Idle
      BY <2>6 DEF Idle, NoCall, StatusKinds
    <3>3. QED
      BY <1>0, <3>1, <3>2, Stages DEF Target
  <2>7. \A b \in Users \ {a} : Fence(op'[b], status', banned')
    BY <1>0, <2>1, <2>2, <2>5, <2>6 DEF Fence, StatusKinds
  <2>8. QED
    BY <1>0, <2>4, <2>5, <2>7
<1>7. ASSUME NEW a \in Users, CheckRole(a) \/ Decide(a)
      PROVE  Goal
  <2>1. op[a] # Idle /\ UNCHANGED <<status, banned>>
    BY <1>7, NotIdle DEF CheckRole, Decide, accounts
  <2>2. CASE OnError(a)
    BY <1>1, <2>1, <2>2, FailureKeepsFences
  <2>3. ASSUME NEW phase \in {"waiting", "decided"}, op' = [op EXCEPT ![a].phase = phase]
        PROVE  Goal
    <3>1. op[a] \in Actions /\ op \in [Users -> Actions]
      BY <1>0 DEF TypeOK
    <3>2. /\ op'[a].call = op[a].call /\ op'[a].at = op[a].at
          /\ \A b \in Users \ {a} : op'[b] = op[b]
      BY <2>3, <3>1 DEF Actions
    <3>3. \A b \in Users : Fence(op'[b], status, banned)
      BY <1>0, <3>2 DEF Fence
    <3>4. QED
      BY <1>1, <2>1, <3>3
  <2>4. QED
    BY <1>7, <2>2, <2>3 DEF CheckRole, Decide
<1>8. ASSUME NEW a \in Users, Write(a), Revoking(a)
      PROVE  Goal
  <2>1. op[a] # Idle /\ UNCHANGED <<status, banned>> /\ At(a, "record") /\ op[a].call.kind = "revoke"
    BY <1>8, NotIdle DEF Write, Revoking
  <2>2. CASE Proceed(a)
    <3>1. op'[a] = Idle /\ \A b \in Users \ {a} : op'[b] = op[b]
      <4>1. After(op[a].call.kind, op[a].at) = "end"
        BY <2>1 DEF After
      <4>2. QED
        BY <1>0, <2>1, <2>2, <4>1, Outcomes, EndIsEnd
    <3>2. QED
      BY <1>0, <1>1, <2>1, <3>1
  <2>3. CASE OnError(a)
    BY <1>1, <2>1, <2>3, FailureKeepsFences
  <2>4. QED
    BY <1>8, <2>2, <2>3 DEF Write
<1>9. ASSUME NEW a \in Users, Write(a), ~Revoking(a)
      PROVE  Goal
  <2> DEFINE t == Target(a)
  <2>1. /\ op[a] # Idle /\ UNCHANGED banned /\ At(a, "record")
        /\ status' = [status EXCEPT ![t] = NewStatus(op[a])]
    BY <1>9, NotIdle DEF Write
  <2>2. t \in Users /\ op[a].call.kind \in StatusKinds
    BY <1>0, <1>9, <2>1, Stages DEF Revoking, StatusKinds
  <2>3. /\ status'[t] = NewStatus(op[a]) /\ \A u \in Users \ {t} : status'[u] = status[u]
    BY <1>0, <2>1, <2>2 DEF TypeOK
  <2>4. banned[t]
    BY <1>0, <2>1, <2>2 DEF Fence, At, Target, StatusKinds
  <2>5. LessAccess'
    BY <1>0, <2>1, <2>3, <2>4 DEF LessAccess
  <2>6. \A b \in Users \ {a} : op'[b] = op[b]
    BY <1>0, <1>9, <2>1, Outcomes DEF Write
  <2>7. ASSUME NEW b \in Users \ {a}
        PROVE  Fence(op'[b], status', banned')
    <3>1. CASE op[b].at = "unban"
      <4>1. op[b] # Idle /\ op[b].call.kind = "reactivate" /\ op[b].call.user \in Users
        BY <1>0, <3>1, NotIdle, Stages DEF At, Target
      <4>2. op[b].call.user # t
        BY <1>0, <2>2, <4>1, Apart DEF Target, StatusKinds
      <4>3. QED
        BY <1>0, <2>1, <2>3, <2>6, <4>1, <4>2 DEF Fence
    <3>2. CASE op[b].at # "unban"
      BY <1>0, <2>1, <2>6, <3>2 DEF Fence
    <3>3. QED
      BY <3>1, <3>2
  <2>8. Fence(op'[a], status', banned')
    <3>1. CASE OnError(a)
      BY <1>0, <2>1, <3>1, Outcomes DEF At
    <3>2. CASE ~op[a].undo /\ Proceed(a)
      <4>1. CASE op[a].call.kind = "reactivate"
        <5>1. op'[a] = Idle \/ (op'[a].call = op[a].call /\ op'[a].at = "unban")
          BY <1>0, <2>1, <3>2, <4>1, Outcomes DEF After, At
        <5>2. status'[t] = "active"
          BY <2>3, <3>2, <4>1 DEF NewStatus
        <5>3. QED
          BY <1>0, <2>1, <2>4, <4>1, <5>1, <5>2 DEF Fence, Target
      <4>2. CASE op[a].call.kind = "deactivate"
        <5>1. After(op[a].call.kind, op[a].at) = "end"
          BY <2>1, <4>2 DEF After, At
        <5>2. QED
          BY <1>0, <2>1, <3>2, <5>1, Outcomes, EndIsEnd
      <4>3. QED
        BY <2>2, <4>1, <4>2 DEF StatusKinds
    <3>3. QED
      BY <1>9, <3>1, <3>2 DEF Write
  <2>9. QED
    BY <2>5, <2>7, <2>8
<1>10. ASSUME NEW a \in Users, Fail(a)
       PROVE  Goal
  <2>1. op[a] # Idle /\ OnError(a) /\ UNCHANGED <<status, banned>>
    BY <1>10 DEF Fail, accounts
  <2>2. QED
    BY <1>1, <2>1, FailureKeepsFences
<1>11. ASSUME NEW a \in Users, Killed(a)
       PROVE  Goal
  <2>1. op' = [op EXCEPT ![a] = Idle] /\ UNCHANGED <<status, banned>>
    BY <1>11 DEF Killed, accounts
  <2>2. \A b \in Users : op'[b] = op[b] \/ op'[b] = Idle
    BY <1>0, <2>1 DEF TypeOK
  <2>3. QED
    BY <1>0, <1>1, <2>1, <2>2
<1>12. ASSUME NEW a \in Users, NEW u \in Users, AssignRole(a, u)
       PROVE  Goal
  BY <1>0, <1>1, <1>12 DEF AssignRole
<1>13. ASSUME NEW u \in Users, SelfActivate(u)
       PROVE  Goal
  <2>1. /\ status[u] = "invited" /\ UNCHANGED <<op, banned>>
        /\ status' = [status EXCEPT ![u] = "active"]
    BY <1>13 DEF SelfActivate
  <2>2. \A v \in Users : status'[v] = IF v = u THEN "active" ELSE status[v]
    BY <1>0, <2>1 DEF TypeOK
  <2>3. LessAccess'
    BY <1>0, <2>1, <2>2 DEF LessAccess
  <2>4. ASSUME NEW b \in Users
        PROVE  Fence(op'[b], status', banned')
    <3>1. CASE op[b] = Idle
      BY <1>0, <2>1, <3>1
    <3>2. CASE op[b] # Idle
      <4>1. op[b].call.user \in Users
        BY <1>0, <3>2, Stages DEF Target
      <4>2. QED
        BY <1>0, <2>1, <2>2, <4>1 DEF Fence
    <3>3. QED
      BY <3>1, <3>2
  <2>5. QED
    BY <2>3, <2>4
<1>14. QED
  BY <1>2, <1>3, <1>4, <1>5, <1>6, <1>7, <1>8, <1>9, <1>10, <1>11, <1>12, <1>13 DEF Next

LEMMA InitSignIn == Init => SignInInv
<1> SUFFICES ASSUME Init PROVE SignInInv
  OBVIOUS
<1>1. TypeOK
  BY InitGrants DEF GrantInv
<1>2. LessAccess
  BY DEF Init, LessAccess
<1>3. \A a \in Users : Fence(op[a], status, banned)
  BY DEF Init, Fence, Idle, NoCall
<1>4. QED
  BY <1>1, <1>2, <1>3 DEF SignInInv

LEMMA SignInInductive == OneKeeper /\ ~UnbanReplyLost => (Spec => []SignInInv)
<1> SUFFICES ASSUME OneKeeper, ~UnbanReplyLost PROVE Spec => []SignInInv
  OBVIOUS
<1>1. SignInInv /\ [Next]_vars => SignInInv'
  BY StepSignIn
<1>2. QED
  BY <1>1, InitSignIn, PTL DEF Spec

(* deactivateAccount and reactivateAccount may fail, or be killed, at any call:
   nobody who is shown as deactivated can sign in. *)
THEOREM LeansToLessAccess == OneKeeper /\ ~UnbanReplyLost => (Spec => []LessAccess)
<1> SUFFICES ASSUME OneKeeper, ~UnbanReplyLost PROVE Spec => []LessAccess
  OBVIOUS
<1>1. SignInInv => LessAccess
  BY DEF SignInInv
<1>2. QED
  BY <1>1, SignInInductive, PTL

LEMMA LastCallReports ==
    ASSUME TypeOK, NEW a \in Users, NEW b \in Users, op[a] # Idle,
           Proceed(a) \/ OnError(a), told'[b] = "done", told[b] # "done"
    PROVE  b = a /\ Proceed(a) /\ After(op[a].call.kind, op[a].at) = "end"
<1>1. told \in [Users -> {"nothing", "done", "failed"}]
  BY DEF TypeOK
<1>2. CASE OnError(a)
  <2>1. told' = told \/ told' = [told EXCEPT ![a] = "failed"]
    BY <1>2 DEF OnError, Ended
  <2>2. QED
    BY <1>1, <2>1
<1>3. CASE Proceed(a)
  <2>1. \/ told' = told
        \/ told' = [told EXCEPT ![a] = "done"] /\ After(op[a].call.kind, op[a].at) = "end"
    BY <1>3 DEF Proceed, Ended
  <2>2. QED
    BY <1>1, <1>3, <2>1
<1>4. QED
  BY <1>2, <1>3

LEMMA StepReports ==
    ASSUME OneKeeper, ~UnbanReplyLost, SignInInv, Next,
           NEW b \in Users, told'[b] = "done", told[b] # "done"
    PROVE  LET c == op[b].call
           IN  /\ c.kind = "reactivate" => status'[c.user] = "active" /\ ~banned'[c.user]
               /\ c.kind = "deactivate" => status'[c.user] = "deactivated" /\ banned'[c.user]
<1> DEFINE u == op[b].call.user
           Goal == /\ op[b].call.kind = "reactivate" => status'[u] = "active" /\ ~banned'[u]
                   /\ op[b].call.kind = "deactivate" => status'[u] = "deactivated" /\ banned'[u]
<1>1. /\ TypeOK
      /\ \A a \in Users : Fence(op[a], status, banned)
  BY DEF SignInInv
<1>2. ASSUME NEW a \in Users, op[a] # Idle, Proceed(a) \/ OnError(a)
      PROVE  b = a /\ Proceed(a) /\ After(op[a].call.kind, op[a].at) = "end"
  BY <1>1, <1>2, LastCallReports
<1>3. ASSUME NEW c \in Calls, Start(c)
      PROVE  Goal
  BY <1>1, <1>3 DEF Start, TypeOK
<1>4. ASSUME NEW a \in Users, Holdings(a)
      PROVE  Goal
  <2>1. op[a] # Idle /\ At(a, "holdings") /\ (Proceed(a) \/ OnError(a))
    BY <1>4, NotIdle DEF Holdings
  <2>2. After(op[a].call.kind, op[a].at) = "ban"
    BY <1>1, <2>1, Stages DEF After, At
  <2>3. QED
    BY <1>2, <2>1, <2>2
<1>5. ASSUME NEW a \in Users, SetBan(a, TRUE)
      PROVE  Goal
  <2>1. op[a] # Idle /\ At(a, "ban") /\ (Proceed(a) \/ OnError(a))
    BY <1>5, NotIdle DEF SetBan
  <2>2. After(op[a].call.kind, op[a].at) = "record"
    BY <1>1, <2>1, Stages DEF After, At
  <2>3. QED
    BY <1>2, <2>1, <2>2
<1>6. ASSUME NEW a \in Users, SetBan(a, FALSE)
      PROVE  Goal
  <2>1. /\ op[a] # Idle /\ At(a, "unban") /\ Proceed(a) /\ UNCHANGED status
        /\ banned' = [banned EXCEPT ![Target(a)] = FALSE]
    BY <1>6, NotIdle DEF SetBan
  <2>2. b = a /\ Target(a) \in Users /\ op[a].call.kind = "reactivate"
    BY <1>1, <1>2, <2>1, Stages
  <2>3. status'[Target(a)] = "active" /\ ~banned'[Target(a)]
    BY <1>1, <2>1, <2>2 DEF Fence, At, Target, TypeOK
  <2>4. QED
    BY <2>2, <2>3 DEF Target
<1>7. ASSUME NEW a \in Users, CheckRole(a) \/ Decide(a) \/ Fail(a)
      PROVE  Goal
  <2>1. UNCHANGED told \/ OnError(a)
    BY <1>7 DEF CheckRole, Decide, Fail
  <2>2. told' = told \/ told' = [told EXCEPT ![a] = "failed"]
    BY <2>1 DEF OnError, Ended
  <2>3. QED
    BY <1>1, <2>2 DEF TypeOK
<1>8. ASSUME NEW a \in Users, Write(a)
      PROVE  Goal
  <2>1. op[a] # Idle /\ At(a, "record") /\ UNCHANGED banned /\ ((~op[a].undo /\ Proceed(a)) \/ OnError(a))
    BY <1>8, NotIdle DEF Write
  <2>2. b = a /\ Proceed(a) /\ After(op[a].call.kind, op[a].at) = "end"
    BY <1>2, <2>1
  <2>3. op[a].call.kind # "reactivate"
    BY <2>1, <2>2 DEF After, At
  <2>4. CASE op[a].call.kind = "deactivate"
    <3>1. Target(a) \in Users /\ status' = [status EXCEPT ![Target(a)] = "deactivated"]
      BY <1>1, <1>8, <2>1, <2>4, Stages DEF Write, Revoking, NewStatus
    <3>2. status'[Target(a)] = "deactivated"
      BY <1>1, <3>1 DEF TypeOK
    <3>3. banned'[Target(a)]
      BY <1>1, <2>1, <2>4 DEF Fence, At, Target
    <3>4. QED
      BY <2>2, <2>3, <3>2, <3>3 DEF Target
  <2>5. QED
    BY <2>2, <2>3, <2>4
<1>9. ASSUME NEW a \in Users, Killed(a) \/ SelfActivate(a) \/ \E v \in Users : AssignRole(a, v)
      PROVE  Goal
  BY <1>9 DEF Killed, SelfActivate, AssignRole
<1>10. QED
  BY <1>3, <1>4, <1>5, <1>6, <1>7, <1>8, <1>9 DEF Next

(* reactivateAccount reports success only when the status and the sign-in block
   agree, and so does deactivateAccount. *)
THEOREM ReportsAgree == OneKeeper /\ ~UnbanReplyLost => (Spec => SuccessAgrees)
<1> SUFFICES ASSUME OneKeeper, ~UnbanReplyLost PROVE Spec => SuccessAgrees
  OBVIOUS
<1> DEFINE Agrees ==
      \A a \in Users : told'[a] = "done" /\ told[a] # "done" =>
        LET c == op[a].call
        IN  /\ c.kind = "reactivate" => status'[c.user] = "active" /\ ~banned'[c.user]
            /\ c.kind = "deactivate" => status'[c.user] = "deactivated" /\ banned'[c.user]
<1>1. SignInInv /\ [Next]_vars => [Agrees]_vars
  BY StepReports
<1>2. Spec => [][Agrees]_vars
  <2> HIDE DEF Agrees
  <2>1. QED
    BY <1>1, SignInInductive, PTL DEF Spec
<1>3. QED
  BY <1>2 DEF SuccessAgrees
==============================================================================

----------------------------- MODULE AccountAdmin -----------------------------
(***************************************************************************)
(* System Administrators looking after accounts: suspending and restoring  *)
(* sign-in, and giving and revoking the administrator role.                *)
(*                                                                         *)
(* Suspending an account touches two services that share no transaction:   *)
(* the sign-in block kept by the authentication service, and the account   *)
(* status kept in the database.  A server action calls one after the other *)
(* and may fail, or be killed, between any two calls.  The database        *)
(* functions run under an advisory lock: one for account statuses, another *)
(* one for role grants.                                                    *)
(***************************************************************************)
EXTENDS Integers, Sequences, FiniteSets

CONSTANTS
    Users,
    Admins,               \* who is System Administrator at first
    Invited,              \* who has not finished setting up the account
    Calls,                \* what administrators may do: records of CallType
    UnbanReplyLost,       \* can the reply to a lifted sign-in block be lost?
    MaxCalls              \* bound: actions started in a behaviour

StatusKinds == {"deactivate", "reactivate"}
CallType == [kind : StatusKinds \cup {"revoke"}, by : Users, user : Users]

ASSUME AccountData ==
    /\ IsFiniteSet(Users)
    /\ Admins \in SUBSET Users /\ Admins # {}
    /\ Invited \in SUBSET (Users \ Admins)
    /\ Calls \in SUBSET CallType
    /\ \A c \in Calls : c.by # c.user      \* one's own account is refused
    /\ UnbanReplyLost \in BOOLEAN
    /\ MaxCalls \in Nat

VARIABLES
    grants,               \* user_roles: who holds an unrevoked sys_admin grant
    status,               \* profiles.account_status (is_active follows it)
    banned,               \* the authentication service refuses sign-in
    op,                   \* per administrator the action being run
    told,                 \* what the administrator's last action reported
    calls

accounts == <<grants, status, banned>>
vars == <<grants, status, banned, op, told, calls>>

NoCall == [kind |-> "none"]
Idle == [call |-> NoCall, at |-> "end", phase |-> "asked", undo |-> FALSE]

(* The calls an action makes: to read what an account holds, to block or
   unblock sign-in, to record the new status or revoke the grant. *)
First(kind) ==
    CASE kind = "deactivate" -> "holdings"
      [] kind \in {"reactivate", "revoke"} -> "record"

(* Mutant: the account is marked before its sign-in is blocked. *)
MutMarkThenBan(kind, at) ==
    CASE kind = "deactivate" /\ at = "holdings" -> "record"
      [] kind = "deactivate" /\ at = "record" -> "ban"
      [] kind = "reactivate" /\ at = "record" -> "unban"
      [] OTHER -> "end"
After(kind, at) ==
    CASE kind = "deactivate" /\ at = "holdings" -> "ban"
      [] kind = "deactivate" /\ at = "ban" -> "record"
      [] kind = "reactivate" /\ at = "record" -> "unban"
      [] OTHER -> "end"

At(a, step) == op[a].at = step
Target(a) == op[a].call.user

(* account_deactivation_blockers *)
LastActive(u) ==
    u \in grants /\ \A v \in grants \ {u} : status[v] # "active"

(* The two advisory locks; each is held from the check to the commit. *)
Revoking(a) == op[a].call.kind = "revoke"
(* Mutant: revocations are not serialised. *)
MutRevokeUnlocked(a) == \A b \in Users \ {a} : op[b].phase = "decided" => Revoking(a) \/ Revoking(b)
LockFree(a) == \A b \in Users \ {a} : op[b].phase = "decided" => Revoking(a) # Revoking(b)

NewStatus(o) == IF o.call.kind = "reactivate" /\ ~o.undo THEN "active" ELSE "deactivated"

(* What revoke_role_grant and set_account_status check under their lock. *)
Allowed(a) ==
    IF Revoking(a) THEN Target(a) \in grants /\ Cardinality(grants) > 1
    ELSE NewStatus(op[a]) = "deactivated" => ~LastActive(Target(a))

------------------------------------------------------------------------------
(* An action makes its next call, or ends. *)

Ended(a, report) ==
    /\ op' = [op EXCEPT ![a] = Idle]
    /\ told' = [told EXCEPT ![a] = report]

Proceed(a) ==
    LET next == After(op[a].call.kind, op[a].at)
    IN  IF next = "end" THEN Ended(a, "done")
        ELSE /\ op' = [op EXCEPT ![a] = [@ EXCEPT !.at = next, !.phase = "asked"]]
             /\ UNCHANGED told

(* Mutant: the sign-in block that could not be lifted is not looked at. *)
MutUnbanUnchecked(a) == IF At(a, "unban") THEN Ended(a, "done") ELSE Ended(a, "failed")
(* The call failed: an unban that failed is compensated by marking the account
   deactivated again, any other failure ends the action. *)
OnError(a) ==
    IF At(a, "unban")
    THEN /\ op' = [op EXCEPT ![a] = [@ EXCEPT !.at = "record", !.phase = "asked", !.undo = TRUE]]
         /\ UNCHANGED told
    ELSE Ended(a, "failed")

(* deactivateAccount, reactivateAccount and revokeRole, started by somebody signed
   in; the screen offers the one of the first two that fits the status. *)
Start(c) ==
    /\ op[c.by] = Idle /\ calls < MaxCalls
    /\ ~banned[c.by]
    /\ c.kind \in StatusKinds => c.by \in grants
    /\ c.kind \in StatusKinds => (c.kind = "reactivate" <=> status[c.user] = "deactivated")
    /\ op' = [op EXCEPT ![c.by] = [call |-> c, at |-> First(c.kind), phase |-> "asked", undo |-> FALSE]]
    /\ told' = [told EXCEPT ![c.by] = "nothing"]
    /\ calls' = calls + 1
    /\ UNCHANGED accounts

(* account_holdings: an account the database would refuse is not blocked. *)
Holdings(a) ==
    /\ At(a, "holdings")
    /\ IF a \in grants /\ ~LastActive(Target(a)) THEN Proceed(a) ELSE OnError(a)
    /\ UNCHANGED <<accounts, calls>>

(* setBan; the reply may be lost although the block was set, or lifted. *)
SetBan(a, value) ==
    /\ At(a, IF value THEN "ban" ELSE "unban")
    /\ banned' = [banned EXCEPT ![Target(a)] = value]
    /\ Proceed(a) \/ ((value \/ UnbanReplyLost) /\ OnError(a))
    /\ UNCHANGED <<grants, status, calls>>

(* The role is checked before the lock is waited for. *)
CheckRole(a) ==
    /\ At(a, "record") /\ op[a].phase = "asked"
    /\ IF a \in grants THEN op' = [op EXCEPT ![a].phase = "waiting"] /\ UNCHANGED told ELSE OnError(a)
    /\ UNCHANGED <<accounts, calls>>

Decide(a) ==
    /\ At(a, "record") /\ op[a].phase = "waiting"
    /\ LockFree(a)
    /\ IF Allowed(a) THEN op' = [op EXCEPT ![a].phase = "decided"] /\ UNCHANGED told ELSE OnError(a)
    /\ UNCHANGED <<accounts, calls>>

(* The commit; a compensation is reported as a failure, and so is a commit
   whose reply was lost. *)
Write(a) ==
    /\ At(a, "record") /\ op[a].phase = "decided"
    /\ IF Revoking(a) THEN grants' = grants \ {Target(a)} /\ UNCHANGED status
       ELSE status' = [status EXCEPT ![Target(a)] = NewStatus(op[a])] /\ UNCHANGED grants
    /\ (~op[a].undo /\ Proceed(a)) \/ OnError(a)
    /\ UNCHANGED <<banned, calls>>

(* A call fails without effect; a transaction that is waiting or has not
   committed is rolled back. *)
Fail(a) ==
    /\ op[a] # Idle
    /\ OnError(a)
    /\ UNCHANGED <<accounts, calls>>

(* The server action is killed between two calls: nobody is told anything. *)
Killed(a) ==
    /\ op[a] # Idle
    /\ op' = [op EXCEPT ![a] = Idle]
    /\ UNCHANGED <<accounts, told, calls>>

(* assignRole: one insert, allowed to administrators. *)
AssignRole(a, u) ==
    /\ a \in grants /\ ~banned[a]
    /\ calls < MaxCalls /\ calls' = calls + 1
    /\ grants' = grants \cup {u}
    /\ UNCHANGED <<status, banned, op, told>>

(* An invited person sets a password: the one status change of one's own. *)
SelfActivate(u) ==
    /\ status[u] = "invited"
    /\ status' = [status EXCEPT ![u] = "active"]
    /\ UNCHANGED <<grants, banned, op, told, calls>>

Init ==
    /\ grants = Admins
    /\ status = [u \in Users |-> IF u \in Invited THEN "invited" ELSE "active"]
    /\ banned = [u \in Users |-> FALSE]
    /\ op = [u \in Users |-> Idle]
    /\ told = [u \in Users |-> "nothing"]
    /\ calls = 0

Next ==
    \/ \E c \in Calls : Start(c)
    \/ \E a \in Users :
        \/ Holdings(a)
        \/ \E value \in BOOLEAN : SetBan(a, value)
        \/ CheckRole(a)
        \/ Decide(a)
        \/ Write(a)
        \/ Fail(a)
        \/ Killed(a)
        \/ \E u \in Users : AssignRole(a, u)
        \/ SelfActivate(a)

Spec == Init /\ [][Next]_vars

------------------------------------------------------------------------------
(* What must hold. *)

(* revoke_role_grant: "can't each read 2 remaining before either commits":
   whoever revokes whom at the same moment, and although the caller's own
   grant may have gone since it was checked, a grant remains. *)
GrantRemains == grants # {}

(* Design note of the account controls: whichever call fails, the account is
   left with less access, never more; nobody who is shown as deactivated can
   sign in. *)
LessAccess == \A u \in Users : status[u] = "deactivated" => banned[u]

(* Comment of reactivateAccount: success is only reported when the profile and
   the sign-in block agree; the same for a deactivation. *)
SuccessAgrees ==
    [][\A a \in Users : told'[a] = "done" /\ told[a] # "done" =>
        LET c == op[a].call
        IN  /\ c.kind = "reactivate" => status'[c.user] = "active" /\ ~banned'[c.user]
            /\ c.kind = "deactivate" => status'[c.user] = "deactivated" /\ banned'[c.user]]_vars

(* set_account_status never deactivates the last active System Administrator,
   and revoke_role_grant refuses to leave nobody to manage users or roles. *)
AdminRemains == \E u \in grants : status[u] = "active"
==============================================================================

---------------------------- MODULE MCAccountAdmin ----------------------------
(* Small instances of AccountAdmin: administrators and an invited person. *)
EXTENDS AccountAdmin

CONSTANTS ann, bob, cyd

To(kind, by, user) == [kind |-> kind, by |-> by, user |-> user]
StatusCalls(by, user) == {To("deactivate", by, user), To("reactivate", by, user)}
RevokeCalls == {To("revoke", by, user) : by \in Users, user \in Users}

(* Each account is looked after by one administrator. *)
OneKeeperCalls ==
    StatusCalls(ann, cyd) \cup StatusCalls(bob, ann) \cup {c \in RevokeCalls : c.by # c.user}

(* Two administrators look after one account. *)
TwoKeeperCalls == StatusCalls(ann, cyd) \cup StatusCalls(bob, cyd)

(* Two administrators who look after each other's accounts, and may revoke each other. *)
MutualCalls ==
    {To("deactivate", bob, ann), To("deactivate", ann, bob), To("revoke", bob, ann), To("revoke", ann, bob)}
==============================================================================

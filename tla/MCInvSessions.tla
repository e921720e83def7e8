---------------------------- MODULE MCInvSessions ----------------------------
(* Small instances of InvSessions. *)
EXTENDS InvSessions, TLC

CONSTANTS i1, i2, p1, p2, e1

MCKeys == {"k1", "k2", "k3"}
MCItems == {i1, i2}
MCRequests == {p1, p2, e1}
MCItemOf == [r \in MCRequests |-> i1]
MCEmployee == {e1}
MCProjectOf == [r \in MCRequests |-> r]
MCAsked == [r \in MCRequests |-> 1]
MCStock == [i \in MCItems |-> 1]
MCRank == i1 :> 1 @@ i2 :> 2 @@ p1 :> 1 @@ p2 :> 2 @@ e1 :> 3

Call(kind, key, user, items, r, src) ==
    [kind |-> kind, key |-> key, user |-> user, items |-> items, req |-> r, src |-> src]
Plan(kind, r) == Call(kind, "k1", "ann", {}, r, r)

(* One piece of stock that a project and a person both want, with double
   clicks, lost replies, a stolen key and cancellations; equipment handed
   straight from one project to another; a date change beside a return to the
   same project's request; a receipt of two items at once. *)
MCCalls ==
    { Call("dispatch", "k1", "ann", {}, p1, p1),
      Call("issue", "k2", "ann", {}, e1, e1), Call("return", "k3", "ann", {}, p1, p1),
      Call("transfer", "k2", "ann", {}, p2, p1), Call("receive", "k3", "bob", {i1, i2}, p1, p1),
      Plan("reserve", p1), Plan("cancel", p1), Plan("cancel", e1), Plan("window", p1) }
==============================================================================

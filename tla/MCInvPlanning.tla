---------------------------- MODULE MCInvPlanning ----------------------------
(* A small instance of InvPlanning: two depots, two projects and a person. *)
EXTENDS InvPlanning

CONSTANTS d1, d2, p1, p2, r1, r2, l1, l2, l3

ProjectAndPerson == r1 :> p1 @@ r2 :> Person
OneLineEach == <<l1, l3>>
LinesToRequests == l1 :> r1 @@ l3 :> r2
TwoThenOne == l1 :> 2 @@ l3 :> 1
TwoInFirst == d1 :> 2 @@ d2 :> 0
EarlyAndLate == {<<1, 2>>, <<2, 3>>}
BothEarly == r1 :> <<1, 2>> @@ r2 :> <<1, 2>>
==============================================================================

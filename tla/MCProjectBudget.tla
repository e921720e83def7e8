---------------------------- MODULE MCProjectBudget ----------------------------
(* A project manager, a Finance person and an executive. *)
EXTENDS ProjectBudget, TLC
CONSTANTS pm, fin, exec

Access == pm :> {} @@ fin :> {"finance"} @@ exec :> {"executive_approver"}
Amount(n, v, p) == [amount |-> n, via |-> v, payer |-> p]
SomeLines == {Amount(1, "advance", pm), Amount(1, "personal", pm)}
================================================================================

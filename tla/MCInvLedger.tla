------------------------------ MODULE MCInvLedger ------------------------------
(* A small stock book: one bin, whose pieces are usable or held, one person, one
   count. *)
EXTENDS InvLedger
CONSTANTS a, u, k1
================================================================================

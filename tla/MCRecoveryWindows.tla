------------------------- MODULE MCRecoveryWindows -------------------------
(* Instances of RecoveryWindows for TLC. *)
EXTENDS RecoveryWindows
=============================================================================

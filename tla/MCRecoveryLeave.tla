---- MODULE MCRecoveryLeave ----
(* Small instances of RecoveryLeave. *)
EXTENDS RecoveryLeave, TLC
CONSTANTS r1, r2, c1, c2

(* r1 is recovery leave, r2 a kind that falls back to its own ledger. *)
StartDays  == r1 :> 1 @@ r2 :> 3
EndDays    == r1 :> 2 @@ r2 :> 3
AskedDays  == r1 :> 1 @@ r2 :> 2
Funding    == r1 :> <<"comp_day">> @@ r2 :> <<"comp_day", "leave_ledger">>
OneStep    == r1 :> 1 @@ r2 :> 2
HalfDays   == c1 :> {2} @@ c2 :> {1}
RecordDays == c1 :> {0} @@ c2 :> {1}
================================================================================

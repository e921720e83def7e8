---- MODULE MCAnnualLeave ----
(* Hired in the middle of an October and full-time; the first of January after
   the next.  HR may make the employee part-time from an April on.  Employees
   leave on a first of January, or a first of January or in a July. *)
EXTENDS AnnualLeave

MidOctober == 19
MCDays     == {19, 48}
MCService  == [c \in {"AE", "SA", "PL"} |-> 0]
MCVersions == {[from |-> 19, fte |-> 4], [from |-> 30, fte |-> 2]}
==============================================================================

--------------------------- MODULE RecoveryRules ---------------------------
(* The rules of Recovery Leave, packages/domain/src/recoveryWindows.ts: how  *)
(* clocked-in intervals make working periods, how a period is cut into      *)
(* windows of elapsed time, and what a window earns.  Time is counted in    *)
(* whole units (the code compares seconds); days earned are half days.      *)
(* An interval is a record [in, out, open]: open says that it still runs and *)
(* that out is only the present.                                            *)
EXTENDS Integers, FiniteSets, FiniteSetsExt

CONSTANTS WindowLength,     \* window_hours
          RestGap,          \* rest_gap_hours
          AlertWork,        \* alert_work_hours
          ZeroMax, HalfMax, \* normal_day.zero_max_hours, half_max_hours
          RestZeroBelow, RestHalfMax, \* rest_day.zero_below_hours, half_max_hours
          DayLength,        \* the length of a local calendar day
          RestDates         \* the local days that are rest days or holidays

(* The payloads parseRecoveryWindowRules accepts. *)
ValidRules ==
  /\ {WindowLength, RestGap, AlertWork, ZeroMax, HalfMax, RestZeroBelow, RestHalfMax}
       \subseteq Nat \ {0}
  /\ RestGap < WindowLength
  /\ AlertWork <= WindowLength
  /\ ZeroMax < HalfMax /\ HalfMax <= WindowLength
  /\ RestZeroBelow < RestHalfMax

ASSUME RulesAssumption == ValidRules /\ DayLength \in Nat \ {0} /\ RestDates \subseteq Nat

(* A window is classified once, by the local date on which it starts. *)
RestDay(start) == (start \div DayLength) \in RestDates

Entitlement(start, recorded) ==
  IF RestDay(start)
  THEN IF recorded < RestZeroBelow THEN 0 ELSE IF recorded <= RestHalfMax THEN 1 ELSE 2
  ELSE IF recorded <= ZeroMax THEN 0 ELSE IF recorded <= HalfMax THEN 1 ELSE 2

(* The first clock-in of each working period: everything before it ended at *)
(* least the rest threshold earlier.                                        *)
Starts(work) ==
  {i.in : i \in {i \in work : \A j \in work : j.in < i.in => i.in - j.out >= RestGap}}

(* The intervals of the period that starts at s. *)
PeriodWork(work, s) ==
  {i \in work : i.in >= s /\ \A u \in Starts(work) : u <= s \/ u > i.in}

LastWorkEnd(work, s) == Max({i.out : i \in PeriodWork(work, s)})

(* Windows are anchored at the period's start and then at each boundary. *)
WindowStart(s, k) == s + (k - 1) * WindowLength
WindowEnd(s, k) == s + k * WindowLength
WindowOf(s, t) == ((t - s) \div WindowLength) + 1

(* The units of time at which the period's work was recorded. *)
Instants(work, s) == UNION {i.in .. (i.out - 1) : i \in PeriodWork(work, s)}

(* What window k recorded: intervals are cut at the boundaries. *)
Recorded(work, s, k) == Cardinality({t \in Instants(work, s) : WindowOf(s, t) = k})

(* Windows with no recorded work are never emitted. *)
Indexes(work, s) == {WindowOf(s, t) : t \in Instants(work, s)}

(* The period ends once the rest threshold has passed since its last work, *)
(* never while a session is running.                                       *)
Ended(work, s, asOf) ==
  /\ \A i \in PeriodWork(work, s) : ~i.open
  /\ LastWorkEnd(work, s) + RestGap <= asOf

(* A window closes when its elapsed time runs out or its period ends. *)
Closed(work, s, k, asOf) == WindowEnd(s, k) <= asOf \/ Ended(work, s, asOf)
=============================================================================

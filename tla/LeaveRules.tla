------------------------------ MODULE LeaveRules ------------------------------
(* How many days of annual leave an employee has earned, by the rules of the
   United Arab Emirates, Saudi Arabia and Poland.  A date counts half months:
   2 * m is the first day of month m, 2 * m + 1 a later day of it, and month 0
   is a January.  A part-time fraction counts quarters.  A contract history is
   a set of records [from, fte]; each contract runs until the next one. *)
EXTENDS Integers, Sequences, SequencesExt

MonthOf(d) == d \div 2
YearOf(d)  == d \div 24
FirstDayOf(m) == 2 * m
LastDayOf(m)  == 2 * m + 1
December(y) == 12 * y + 11

Blocked == -1   \* the data do not decide it: HR has to

----------------------------------------------------------------------------
(* A month is completed when its day is reached again. *)
CompletedMonths(from, asOf) ==
    Max({0, MonthOf(asOf) - MonthOf(from) - IF asOf % 2 < from % 2 THEN 1 ELSE 0})
CompletedYears(from, asOf) == CompletedMonths(from, asOf) \div 12

UaeDays(hire, asOf) ==
    LET m == CompletedMonths(hire, asOf)
    IN  IF m >= 12 THEN 30 * CompletedYears(hire, asOf) ELSE IF m >= 6 THEN 2 * m ELSE 0

SaudiDays(hire, asOf) ==
    LET y == CompletedYears(hire, asOf) IN 21 * Min({y, 5}) + 30 * Max({0, y - 5})

----------------------------------------------------------------------------
(* Poland: a period is priced when one fraction covers all of it *)

ValidHistory(history) ==
    /\ \A c \in history : c.fte \in 1..4
    /\ \A c, e \in history : c.from = e.from => c.fte = e.fte

(* Contracts that are in force some time from s to e: each ends where the next
   one starts. *)
Covering(history, s, e) ==
    {c \in history :
        c.from <= e /\ ~ \E n \in history : c.from < n.from /\ n.from <= s}
(* Mutant: the fraction in force at the end is used for all of it. *)
MutLastFraction(history, s, e) ==
    LET c == {x \in history : x.from <= e}
    IN  IF ~ \E x \in history : x.from <= s THEN 0
        ELSE (CHOOSE x \in c : \A y \in c : y.from <= x.from).fte
(* The fraction of s..e, or 0 when its start is not covered or it changes. *)
ConstantFte(history, s, e) ==
    IF /\ \E c \in history : c.from <= s
       /\ \A c, n \in Covering(history, s, e) : c.fte = n.fte
    THEN (CHOOSE c \in Covering(history, s, e) : TRUE).fte
    ELSE 0

(* 26 days a year for the months from s to m, a part of a month counting in
   full, times the fraction, rounded up. *)
Months(s, m) == Max({0, m - MonthOf(s) + 1})
PricePeriod(history, s, m) ==
    IF Months(s, m) = 0 THEN 0
    ELSE IF ConstantFte(history, s, LastDayOf(m)) = 0 THEN Blocked
    ELSE (Months(s, m) * 26 * ConstantFte(history, s, LastDayOf(m)) + 47) \div 48

(* One blocked period blocks the sum. *)
SumOf(prices) ==
    IF \E y \in DOMAIN prices : prices[y] = Blocked THEN Blocked
    ELSE MapThenSumSet(LAMBDA y : prices[y], DOMAIN prices)

(* The part of a year that is employment starts with the day of hire. *)
StartIn(y, hire) == IF y = YearOf(hire) THEN hire ELSE FirstDayOf(12 * y)

(* While employed: what is left of the year of hire, and every later year in
   full from its first day. *)
PolandToDate(history, hire, asOf) ==
    IF ~ ValidHistory(history) THEN Blocked
    ELSE SumOf([y \in YearOf(hire)..YearOf(asOf) |->
                    PricePeriod(history, StartIn(y, hire), December(y))])

ExitMonth(y, exit) == IF y = YearOf(exit) THEN MonthOf(exit) ELSE December(y)
(* When leaving: the last year counts up to the month of leaving. *)
PolandAtExit(history, hire, exit) ==
    IF exit < hire THEN 0
    ELSE IF ~ ValidHistory(history) THEN Blocked
    ELSE SumOf([y \in YearOf(hire)..YearOf(exit) |->
                    PricePeriod(history, StartIn(y, hire), ExitMonth(y, exit))])

ToDate(country, history, hire, asOf) ==
    IF asOf < hire THEN 0
    ELSE CASE country = "AE" -> UaeDays(hire, asOf)
           [] country = "SA" -> SaudiDays(hire, asOf)
           [] country = "PL" -> PolandToDate(history, hire, asOf)
==============================================================================

-------------------------- MODULE RecoveryWindows --------------------------
(* The recovery-windows engine for one employee: clock sessions, the rows   *)
(* it derives from them (working periods, windows), the approval requests   *)
(* it keeps in line with the windows, and the credit that approval posts.   *)
(*                                                                          *)
(* Every change of the evidence runs the engine in the same transaction,    *)
(* under an advisory lock on the employee.  Deciding a request takes other  *)
(* locks, so a decision can land after the engine has read the credit or the *)
(* requests and before it writes: reading and writing are steps of their own. *)
EXTENDS RecoveryRules, Sequences, SequencesExt

CONSTANTS MaxNow,      \* bound: the clock stops here
          MaxSessions, \* bound: sessions recorded
          MaxEdits,    \* bound: sessions and corrections, when another is started
          MayOverlap   \* whether a decision may land inside an engine run

ASSUME WindowsAssumption ==
  {MaxNow, MaxSessions, MaxEdits} \subseteq Nat /\ MayOverlap \in BOOLEAN

VARIABLES now,
          sessions, \* attendance_sessions, each with its one segment
          changes,  \* corrections made so far
          periods,  \* recovery_periods, by row id
          windows,  \* recovery_windows, by <<period id, window_index>>
          requests, \* recovery_credit_requests of the window families
          credits,  \* days credited by window: comp_day_ledger less reversals
          run,      \* the engine run under way
          failed    \* a run failed and none has succeeded since: recovery_processor_failures

windowsVars == <<now, sessions, changes, periods, windows, requests, credits, run, failed>>

Running == -1
NoRun == [by |-> "none"]
Instant == 0 .. MaxNow

Session == [in : Instant, out : Instant \cup {Running}, byHr : BOOLEAN]
Period == [start : Instant, live : BOOLEAN, open : BOOLEAN]
Window == [recorded : Nat, days : 0 .. 2, closed : BOOLEAN, byHr : BOOLEAN,
           revision : Nat, verified : BOOLEAN]
Request == [window : Seq(Nat), kind : {"window", "top_up", "reduction"},
            days : Nat, revision : Nat, lead : BOOLEAN,
            status : {"pending", "approved", "rejected", "cancelled"}]

(* One microsecond of overlap is refused; an open session runs to infinity. *)
Overlapping(s, t) ==
  (t.out = Running \/ s.in < t.out) /\ (s.out = Running \/ t.in < s.out)
Recordable(log) ==
  \A m, n \in DOMAIN log : m # n => ~Overlapping(log[m], log[n])

(* The evidence the engine works from: an open session counts up to now. *)
Work(log) ==
  LET interval(s) == [in |-> s.in, out |-> IF s.out = Running THEN now ELSE s.out,
                      open |-> s.out = Running, byHr |-> s.byHr]
  IN  {i \in {interval(s) : s \in Range(log)} : i.out > i.in}

LivePeriod(p) == periods[p].live
Standing(r) == r.status \in {"pending", "approved"}
CreditOf(w) == IF w \in DOMAIN credits THEN credits[w] ELSE 0
IsApproved(log, w) == \E r \in Range(log) : r.window = w /\ r.status = "approved"

-----------------------------------------------------------------------------
(* recovery_recalculate_employee: the rows the evidence calls for.           *)

(* Live periods whose start is no longer the start of one. *)
Superseded(work) == {p \in DOMAIN periods : LivePeriod(p) /\ periods[p].start \notin Starts(work)}
NewStarts(work) ==
  Starts(work) \ {periods[p].start : p \in {p \in DOMAIN periods : LivePeriod(p)}}

NewPeriods(work) ==
  LET row(s) == [start |-> s, live |-> TRUE, open |-> ~Ended(work, s, now)]
      kept == [p \in DOMAIN periods |->
                 IF p \in Superseded(work) THEN [periods[p] EXCEPT !.live = FALSE]
                 ELSE IF LivePeriod(p) THEN row(periods[p].start) ELSE periods[p]]
  IN  kept \o SetToSeq({row(s) : s \in NewStarts(work)})

(* The facts of window k of the period starting at s. *)
Facts(work, s, k) ==
  LET recorded == Recorded(work, s, k)
  IN  [recorded |-> recorded, days |-> Entitlement(WindowStart(s, k), recorded),
       closed |-> Closed(work, s, k, now),
       byHr |-> \E i \in PeriodWork(work, s) :
                   i.byHr /\ i.in < WindowEnd(s, k) /\ i.out > WindowStart(s, k)]

(* A revision is written when a window closes and when a closed one changes; *)
(* a change to a window HR had verified needs verifying again.               *)
Opened(f) == [recorded |-> f.recorded, days |-> f.days, closed |-> f.closed, byHr |-> f.byHr,
              revision |-> IF f.closed THEN 1 ELSE 0, verified |-> FALSE]
(* Mutant: a closed window is never recalculated. *)
MutFinal(w, f) ==
  IF w.closed THEN w
  ELSE [recorded |-> f.recorded, days |-> f.days, closed |-> f.closed, byHr |-> f.byHr,
        revision |-> w.revision + (IF f.closed THEN 1 ELSE 0), verified |-> w.verified]
Revised(w, f) ==
  LET changed == <<w.recorded, w.days, w.byHr>> # <<f.recorded, f.days, f.byHr>>
      revise == f.closed /\ (changed \/ ~w.closed)
  IN  [recorded |-> f.recorded, days |-> f.days, closed |-> f.closed, byHr |-> f.byHr,
       revision |-> w.revision + (IF revise THEN 1 ELSE 0),
       verified |-> w.verified /\ ~(revise /\ w.closed)]
Emptied(w) ==
  IF w.recorded = 0 THEN w
  ELSE [w EXCEPT !.recorded = 0, !.days = 0, !.byHr = FALSE, !.verified = FALSE,
                 !.revision = @ + (IF w.closed THEN 1 ELSE 0)]

NewWindows(work, rows) ==
  LET live == {p \in DOMAIN rows : rows[p].live}
      worked == UNION {{<<p, k>> : k \in Indexes(work, rows[p].start)} : p \in live}
      row(w) ==
        IF w \in worked
        THEN LET f == Facts(work, rows[w[1]].start, w[2])
             IN  IF w \in DOMAIN windows THEN Revised(windows[w], f) ELSE Opened(f)
        ELSE IF w[1] \in live THEN Emptied(windows[w]) ELSE windows[w]
  IN  [w \in DOMAIN windows \cup worked |-> row(w)]

-----------------------------------------------------------------------------
(* recovery_sync_window_requests: the requests a closed window calls for.    *)
(* "log" is the requests as the run read them, "rows" the windows it writes. *)

RequestsFor(log, w, kinds) ==
  {n \in DOMAIN log : log[n].window = w /\ log[n].kind \in kinds /\ Standing(log[n])}
Originals(log, w) == RequestsFor(log, w, {"window"})
Awaiting(log, w) == \E n \in Originals(log, w) : log[n].status = "pending"
Granted(log, w) == \E n \in Originals(log, w) : log[n].status = "approved"

(* A rejected or cancelled request answers its revision for good. *)
Answered(log, w, kind, revision, dropped) ==
  \E n \in DOMAIN log :
    /\ log[n].window = w /\ log[n].kind = kind /\ log[n].revision >= revision
    /\ log[n].status \in {"rejected", "cancelled"} \/ n \in dropped

(* Once credit is posted only the difference is asked for. *)
Kind(difference) == IF difference > 0 THEN "top_up" ELSE "reduction"
Size(difference) == IF difference > 0 THEN difference ELSE -difference

(* The adjustment the code looks at: any active one, in no stated order. *)
Adjustment(log, w, first) ==
  LET active == RequestsFor(log, w, {"top_up", "reduction"})
      chosen == {n \in active : log[n].status = first}
  IN  IF chosen # {} THEN chosen ELSE active

(* Mutant: the days of a pending adjustment are not compared. *)
MutSameKind(log, w, difference, first) ==
  {n \in Adjustment(log, w, first) :
     log[n].status = "pending" /\ (difference = 0 \/ log[n].kind # Kind(difference))}
(* Active adjustments that ask for something else than the difference. *)
Outdated(log, w, difference, first) ==
  {n \in Adjustment(log, w, first) :
     /\ log[n].status = "pending"
     /\ difference = 0 \/ log[n].kind # Kind(difference) \/ log[n].days # Size(difference)}

Dropped(log, w, row, difference, first) ==
  IF Granted(log, w) THEN Outdated(log, w, difference, first)
  ELSE IF row.days = 0 THEN Originals(log, w) ELSE {}

Updated(log, w, row) ==
  {n \in Originals(log, w) :
     /\ log[n].status = "pending" /\ row.days > 0
     /\ log[n].days # row.days \/ log[n].revision # row.revision}

NewRequests(log, w, row, difference, first) ==
  LET dropped == Dropped(log, w, row, difference, first)
      new(kind, days) == [window |-> w, kind |-> kind, days |-> days, lead |-> FALSE,
                          revision |-> row.revision, status |-> "pending"]
      unanswered(kind) == ~Answered(log, w, kind, row.revision, dropped)
  IN  CASE Granted(log, w) ->
             IF difference # 0 /\ Adjustment(log, w, first) \subseteq dropped
                  /\ unanswered(Kind(difference))
             THEN {new(Kind(difference), Size(difference))} ELSE {}
        [] Awaiting(log, w) -> {}
        [] OTHER -> IF row.days > 0 /\ unanswered("window")
                    THEN {new("window", row.days)} ELSE {}

-----------------------------------------------------------------------------
(* The engine run.                                                           *)

Begin(log, by) ==
  /\ run = NoRun
  /\ run' = [by |-> by, sessions |-> log, requests |-> requests, credits |-> credits]

(* The requests of a window are read after the credit they are compared with: *)
(* a decision may be seen in them and not in it.                              *)
ReadRequests ==
  /\ run # NoRun
  /\ run' = [by |-> run.by, sessions |-> run.sessions, requests |-> requests, credits |-> run.credits]
  /\ UNCHANGED <<now, sessions, changes, periods, windows, requests, credits, failed>>

(* What a credited window forbids: its period may not be superseded, nor the *)
(* window be opened again.                                                   *)
(* Mutant: only superseded periods are looked at. *)
MutReopens(work, rows) == {w \in DOMAIN windows : w[1] \in Superseded(work)}
Undone(work, rows) ==
  {w \in DOMAIN windows :
     \/ w[1] \in Superseded(work)
     \/ windows[w].closed /\ LivePeriod(w[1]) /\ ~rows[w].closed}

(* Closed windows the run brings the requests of in line. *)
Touched(rows, states) ==
  {w \in DOMAIN rows :
     /\ states[w[1]].live /\ rows[w].closed
     /\ rows[w].recorded > 0 \/ (w \in DOMAIN windows /\ windows[w].recorded > 0)}

Paid(w) == IF w \in DOMAIN run.credits THEN run.credits[w] ELSE 0

(* Cancelling looks at the status again; rewriting an amount does not, and   *)
(* the lead's approval is withdrawn with it.                                 *)
Kept(rows, dropped, updated) ==
  LET row(n) ==
        IF n \in dropped /\ requests[n].status = "pending"
        THEN [requests[n] EXCEPT !.status = "cancelled"]
        ELSE IF n \in updated
        THEN [requests[n] EXCEPT !.days = rows[requests[n].window].days, !.lead = FALSE,
                                 !.revision = rows[requests[n].window].revision]
        ELSE requests[n]
  IN  [n \in DOMAIN requests |-> row(n)]

(* The run fails on a credited window it would undo, and on a second active  *)
(* request of one kind for a window (a unique index).                        *)
Refused(undone, kept, asked) ==
  \/ \E w \in undone : IsApproved(run.requests, w)
  \/ \E r \in asked : RequestsFor(kept, r.window, {r.kind}) # {}

Recalculate ==
  /\ run # NoRun
  /\ run' = NoRun
  /\ \E work \in {Work(run.sessions)} :
     \E states \in {NewPeriods(work)} : \E rows \in {NewWindows(work, states)} :
     \E undone \in {Undone(work, rows)}, touched \in {Touched(rows, states)} :
     \E due \in {[w \in touched |-> rows[w].days - Paid(w)]}, first \in {"pending", "approved"} :
     \E dropped \in {UNION {Dropped(run.requests, w, rows[w], due[w], first) : w \in touched}
                       \cup {n \in DOMAIN run.requests : run.requests[n].window \in undone}},
        updated \in {UNION {Updated(run.requests, w, rows[w]) : w \in touched}},
        asked \in {UNION {NewRequests(run.requests, w, rows[w], due[w], first) : w \in touched}} :
     \E kept \in {Kept(rows, dropped, updated)} :
       IF Refused(undone, kept, asked)
       THEN /\ sessions' = IF run.by = "hr" THEN sessions ELSE run.sessions
            /\ failed' = (failed \/ run.by # "hr")
            /\ UNCHANGED <<periods, windows, requests>>
       ELSE /\ sessions' = run.sessions
            /\ failed' = FALSE
            /\ periods' = states
            /\ windows' = rows
            /\ requests' = kept \o SetToSeq(asked)
  /\ UNCHANGED <<now, changes, credits>>

-----------------------------------------------------------------------------
(* The calls that change the evidence, each with its engine run.             *)

(* Bound: sessions recorded and corrections made. *)
Edits == Len(sessions) + changes
ClockedIn == \E n \in DOMAIN sessions : sessions[n].out = Running

ClockIn ==
  /\ ~ClockedIn /\ Len(sessions) < MaxSessions /\ Edits < MaxEdits
  /\ Begin(Append(sessions, [in |-> now, out |-> Running, byHr |-> FALSE]), "clock")
  /\ UNCHANGED <<now, sessions, changes, periods, windows, requests, credits, failed>>

ClockOut ==
  /\ \E n \in DOMAIN sessions :
       /\ sessions[n].out = Running
       /\ sessions[n].in < now
       /\ Begin([sessions EXCEPT ![n].out = now], "clock")
  /\ UNCHANGED <<now, sessions, changes, periods, windows, requests, credits, failed>>

(* HR closes a forgotten session at an earlier time. *)
HrClose ==
  /\ Edits < MaxEdits
  /\ changes' = changes + 1
  /\ \E n \in DOMAIN sessions, t \in Instant :
       /\ sessions[n].out = Running
       /\ sessions[n].in < t /\ t <= now
       /\ Begin([sessions EXCEPT ![n].out = t, ![n].byHr = TRUE], "clock")
  /\ UNCHANGED <<now, sessions, periods, windows, requests, credits, failed>>

(* HR corrects the times of a closed session. *)
Correct ==
  /\ Edits < MaxEdits
  /\ changes' = changes + 1
  /\ \E n \in DOMAIN sessions, from, to \in Instant :
       LET log == [sessions EXCEPT ![n].in = from, ![n].out = to]
       IN  /\ sessions[n].out # Running
           /\ from < to /\ to <= now /\ log # sessions
           /\ Recordable(log)
           /\ Begin(log, "hr")
  /\ UNCHANGED <<now, sessions, periods, windows, requests, credits, failed>>

(* HR records a past shift that was never clocked. *)
AddMissing ==
  /\ Edits < MaxEdits /\ Len(sessions) < MaxSessions
  /\ changes' = changes + 1
  /\ \E from, to \in Instant :
       LET log == Append(sessions, [in |-> from, out |-> to, byHr |-> FALSE])
       IN  /\ from < to /\ to <= now
           /\ Recordable(log)
           /\ Begin(log, "hr")
  /\ UNCHANGED <<now, sessions, periods, windows, requests, credits, failed>>

(* Mutant: only who is clocked in is processed. *)
MutClockedInOnly ==
  /\ ClockedIn
  /\ Begin(sessions, "processor")
  /\ UNCHANGED <<now, sessions, changes, periods, windows, requests, credits, failed>>

(* The scheduled processor looks at employees with an open period or session, *)
(* or with a failure.                                                         *)
Process ==
  /\ ClockedIn \/ failed \/ \E p \in DOMAIN periods : LivePeriod(p) /\ periods[p].open
  /\ Begin(sessions, "processor")
  /\ UNCHANGED <<now, sessions, changes, periods, windows, requests, credits, failed>>

-----------------------------------------------------------------------------
(* Decisions.  They share no lock with the engine but the rows they decide.  *)

MayDecide == run = NoRun \/ MayOverlap

NeedsVerification(w) == windows[w].byHr \/ windows[w].recorded >= AlertWork

(* recovery_request_blocker: what final approval still finds missing. *)
Approvable(r) ==
  LET w == windows[r.window]
      expected == CASE r.kind = "window" -> w.days
                    [] r.kind = "top_up" -> w.days - CreditOf(r.window)
                    [] r.kind = "reduction" -> CreditOf(r.window) - w.days
  IN  /\ w.closed /\ LivePeriod(r.window[1])
      /\ r.days = expected /\ expected > 0
      /\ r.revision = w.revision
      /\ NeedsVerification(r.window) => w.verified

(* recovery_post_window_ledger *)
Posted(r) ==
  LET sum == CreditOf(r.window) + (IF r.kind = "reduction" THEN -r.days ELSE r.days)
  IN  [w \in DOMAIN credits \cup {r.window} |-> IF w = r.window THEN sum ELSE credits[w]]

LeadApproves ==
  /\ MayDecide
  /\ \E n \in DOMAIN requests :
       /\ requests[n].status = "pending" /\ ~requests[n].lead
       /\ requests' = [requests EXCEPT ![n].lead = TRUE]
  /\ UNCHANGED <<now, sessions, changes, periods, windows, credits, run, failed>>

HrApproves ==
  /\ MayDecide
  /\ \E n \in DOMAIN requests :
       /\ requests[n].status = "pending" /\ requests[n].lead
       /\ Approvable(requests[n])
       /\ requests' = [requests EXCEPT ![n].status = "approved"]
       /\ credits' = Posted(requests[n])
  /\ UNCHANGED <<now, sessions, changes, periods, windows, run, failed>>

Reject ==
  /\ MayDecide
  /\ \E n \in DOMAIN requests :
       /\ requests[n].status = "pending"
       /\ requests' = [requests EXCEPT ![n].status = "rejected"]
  /\ UNCHANGED <<now, sessions, changes, periods, windows, credits, run, failed>>

(* hr_verify_recovery_window: the row is locked while the engine writes it. *)
Verify ==
  /\ run = NoRun
  /\ \E w \in DOMAIN windows :
       /\ windows[w].closed /\ NeedsVerification(w)
       /\ ~windows[w].verified
       /\ windows' = [windows EXCEPT ![w].verified = TRUE]
  /\ UNCHANGED <<now, sessions, changes, periods, requests, credits, run, failed>>

(* A transaction ends within a unit of time. *)
TimePasses ==
  /\ run = NoRun /\ now < MaxNow
  /\ now' = now + 1
  /\ UNCHANGED <<sessions, changes, periods, windows, requests, credits, run, failed>>

-----------------------------------------------------------------------------
WindowsInit ==
  /\ now = 0 /\ changes = 0
  /\ sessions = <<>> /\ periods = <<>> /\ requests = <<>>
  /\ windows = <<>> /\ credits = <<>>
  /\ run = NoRun /\ failed = FALSE

WindowsNext ==
  \/ ClockIn \/ ClockOut \/ HrClose \/ Correct \/ AddMissing \/ Process
  \/ ReadRequests \/ Recalculate
  \/ LeadApproves \/ HrApproves \/ Reject \/ Verify
  \/ TimePasses

(* The processor runs every five minutes, and a transaction ends. *)
RunEnded == run' = NoRun
WindowsSpec == WindowsInit /\ [][WindowsNext]_windowsVars /\ WF_run(RunEnded) /\ WF_windowsVars(Process)

-----------------------------------------------------------------------------
WindowsTypeOK ==
  /\ now \in Instant /\ changes \in 0 .. MaxEdits /\ failed \in BOOLEAN
  /\ sessions \in Seq(Session) /\ Recordable(sessions)
  /\ periods \in Seq(Period)
  /\ DOMAIN windows \subseteq (DOMAIN periods) \X Nat
  /\ Range(windows) \subseteq Window
  /\ requests \in Seq(Request)
  /\ DOMAIN credits \subseteq DOMAIN windows /\ Range(credits) \subseteq Nat
  /\ \/ run = NoRun
     \/ /\ run.by \in {"clock", "hr", "processor"}
        /\ run.sessions \in Seq(Session) /\ Recordable(run.sessions)

(* What the evidence entitles window w to. *)
Evidence(w) == Facts(Work(sessions), periods[w[1]].start, w[2])

(* Approval posts exactly what the recorded evidence earns, unless a run has  *)
(* failed and none succeeded since: after it, the credit of the window is the *)
(* entitlement of the clocked time, the window has closed, and HR has         *)
(* verified what needs verifying.                                             *)
PostedIsEarned ==
  [][\A w \in DOMAIN credits' :
       ~failed /\ (w \notin DOMAIN credits \/ credits[w] # credits'[w]) =>
         /\ credits'[w] = Evidence(w).days /\ Evidence(w).closed
         /\ Evidence(w).byHr \/ Evidence(w).recorded >= AlertWork
              => windows[w].verified]_windowsVars

(* Credit whose window was taken back: superseded, or open again. *)
Stranded == {w \in DOMAIN credits : credits[w] > 0 /\ ~(LivePeriod(w[1]) /\ windows[w].closed)}

(* Credit is stranded only when the approval landed inside the engine run    *)
(* that took its window back.                                                *)
StrandedOnlyByOverlap ==
  [][\A w \in Stranded' \ Stranded :
       run # NoRun /\ w \in DOMAIN credits /\ w \notin DOMAIN run.credits]_windowsVars

(* Whether the run under way ends well, and whether what it read of w stands. *)
EndsWell ==
  run # NoRun /\ run' = NoRun /\ sessions' = run.sessions /\ (run.by = "hr" \/ ~failed')
Undecided(w) ==
  /\ Paid(w) = CreditOf(w)
  /\ \A n \in DOMAIN requests :
       requests[n].window = w => requests[n].status = run.requests[n].status

Adjustments(w, status) ==
  {r \in Range(requests) : r.window = w /\ r.kind # "window" /\ r.status = status}
(* What is asked for is the difference, and something is asked for unless    *)
(* this revision was answered already.                                       *)
InLine(w) ==
  LET difference == windows[w].days - CreditOf(w)
      answered == Adjustments(w, "rejected") \cup Adjustments(w, "cancelled")
  IN  /\ \A r \in Adjustments(w, "pending") :
           difference # 0 /\ r.kind = Kind(difference) /\ r.days = Size(difference)
      /\ \/ difference = 0 \/ Adjustments(w, "pending") # {}
         \/ \E r \in answered : r.kind = Kind(difference) /\ r.revision >= windows[w].revision

(* However often the evidence of a credited window is corrected, a run leaves *)
(* a request for exactly the difference, if HR did not decide while it ran,   *)
(* and until the first adjustment of the window is approved.                  *)
DifferenceInLine ==
  [][EndsWell =>
       \A w \in DOMAIN credits :
         /\ windows[w].recorded > 0 /\ Undecided(w)
         /\ LivePeriod(w[1]) /\ windows[w].closed /\ Adjustments(w, "approved") = {}
         => InLine(w)']_windowsVars

(* "Request approved (credit posted): only the DIFFERENCE is requested", says  *)
(* the header of recovery_sync_window_requests.  While no decision overlaps a *)
(* run, the credit of a window differs from its entitlement only while a      *)
(* request of that kind is pending, or after one was rejected.                *)
DifferenceAsked ==
  \A w \in DOMAIN credits :
    LET difference == windows[w].days - CreditOf(w)
    IN  (run = NoRun /\ difference # 0) =>
          \E r \in Range(requests) :
            /\ r.window = w /\ r.kind = Kind(difference)
            /\ r.status \in {"pending", "rejected"}

(* Windows that have closed and earn something, by the evidence, and whose   *)
(* period has no request for them that stands.                               *)
Unrequested ==
  LET work == Work(sessions)
      asked == {<<periods[r.window[1]].start, r.window[2]>> :
                  r \in {r \in Range(requests) : r.status # "cancelled" /\ LivePeriod(r.window[1])}}
      earning(s) == {k \in Indexes(work, s) :
                       /\ Closed(work, s, k, now)
                       /\ Entitlement(WindowStart(s, k), Recorded(work, s, k)) > 0}
  IN  UNION {{<<s, k>> : k \in earning(s)} : s \in Starts(work)} \ asked

(* Every window that earns something comes to be asked about, with nobody    *)
(* clocking in or out, unless the runs of the employee go on failing, which  *)
(* HR is told of: the scheduled processor sees to it.                        *)
EarnedIsRequested == []<>(failed \/ Unrequested = {})
=============================================================================

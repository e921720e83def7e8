# HR Engine: a verification project

TLA+ models of the HR Engine ERP, checked with TLC and, where marked, proved with
TLAPS. The program is a Next.js application over a Postgres database (Supabase).
Almost every rule lives in the database: the application validates a form and calls
one `plpgsql` function, which runs as one READ COMMITTED transaction. What can go
wrong is therefore of three kinds, and the models are split along them:

1. **how the transactions of several people interleave** (row locks, advisory locks,
   unlocked reads, retries, lost replies, deadlocks);
2. **what a long sequence of legal calls adds up to** (reservations against time,
   balances against ledgers, derived statuses);
3. **what is done in several calls with no transaction around them** (scheduled jobs that
   read, compute and write later; actions that change two services one after the other).

Paths below are relative to the repository; `…300` abbreviates a file in
`supabase/migrations` by the end of its number (`20261201000300_inv_stock_functions.sql`).

## 1. Inventory of the system

| Component | State | Operations | What is hard | What makes it correct |
|---|---|---|---|---|
| **Inventory: transaction protocol** (`…250`, `…300`, `20261217000100`, `20261216000100`, `…700`) | `inv_idempotency`, movement counters, `inv_movements`, row locks | `inv_begin_movement`, `inv_lock_item`, `inv_replaying`, `inv_finish_movement`, and every movement and planning function that runs between them | two sessions, one key; unlocked status check, then locks; rollback after the key is claimed; lost reply and retry; lock order | a key moves stock once; a retry gets the first result; nothing is oversold; only open requests are served; nobody waits forever |
| **Inventory: reservations over time** (`…200`, `…400`, parts of `…300`) | `inv_requests`, `inv_request_lines`, `inv_reservations`, `inv_balances`, project sites, transfers on the way | reserve, release, change or cancel a line, cancel a request, move dates, dispatch, return, issue, hand over, transfer, condition check, project end | half-open date ranges, credits spread over rows, partial success, statuses derived from sums | a promise fits what will be there; nothing reserved is displaced; quantities, sites and reservations agree; statuses are true |
| Inventory: ledger, units, kits, counts (`…100`, `…300`, `…600`, `…800`, `20261218000100`) | balances, ledger lines, units, kits, counts | receive, consume, return unused, missing/found, retire, correct, count, kit pack/unpack | corrections of corrections, stock moving during a count, a unit reserved while packed | balances are the sum of the ledger; a unit is in one place |
| Inventory: project notes, legacy mirror (`20261217000100`, `…500`) | signed notes, HR asset table | written after a movement | none that changes stock | one note per movement |
| **Leave and approvals** (`20261108000000`, `20261027000000`, `20261028000000`, `20261216000810`) | leave requests, approval steps, two ledgers | submit, decide a step, reassign, cancel | decide against cancel (opposite lock order), a funding rule that draws on two ledgers | approved leave has cost exactly what was asked, anything else nothing |
| **Compensation days** (`20261013000000`, `20261108000000`, `comp-day-expiry/route.ts`, `compDayExpiry.ts`) | the comp-day ledger, credit requests, the attendance register | credit, redeem, reverse, forfeit, expire | the sweep reads everything and inserts later, without the lock decisions take | no decision overdraws; a credit counts once and lapses once; what is unused lapses |
| **Annual leave** (`leave-accrual/route.ts`, `annualLeaveEntitlement.ts`, `20261101000000`, `20261102000000`, `polandTermination.ts`, `employees.ts`) | the leave ledger, contracts, the marker of a Polish termination | accrue, adjust, terminate, true up, confirm, acknowledge | a monthly run against a termination; reads before locks; contracts in any order | grants never exceed the rules; nothing used is taken back |
| **Recovery windows, attendance** (`20261108000000`, `20261107000000`, `recoveryWindows.ts`) | clock sessions, working periods, windows, requests, credit | clock in and out, correct, recalculate, decide, verify, process | evidence corrected after credit was posted; decisions during a recalculation; only time closes a window | what is posted is earned; what is earned is asked for |
| **Accounts, roles, module access** (`20261030000000`, `20261216000300`, `20261215000000`, `account-status.ts`) | role grants, account status, sign-in block, module grants | give and revoke a grant, deactivate and reactivate an account, revoke a founder | different locks (or none) for rules about one count; two services without a common transaction | an administrator and a founder remain; no failure leaves more access than shown |
| **Project budgets** (`20261210000100`–`300`, `projectBudget.ts`) | requests, funding, payments, final expenses, receipts, settlement | draft, submit, decide, revise, fund, pay, reverse, close, reopen | decisions depend on who submitted and on who has access by then; money moves while expenses are corrected | a closed settlement is even; nobody settles their own expenses |
| CRM (`20261115000100`–`300`) | opportunities, proposals, reminders | stage changes, handover to a project | one handover | a won opportunity becomes one project |
| Projects delivery (`20261120000200`–`500`) | projects, tasks, completion | start, complete, archive | triggers into Inventory | completion releases what was planned |
| Payroll, reimbursements, timesheets, letters, loans, appraisals | records behind the approval engine | submit, approve, export | export claimed twice | each line exported once |
| Web application | none of its own | server actions: validate, call one function | double submits | passes its key on |
| **Domain library** (`packages/domain`) | none | date, policy and entitlement arithmetic | boundaries | agrees with the SQL |

**Interactions.** CRM hands a won opportunity to Projects. A project owns equipment
requests in Inventory; its completion fires a trigger that cancels or trims them
(`inv_proj_after_status`). A leave request creates approval steps; the last approval
writes the leave and comp-day ledgers, which the scheduled jobs write too. A window that
closes asks for a credit, which feeds the same comp-day ledger. Everything
reads the role grants. `PROJECT.json` lists the hazards of all these parts with the
line where each bites; the ones without a property say which planned module takes them.

## 2. What is modelled

| Module | Models | Checked by |
|---|---|---|
| `InvOnce` | abstract specification: what a movement call promises its caller | refinement from `InvSessions` |
| `InvSessions` | the transaction protocol: locks, key, checks, commit or rollback, several sessions | `MCInvSessions`, one run |
| `InvSessions_proofs` | its locks and keys, then, on top of them, request rows, answers and promised stock: eight theorems | TLAPS |
| `InvPlanning` | one quantity item over depots, projects, people and dates, call by call | `MCInvPlanning`, one run |
| `InvLedger` | the stock rows and the ledger of one item at one location: corrections, counts, consumption | `MCInvLedger`, one run |
| `InvStock_proofs` | the inductive invariants of `InvLedger` and of `InvPlanning`, four theorems about the one and five about the other | TLAPS |
| `InvUnits` | serial-numbered units and kits: custody, packing, bookings, the HR asset register | `MCInvUnits`, two runs |
| `InvUnits_proofs` | its inductive invariant and four theorems | TLAPS |
| `AccountAdmin` | administrators suspending and restoring accounts, giving and revoking their role | `MCAccountAdmin`, two runs |
| `AccountAdmin_proofs` | two inductive invariants and three theorems | TLAPS |
| `RecoveryLeave` | the comp-day ledger of one employee: credits, leave funded from them, the nightly sweep | `MCRecoveryLeave`, two runs |
| `Recovery_proofs` | any ledger and its first-in-first-out pool, two inductive invariants of `RecoveryLeave` and five theorems; the rules of windows, the inductive invariant of `RecoveryWindows` and three theorems it gives | TLAPS |
| `LeaveRules` | pure rules: annual leave earned in the Emirates, Saudi Arabia and Poland | through `AnnualLeave` |
| `AnnualLeave` | the leave ledger of one employee: monthly accrual, contracts, termination and its true-up | `MCAnnualLeave`, one run |
| `AnnualLeave_proofs` | its rules, any ledger and a row written into it; an inductive invariant and three theorems | TLAPS |
| `RecoveryRules` | pure rules: working periods, windows and what a window earns | through `RecoveryWindows` |
| `RecoveryWindows` | clock sessions, the recalculation in steps, requests, decisions, credit | `MCRecoveryWindows`, one run |
| `ProjectBudget` | one budget from the first request to the closed settlement, with changes of people between | `MCProjectBudget`, one run |
| `ProjectBudget_proofs` | its inductive invariant and three theorems | TLAPS |
| `SumTheorems` | no part of the system: what a sum over a finite set is, and a sequence without one of its elements | TLAPS |

### InvSessions: state and actions

| Model | Code |
|---|---|
| `tx[s]`, `held[s]` | a session's running function and the row locks it holds until it ends |
| `idem` | `inv_idempotency`: who used a key, for what, with which movement |
| `ledger` | `inv_movements` in commit order |
| `shelf`, `req` | `inv_balances`; `inv_requests` with the sums of its reservations |
| `answers` | what callers were told: a movement, or a refusal (0) |
| `LocksOf`, `Stage`, `NextLock` | which rows a function locks and in which order: movements key, counter, header (a foreign-key share lock on the request), items by id, reservations, request rows; planning functions start from the request row |
| `Begin` | the function is called and its checks before any lock are made (`PassesFirstCheck`, with `inv_replaying` where the code asks it) |
| `Claim` | the insert into `inv_idempotency`: waits for a rival, then is new, answered, or refused because user or content differ |
| `Acquire` | one more `FOR UPDATE` |
| `Decide` | the checks made under all locks; a refusal rolls back |
| `Commit` | all writes at once, statuses refreshed, locks gone; the reply may be lost |
| `Drop`, `Victim` | the connection is lost; Postgres fails one transaction of a cycle |

Simplifications: each request has one line of one item and a call moves one piece of
it. Under the item lock nothing else reads or writes that item, so every larger
quantity goes through the same steps; dates, bins and conditions are in
`InvPlanning`. `receive` can name several items, which is what makes the item order
matter. A piece at a time also means that an issue is either covered by its
reservation or not at all: the double count of an issue (section 3, "Found, not kept as
a run") needs two and cannot arise here. The other movement kinds (consume, counts, repairs, kits,
adjustments, corrections, transfers between depots) share the begin/lock/finish
skeleton and are not instantiated.

### InvPlanning: state and actions

`now` is the date; calls happen strictly between two dates, so no call falls exactly
on the boundary of a range and `<` and `<=` against the clock do not differ. `shelf` and
`faulty` are the good and held balances per depot, `site` a project's balance with the
return date recorded on it and the depots it was filled from, `person` what employees
hold, `transit` the transfer on its way to a depot. `status`, `window`, `line`, `issued`
are the request tables, and `res` the reservation rows in creation order. A row with `done` is
completed or released; a released row stays where it is with `qty` 0, since every query skips it.

| Action | Function |
|---|---|
| `Reserve`, `Release` | `inv_reserve`, `inv_release_reservation` |
| `ChangeLineQty`, `CancelLine`, `CancelRequest` | `inv_update_request_line`, `inv_cancel_request_line`, `inv_cancel_request` |
| `ChangeWindow` | `inv_change_request_window`, line by line (`MoveLines`, `MoveLine`, `RangeFits`); the same dates again move what conflicted before and fits by now |
| `EndProject` | the trigger `inv_proj_after_status` |
| `Dispatch`, `DispatchFor` | `inv_dispatch_to_project` without and with a request |
| `Return` | `inv_return_from_project` |
| `Issue`, `IssueFor`, `ReturnFromPerson` | `inv_issue_to_employee`, `inv_return_from_employee` |
| `HandOver` | `inv_transfer_between_projects` |
| `SendTransfer`, `ReceiveTransfer` | `inv_transfer_dispatch`, `inv_transfer_receive` |
| `CheckShelf` | `inv_check_condition` |

`Free` is `inv_qty_free`; `Took`, `GaveBack`, `Released` are `inv_reservation_take`,
`inv_reservation_return` and `inv_release_row`; `Refreshed` is
`inv_refresh_request_status`. Each call is atomic here: that it may be treated so
is what `InvSessions` shows.

Simplifications: one item; requests start submitted (drafts hold nothing); at most one
transfer at a time towards each depot; one balance for all employees. Technology
templates, substitutions, shortage actions, serial-numbered units and kits, rentals,
consumables and the Sales availability questions are not modelled. A dispatch *against a
reservation* is compared with nobody else's reservations, in the code as in the model:
`NothingDisplaced` is about goods that leave without one.

### InvLedger: state and actions

`book` holds the stock rows of one item (per bin and condition), which of them exist and
which are verified, and the ledger lines; `counts` the counts with their lines. A line of a count
is keyed by its place and by whether the row existed when it was saved, which is what
the code compares (`balance_id`).

| Action | Function |
|---|---|
| `Receive`, `Consume`, `ReturnUnused` | `inv_receive_stock`, `inv_consume`, `inv_return_unused` |
| `Missing`, `Found`, `Retire`, `CheckCondition` | `inv_adjust_stock`, `inv_check_condition` |
| `Correct` | `inv_correct_movement`, one line; a correction can be corrected |
| `StartCount`, `SaveCountLine`, `RemoveCountLine`, `ConfirmCount`, `CancelCount` | the functions of the same name |
| `EnsureBinLabel` | `inv_ensure_bin_label`, which makes a row with nothing in it |

`Take` is `inv_take_qty`: the fullest row first, one ledger line for each row that gives. `Take` and
`ConfirmCount` write several lines, one after another: `after[k]` is the book after the `k`-th. Each call is
one step, since it locks its item first; a count is several, and other calls come between.
Simplifications: one item, one location; damaged goods are held like those that
need inspection; rentals, bins' own rows and the goods of others are left out; the lines of
a count that is closed are dropped.

### InvUnits: state and actions

| Model | Code |
|---|---|
| `unit` | `inv_units`: lifecycle, custody, last storage location, usable or not, expected return |
| `last` | where the latest ledger line of a unit says it went |
| `checklist` | `inv_kit_contents`: status of each line and the unit on it |
| `promise` | the reservation of a request's line, and whether the line was served |
| `counted` | the line of a unit on an open count |
| `register` | open rows of `asset_assignments`, the HR register |

| Action | Function |
|---|---|
| `Receive`, `RegisterUnit`, `Import`, `OpeningCustody` | `inv_receive_stock`, `inv_register_unit`, `inv_import_legacy_assets`, `inv_confirm_opening_custody` |
| `SaveCountLine`, `ConfirmCountLine`, `DropCountLine` | the count functions, by the line |
| `Issue`, `ReturnFromEmployee`, `Reassign` | `inv_issue_to_employee`, `inv_return_from_employee`, `inv_reassign_unit` |
| `Dispatch`, `DispatchFor`, `ReturnFromProject`, `HandOver` | as in `InvPlanning`, for a unit |
| `SendTransfer`, `ReceiveTransfer`, `RepairOut`, `RepairIn`, `CheckCondition` | `inv_transfer_dispatch`, `inv_transfer_receive`, `inv_repair_out`, `inv_repair_in`, `inv_check_condition` |
| `Missing`, `Found`, `Retire`, `ReturnRental` | the actions of `inv_adjust_stock`; `inv_return_rental` |
| `Pack`, `PackMissing`, `Unpack`, `SetKitLine`, `RemoveKitLine` | `inv_pack_kit`, `inv_unpack_kit`, `inv_set_kit_line` |
| `Reserve`, `Release` | `inv_reserve`, `inv_release_reservation` |

`Moved`, `Mirror`, `Handled`, `ReservedBy` and `Free` are `inv_unit_move`,
`inv_mirror_legacy`, `inv_unit_block_reason`, `inv_unit_reserved_by` and `inv_unit_free`.
Simplifications: a request has one line of one unit, and its window stays (`InvPlanning` moves it); a call with several
lines is a sequence of calls with one; a transfer carries one unit, and so does a rental; a
unit is usable or not; bins, quantity contents of kits, costs, sharing and permissions are left out. When
two requests of one project have the same unit out, the code closes the older one, the
model either.

### AccountAdmin: state and actions

| Model | Code |
|---|---|
| `grants` | `user_roles`: who holds an unrevoked `sys_admin` grant |
| `status` | `profiles.account_status`; `is_active` is written with it |
| `banned` | the sign-in block of the authentication service (`ban_duration`) |
| `op[a]` | the action administrator `a` is running: its call, how far it is, and whether it is compensating |
| `told[a]` | what that action reported |
| `Start` | `deactivateAccount`, `reactivateAccount` or `revokeRole` is called |
| `Holdings` | `account_holdings`: stop before blocking an account the database would refuse |
| `SetBan` | `setBan`: the block is set or lifted; the reply may be lost |
| `CheckRole`, `Decide`, `Write` | `set_account_status` and `revoke_role_grant`: the role check before the lock, the checks under it, the commit |
| `Fail`, `Killed` | a call fails without effect; the action is killed between two calls |
| `AssignRole`, `SelfActivate` | `assignRole`; the policy `profiles_self_activate` |

`After` is the order of the calls, `OnError` what the action does when one fails (an
unban that failed is compensated by marking the account deactivated again), `LockFree` the
two advisory locks, `Allowed` the checks made under them. An action of somebody who is
suspended, or loses the role, meanwhile goes on as in the code: `has_role` looks at
grants only, and an open session lasts until its token expires.

Simplifications: one grant a person, with no company; one action at a time for each
administrator; the screen shows the status as it is. In the code the screen may be old:
an administrator whose finished reactivation was never reported can press Reactivate
again, and if *that* unban fails the compensation marks the unblocked account
deactivated. The company rules of `account_deactivation_blockers` (only CEO / CTO, only
budget approver), `deleteUserAccount`, invitations and password resets are not modelled.

### RecoveryLeave: state and actions

`ledger` is `comp_day_ledger` of one employee in insertion order, `booked` the rows its
leave requests have in `leave_ledger`, `leave` and `credit` the states of the requests,
`present` the attendance register. `open` holds the transactions that have the advisory
lock, `sweeps` the runs of the expiry job that have read and not yet written.

| Action | Code |
|---|---|
| `Submit`, `Decide`, `DecideCredit` | a leave request is made; a step that is not the last; a credit request is rejected or corrected |
| `EnterLeave`, `FinishLeave` | `decide_approval_step` at its last step for leave: `Draw` is the configured deduction order |
| `EnterCredit`, `FinishCredit` | the same for a credit: the only place an earned row is posted |
| `EnterPresent`, `EnterAway` and their `Finish` | `hr_save_attendance_record`: a worked rest day asks for a credit, a correction takes it back |
| `EnterCancel`, `FinishCancel` | `cancel_leave_request` on approved leave |
| `EnterTerminate`, `FinishTerminate` | `terminate_employee`: what is left is forfeited |
| `SweepRead`, `SweepPost`, `SweepLost` | `comp-day-expiry/route.ts` with `calculateExpiredCompDayEntries` (`Remaining`, `Lapsed`); the key of a row is the credit it expires |

Simplifications: the credits are those of attendance records; rows that lapse on one day are used up in
the order they were inserted; who may decide is not modelled, nor is the automatic approval of the
CEO's and CTO's own requests; a rejected and a cancelled leave request are one state, since nothing leaves
either; a day worked without hours is left out; days pass between transactions (a
sweep may straddle midnight); a sweep that finds nothing leaves no trace. `InTime` keeps
credits from being approved after they would have lapsed: an older credit approved late
sorts before one that partly expired, and the idempotency key then keeps the rest of that one
from ever lapsing.

### LeaveRules and AnnualLeave: state and actions

`LeaveRules` is `annualLeaveEntitlement.ts`: completed months and years, the three countries'
entitlements, and the Polish periods, each priced only when one part-time fraction holds all
through it (`ConstantFte`) and otherwise left to HR (`Blocked`). `AnnualLeave` puts it to use:
`contracts`, `ledger`, `status`, `exit`, and `marker`, the row that says a Polish
termination was settled.

| Action | Code |
|---|---|
| `RunRead`, `RunPost`, `RunLost` | `leave-accrual/route.ts` for one employee; one key a month |
| `AddContract`, `LedgerEntry` | `addContractVersion`; leave taken and restored, manual adjustments |
| `Terminate` | `updateEmployee` with status terminated, which calls `terminate_employee` |
| `TrueUpRead`, `TrueUpPost`, `CallEnds` | `polandTermination.ts`, then `post_poland_termination_leave_adjustment`; the action may end before either |
| `Reactivate`, `Acknowledge`, `Confirm` | another status is saved; HR acknowledges the excess, or confirms to have settled by hand |

Simplifications: one employee and the leave type `annual`, accrued by the entitlement method,
the minimum service (`Served`) being the 0 of the seeded data in the run; the queries of a run are one read,
three of which may fail unnoticed, as in the code (`listed`, `balance`); on leave and
suspended count as active; a date is a half month and a fraction a quarter; runs and HR calls
end within a date; time zones, the preflight mode, and the amounts of a final settlement are
not modelled.

### RecoveryRules and RecoveryWindows: state and actions

`RecoveryRules` is the derivation in `recoveryWindows.ts`, which the migration states
again in SQL: intervals make working periods, a period is cut into windows of elapsed time, a window earns half days.
`RecoveryWindows` keeps `sessions`, the rows derived from them (`periods`, `windows`),
`requests`, the credit posted for each window (`credits`), `run`, a recalculation that
has read and not yet written, and `failed`: an unresolved row of `recovery_processor_failures`,
left by a recalculation that the clock or the processor started and that failed, resolved by the next that succeeds.

| Action | Code |
|---|---|
| `ClockIn`, `ClockOut`, `HrClose`, `Correct`, `AddMissing` | the calls that change the evidence; each starts a recalculation |
| `Process` | `recovery_process_due` for an employee with an open period or session, or with a failure |
| `ReadRequests` | the credit of a window is read first and its requests after it: what was decided in between shows in the second only. Decisions on different windows do not depend on each other, so two points of reading stand for one pair for each window |
| `Recalculate` | `recovery_recalculate_employee` and `recovery_sync_window_requests`: new rows, revisions, requests dropped, rewritten or asked for; `Refused` is what makes it fail |
| `LeadApproves`, `HrApproves`, `Reject` | `decide_approval_step`, with `recovery_request_blocker` (`Approvable`) and `recovery_post_window_ledger` (`Posted`) |
| `Verify` | `hr_verify_recovery_window` |

A recalculation holds a lock on the employee, a decision one on its request: with `MayOverlap`
a decision may commit between these steps. Simplifications: one employee; a session is one
segment (no change of work mode); one route (lead, then HR); the two reasons to verify are a
session closed by HR and long work; alerts, rollovers, routing failures, business
travel and terminations are not modelled; the acknowledgement a reduction needs is given;
the rules stay as they are; a decision is one step; time passes
between transactions; the second pass of `clock_out` is part of the first. The query
that picks "the" adjustment of a window has no order: `first` is either choice. One employee also means that the loop of the
processor, with a block of its own for each, is not there: that one employee's failure does not stop the others is not checked.

### ProjectBudget: state and actions

`versions` are the requests for money in the order of their `seq`, `actuals` the submissions
of final expenses with a line for each approved request; `advance`, `returned` and `repaid`
count the entries of each person that are not reversed; `receipts` and `settlement` are the columns
of the budget; `manager` and `grants` are who manages the project and who has access.

| Action | Function (`pbx_…`) |
|---|---|
| `CreateBudget`, `RequestAddition`, `ReviseBudget`, `SaveBudget`, `DiscardDraft` | `create_budget`, `request_addition`, `revise_budget`, `save_budget_draft`, `discard_draft` |
| `SubmitBudget`, `DecideBudget` | `submit_budget` (the route is fixed here), `decide_budget` |
| `StartActuals`, `ReviseActuals`, `SaveActuals` | `start_actuals`, `revise_actuals`, `save_actuals_draft`: `Completed` adds what was left out |
| `SubmitActuals`, `DecideActuals`, `ReturnApprovedActuals` | `submit_actuals`, `decide_actuals`, `return_approved_actuals` |
| `RecordFunding`, `ReverseFunding`, `RecordPayment`, `ReversePayment` | `record_funding`, `reverse_funding`, `record_payment`, `reverse_payment` |
| `RecordReceipts`, `ConfirmReceipts` | `record_receipts`, `confirm_receipts` |
| `CloseSettlement`, `ReopenSettlement` | `close_settlement` (`Unblocked`), `reopen_settlement` |
| `ChangeAccess`, `ChangeManager` | `grant_access` and `revoke_access`; `proj_assign_pm` |

Each function is one step because it locks the version or the submission it is about and then
the budget. Two read without a lock what they rely on: saving a draft reads the budget (whether the
settlement is open), and revising reads a version whose status no longer changes. The functions lock in two orders,
so a rare deadlock is possible and rolls one of them back.
Simplifications: a request is for one row and an entry of money for one unit; a line is paid from
an advance, by a member, or by the company; receipts are in or not (an approved exception counts
as in); acting project leads count as a change of manager; retries by request id, the
stale-edit check, unplanned and split lines, the note a large variance needs, the refusal of
an identical entry, currencies, notifications and audit are left out.

## 3. What is checked

### Passing runs

| Run | Instance | Shows |
|---|---|---|
| `sessions` | 2 sessions, one piece, two projects' requests and a person's, 9 calls, five of them on three keys, `MaxStarts` 4 | nothing promised leaves the shelf uncovered (`PromisesOnShelf`); nobody serves a closed or cancelled request although its status was read before any lock (`OnlyLiveRequestsServed`); statuses are true, of sibling requests too (`StatusFollowsGoods`); the protocol refines `InvOnce` (`MovesOnce`); retries of dispatch, issue, return and receipt get their first answer (`RetryIsAnswered`, which excepts hand-overs: see below); every transaction ends although some block each other in a circle (`EveryCallEnds`) |
| `planning_places` | 2 depots with a transfer, a project and a person, up to 2 pieces a call, 3 dates, 4 calls | reservations made fit (`ReservationsFit`); free dispatches, issues and transfers leave every reservation its pieces (`NothingDisplaced`); a line is never over-reserved, what is out is on the site, what is cancelled holds nothing (`RowsAgree`); statuses are true (`StatusTrue`) |
| `ledger` | 1 bin with usable and held pieces, 1 person, 1 count, 4 ledger lines | each stock row holds what its ledger lines explain and never less than nothing (`StockSound`); no line is corrected past what it moved, through corrections of corrections (`NeverReversed`); opening stock is added to nothing that is there (`OpeningIsFirst`); a confirmed count leaves the shelf with the counted number, however the goods moved since they were counted (`CountDecides`) |
| `units` | a tool that HR also tracks, 2 depots, 2 people, a project's and an employee's request with windows that overlap, 4 dates | whoever has the tool is the one the HR register shows, and a tool in use is where the ledger says (`UnitsSound`); a booked tool is not retired, packed or given away past the start of its window (`BookedComesBack`) |
| `kits` | a kit with two lines, two rented tools | a tool is in the kit exactly when one line holds it, substitutes included (`PackedOnList`); nothing is stranded in a retired kit of the company's own (`NothingStranded`) |
| `accounts_steps` | 2 administrators and an invited person, each account looked after by one of them, any revocation, 5 actions that overlap, fail or are killed | an administrator grant remains (`GrantRemains`); nobody shown as deactivated can sign in (`LessAccess`); success is reported only when status and sign-in block agree (`SuccessAgrees`) |
| `recovery_leave` | 2 leave requests (one with a second funding source, two steps), 2 credits, 2 sweeps, 3 rows when somebody calls, 3 days | the balance falls below zero only through a sweep that overlaps, or the register taking back a spent credit (`OverdrawnOnlyBySweep`); a sweep that is not overtaken lapses exactly what fell due less what was spent (`SweepIsExact`); each credit lapses once, approved leave has cost what was asked, and a credit counts while its record stands (`RowsBacked`); the application's and the database's reading of the ledger agree (`AvailableIsBalance`); unused days lapse (`UnusedLapses`) |
| `annual_leave` | 3 countries, hired in October, part-time from an April or not, with or without a first contract and an opening balance, January after next, an exit date | the fraction of a period is found exactly when one holds throughout, and a month accrues once (`LeaveSound`); runs and true-ups grant more than the rules only when they overlap each other or a new contract (`OvergrantOnlyByOverlap`); a true-up takes back nothing used and flags the rest (`TrueUpExact`); what the rules give is granted (`GrantedInTime`) |
| `recovery_windows` | 5 instants, a window of 3 and a rest of 1; 1 session and 2 corrections by HR, 2 sessions and 1, or 2 of which HR adds one, and 1 or 2 | unless a run has failed and none succeeded since, what is posted is what the evidence earned, closed, and verified when HR closed a session or the work is long (`PostedIsEarned`); credit is stranded on a dead window only by an approval inside the recalculation that killed it (`StrandedOnlyByOverlap`); while no adjustment of a credited window was approved, each correction leaves a request for exactly the difference, unless this revision was answered (`DifferenceInLine`); whatever earns comes to be asked for (`EarnedIsRequested`) |
| `budget_settle` | a project manager, a Finance person (the first to manage), an executive, 2 requests, 2 submissions, 2 corrections or changes of people | a closed settlement is even and stays so (`BudgetSound`); a row approved before the expenses were last saved is always on the page (`HiddenOnlyWhenAdded`); nobody closes the settlement of the expenses they prepared or submitted, whatever access they are given (`ClosedByAnother`) |

Why some of these are not obvious. The status check of a dispatch or an issue
runs before the function holds anything; what protects a request cancelled in between is
that the cancellation releases its reservations and closes its lines, which are read
again under the item lock. `AvailableIsBalance` compares two pieces of code that spend in different orders:
the sum the decisions lock and read, and the first-in-first-out pool the sweep computes. The route
of a settlement is not the route of the expenses: it looks at access again, which is what stops
somebody who became Finance meanwhile (the mutant that keeps the old route is caught).

### Disagreements between code and documentation

| Run | Property | What happens |
|---|---|---|
| `accounts_admins` | `AdminRemains` | One administrator deactivates the other, who has just sent a revocation of the first one's role. The revocation counts grants, the deactivation counts active accounts, and each holds a lock of its own: both pass, in either order, and the only grant left is that of a deactivated account. `20261216000300` says the last active administrator is never deactivated, `revoke_role_grant` that somebody is left to manage users. |
| `leave_cancel` | `CancelServed` | Leave funded from compensation days is approved and then cancelled before it starts. `cancel_leave_request` reverses the redemption with a column the comp-day ledger does not have, so the call fails and the leave stays approved. |

### Found, not kept as a run

The named properties are in the modules and do not hold (`RetryIsAnswered` and `SuccessAgrees` only
beyond the cases they are stated for); the other entries state in a line what would
be checked. The project keeps a run for the two whose consequences are worst.

- **A settlement that stays blocked** (`ConfirmUnblocks` of `AnnualLeave`). A Polish employee is terminated
  and trued up; HR corrects the date. The marker is one row per employee, the final settlement asks
  for its date, and the confirmation does nothing because a row exists.
- **Adjusted once** (`DifferenceAsked` of `RecoveryWindows`, with two corrections and no overlap). A credited day is
  halved by a correction, the reduction is approved, and a second correction restores the evidence.
  `recovery_sync_window_requests` finds the approved adjustment and returns (line 1557), although the difference it has just
  computed is not zero: the top-up, and any later difference of that window, is never asked for. Its header and
  `docs/recovery-windows-deployment.md` say that after credit the difference is requested. `DifferenceInLine` is what holds before.
- **Answered by cancelling** (`DifferenceInLine` if a cancelled request did not count as an answer). A recalculation
  that has read the credit before an approval, and the requests after it, asks for too large a top-up. The next one cancels it and
  asks for nothing, because a cancelled request of this revision counts as answered: the difference waits for another correction.
- **Approved on stale rows** (`PostedIsEarned` without `~failed`). When the recalculation behind a clock event fails,
  because it would undo a credited window, the trigger records the failure and the event commits: the rows
  of every window of the employee stay behind the evidence. `recovery_request_blocker` compares a request with
  these rows and does not look for a failure, so HR may approve for another window what it no longer earns, although
  its message promises that a request whose evidence changed is out of date. It takes two periods, two
  corrections and about thirty steps (windows of 4, rest of 2, eight instants), which is more than a run reaches;
  the proof of `PostedIsEarned` needs the exception at the approval.
- **Unused, and corrected** (`ReturnedWithinUsed` of `InvLedger`). A piece is used, the use is corrected to
  none, and the piece comes back as unused: the correction and the return do not see each other, and
  two pieces are on the shelf.
- **A place counted twice** (`OneLinePerPlace` of `InvLedger`). A place is counted before it has a stock row; the
  row appears; saving the place again adds a second line instead of replacing the first.
- **Returned while missing** (`LedgerAgrees` of `InvUnits`). A unit retired or recorded missing while it is
  out for repair is recorded back: it is on the shelf and stays retired, which the code's own check
  `inv_ledger_problems` reports. Returns from employees, projects and transfers are the same.
- **Found by a count** (`RegisterAgrees`). A unit missing with an employee is found by a count, which does
  not update the HR register: the employee is shown with it until the next movement.
- **An edited checklist** (`LinesAreTrue`). Editing the line of a packed unit compares the expected quantity
  with a count that is kept for quantity contents only: the line says missing with the unit inside.
- **Lost on a project, found elsewhere** (`OutIsOut`). Nothing ends the reservation of the unit, which blocks its
  other bookings and keeps the request from closing.
- **A rented kit goes back** (`KitsGoBackEmpty`) with a tool in it; a retired kit cannot be unpacked, so the
  tool is stuck. `NothingStranded` is about the company's own kits.
- **Lock order of kits.** `inv_unpack_kit` locks the item of the kit first and the others after it, `inv_pack_kit`
  all in order: the two can block each other, and Postgres fails one.
- **Import beside HR.** The guard of the HR register reads the link of an asset without a lock; an
  assignment HR inserts while Inventory imports the asset may stay on a unit that is on a shelf.
- **Deadlock** (`NoDeadlock` of `InvSessions`). A date change holds the request row and waits for
  the item, a return to the same project the reverse; Postgres fails one. The comment at
  `…400:1187` says callers can never deadlock; that is so among callers that start from the items.
- **Retried hand-over** (`RetryIsAnswered`). `inv_transfer_between_projects` refuses on the status
  of the request before it asks for the recorded result, so the retry of a hand-over whose reply was
  lost is refused once the request is fulfilled; `docs/inventory-design.md` section 9 says otherwise.
- **Issue to a person** (`IssueSparesReserved`). `inv_issue_to_employee` raises what its reservation
  has out before it reads free stock, the pieces still on the shelf: they count as free
  once more, and an issue of two takes a piece somebody else reserved.
- **Date change** (`MovedReservationsFit`). The check leaves out all reservations of the line, those
  that keep their dates included, and can promise the moved ones pieces the others have.
- **Two lines of one item** (`FulfilledMeansIssued`). Each line of an employee's request is
  compared with everything issued of its item, so both are met by the pieces of one.
- **Two administrators on one account** (`SuccessAgrees` without `OneKeeper`). One reactivates it;
  before the block is lifted another deactivates it again. All calls succeed, and the account is
  shown as deactivated but can sign in. Likewise when the answer to a lifted block is lost
  (`UnbanReplyLost`); `checkAccountStatusConsistency` finds such an account afterwards.
- **Overdrawn by a sweep.** The comments of the last leave decision (`20261108000000:3648`) say that
  whatever writes the balance is serialised; the sweep is not, and a day redeemed between its read
  and its insert lapses too. Taking back a credit already spent leaves a negative balance as well.
- **Reversals that never lapse.** When the column of `leave_cancel` is repaired, the
  restored days are positive rows that are not earned ones: the sweep subtracts
  nothing for them and never lapses them.
- **A stale adjustment.** A pending adjustment whose amount stays while its window moves
  on to another revision is not refreshed (`20261108000000:1553`), yet may not be approved until
  it is (`:1951`); rejecting it is the way out.
- **Terminated twice.** An employee who is reactivated, credited by the monthly run
  and terminated again for the same date keeps the days, and the settlement counts as ready.
- **Quantities.** Correcting an `adjust_found` line upwards exceeds what was recorded missing
  (the comment at `…300:2803` rules that out for the action itself). Retiring pieces without naming their condition skips the
  comparison with upcoming requests (`…300:2884`). One place can be on two open counts, since they compare rows.
- **A unit other than the one reserved** issued against an employee's request leaves the
  reservation standing until somebody releases it.
- **Budgets.** A returned request can be revised again after its first revision was approved. The
  author of a returned submission, when another person submits the revision and the route is
  Finance, may as Finance close the settlement of what they wrote (`ClosedByAnother` is about the
  approved submission; the header of `…300` says "prepared or submitted"). A row approved after
  the expenses were last saved has no line, and the settlement can close without it.
  `pbx_start_actuals` after a return starts blank and forgets that the expenses had been approved.

### Bounds

- `MaxStarts` bounds transactions, not steps. Each race takes two or
  three transactions that overlap, plus one or two that set it up (a reservation, a first
  dispatch); two sessions suffice because each conflict is between a holder and a waiter,
  and the proofs below hold for any number. The calls are a fixed set, chosen so that
  keys are shared, stolen and retried.
- `MaxCalls` of `InvPlanning` bounds calls. Violating a promise takes two reservations, or a
  reservation and a movement, and the calls that clear the way: the mutants are caught within four.
  `MaxTime` is 3: an early window `<<1, 2>>`, a late one `<<2, 3>>`, and the instant before
  both; returns and transfers fall before, on and after the edge the two share. `MaxMove` 2 spreads
  a quantity over rows.
- `MaxLines` of `InvLedger` bounds the ledger: an over-correction takes two receipts and two corrections, a count
  that meets a movement two lines. `MaxPieces` 1 is what one call brings, counts or states, `MaxTaken` 2 what
  one call takes, so that taking spreads over the usable and the held row.
- `InvUnits` bounds nothing but the dates (`MaxTime` 3, as in `InvPlanning`; the kit run has none,
  since no reservation takes part). One unit is enough for what is said of a unit; kits need a second thing to hold.
- `MaxCalls` of `AccountAdmin` bounds actions and assigned roles, not steps or failures: a suspension
  and a restoration of one account with two mutual revocations and a new grant take five.
- `RecoveryLeave`: two credits of different amounts and days, so that one lapses before the other;
  two requests compete for them, one falls back to its own ledger; two sweeps may
  overlap each other and the decisions. `MaxRows` bounds the rows when somebody calls (a
  sweep adds more): a credit, a redemption and what overtakes it. With 4 the run passes too.
- `AnnualLeave`: half months from 0, a January. The hire in mid-October crosses two years' ends by the
  second date, and the contract of April may be added before or after it is read; one run
  and one termination, two runs, or two terminations may overlap (`MaxOpen` 2).
- `RecoveryWindows`: with a rest of 1 two sessions make one period, two, or two that a correction joins;
  with a rest of 2 and a window of 3 a period runs on into a second window.
  `MaxEdits` bounds sessions and corrections together (a missing shift is both): one correction is enough to supersede a
  period or reopen a window, two change a difference before it was decided. No run of the engine fails within
  these bounds (see "Approved on stale rows"), so what is said of failed runs rests on the proofs, and `EarnedIsRequested`
  is checked of employees whose runs succeed.
- `ProjectBudget`: two requests are the original and an addition, or a return and its revision;
  two submissions a return and its revision. `MaxChanges` bounds what corrects (returns, rejections,
  discards, reversals, reopening) and what changes people: two are a return and a
  change of manager, or a change of access between submission and closing. The first
  manager is the Finance person, so that both routes occur.
- `CHECK_DEADLOCK FALSE` in all runs: a behaviour stops when its transactions, calls or days are
  used up, and people may also simply stop calling. Waiting in a circle is what `EveryCallEnds` is about.

### Fairness

- `InvSessions`: weak fairness of `Step(s)` for each session: a statement that was sent and whose
  lock is free is executed, and Postgres's deadlock detector fails one of the members of a cycle.
  Nobody is obliged to start a call, connections need not drop, no reply need arrive. Weak fairness
  is enough because a lock is only ever held by a transaction that is itself obliged to end.
- `RecoveryLeave`: transactions end and days pass; the sweep is started every night
  (`vercel.json`), and a sweep that is started again and again is not lost every time (strong fairness:
  it may be lost any finite number of times). `UnusedLapses` needs nothing of people, who may stop.
- `AnnualLeave`: the accrual is started every month, and is not lost, nor do its queries fail, every time (strong fairness); the actions of HR
  end; dates pass. No fairness is asked of HR: the property speaks of an employee HR
  keeps active with data that decide the entitlement.
- `RecoveryWindows`: a recalculation that has begun ends (`RunEnded`); the processor runs again and again (every five minutes,
  and daily as a safety net). Employees need not clock out nor HR decide anything.
- `AccountAdmin`, `InvPlanning`, `InvLedger`, `InvUnits` and `ProjectBudget` have safety properties only: every step is
  somebody's call, and nobody has to make one.

### Mutants

Each property of each passing run is paired in `PROJECT.json` with a changed definition
(operators named `Mut…`, next to the original) that it catches: an item read without its lock, a key looked
up instead of claimed, a status refresh that covers only the named request, a sweep whose pool
forgets what already lapsed, a fraction read at the end of its period, a reversal that does not
reopen the request, a new holder added to the HR register with the old one kept, a settlement that goes the way its expenses went.

## 4. What is proved

Each theorem holds for every value of the constants that satisfies the assumptions of its module, which
the runs evaluate: any number of sessions, requests, units, people and rows, any bounds. Every
proof has the same shape: an inductive invariant, one lemma for each action or kind of step, and facts about
the data the step changes. The theorems named below are listed in `PROJECT.json` with the
property each of them states.

### Sums

Many of the properties compare a balance with a sum over rows. The models write such sums with
the folds of the community modules, which remove elements in an order of their own. `SumTheorems` proves
what is needed of them: a sum exists, does not depend on that order, splits off an element,
adds up over disjoint sets, changes by what one element changes, is the same after
renaming, and is at most the sum over sets that cover every element that counts. It also says what is left of
a sequence that loses an element, which is how the models keep the runs that are under way. The prover has no induction over sets; the proofs look at a smallest set for which the claim fails,
which the library says exists below a finite set, and the same way at a smallest number (`NumberInduction`).

### InvSessions: locks and keys

`InvSessions_proofs` proves:

| Theorem | Says |
|---|---|
| `TypesHold` | `Spec => []TypeOK` |
| `LocksHold` | no two sessions hold conflicting locks |
| `KeysHold` | a key has a movement exactly when the ledger has its call in that place |
| `ProtocolMovesOnce` | `Spec => MovesOnce`: the protocol implements `InvOnce` |

The assumptions are `CallsAreTyped` and `RequestData` of `InvSessions`. The argument is the inductive invariant

    IInv == TypeOK /\ CallsAreReal /\ LocksExclude /\ KeysAreClaimed /\ KeysMatchLedger

`MovesOnce` is about the ledger alone, and a commit appends without looking at it, so
nothing about it is inductive by itself. `KeysMatchLedger` ties the ledger to the
idempotency table. A commit keeps that tie only if its own key is still unused *at that
moment*: `KeysAreClaimed` says a transaction either has its key still to claim or holds
its lock and the key is unused. That survives another session's commit because of
`LocksExclude` (two holders of one key cannot exist), and the commit itself is possible
only with nothing left to claim (`CallsAreReal`). The refinement maps a commit to
`Record`, a claim of a used key to `Replay` or `Refuse`, refusals and victims to `Refuse`,
and everything else to a stutter.

### InvSessions: rows, answers and stock

The second half of `InvSessions_proofs` proves, on top of the above:

| Theorem | Says |
|---|---|
| `StatusIsTrue` | `Spec => []StatusFollowsGoods` |
| `OnlyLiveServed` | `Spec => OnlyLiveRequestsServed` |
| `RetriesAreAnswered` | `Spec => RetryIsAnswered` |
| `PromisesAreCovered` | `Spec => []PromisesOnShelf` |

What a call checks is true when it looks; the theorems need it when the call commits. `LocksCovered`
says which locks a call holds at each stage, with the exceptions of the code: rows that a return or a hand-over
passes over because they are not open (`MayPass`), and what a date change does not read. With `LocksExclude`,
nobody else writes what is covered, so that `DecidedIsLegal` (what was legal when the call looked is so until
it commits) and `FreeStays` (a free piece that was seen is still there) survive the steps of others. `PromisesOnShelf` is
then a sum: the slack of an item, its shelf less what is reserved and not yet out, is never below zero,
and a commit lowers it by one only if `FreeStays` speaks of that piece. `IsFiniteSet(Requests)` is assumed for it.
`RetryIsAnswered` needs that a locked key is unused (`HeldKeysAreNew`).

### InvLedger

The first half of `InvStock_proofs` proves:

| Theorem | Says |
|---|---|
| `StockIsSound` | `Spec => []StockSound`: types, and the books agree |
| `OpeningsFirst` | `Spec => []OpeningIsFirst` |
| `NothingReversed` | `Spec => []NeverReversed` |
| `CountsDecide` | `Spec => CountDecides` |

Bins are assumed to be finite in number. A call that takes from several rows and a count that is confirmed write many
lines in one step, so the invariant is one of a *book* rather than of a state: `Sound(b)`. `Posting` shows that one line
written into a sound book leaves it sound; `TakeKeeps` and `ConfirmBook` follow the
lines of a call one after another. A book is sound when its rows agree with its lines and

- `Seen`: a row that goods were brought to is verified, which is what `inv_confirm_count` looks at before it adds
  opening stock, and why the check is repeated for each line of the count;
- `Shaped`: a correction names a line that is not one itself, and moves goods between
  the row of that line and the place the code chooses by its sign;
- `Kept`: what a line stands for after its corrections is not negative.

`Kept` is what `NeverReversed` comes from: the corrections of a line are of two kinds, those that
raise it and those that lower it, and on its row the two are what goes one way and the other. While a withdrawal
goes on, `TakeKeeps` adds that the rows still to give hold what they held, because the goods go to
none of these rows; without it, a condition check from one row to another could take what is no longer there.

### InvPlanning

The second half of `InvStock_proofs` proves, from `PlanningData` (projects finite in number, lines in some order, quantities
asked for positive, windows that begin before they end):

| Theorem | Says |
|---|---|
| `PlanningTyped` | `PlanningSpec => []PlanningTypeOK` |
| `RowsAgreeAlways` | `PlanningSpec => []RowsAgree` |
| `StatusTrueAlways` | `PlanningSpec => []StatusTrue` |
| `ReservationsAlwaysFit` | `PlanningSpec => ReservationsFit` |
| `NothingIsDisplaced` | `PlanningSpec => NothingDisplaced` |

The inductive invariant is `PlanInv`: types of the places (`PlacesOK`) and of the plans (`PlansOK`), and `Agree`, which is
what `RowsAgree` and `StatusTrue` say and one thing more, `SettledRows`: a row of a project
that is done has everything back. Without it a return of a project could be credited to less than
what is out, since `inv_reservation_return` passes over rows that are done, and "outstanding" would no longer be
what the project still has. The argument has three layers:

- *Any table of rows.* Taking, giving back, cutting and rescheduling are each described by what they do to every row
  (`TookIs`, `GaveBackIs`, `ReleasedIs`, `MoveLinesIs`). `SpreadIs` is the loop they share: pieces handed to the rows in
  order, at most the room of each, all of them if there is room.
- *Sums.* Per line and per project, what is reserved, out and back moves by what was taken or given
  (`TookSums`, `GaveBackSums`, `LongerSums`). `Grown` collects what no call does to a row: more reserved, less out, less back, another line.
- *Calls.* Each call grows the rows it finds and may add one, closes lines, and takes statuses anew: `RowsKeep`,
  `RefreshKeeps` and `CancelCallKeeps` keep `Agree` through that, and one lemma per call (`ReserveKeeps`, `HandOverKeeps`, ...)
  applies them.

For `ReservationsFit` and `NothingDisplaced` the sum of `inv_qty_free` over a *range* is compared with the demand at an
*instant*: every row that wants the item at an instant of the range overlaps the range, and what is recorded to come back
by its start is there at each of its instants (`LeftCovers`).

### InvUnits

`InvUnits_proofs` proves, with the assumption `UnitData` (`None` is not a unit, among others):

| Theorem | Says |
|---|---|
| `RecordsFollow` | `Spec => []UnitsSound` |
| `ChecklistsHold` | `Spec => []PackedOnList` |
| `KitsOpen` | `Spec => []NothingStranded` |
| `BookingsHold` | `Spec => []BookedComesBack` |

The invariant adds that a unit not yet registered is nowhere and has no ledger line, that promised units are in use or were, and that
a count says where. There are about thirty actions, and most do one of five things to one unit: enter it, shelve it, send
it out, open it or drop it (`Moves`). That each action is of one of these kinds is one set of lemmas, that the kinds keep the invariant another; the
actions on kits and reservations are treated one by one.

### RecoveryLeave

The first part of `Recovery_proofs` proves:

| Theorem | Says |
|---|---|
| `RecoveryTypes` | `Spec => []TypeOK` |
| `ReadingsAgree` | `Spec => []AvailableIsBalance` |
| `RowsAreBacked` | `Spec => []RowsBacked` |
| `SpendsWhatIsThere` | `Spec => OverdrawnOnlyBySweep` |
| `SweepsAreExact` | `InTime => (Spec => SweepIsExact)` |

The first part is about any ledger. What the first-in-first-out pool of the sweep leaves of each earned row is
computed row by row; that its total is the balance, or nothing when the balance is negative, is a fact about the
prefixes of the order in which rows are used up.
The second part says what a transaction that waits to write still knows (`Held`): one at a time
holds the lock of the employee, and all that was written since it read is rows that lapsed. Hence a decision behind which
nothing was posted reads the ledger as it is, which is what `SpendsWhatIsThere` rests on. `Marked`
(a row that lapsed names an earned row, never twice and never for more than it gave), `Credited` (one active row while a
request is approved, none otherwise) and `LeaveBooked` give the parts of `RowsBacked`.

`SweepsAreExact` needs more, because a run may post what it computed days ago, behind other runs and behind decisions:

    Timed == Inv /\ Covered /\ AllDated /\ Timely

`Covered` says that an earned row that an expiry names has lapsed and that the pool has used it up, with
all rows used up before it. `AllDated` says of a run that waits that what was earned since it read
lapses after its day, and `Timely` that a credit on its way to the ledger has not lapsed. `SweepCovers` is the
fact behind it: however late a run posts, the pool afterwards covers all that is due on its day. From it, `FreshTakes`
computes what a run takes when nothing was written since it read. The hypothesis `InTime` is the scheduling assumption
of section 2, and both runs set it. It is needed: without it TLC finds `SweepIsExact` violated, because a credit
approved after it should have lapsed takes a place in the order before one that has lapsed in part.

### RecoveryWindows

The second part of `Recovery_proofs` proves, for any rules the payload check accepts (the assumption of `RecoveryRules`), any rest days and
any number of sessions, corrections and instants, with and without decisions inside a run:

| Theorem | Says |
|---|---|
| `WindowsInvariant` | `WindowsSpec => []WindowsInv`, the inductive invariant |
| `WindowsTyped` | `WindowsSpec => []WindowsTypeOK`, which is proved and in no run |
| `PostedAlwaysEarned` | `WindowsSpec => PostedIsEarned`, for any number of corrections |
| `StrandedByOverlapOnly` | `WindowsSpec => StrandedOnlyByOverlap` |

The engine recomputes every period and window from the sessions each time, so the argument begins with the rules alone:
the start of the period an instant lies in, and the window of it, are unique; and as a running session grows (`Ages`) nothing that
is recorded of a closed window changes (`FactsAge`), because a window closes only once it is over or its period has
ended. Hence the rows of closed windows stay right between two runs although time passes. The invariant is

    WindowsInv == EvidenceOK /\ RowsOK /\ RequestsOK /\ CreditsOK /\ RunOK /\ CurrentOK

- `CurrentOK`: unless a run has failed, each live period starts where the evidence starts one, and a live
  window that is closed `Agrees` with the evidence. The exception is necessary (section 3, "Approved on stale rows").
- `RequestsOK` (`Orderly`): a window has at most one standing request of each kind, and one for a difference
  only after its own was approved. Approval of the window's own request therefore finds no credit
  posted, which is what makes the amount posted the entitlement and not an addition to one.
- `CreditsOK`: credit belongs to a window with an approved request of its own, and a reduction never takes more than is there.
- `RunOK`: what a run that waits to write read is still good for something, whatever was decided since: a window whose
  request it read as approved still has it, and the credit it read comes from approved requests it read.

`StrandedByOverlapOnly` is `RunOK` at the write: a window the run takes back had no approved request when the run read, or the run
fails; so its credit, if any, is newer than that.

### AnnualLeave

`AnnualLeave_proofs` proves, for any countries, contracts, dates and bounds that `AnnualAssumption` allows
(contracts and dates may be infinitely many):

| Theorem | Says |
|---|---|
| `LeaveIsSound` | `Spec => []LeaveSound` |
| `GrantsBounded` | `Spec => OvergrantOnlyByOverlap` |
| `TrueUpsExact` | `Spec => TrueUpExact` |

The invariant is

    IInv == TypeOK /\ IsFiniteSet(contracts) /\ Referring(ledger) /\ Settled /\ RunsHold /\ CallsHold

The two action properties are about the moment a run or a true-up writes, and what it writes was computed from an older
reading. `RunHolds` and `CallHolds` say what is left of that reading meanwhile: unless a contract was added, a settlement
written or (of a true-up) an accrual, what was computed is still owed; a run whose month was accrued by another
will be refused by the unique key. Rows and contracts are only added, which is why their numbers date a reading
(`Readable`: no reading is newer than the present). A row of leave taken, restored or adjusted leaves the grants
alone: `Referring` (a reversal names a deduction that is there) is what makes this true of reversals, since a
reversal of a grant would count as one. `Settled` (a settlement has its marker) keeps the settlement unique in `TypeOK`, and rules
out for the true-up that does write that another one did since it read.

`LeaveSound` also holds `ConstantFte` against its meaning day by day. `ConstantFte` is the closed form of what the loop of
`resolveConstantFteForInterval` over the contracts in order returns; the loop and its cursor are not modelled. `FractionIs`
proves the two equal for every history without two contracts of one date and every period: if the fractions of the contracts that
start within it and of the one in force at its first day agree, every day of it has that fraction,
and otherwise the first day of one that differs is a day with another.

### ProjectBudget

`ProjectBudget_proofs` proves:

| Theorem | Says |
|---|---|
| `SettledIsEven` | `Spec => []BudgetSound` |
| `RowsAreShown` | `Spec => HiddenOnlyWhenAdded` |
| `AnotherCloses` | `Spec => ClosedByAnother` |

The money of a person is entered by the line and by the entry, in any order, while submissions are returned and revised;
a closed settlement is even because closing asks for it and nothing that changes either side is possible
while it is closed. What makes this inductive is `InHandIsLast`: every submission of final expenses but the last was returned,
so that the one the settlement was closed on is the one in hand. `Settled` says what a closed settlement
holds, that no request is waiting included, since an approval would add to what must be accounted for.

### AccountAdmin

`AccountAdmin_proofs` proves, for any people, administrators and actions, with the
assumption `AccountData` of the module, which the runs evaluate:

| Theorem | Says |
|---|---|
| `GrantStays` | `Spec => []GrantRemains` |
| `LeansToLessAccess` | `OneKeeper /\ ~UnbanReplyLost => (Spec => []LessAccess)` |
| `ReportsAgree` | `OneKeeper /\ ~UnbanReplyLost => (Spec => SuccessAgrees)` |

`GrantRemains` alone is not inductive: a revocation that was found legal commits later.
The invariant adds `RevocationsSpare` (whoever has decided to revoke leaves somebody else's
grant) and `LocksExclude` (only one such decision stands at a time, so nobody else takes
the grant it counts on).

For the other two, `Fence` says when the sign-in block stands: during a
restoration until its last call, and from the block of a suspension until its commit; it is
only lifted from an account that is active. `OneKeeper` (the status of an account is
changed by one administrator) keeps a second action from moving either half meanwhile.
Both assumptions are necessary: two administrators on one account break the first, a lost
reply the second (section 3).

### Only model-checked

- Liveness: `EveryCallEnds`, `UnusedLapses`, `GrantedInTime` and `EarnedIsRequested`. The prover has no rule for fairness
  of this kind, nor for `ENABLED`.
- `DifferenceInLine`: what a run leaves among the requests of a window, on the instance of the run.
- `AdminRemains`, `CancelServed` and the properties named under "Found, not kept as a run" do not hold.

## 5. Plan

1. Proofs. Of `LeaveRules`: entitlement grows with the date.
   That an active administrator remains when both functions of `AccountAdmin` take one lock.
2. **Approvals**: the step walk, self-approval, decide, cancel and reassign, with their two
   lock orders; one outcome per request.
3. The times at which waiting transactions began (the ledger is ordered by them), on top of
   `InvSessions`; quantity contents of kits in `InvUnits`.
4. The founders of the module grants (`20261215000000`: a count with no lock around it), the CRM
   handover, employee records (contracts and compensation versions that insert the new row and
   then retire the old one in two calls, documents whose file and row are written apart).

## 6. Not modelled

- Page rendering, forms, exports, PDF and e-mail, generated types, the text of row-level security
  and storage rules: no state machine of their own. Most of the TypeScript is of this kind: it
  validates a form and calls one function, while the rules live in the SQL. The definitions here
  therefore map to much of the migrations that hold state and to little of the TypeScript by size.
- Payroll arithmetic, end of service, social insurance, appraisal scores: pure functions without a
  state behind them, tested beside their source.
- The parts of modelled components that the simplifications of section 2 name.

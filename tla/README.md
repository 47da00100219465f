# A TLA+ model of Savvy CRM

Savvy CRM is a multi-tenant CRM for roofing contractors: it takes leads in, books
inspections, prices and signs estimates, runs the production of the job, and bills and
dunns the homeowner. This directory holds TLA+ modules translated from its TypeScript,
the TLC configurations that check them on small instances, and TLAPS proofs of the
results that matter most. Paths below are relative to the root of the repository.

Contents: [1 the system](#1-the-system), [2 how the modules are written](#2-how-the-modules-are-written),
[3 modules and code](#3-modules-and-code), [4 runs](#4-runs-and-bounds), [5 fairness](#5-fairness),
[6 proofs](#6-what-is-proved), [7 divergences](#7-where-the-repository-says-otherwise),
[8 not modelled](#8-what-is-not-modelled), [9 plan](#9-plan).

## 1. The system

### 1.1 How it executes

* **Lifecycle functions** (`packages/db/src/lifecycle`, about 110 files) hold the business
  operations. Each opens one or more `withTenant` transactions: a READ COMMITTED Postgres
  transaction with the tenant's row-level security. The code takes no `FOR UPDATE` lock and
  raises no isolation level; `sendInvoice` is the only one with an advisory lock. A check
  followed by a write in one transaction is therefore *not* atomic: the row may change in
  between. What protects a rule is a conditional `UPDATE ... WHERE status = ...`, a unique
  index, or an exclusion constraint, where there is one.
* **Agent functions** (`packages/agents/src/functions`, about 65 files) are Inngest durable
  functions started by an event or a schedule. Each `step.run` is retried until it succeeds or
  its attempts run out, and its result is memoised; what happens inside a step that fails half
  way happens again. `cancelOn` stops a run at a step boundary.
* **Web actions and webhook routes** (`apps/web`) call the lifecycle functions and then emit an
  event with a best-effort `inngest.send`: after the commit, so an event can be lost and a
  transaction that did nothing can be announced.
* **Pure logic** (`packages/core`) computes schedules, prices, scores, gates and stage evidence.
* **The orchestrator** (`packages/orchestrator`) drives a per-job task graph and escalations.

### 1.2 Components

| Component | State | Operations | What is hard | What makes it correct |
|---|---|---|---|---|
| Invoices, Stripe payments | `invoice`, `payment`, advisory lock, Checkout sessions | create, send, void, depreciation send, checkout, reconcile | numbering under concurrency; duplicate and reordered webhooks | gapless permanent numbers; a charge recorded once; paid only on settled money |
| Dunning | durable runs, `communication`, `invoice.status` | four reminders, the last flips to overdue | a payment racing the flip, retries, two runs of one invoice | no chase after settlement beyond the step in flight; no false log; nobody forgotten |
| Change orders | `change_order`, `job.value_final`, supplemental invoice | price, sign, apply, bill, enrol in dunning | a failure between the steps of the billing chain | what is billed is what was signed and added, once |
| Estimate acceptance | `estimate`, DocuSeal and Stripe artifacts | begin, send for signature, sign, deposit, announce | the two halves arrive in any order, twice | no acceptance without both halves, and none missed |
| Estimate conversion | `job`, `lead`, `estimate.job_id` | accept, convert, backfill, advance, stop drips | retries beside a conversion by hand | a lead is won with its job; open tasks hold it back |
| Job stages, commissions | `job.stage`, evidence tables, `commission` | advance, drag, lose, record, pay out | checks and writes that are not atomic | a stage is earned; money paid out is final |
| Task health | `job_task`, `verification_run`, `task_health`, `task_exception` | check, judge, score, reconcile, page | four transactions and a retry around them | green is earned; wrong work is red; a page to the owner is tried |
| Job and lead ledgers | `job_task`, `lead_task` | instantiate, complete, tick, judge | rows that block each other | open work is always visible |
| QuickBooks sync | `qbo_id` columns, documents in QBO | ensure customer and invoice, push payment | a call inside a transaction | rows and documents refer to what exists; a paid invoice is booked |
| Referral fees | `referral_payment`, approval card | record, approve | two paid invoices, a moving threshold | one payable, approved by a person when large |
| Marketing drips | `drip_enrollment`, runs, idempotency keys | enroll, send, stop, complete | a stop racing a send, repeated steps | one active enrollment; a stop is final |
| Lead intake, assignment | `lead.status`, `lead.assigned_user_id` | qualify, assign, acknowledge | a conversion or a claim beside the run, repeated steps | a closed lead stays closed; one acknowledgment |
| Speed to lead, cadence, voice fallback | durable timers, `agent_run` rows | alert, watch, reassign, text, call | a timer racing the first contact or the opt-out | a contacted lead is left alone but for the step under way; an overdue one is escalated |
| Orchestrator | event table, escalations, exception queue, task graph | publish, escalate, queue | a death between insert and escalation | an event is known before it is raised, raised once, and queued only if raised |
| Agent runs | `agent_run` | begin, complete, reap | the reaper against a late completion; a row whose process died | no row runs for ever; an end stands, but for the reaper's |
| Appointments | `appointment`, its exclusion constraint, the external calendar | book, move, reassign, cancel, close, remind, sync | events late, lost or out of order beside runs that loaded the row | no crew in two places; touches on the day the row has; the calendar shows it |
| No-shows and weather | the nightly run, the no-show text | evaluate, move, announce; text, re-enroll | the office booking beside the run; a death after a move | one text per no-show; every move is announced or known lost |
| Telephony | calls, text-back | answer, miss, text back | double replies | one reply per missed call |
| Repair credits | `repair_credit`, `estimate.line_items`, `relationship_touch`, `checkin_log` | issue, re-price, apply, expire, check in | re-prices, retries and overlapping applies by id alone; a sweep that dies between text and log | a credit comes off one estimate, once, and stays there; each check-in runs, once |
| Certificate requests | `cert_request`, its invoice, `booking_link`, `partner_ledger_entry` | book, decline, inspect, sweep, deliver | a sweep that dies between an invoice, its stamp and its sending; bookings and declines by id alone beside it | what is delivered is complete, billed once but for deaths, and a decline stands |
| Supplier invoices, price guard | `supplier_invoice`, `credit_request`, `job.cost_cents`, `material_return` | ingest, parse, match, sum, guard, claim, recover, reconcile | errors swallowed and steps repeated around an e-mail and a claim; sums overtaken by bills and orders; a claim inside a transaction that is not its own | a cost is what was billed; a claim has its e-mail; a memo settles one claim; a leftover is claimed once |
| Inspections, memberships | own tables | request, approve | approval twice | one decision |
| Canvassing | doors, spiffs, points | knock, score, contract | offline replays | a knock counts once |
| Core algorithms | none | scheduling, pricing, evidence, gates | boundaries | |
| Web pages, UI, read models, AI tools | none of the business | queries, rendering, prompts | nothing a model checker reaches | |

**How they interact.** Accepting an estimate (`estimate/accepted`) converts the lead,
advances the job and stops the drips. A sent invoice (`invoice/sent`) starts dunning and the
QuickBooks push; a paid one (`invoice/paid`) cancels dunning, pushes the payment, records the
commission and the referral fee, and advances the stage. A signed change order
(`change_order/accepted`) drafts an invoice, sends it and starts dunning. Everything else they
share is rows. A new lead (`lead/created`) starts intake, speed to lead and the cadence, which
`lead/contacted` and `lead/disqualified` cancel; an act on an appointment
(`appointment/booked`, `appointment/changed`) starts its reminders, its calendar run and, for a
no-show, the text, and cancels the reminders planned before. The rows: the status of an invoice, the stage of a job, the rows of its ledger.
`PROJECT.json` lists every component, with the files it consists of, and every hazard at its line.

## 2. How the modules are written

* **One transaction is one step only where the code makes it one.** Under READ COMMITTED a
  statement sees what is committed when it starts. A transaction that writes what an earlier
  read of its own decided is split there, and keeps what it read in its process record
  (`pc`, `seen`, ...). The last write and the COMMIT are one step: nobody sees the write
  sooner. An `UPDATE ... WHERE` re-evaluates its condition on the committed row, so the
  condition is evaluated in the step that writes. A unique index makes a second INSERT of its
  key wait for an uncommitted first one, and fail or do nothing on a committed one.
* **A durable function is a program counter** that moves through its steps. An action
  (`StepFails`, `SweepFails`, `AttemptFails`, `ConversionFails`, `Die`) returns it to where Inngest would begin again (`Restart`), counts the
  attempt, and gives up when they run out. Modules where it matters distinguish the COMMIT from
  the moment Inngest records the result: a step that dies between them is repeated on rows it
  wrote itself.
* **An event is a member of a set** that is there or, where the code catches the error of
  `inngest.send`, is not. Whatever was emitted may be consumed at any later time, in any order.
* **The outside world** (Stripe, DocuSeal, QuickBooks, homeowners, the office) is modelled from
  how the code uses it, as actions marked external in `PROJECT.json`.
* **A cast** (`Deliveries`, `Casts`, `MCSpec`) says who takes part in a behaviour: which functions
  run, and how many acts of people come beside. A run of TLC checks several casts at once, where
  one in which everybody takes part would be too large, and each cast is a question of its own.
* **History** is kept in process records (`late`, `logged`, `left`, `held`, ...) or in variables
  marked *(history)*; no guard of an action of the program reads one.
* **Operators with a name that ends in `Bug`** (and `LastStepShort`, `ComputeRed`), marked
  *mutant*, are not part of any model. Each is what a plausible mistake in the code would make
  of the definition below it. Replacing that definition by it makes TLC report the property
  named in `PROJECT.json`: it shows that the property can fail, and depends on that line.
* **Bounds.** A set of processes (`Senders`, `Runs`, `Hooks`, `Movers`, ...) bounds how often an
  operation is called: each member is one call. `MaxAttempts` and `MaxTries` are Inngest's
  retry limit and so not a bound of the model but a small value of a parameter.
  `MaxFailures`, `MaxDeaths` and `MaxStops` bound how many failures, deaths and stop requests
  happen in one behaviour; modules without one let every attempt fail.

## 3. Modules and code

`PROJECT.json` maps each definition to its file and lines. Here is how each module's state and
actions correspond to the code, and what its abstraction leaves out.

### Invoicing, ChargeLedger (with InvoicingProofs; its instance is MCDunning)

Source: `packages/db/src/lifecycle/invoices.ts`, `depreciation-recovery.ts`,
`apps/web/src/lib/finance-actions.ts`, the Stripe webhook route.

`invoice` and `payments` are tables; `deliveryDone` stands for the `INVOICE_DELIVERY` rows;
`numberLock` is `pg_advisory_xact_lock`; `session` is Stripe's side of Checkout; `sending`,
`approving` and `webhook` are the calls in flight; `emitted` is what reached the event bus.
`sendInvoice` is `BeginSend`, `TakeNumberLock`, `CountNumbered`, `AssignNumber`, `EmitSent`: the
lock is a statement, the count is a second, the conditional UPDATE with the delivery task and
the COMMIT the third. `SendCrashes` drops the process at any of them; Postgres rolls back and
releases the lock. `sendDepreciationInvoice` reads the status, then updates by id alone.
`recordStripePayment` is `CheckDuplicate`, `InsertPayment`, `WritePayment`, `EmitPaid`, with
`DeliveryFails`. Both errors and lost races are caught by the route and answered 200.

`ChargeLedger` is the promise, with no webhook in it: a charge settles once, is entered at most
once and for its own invoice and amount, and an invoice is announced as paid only on an entry.
`ImplementsLedger` is the refinement: `settled <- SettledCharges`, `entries <- payments`,
`announced <-` the `invoice/paid` events on the bus.

Left out: creation from an estimate (the same INSERT), credit memos' sign, amounts other than
the full one (Checkout is always for the amount due), the membership branch of the route.

### Dunning (with MCDunning, InvoicingProofs), EXTENDS Invoicing

Source: `packages/agents/src/functions/dunning.ts`, `packages/core/src/dunning.ts`.

`run` is the durable function: `load`, `wait`, `check`, then `sendDunningStep` in its three
phases: read (and flip to overdue), send, log. `seen` is the set of cancelling events that came
before the run began, which `cancelOn` does not see. Every action of Invoicing goes on beside
it, so the writers that race the flip are the real ones. The send's outcome is
nondeterministic per channel: an e-mail error is swallowed, an SMS error is thrown and retried.
`revived` *(history)* counts how often an invoice that was paid or void became owed again, which
the writes by id alone of the checkout and of a depreciation invoice can do; each time the run may
be late once more.
Left out: the wording, the quiet-hours shift of the wake-up, the addresses.

### ChangeOrders (with MCBilling, BillingProofs)

Source: `packages/db/src/lifecycle/change-order.ts`,
`packages/agents/src/functions/change-order.ts`, `apps/web/src/lib/change-order-actions.ts`,
the DocuSeal route.

`order`, `supplement` and `valueFinal` are rows; `signing` the DocuSeal submissions;
`delivery` the webhook calls; `run` the function with its steps *apply*, *auto-send-invoice* and
*enroll-dunning*. `ApplyRead` reads `applied`, `ApplyWrite` adds to the contract value in SQL,
drafts the invoice (none for a credit) and commits; the two are separate because nothing locks
the row between them. In the second step, numbering the invoice, creating the checkout and
storing it are separate, and the retry that finds the invoice sent already skips pay link and
dunning: the one gap the code's own comment admits, and `GapOnlyAfterFailure` says it is the only
one (a conjunct of `ChangeOrdersInv`). The number is `Invoicing`'s business; here being numbered is counted.

### EstimateAccept, EstimateConversion EXTENDS EstimateAccept (with MCEstimate, JobProofs)

Source: `packages/db/src/lifecycle/estimate-accept.ts`, `packages/core/src/acceptance-gate.ts`,
`packages/agents/src/functions/estimate-sign.ts`, both webhook routes;
`packages/db/src/lifecycle/appointments.ts` (`convertLeadToJob`), `record-stage-change.ts`.

`estimate` is the row, `begin` a call of `beginEstimateAcceptance` (read, mint a submission, mint
a session, store), `send` the rep's `createEstimateSubmission`, `submission` and `checkout` the
outside artifacts, `hook` a webhook delivery: stamp, then read again and look at the gate, then
announce. `accepted` is the set of hooks whose `estimate/accepted` reached the bus.
EstimateConversion starts a run for each: mark accepted, find or insert the job, backfill,
advance, stop the follow-ups; `manual` is a conversion by hand with a reason. The documents,
claims and checklists carried to the job are left out, and so are tiers and colours.

### JobStages (with MCJob, JobProofs)

Source: `packages/db/src/lifecycle/record-stage-change.ts`, `advance-stage.ts`, `commission.ts`,
`apps/web/src/lib/job-actions.ts`, the functions that advance a stage on a signal.

Stages are 0..8 in the order of `JOB_STAGE`. `evidence[k]` is whether the rows that gate `k`
asks for exist now, `held[k]` *(history)* whether they ever did. A mover reads first (the
`advance...` wrappers skip what is not ahead), reads again and checks the gates inside
`recordStageChange`, and updates by job id alone. Losing the job charges pending commissions
back in the same transaction; `recordCommission` runs beside it. Left out: due dates, audit
rows, amounts; a missing document is one of the ways a move fails.

### TaskHealth, TaskLedger (with MCJob, JobProofs)

Source: `packages/agents/src/health-sweep.ts`, `break-glass.ts`,
`packages/db/src/lifecycle/task-health.ts`, `packages/core/src/task-health.ts`,
`packages/core/src/verification/builders.ts`; `packages/db/src/lifecycle/job-tasks.ts`,
`lead-tasks.ts`, `packages/core/src/job-ledger-view.ts`.

TaskHealth is one task with a bound check: `Begin`, `Check`, `Record`, `SelectDone`,
`UpdateRows`, `Recompute`, `Reconcile`, `Page`, `Mark`, each a transaction, all of them one
Inngest step that starts again from the check when one fails (`SweepFails`). `wrong` is what the
world makes of the rows' evidence, and changes at any time. The trailing fails are counted to
the two that matter, the streak to `GreenStreak`. An exception breaks the glass by the dollars of
its rows (`DollarsReached`) or by its check key (`forced`, fixed with the registry). `Paged` is an
attempt to page: it goes out, or it reaches nobody, because the SMS and the e-mail throw or there is
no contact or sender; the code cannot tell the two apart, and `Mark` does not ask.
The SLA branch of `computeTaskHealth` is left
out: an exception row past its SLA is an exception row, and those make the task red already.

TaskLedger is the ledger of one job (a lead's is the same code): `Configure` changes what
applies, `Instantiate` inserts rows with ON CONFLICT DO NOTHING, `MarkDone` unblocks the
siblings in its transaction, `Tick` does not, `Judge` is what the sweep does to a row.
`DependsOn` is a constant because the registry is seeded: today's seeds leave it empty, and
`depends_on` is read by the code as shown here.

### Books (with MCBooks, BooksProofs)

Source: `packages/agents/src/functions/qbo-sync.ts`. `stored` is the `qbo_id` of every row,
`books` what QuickBooks holds. Creating a document and committing its id are two steps;
the customer row stays locked from its update to the COMMIT, so a second run waits there.
QBO creates a document at every call. `missing` *(history)* counts the attempts that found a
row without an id.

### ReferralFees (with MCPromises, PromisesProofs)

Source: `packages/db/src/lifecycle/referral-payment.ts`,
`packages/agents/src/functions/referral-fee.ts`, `apps/web/src/lib/job-actions.ts`. The payable
and its card are inserted in one transaction on the unique index of the job. `Look`, `ReadSetting`
and `Insert` are statements of that READ COMMITTED transaction: the threshold may change between
any two, so a run keeps the `gate` it decided on, and `gated` *(history)* says of a row whether its fee was
over the threshold its own run read. `approving` is the button, `ToggleTask` the ordinary tick of
any checklist row.

### Drips (with MCDrips, DripsProofs)

Source: `packages/agents/src/functions/drip.ts`, `apps/web/src/lib/inbound-sms.ts`, the stop
actions, `estimate-sign.ts`. One customer, several drips. A run enrols, and for each step
sleeps, checks its enrollment, sends (`ReadCustomer`, `Transmit`, `Log`), publishes and
escalates. `published` holds the idempotency keys, which name the customer and the step.
`guardedSms` is called without quiet hours and so never defers; a throttled SMS is logged as
sent. `Stop` updates the rows and `SendStop` sends the event; `Convert` sends the event alone.
A run that dies after a COMMIT repeats the step on its own rows.

### LeadFollowUp EXTENDS DomainEvents, INSTANCE EscalationBoard (with MCLeadFollowUp, LeadFollowUpProofs)

Source: `packages/agents/src/functions/lead-intake.ts`, `lead-speed-to-lead.ts`,
`lead-cadence.ts`, `voice-fallback.ts`, `lead-assignment`, `packages/orchestrator/src/bridge.ts`,
`publish.ts`, and the lead actions of `apps/web`.

One new lead. `run` holds intake, speed to lead, the cadence and the voice runs an overdue lead
starts; `at` is the point inside a step where a transaction ended and the next has not begun
(a candidate picked and not yet written, an event inserted and not yet escalated). `EndsAs` ends a
step with its result recorded, or repeats it; `Swallow` is the `catch` around every bridge.
`starting` and `news` are events on their way, so a cancelling event may come before, during
or after the step it should have stopped. `late`, `out` and `unwanted` *(history)* count what
left, and when.

`DomainEvents` is the bus as `publishDomainEvent` writes it: the event row under its unique key,
the escalation, the exception of a person's queue, three transactions. `EscalationBoard` is the
promise about a key: known, then raised at most once, queued only if raised. `ImplementsBoard`
is the refinement (`known <- received`, `raised <- escalations`, `queued <- exceptions`).

Left out: intake's dedup by contact, scoring and the geography behind a candidate (any rep is one),
the wording, quiet hours other than as a reason to skip a call; the task graph of the orchestrator.

### Appointments (with MCAppointments, AppointmentsProofs)

Source: `packages/db/src/lifecycle/appointments.ts` and its exclusion constraint,
`apps/web/src/lib/scheduling-actions.ts`, `packages/agents/src/functions/appointment-reminders.ts`,
`homeowner-crew-notify.ts`, `appointment-calendar.ts`, `no-show-reschedule.ts`,
`weather-reschedule.ts`, `packages/core/src/weather-config.ts`.

`appt` is the table, for one crew or one assignee, with a slot a day; `Free` is the exclusion
constraint, part of every statement that schedules. An act of a person commits and then emits:
the two are one action here, so `mail` counts the events that are to be sent or were, and have yet to
arrive, and `lost` remembers the appointments of which one was not sent, or a run it started failed
for good. `known` is Inngest's deduplication by event id, which never expires here, as the comment at
`scheduling-actions.ts:84` takes for granted; `OneNoShowText` rests on it. `Deliver` takes any event
on its way, starts a run of every function it triggers and cancels the touches under way, those inside a step at its end.
Reminders and crew-day notices are alike here: load the row, then for each touch check and send.
The calendar run acts on the id it loaded, creates, patches or deletes, and stores the id it
made in a step of its own. The weather run is one step for the evaluation: it reads the rows, takes
one after the other, reads the crew's other days, moves; a death anywhere in it begins again with
rows it moved itself, and what it moved is announced by steps that come after. `Moved` is the
UPDATE that takes scheduled rows only, while the row counts as moved all the same.

Left out: the search for open slots, the licence and rescission checks of a booking, notices of a
weather move to crew and homeowner, reassignment to another person's calendar, the draft estimate
a completed inspection asks for, and the domain event a no-show is also bridged to (the bus is
DomainEvents). One forecast stands for all sites of the crew.

### AgentRuns, SupplierInvoices EXTENDS AgentRuns (with MCBooks, BooksProofs)

Source: `packages/db/src/lifecycle/agent-run.ts`, `packages/agents/src/functions/run-reaper.ts`;
`supplier-invoice.ts`, `credit-request.ts`, `material-order.ts`, `materials-reconcile.ts` of the
lifecycle, `packages/agents/src/functions/supplier-invoice-parse.ts`, `supplier-invoice-guard.ts`,
`packages/core/src/price-guard.ts`, `apps/web/src/lib/supplier-invoice-ingest.ts`,
`materials-actions.ts`, `material-actions.ts`.

`agentRun` is the sequence of rows in order of `started_at`; `work` a call of `withAgentRun`:
`Begin`, `WorkEnds`, `CloseRun` by id alone, or `CloseFails`, which after good work is caught as
an error of the work and after an error swallowed. `RecordWork` is Inngest's memo: a death before
it repeats the step with a row of its own. `Reap` closes those of the oldest rows that are running, in
one conditional UPDATE, whether somebody is still at work or not.

`invoice` is `supplier_invoice`; `parse[m]` the run of its parsing (`MatchJob`, `SaveParsed`,
then the three statements of `recomputeJobActualCost`: two sums and an UPDATE by id, and
`EmitParsed`); `parsed` the events on their way. `guard[g]` is a run of the price guard: a bill
goes `LoadInvoice`, `SaveGuarded`, then by what the gate and the amounts say `EmailSupplier`,
`CreateClaim` and the note of the run, or the gate's own note and a draft; a memo goes
`ListOpen`, `CreditClaim`. A member of `Desks` is the office entering a leftover. Both end in
`Reconcile`, `InsertReturn` (the unique key makes a second one wait), `ChaseReturn`, whose claim
commits by itself, and `CommitReturn`. `ParseThrows`, `GuardThrows`, `RecoverThrows` and
`ReconcileThrows` are what the handlers swallow, `ParseDies` and `GuardDies` what Inngest repeats.
`told`, `rolled`, `stale` and `late` *(history)* say which of the weaker statements leave what out.

Left out: which lines match and what clears a threshold (the set `Overbilled`, and a free choice of
send, defer or draft), amounts other than one bill, one order and a memo for any one claim, more than one
item left over of a job, several suppliers, the creation of an order, the prompt for leftovers
and its *none*, `setCreditRequestSent`, which nothing calls.

### RepairCredits, CreditCheckins EXTENDS RepairCredits (with MCPromises, PromisesProofs)

Source: `packages/db/src/lifecycle/repair-credit.ts`, `estimate.ts`, `relationship-touch.ts`,
`packages/agents/src/functions/inspection-live-build.ts`, `estimate-generate.ts`,
`repair-credit-sweep.ts`, `packages/core/src/touch-governor.ts`, `apps/web/src/lib/estimate-actions.ts`.

`estimate` keeps of `line_items` the credit lines only, `credit` is the table of one customer's
credits with their age in steps of a check-in. `handler` is a run of the live build, the finalizer
or the drafting function: `ReadRefresh` and `Reprice` (or `Create`) are the transaction of
`refreshLeadEstimateDraft`, `ReadLines`, `Pick` and `WriteApply` that of
`applyRepairCreditToEstimate`, whose two updates are by id. For an inspection the two are one
Inngest step, for an appointment two (`Again`). Media events of one inspection come one by one, as
`concurrency` says; the finalizer and the drafting function overlap with them. The other writers of
`line_items` are in `apps/web`: a page of the estimate editor (`EstimateEditor.tsx`,
`updateEstimateLineItemsAction`) keeps the lines it was opened with until it is loaded again and saves
those left of them by id, whatever the estimate has by then; `acceptUpsellAction` writes back, with one
more, the lines it read in its transaction. `Open` and `Save` are both, `editor` what was read.
`raced`, `repriced` and `edited` *(history)* name the credits the two weaker statements of `CreditsInv`
(a part of `PromisesInv`) leave out: applied beside another apply, lost to a re-price, lost to a save.

CreditCheckins adds the sweep: expire, list, and for each check-in schedule a touch, read the
customer, text, mark the touch, log. `Throws` is what its `catch` swallows, `Dies` repeats the
tenant's step. A storm check may displace the open touch (`Displace`), the office open and close
a claim dispute, the customer opt out.

Left out: prices and tiers, with them edits of a line's quantity or price, the making of upsell
suggestions, the inspection's findings, the other programs of the calendar
and with them the yearly cap, which a check-in passes in any case.

### CertRequests (with MCBilling, BillingProofs)

Source: `packages/db/src/lifecycle/cert-request.ts`, `packages/agents/src/functions/cert-sla-sweep.ts`,
`packages/db/src/schema/cert.ts`, `inspection.ts`, `inspection-approval.ts` and `partner-ledger.ts`.

`request` is the row with its stamps: the inspection, the job, the invoice and the code.
`bookCertRequest` is `BookRead`, `Appoint` and `StartInspection`, because it reads the status in one
transaction, books in a second and writes the row by id in a third; `declineCertRequest` is
`DeclineRead` and `DeclineWrite`. `certSweep` is the hourly function: `List` and `ReadInspections`
are its two reads, `todo`, `listed` and `found` what it keeps of them, `Mark` what it does to a row
that is not approved. A row that is approved goes through `deliverCertRequest`: `DeliverRow` reads
the row once, and the steps after it, each a transaction, look at the stamps *it read*. `SweepDies`
ends it between any two, `NoCode` when no free code is found. `past` *(history)* says of a
request which deaths and which overlapping acts its weaker properties leave out.

Left out: two sweeps at once, acts of the staff on the invoice of a certificate and
its number (Invoicing has both), the slots of the calendar (Appointments), what the homeowner's
page shows. A request is there from the start.

## 4. Runs and bounds

To check one: `tlc -config Dunning.cfg MCDunning.tla`. Every run finishes on two workers within three
minutes, most within one. A property named `...Inv` is the type invariant of its
module together with the smaller safety invariants of one subject, each a named conjunct with its
comment in the module; every other property stands alone.

| Run | Module, configuration | What is asked | Instance | States |
|---|---|---|---|---|
| dunning | MCDunning, Dunning.cfg | `InvoicingInv` (gapless numbers, no collision, what is paid was collected), `NumbersArePermanent`, `NobodyStarves` (`EverySendEnds` and `SettledReachesLedger`); `ImplementsLedger` of the webhook; `DunningInv`, `ChasedToTheEnd` | either two invoices, two numbered sends, a depreciation send, voids and deaths; or one invoice with its send, void, a Checkout session paid by card or bank, two deliveries and one run with three attempts a step; or one invoice voided and sent again as a depreciation invoice under a run | 242,197 |
| billing | MCBilling, Billing.cfg | `ChangeOrdersInv`, `AcceptedIsApplied`; `CertsInv`, `ApprovedIsDelivered` | one order, an addition or a credit, two deliveries, two runs, two attempts; or one certificate request booked twice and declined; or two booked once each; one death of the sweep | 311,268 |
| change_order_twice | ChangeOrders, ChangeOrdersTwice.cfg | the design's `AppliedOnce`, which TLC refutes (section 7) | one addition, two deliveries, two runs, one attempt | |
| estimate | MCEstimate, Estimate.cfg | `AcceptanceInv` (the gate and the conversion), `TasksGateConversion`, `AcceptanceConverts` | either two pages, a rep's send, two submissions, two sessions, three deliveries; or one page, two deliveries, two runs with two attempts and a conversion by hand | 392,000 |
| job | MCJob, Job.cfg | `StageIsEarned`, `PayoutsAreFinal`; `TasksInv` | either two movers of every kind and two recorders; or a chain of three tasks, two of them with a checkbox | 1,593,056 |
| task_health | TaskHealth, TaskHealth.cfg | `HealthInv`, `PageIsTried` | one row, by dollars or forced, a streak of two nights, two attempts a night, two failures, pages heard and unheard | 1,516,746 |
| books | MCBooks, Books.cfg | `BooksInv`, `PaidIsBooked`; `SuppliersInv`, `SuppliersSettle` | either two invoices of one customer, two runs and one failure, or one invoice and two; or two works, two attempts, two faults and the reaper; or, with one fault, two bills over the orders of two jobs, a bill and a memo under two guards, or a bill, a guard and the office with leftovers of two jobs | 191,542 |
| promises | MCPromises, Promises.cfg | `PayablesInv`, `ApprovalStands`, `FeeIsOwed`; `PromisesInv` (credits and check-ins), `CheckinsRun` | one job with two invoices, two runs, two taps, a threshold on either side of the fee; or one customer with two leads, two estimates, two credits, two handlers with two attempts, in four casts that each leave one of these out; or two credits of one lead, two handlers and one page or upsell; or one credit with two check-ins, one handler and the sweep with one fault | 624,692 |
| credit_lost | RepairCredits, RepairCreditsLost.cfg | the code's own `AppliedIsShown`, which TLC refutes (section 7) | one lead, one credit, two handlers, no failure, nobody at the editor | |
| drips | MCDrips, Drips.cfg | `DripsInv`, `StoppedSoon`, `StopIsFinal` | two runs of one drip or two, two steps (text, e-mail), one death, one stop | |
| leads | MCLeadFollowUp, LeadFollowUp.cfg | `LeadsInv`, `AtMostOneLateTouch`, `ClosedStaysClosed`, `ImplementsBoard`, `OverdueIsEscalated` | one lead, two reps, two touches; intake and speed to lead, or speed to lead and the cadence, beside one act of a person, or each alone beside two; one death or swallowed error; two overdue events | 553,383 |
| appointments | MCAppointments, Appointments.cfg | `ApptInv`, `AtMostOneLateReminder`, `StaleOnlyIfLost`, `CalendarAgrees`, `NewDayIsPlanned` | one install under its touches, its calendar run or its no-show text beside two or three acts; then the weather run beside the touches of one install, or beside the bookings of two; three days, two forecasts, one death or failed run | 358,081 |

**Why these bounds.** A race needs two parties: every operation that can race itself has two
callers (sends, deliveries, runs, movers, taps, pages), and those that only race others have
one. A retry needs a second attempt; the dunning run and the drips have a third, so that a step
can fail, be repeated and still have an attempt left, and every module but TaskHealth, Books and
Drips lets any attempt fail, so that giving up happens too. Numbers need two invoices to be able
to have a gap. Amounts matter only against the amount due, so all invoices are for 2 cents.
One lead and one act beside two runs are what a race of a run with a person needs; the two acts
beside a single run let a contact follow a claim, or an opt-out a contact. Of the appointments, two
acts let a second move overtake the first's run, three let a no-show be marked twice and a closed
row be closed again; the second install and the third day are what the weather run needs to find
a slot taken, taken meanwhile, or none. Of bills, two let a sum overtake another; two guards let a memo be settled beside a repeated claim;
two jobs let a match change. A drip of two steps has a step that is last and one that is not, on each channel. The number of
nights for green is 2 instead of 14, and the cap on reported violations 2 instead of 50: what
matters is one less and one more than either. Dunning's schedule is the real one, with four steps.
Of credits, two let the second be picked when the first is spent, two leads let two applies of one credit
overlap, one page or upsell can be opened before and saved after any step of either handler,
and two kinds of check-in instead of three let one be passed over for a later one.
Two change orders at once make 5.2 million states and more than five minutes, with the same
outcome, so the configuration has one. What two orders of one job share is the contract value
alone, and the two *runs* of one order write it as two orders would, each adding its own delta,
so `ValueIsSumOfDeltas` keeps its meaning; `Orders = {o1, o2}` in Billing.cfg checks the
larger instance. Of certificate requests, two bookings let a second one reopen what was declined or
delivered, and a second request lets the loop of the sweep go on after one that failed.

Symmetry is declared over sets of interchangeable processes, and only in configurations that
check no liveness. `CHECK_DEADLOCK FALSE` stands where the system may really be at rest: every
bounded call has been made. The other configurations have an action that is always possible.

## 5. Fairness

* **Inngest** runs the next step of a live run and ends its sleeps; failed attempts are counted,
  so weak fairness of a run's own steps (`RunStep`), against failures that are not fair and run
  out, is what the platform promises. `ChangeOrders` and `EstimateConversion` also assume that
  it starts a run for an event *it took*; an event the best-effort emit lost is not assumed
  back.
* **Leads.** `OverdueIsEscalated` assumes that Inngest goes on with speed to lead once it has begun,
  bridge steps included; nothing is assumed of the other runs or of people.
* **Appointments.** `NewDayIsPlanned` assumes that Inngest delivers what it has taken (for each
  appointment), goes on with every run, and with the weather run once a night has begun it.
  An event the best-effort emit lost is not assumed back: it is in `lost`.
* **Check-ins.** `CheckinsRun` assumes that the cron comes every day and a sweep begun is carried on;
  faults are bounded, and nothing is assumed of the handlers.
* **Certificates.** `ApprovedIsDelivered` assumes that the hourly cron comes again and a sweep begun
  goes on, also after one that failed; nothing is assumed of the office or the inspector.
* **Suppliers and agent runs.** `SuppliersSettle` assumes that the reaper comes every five minutes and,
  in the cast of bills under a guard, that Inngest goes on with a parse and a guard it started and
  starts a guard for each bill's event (an event of a memo is not assumed to be taken; no liveness
  is asked of memos). Nothing is assumed of the works: the rows are closed whoever dies. In the cast
  of costs no guard plays: its behaviours that get as far as the event are not fair ones, and count
  for safety only.
* **A request** in the server runs on unless its process dies, which is an action without
  fairness (`SendCrashes`, `DeliveryFails`). `EverySendEnds` therefore says that a send gets the
  lock or dies, never that it succeeds.
* **The nightly cron** comes again (`Begin` in TaskHealth), and a step begun is carried on.
* **Nothing** is assumed of people, of Stripe's or DocuSeal's first delivery of anything, or of
  emits. `EstimateAccept`, `JobStages`, `TaskLedger` and `Drips` have no fairness; their
  properties are safety. That the two halves of an acceptance never miss each other is stated
  as safety too: in no state are both in, every webhook over, and none has announced.

Liveness properties: `NobodyStarves` (`EverySendEnds` and `SettledReachesLedger`), `ChasedToTheEnd`,
`AcceptedIsApplied`, `AcceptanceConverts`, `PageIsTried`, `PaidIsBooked`, `FeeIsOwed`,
`OverdueIsEscalated`, `NewDayIsPlanned`, `CheckinsRun`, `ApprovedIsDelivered`, and the second half of
`SuppliersSettle`. Where one module has several casts or parts, `MCSpec`
conjoins the fairness of the parts that take part.
`PageIsTried` holds because failures are bounded: a sweep that fails every night for ever
tries no page, and the code has nothing to make up for that. It promises a page *tried*, not one that
arrives: an SMS and an e-mail that throw are swallowed, the exception is marked all the same, and no
later night tries again (`NotifiedWasHeard` says the contrary and is refuted: section 7). `AcceptanceConverts` speaks of each
accepted event by itself: a run started by that very event converts, stops, or fails.

## 6. What is proved

`tlapm InvoicingProofs.tla` and so on; nothing is assumed but the named `ASSUME`s of the modules,
which TLC evaluates in every run.

| Theorem | For every | States |
|---|---|---|
| `InvoicingProofs!TypeCorrect` | instance | types, and `ProcessesLinked` |
| `InvoicingProofs!PaidIsCollected` | number of sessions and deliveries | `PaidMeansCollected` |
| `InvoicingProofs!ChargesRecordedOnce` | number of deliveries | `EachChargeRecordedOnce` |
| `InvoicingProofs!LedgerHolds` | the two together | `LedgerInv` |
| `InvoicingProofs!NumbersGapless` | finite set of invoices, number of senders | `NumbersInv`: `GaplessNumbers`, `SendNeverCollides` |
| `InvoicingProofs!InvoicingHolds` | the assumptions of both | `InvoicingInv`: `NumbersInv` and `LedgerInv` |
| `InvoicingProofs!NumbersStay` | the same | `NumbersArePermanent` |
| `InvoicingProofs!DunningHolds` | number of runs, attempts and senders | `DunningInv`: types, `DeliveryTaskMatchesNumber`, `AtMostOneLateStep`, `OverdueOnlyIfDunned`, `NoFalseText`, `EveryStepLogged` |
| `InvoicingProofs!RefinesLedger` | instance | `ImplementsLedger`: Invoicing implements ChargeLedger |
| `JobProofs!AcceptanceHolds` | number of pages, artifacts, deliveries, runs and attempts | `AcceptanceInv`: types, `GateRespected`, `GateNotMissed`, `StampsAreBacked`, `JobIsSignedAndPaid`, `WonMeansJob`, `PointersAreLive` |
| `JobProofs!TasksGate` | the same | `TasksGateConversion` |
| `JobProofs!HealthHolds` | number of rows, nights, attempts and failures | `HealthInv`: types, `EarnedGreen`, `WrongWorkIsRed`, `ExceptionFollowsHealth`, `NotifiedMeansTried` |
| `JobProofs!StageEarned` | number of movers and recorders | types, `StageIsEarned` |
| `JobProofs!PayoutsFinal` | number of movers and recorders | `PayoutsAreFinal` |
| `JobProofs!AgentsNeverStall` | acyclic registry of tasks | `SomebodyIsWaitedOn` |
| `JobProofs!BlockersAlwaysExist` | acyclic registry of tasks | `BlockersExist` |
| `JobProofs!RowsReleased` | registry and configuration | `ReleasedByItsOwn` |
| `JobProofs!TasksAgree` | acyclic registry of tasks | `TasksInv`: types and the three together |
| `BooksProofs!BooksHold` | number of customers, invoices, runs and failures | `BooksInv`: types, `BooksAreLinked`, `StoredIsBooked`, `StoredIsNotPushedAgain` |
| `BooksProofs!RunsOwned` | number of works, attempts and faults | types and `RunningIsOwned`, over AgentRuns alone |
| `BooksProofs!EndsOnce` | the same | `EndsStand`, over AgentRuns alone |
| `BooksProofs!SuppliersHold` | number of memos, jobs and faults, finite sets of bills, guards and desks | `SuppliersInv`: types, `CostIsRight`, `ClaimsAreMailed`, `MemosCreditOnce`, `ReturnsAreChasedOnce`, `RunningIsOwned` |
| `BooksProofs!NotesEndOnce` | the same | `RunsEndOnce`, the safety half of `SuppliersSettle` |
| `PromisesProofs!CreditsHold` | number of leads, estimates, credits, handlers, attempts, pages and upsells | `CreditsInv`: types, `LinesAreSpent`, `OneLine`, `OnOneEstimate`, `OnItsEstimate` |
| `PromisesProofs!PromisesHold` | the same, and of check-ins and faults | `PromisesInv`: `CreditsInv`, `OncePerKind`, `StaleOnce` |
| `PromisesProofs!PayablesAgree` | number of jobs, runs and taps | `PayablesInv`: types, `OnePayablePerJob`, `PendingHasCard`, `OverThresholdIsDecided` |
| `PromisesProofs!OverThresholdDecided` | threshold, changed at will, between its reading and the insert too | `OverThresholdIsDecided` |
| `PromisesProofs!ApprovalsStand` | number of redeliveries and retries | `ApprovalStands` |
| `DripsProofs!RowsAgree` | number of drips, steps, runs, deaths and stops | `DripsInv`: types, `OneActivePerDrip`, `WalkedIsLogged`, `EndedIsClosed`, `RaisedOnce` |
| `DripsProofs!OneLateStep` | the same | `AtMostOneLateStep` |
| `DripsProofs!OneUnwanted` | the same | `AtMostOneUnwanted` |
| `DripsProofs!StopsAreSoon` | the same | `StoppedSoon`, the two together |
| `DripsProofs!StopsStand` | the same | `StopIsFinal` |
| `AppointmentsProofs!ApptsHold` | number of appointments, days, runs, acts, nights and faults | `ApptInv`: types, `NoDoubleBooking`, `OneNoShowText` |
| `AppointmentsProofs!LateRemindersBounded` | the same | `AtMostOneLateReminder` |
| `AppointmentsProofs!StaleDaysAreLost` | the same | `StaleOnlyIfLost` |
| `AppointmentsProofs!CalendarKeepsUp` | the same | `CalendarAgrees` |
| `LeadFollowUpProofs!LeadsHold` | number of reps, voice runs, touches, acts and faults | `LeadsInv`: types, `BoardAgrees`, `OutIsBounded` |
| `LeadFollowUpProofs!LateTouchesBounded` | the same | `AtMostOneLateTouch` |
| `LeadFollowUpProofs!ClosedStays` | the same | `ClosedStaysClosed` |
| `LeadFollowUpProofs!BoardImplemented` | the same | `ImplementsBoard`: LeadFollowUp implements EscalationBoard |
| `BillingProofs!ChangeOrdersHold` | number of orders, submissions, deliveries and attempts, finite set of runs | `ChangeOrdersInv`: types, `AppliedWasSigned`, `BilledIsApplied`, `ValueIsSumOfDeltas`, `NumberedOnce`, `EnrolledWasSent`, `GapOnlyAfterFailure` |
| `BillingProofs!CertsHold` | number of requests, bookings and deaths | `CertsInv`: types, `DeliveredIsComplete`, `BilledOncePerDeath`, `DeclineStands`, `CostIsProduced` |

**Invoicing.** The assumptions: `AmountDue \in [Invoices -> Nat]`, `Invoices` finite, `None`
none of the identifiers. The inductive invariant grows in three layers.

1. `TypeOK /\ ProcessesLinked`. Types are not inductive alone: what a process writes in a row
   depends on what it holds. `ProcessesLinked` says that a process past its first step holds the
   row it started on, that a session is for its invoice's full amount, and that a delivery
   carries an event Stripe produced.
2. For the ledger: `InsertsExclusive`, between INSERT and COMMIT a delivery is alone with its
   charge. `EachChargeRecordedOnce` needs it because the duplicate check proves nothing (both
   deliveries may pass it); the unique index does.
3. For the numbers: `LockProtectsCount`, between its count and its update a send is the lock's
   holder and its count is still that of the table. Then `AssignNumber` extends `1..n` by
   `n + 1` (`FS_AddElement`), and no other action adds to `Numbered`.

`PaidIsCollected` follows from layer 1 with two lemmas: what was collected stays collected, and
what a delivery recorded was collected. The refinement adds `AnnouncesItsEntry` and goes by the
kind of step: `SettlementSettles`, `CommitEnters`, `AnnouncementAnnounces`, and `OtherStepStutters`
for all others.

**Dunning.** Over layer 1 of Invoicing. `RunIsSound` says what the place of a run tells: which step it
can be on, that it has attempts left, that an outcome it is to log is one of its channel.
`LateIsPaidFor` counts: while its invoice is owed, a run has let out no more late steps than the
invoice was taken back, and a run past its check may only repeat the step already counted, so a
settlement pays for one more. `revived` counts the times the invoice was taken back, and the
theorem needs it: markSent and the overdue flip write by id, without looking at the status they
overwrite, so that a settled invoice may be owed again and settle a second time. A plain *at
most one late step* holds only where there are too few writers for that; that it fails with more
came out of the attempt to prove it.

**EstimateAccept, EstimateConversion.** `ConvertersAssumption`: runs and manual conversions are
different. The gate: `StampsAreBacked` for the row, `HooksAreBacked` for what a delivery holds (a
webhook past its read carries the signature or the payment it saw), `DepositAsked` (an estimate the
page lets be signed asks for the deposit that is due, without which a signature alone would
complete a gate that should wait). `GateIsWatched` is what makes `GateNotMissed` inductive: while a
complete gate is unannounced, some delivery has still to look at it, or failed, or lost its event;
the last of two deliveries to stamp is the witness. The chain: `RunsAreBacked` says of a run what
it stands on at each step, and `JobsKept` that no step but an insert adds a converted job.
`TasksGate` is an action property and follows from the same invariant: at its insert a run has
seen no open task, and none opens afterwards.

**JobStages.** `Earned == StagesTypeOK /\ OnFileWasHeld /\ StageIsEarned /\ PlansAreEarned`.
`StageIsEarned` is not inductive: the update trusts a decision made on evidence that may be gone,
so `PlansAreEarned` says of each transaction that what it is about to write was earned when it
looked, and `OnFileWasHeld` that what is on file was held.

**TaskLedger.** `DependsOn` is assumed to have no cycle, in the form that needs no recursion:
every nonempty set of tasks has one with no dependency in the set. `Blocking` is the
strengthening: until a box is ticked or a row backfilled, only pending dependencies block. The
open rows are then such a set, and its least row waits on nobody. `ReleasedByItsOwn` needs
`PeersPresent`: the rows laid out by one call are all there once one of them is, so that a dependency
a row was laid out with cannot turn pending again later.

**TaskHealth.** `HealthInductive` adds two facts to the properties: `StreakIsNights` (the streak is no
longer than the nights that were clean, until a night is scored twice; green is a full streak)
and `MarkFollowsPage` (an exception about to be marked is open and had a page of its own tried). The
records of a sweep are written field by field, so each field has its own type lemma.

**Books.** `RunsAreLinked` says what each handler knows of the books: that the customer and the invoice
it refers to are in them, of the right row. `CopiesAreCounted` is the counting: the copies of a
row are no more than the failures and the runs past the place where they create it (`Makers`), and
the copies together with the runs that found none stored and have still to create (`Pending`) are no
more than were counted as missing. A create takes a run out of `Pending`; a step that fails after
its create pays with a failure. Both are cardinalities over the runs, hence `Runs` finite
(`LimitsAssumption`). `RowsAssumption` and `DocsAssumption` keep the three tables and the ids apart.

**AgentRuns, SupplierInvoices.** `SupplierAssumption`: finite sets of bills and of actors (what a job was
billed, and who is about to claim, are cardinalities), guards and desks apart. Rows of runs:
`WorksAreLinked` and `NotesApart`, whoever closes a row found it running or reaped and holds it alone;
the rows nobody holds are counted against the faults (`LeftOf`). `SuppliersInductive` has a part for
each of three accounts.

1. *Costs.* `SumsAreCurrent`: what a parser has read is so until it is marked overtaken, and
   `ParseIsLinked`: one that is summing has its invoice filed under the job it sums. So a cost
   written from a sum not overtaken is right, and every statement that changes a sum overtakes
   whoever read it (`OvertakenRows`) or leaves the job in `stale`.
2. *Claims.* `ClaimsAreMailed` is not inductive: that a guard mails at most once says nothing of the
   guards to come. `StartsPay` counts them: the e-mails sent, the guards that may still send one, the
   events on their way and the event a parser has yet to emit are together no more than one and the
   times a step was begun anew; the same for claims and for credits. `MailIsClaimed` is the balance of
   e-mails and claims. A death pays with `again` for what it repeats.
3. *Returns.* `ReturnsApart`: two reconciliations never stand between the insert and the commit of one job,
   so that the claim a return names is the one its own reconciliation made.

A step of one actor changes each count by that actor's part of it (`CountMoves`, `GuardSets`,
`GuardOwes`), so that a lemma per action shows only what the actor was and has become:
`GuardStepKeeps`, `ToldStepKeeps` and `NoteStepKeeps` do the rest for the guards, `ParseMoves` and
`RestKeeps` for the parsers and the office.

**ReferralFees.** `IInv == TypeOK /\ ProcessesLinked /\ UniqueKey /\ PendingHasCard`.
`OnePayablePerJob` speaks of committed rows; `UniqueKey` adds the ones still in a transaction,
which is what the unique index guards, so that a commit cannot be the second. `PendingHasCard`
needs it too: an approval closes the card of *the* payable of its job. `ProcessesLinked` also carries the
decision from its reading to the insert: a run about to insert a fee over the threshold it read asks
for an approval. `OverThresholdIsDecided` is about that threshold; of the one in force at the insert
nothing is claimed. `InsertWrites` says what an insert may do to the rows, `ApprovalWrites` what a tap may.

**RepairCredits, CreditCheckins.** `HandlerLinked`: a handler in the apply read no credit line on its
estimate, so that a line found there since was written beside it and is `Taken` (raced, re-priced or
edited); the credit it picked is spent only if another apply spent it meanwhile. `EditsAreLinked` says
whose the lines are: one on an estimate, and one a page or an upsell read there, is the only one, spent,
and names that estimate unless it was raced, so that a stale save puts back no credit that could be had
again and no second line.
The check-ins extend it. `SweepIsLinked`: the sweep
holds one check-in of a credit at most, and none that is logged, which is why a credit is asked about
once per kind. `TextsArePaidFor`: a text of a check-in that is not in the log was paid for with a fault. `StaleIsOver`: a
credit written about too late is over, and the sweep has let go of it, so that it is late only once.

**Drips.** `IInv == TypeOK /\ RunsInv /\ Enrolled /\ Escalated`. `RunsInv` speaks of one run at a
time: `Progress` (the log of the steps it is past), `Stopped` (a late message was that of the
step under way, so that another attempt of it adds none), `OptedOut` (a message read for before
the opt-out finds the enrollment stopped). `OwnRowsOnly`, a run writes the rows of nobody else,
reduces each step to the run that takes it. `Enrolled` is the partial unique index; `Escalated`
adds that a run about to escalate holds a key nobody else holds, without which the set of
escalations alone is not inductive.

**Appointments.** The assumption that matters is that no cast books two installs on one day to begin
with. The invariant is a conjunction of parts, each with a step lemma of its own over the same
frames: `GoFrame` (a step of a run changes its own row), `PeopleFrame` (an act changes one row and
sends or loses one event), `WeatherFrame` (the weather run moves one scheduled row at a time, to a
day that is free), `DeliverOK` (what an event leaves of the runs).
`NoDoubleBooking` is inductive by itself: the constraint is evaluated where the row is written.
`BornInv`: what is under way is under way for an appointment that was booked, so that a booking
never changes a day somebody has planned on. `StaleInv` adds that the weather run between its
nights has nothing to announce; `WordStays` then hands the word of a move from the weather run's
list to an event or to `lost`, and a delivered event cancels every run that could be stale.
`LateInv`: a run that let a touch out too late finds the appointment over at its next check, and
one about to send has let none out but for deaths. `NoShowInv`: while the event of a no-show is
unsent or on its way nobody has texted, and afterwards there is one run at most.

`CalendarInv` is a conjunction of ownership (an id names one event; rows and runs hold ids of events
of their own appointment), of what runs are like (`RunsAreListed`), and of `CalendarOf` for each
`Calm` appointment, one that lost no word, had no death and no two runs at once. `CalendarAgrees`
speaks of such an appointment only when nothing is on its way; the invariant says what holds
before. There is one calendar run at most. Until an id is stored only the run that stores it has
made an event, and then there is no event but that one. While the appointment is scheduled the
event shows its day or word of a move is still on its way; once it is over the event is gone, or
a word or a deleting run is still on its way. Deaths, losses and overlaps only grow, so an
appointment that is calm was calm before, and a step is examined from calm states only. The
appointments it leaves out, `crossed`, are exactly those whose runs overlapped: what the calendar
shows of them is not bounded by anything in the code (`appointment-calendar.ts:35`).

**LeadFollowUp.** `EndsAsWent` says once what a step that may be cut short leaves of its run (its
result recorded, or the row as it was after a death); a `...Went` lemma per step follows from it, and
the invariants use only those. `IInv == TypeOK /\ Lanes /\ RaiseInv /\ TalkInv /\ OutInv /\ LateInv`.
`RaiseInv` carries the refinement: between the transactions of a publishing step its key is known
and not yet raised, or raised once, and `Lanes` keeps the two publishing runs on different keys
(`KeysApart`). `TalkInv` ties what is published to where the two runs are, `OutInv` counts what left
before a run was past its message, and `LateInv` adds to the bound that the cadence, which loads again
after a touch, then finds the lead handled or the consent gone.

**ChangeOrders.** `SigningIsLinked`: every approval, event and run of an order goes back to a signature
on it. `RunIsSound`: what a run's place says of its supplement; a run has not applied its delta at the
places from which it would apply it, so that no delta is applied twice, and one before a
numbering it has done got there by a failed step, which is the only gap. `ValueIsSumOfDeltas` is a
sum over a set. A fold is a recursive function over the subsets of the set; that it *is* that
function needs an induction, and the theorems on finite sets that state one cannot be used here. It is
done with `WFMin` on cardinalities instead: every nonempty family of subsets of a finite
set has a member no part of which is in the family. From it: a sum does not depend on terms outside its
set (`SumKept`), and one more element adds its term. Hence `Runs` finite (`RunsAssumption`).

**CertRequests.** `CertsInductive` adds to the properties what each depends on. `BookingsLinked`: a
row names an inspection that a booking of that very request started. `DeliveryLinked` says, for
each step of a delivery, which stamps are set in the row and which were when it read it; on it rests
that a stamp read as missing may be written without looking again, since no other act writes
stamps and one sweep runs at a time. `BillNamed` counts: a request has the bill its row names, the one about to
be named, and one for each death between the two. `SoldByDelivery` and `DeclineLasts` are what keeps
a decline: nothing is sold before a delivery, and nobody holds an older copy of the row.
The lemmas `PeopleAct`, `SweepReads`, `DeliveryStep` and `CutShort` reduce every step to the one
request it touches.

**Only model-checked.** Every liveness property (fairness and ENABLED are out of the prover's
reach), so also the eventual half of `SuppliersSettle`. The refinements are proved for safety,
which is all `ChargeLedger` and `EscalationBoard` state. Every safety property of the passing runs has
its theorem. The library's induction theorems take an operator as a parameter, which the
back ends cannot instantiate; where an induction was needed (the sums of ChangeOrders) it goes by a
set without a least element, and no module here declares a RECURSIVE operator. What
a recursive definition computes for *every* input is not claimed beyond that.

## 7. Where the repository says otherwise

Each module ends with formulas that state what a comment or a document of the repository says,
under *What the repository says and the code does not do*. The model, which follows the code,
violates each of them; TLC finds the behaviour when the formula is put in a configuration of
its module as an INVARIANT (or a PROPERTY, for those of the form `[][...]_vars`). Two are runs:
`change_order_twice`, which costs a second bump of the contract and a second invoice, and
`credit_lost`, which costs the customer the credit. `NotifiedWasHeard` costs the owner the alert and needs
no race at all: TLC refutes it with one row and no failed step. Most others need two calls at once, or a
failure between two steps.

| Formula | At | What the code does, and what the repository says |
|---|---|---|
| `Invoicing!AmountPaidIsLedgerTotal` | `…/invoices.ts:93` | recordStripePayment computes amount_paid in the program from a row read earlier and writes it back, so of two concurrent payments one is lost from amount_paid; docs/…/2026-06-10-phase5a-finance-money-path-design.md:104 says `amountPaid += amount`. |
| `Invoicing!SentEventMeansSent` | `apps/web/src/lib/finance-actions.ts:34` | sendInvoiceAction emits invoice/sent without looking at the row sendInvoice returns, which is undefined when the invoice was no draft; docs/…/2026-06-10-phase5a-finance-money-path-design.md says invoice/sent is emitted when `sendInvoice` succeeds. |
| `Invoicing!DepreciationSendOnlyFromDraft` | `…/depreciation-recovery.ts:158` | The update is by id alone after a separate read of the status, so an invoice voided in between goes back to sent; the comment at db/src/lifecycle/depreciation-recovery.ts:145 says "No-op if the invoice is not a draft." |
| `Dunning!PaidIsNeverOverdue` | `…/dunning.ts:50` | The overdue flip updates by id alone after a separate read, so a payment recorded in between is overwritten with overdue; agents/src/functions/dunning.ts:156 says the run "stops immediately when the invoice is paid or voided". |
| `Dunning!OneRunPerInvoice` | `…/dunning.ts:173` | The run is started by every invoice/sent event and has no idempotency key, while the send action emits one each time it is called; agents/src/functions/dunning.ts:155 says "One run per sent invoice." |
| `ChangeOrders!AppliedOnce` | `…/change-order.ts:83` | approveChangeOrder reads applied and sets it later in the same READ COMMITTED transaction without a lock, so two runs started by two concurrent webhook deliveries both apply the order; docs/…/2026-06-16-phase6c-change-orders-design.md:118 says "no double value-bump or double invoice". |
| `ChangeOrders!AppliedIsSigned` | `apps/web/src/lib/change-order-actions.ts:26` | updateChangeOrderLineItemsAction checks no status and the editor keeps its Save button, so the total applied may differ from the one signed; docs/…/2026-06-16-phase6c-change-orders-design.md:36 says "once sent, it's immutable". |
| `EstimateAccept!MintedOnce` | `…/estimate-accept.ts:119` | beginEstimateAcceptance reads the row, calls DocuSeal and Stripe, and stores the ids in a later transaction, so two calls at once mint two sessions; db/src/lifecycle/estimate-accept.ts:105 says "Idempotent artifact minting: reuse what a prior accept already created." |
| `EstimateAccept!DepositBeforeAcceptance` | `…/estimate-sign.ts:60` | The submission minted by send-for-signature stores no deposit amount, so acceptanceReady sees none required and the signature alone announces estimate/accepted; core/src/acceptance-gate.ts:2 says the chain "fires only when the homeowner has signed AND the deposit is settled (when one is required)". |
| `EstimateAccept!NeverSignedStale` | `…/estimate-accept.ts:157` | Only the start of the accept flow looks at the validity window; the signature that comes later is stamped whenever it comes; db/src/lifecycle/estimate-accept.ts:72 says "RED PATH: no acceptance at stale prices — 30d (config) from send." |
| `EstimateConversion!OneJobPerLead` | `…/appointments.ts:278` | convertLeadToJob looks for a job of the lead and inserts one in a READ COMMITTED transaction, and job.lead_id has no unique constraint: two calls at once both insert; db/src/lifecycle/appointments.ts:217 says "Idempotent: a repeat call on an already-converted lead returns the existing job." |
| `EstimateConversion!RepeatIsHarmless` | `…/estimate-sign.ts:146` | The repeat asks recordStageChange for approved whenever the stage is any other; from production that is a move backward without a reason, and it throws; agents/src/functions/estimate-sign.ts:98 says "advances its job to `approved` (idempotent)". |
| `JobStages!SignalsNeverRegress` | `…/record-stage-change.ts:94` | The stage is read at line 58 and updated by job id alone at line 94 in a READ COMMITTED transaction without a lock, so of two signals the one that commits last wins even when it is behind; db/src/lifecycle/advance-stage.ts:15 says "a signal can never regress a job". |
| `JobStages!StageFollowsEvidence` | `…/record-stage-change.ts:70` | lost is the last stage of JOB_STAGE, so leaving it for any stage is a move backward: it needs a reason and no evidence (moveJobToStage takes one; the board's own control passes none); db/src/lifecycle/record-stage-change.ts:61 says "a job's stage is a consequence of evidence". |
| `JobStages!LostOwesNothing` | `…/commission.ts:31` | recordCommission reads the job for its rep and never looks at the stage: a commission recorded after the job was lost stays pending; db/src/lifecycle/record-stage-change.ts:112 says "a job cancelled / called back (→ 'lost') auto-charges-back any commission not yet paid out". |
| `TaskHealth!GreenTakesNights` | `…/task-health-sweep.ts:24` | The whole sweep of a tenant is one step, and computeTaskHealth adds a day to the streak each time it runs, so an attempt that fails after recomputeTaskHealth counts the night again; docs/…/task-registry.md:74 says "earned, never declared: `clean_streak_days ≥ 14`". |
| `TaskHealth!VerifiedWasChecked` | `…/task-health.ts:136` | The done rows are selected after the check has run, in another transaction, so one marked done in between is verified unseen, and verified rows are not looked at again; db/src/lifecycle/task-health.ts:110 says "check passed        -> every done row is `verified` (invariant holds)". |
| `TaskHealth!VerifiedWasDone` | `…/task-health.ts:142` | The update names the row by id and not by its status, so a row reopened since the select goes from pending to verified; db/src/lifecycle/task-health.ts:108 says "For each `done` ledger row of this task, compares its evidence ref to the check's violation refs". |
| `TaskHealth!WrongIsNotVerified` | `core/src/verification/builders.ts:54` | An invariant check reports the first MAX_REFS violations (rows.slice), and spotVerifyDoneTasks verifies every done row that is not among them; db/src/lifecycle/task-health.ts:111 says "check failed + ref IS a violation -> `exception` (done-but-wrong)". |
| `TaskHealth!PagedOnce` | `agents/src/break-glass.ts:66` | break_glass_notified_at is set after the SMS and the email have gone out, so a failure between them pages again at the retry; agents/src/break-glass.ts:16 says "Fires once per exception (break_glass_notified_at is the guard)". |
| `TaskHealth!NotifiedWasHeard` | `agents/src/break-glass.ts:66` | pageBreakGlass swallows what the SMS and the e-mail throw, and sends nothing without a contact or a sender, then writes break_glass_notified_at and an ok agent_run all the same, and no later sweep tries again; agents/src/break-glass.ts:18 says "SMS + email are fail-soft (mock in dev / no creds). The agent_run is the proof-of-page". |
| `TaskLedger!BackfillBlocksOnOpen` | `…/job-tasks.ts:68` | A backfill of an old job computes blocked_by from the dependencies that apply, done or not, and nothing removes one that is done already; db/src/lifecycle/job-tasks.ts:40 says "at creation nothing is done yet, so every present dep blocks". |
| `TaskLedger!TickedIsMet` | `…/job-tasks.ts:140` | completeJobTaskManually writes the row and leaves its siblings' blocked_by as it was, unlike markJobTaskDoneTx; docs/…/task-registry.md:64 says "`depends_on` unmet ⇒ `pending` with a computed `blocked_by`". |
| `Books!InvoiceBookedOnce` | `…/qbo-sync.ts:27` | The check of the stored qboId and the call that creates the document are separated by a transaction that takes no lock, so two runs on one invoice both create it; agents/src/functions/qbo-sync.ts:26 says "Already pushed — return stored id without hitting QBO again (idempotent)." |
| `Books!RetryBooksNothingTwice` | `…/qbo-sync.ts:46` | QBO is called inside the transaction: a death before the COMMIT forgets the id and the retry creates the document again; agents/src/functions/qbo-sync.ts:100 says "Idempotent — safe to retry." |
| `Books!LatestPaymentPushed` | `…/qbo-sync.ts:78` | The query orders by receivedAt ascending and takes the first row, the earliest payment; agents/src/functions/qbo-sync.ts:62 says "Push the latest unsynced payment for an invoice." |
| `ReferralFees!PendingIsAskedFor` | `apps/web/src/lib/job-actions.ts:70` | toggleTask marks any checklist row done by its id, the approval card included, and leaves the payable pending with its card closed; db/src/lifecycle/referral-payment.ts:20 says "fees over threshold are left pending and surface a one-tap approval task in Needs-you". |
| `Drips!EnrolledIsWalked` | `…/drip.ts:326` | A step retried after its COMMIT finds the enrollment it inserted itself, returns null, and the run ends: the enrollment stays active with no run and blocks the next enrollment; agents/src/functions/drip.ts:294 says "One run per enrollment. Creates the enrollment, then walks the drip's steps". |
| `Drips!StopIsABackstop` | `…/drip.ts:326` | The idempotency check looks at active rows only: when the row the step committed was stopped before the retry, the retry inserts a second one and walks it; agents/src/functions/drip.ts:296 says "the stop SOURCE has already set status='stopped' in the DB, and the per-step re-check is the backstop." |
| `Drips!CancelledIsStopped` | `…/estimate-sign.ts:177` | The acceptance sends drip/stop and updates no enrollment, so the cancelled run leaves it active and the customer cannot be enrolled again; agents/src/functions/drip.ts:296 says "the stop SOURCE has already set status='stopped' in the DB". |
| `Drips!BlockedIsRaised` | `…/drip.ts:274` | The key holds the customer and the step number only, so the same step number of another drip, or of a later enrollment, is taken for a repeat; agents/src/functions/drip.ts:206 says "a "blocked" verdict turns into a compliance-block escalation". |
| `Drips!ErrorMeansNothingLeft` | `…/drip.ts:190` | An error of sendSms does not say the message did not leave: an answer lost after the provider accepted it throws too; agents/src/functions/drip.ts:186 says "Either way, the real send never fired". |
| `CertRequests!DeliveredIsBilled` | `…/cert-request.ts:169` | The invoice is stamped in the row before it is sent, and a resumed delivery skips both when it finds the stamp: a death in between leaves a draft nobody sends; db/src/lifecycle/cert-request.ts:119 says "Every step is stamp-guarded, so a replay or crash-resume is free". |
| `LeadFollowUp!OwnersStay` | `…/lead-intake.ts:161` | The assignment reads the owner, measures drive times, and sets the candidate by lead id alone, so a rep who claimed the lead meanwhile is overridden; agents/src/functions/lead-intake.ts:103 says "Never overrides a rep who already owns the lead." |
| `LeadFollowUp!DialsOnce` | `…/lead-speed-to-lead.ts:112` | A step whose process dies after its effect is repeated: the overdue event is sent twice and each starts a voice run, or the call of one run is placed twice; agents/src/functions/voice-fallback.ts:91 says "memoized so a retry can't double-dial". |
| `LeadFollowUp!OptOutIsHeard` | `…/lead-cadence.ts:61` | The consent handed to the guard is the one loaded before the wait, so an opt-out in between is not seen; agents/src/functions/lead-cadence.ts:79 says guardedSms "re-checks at actual send time". |
| `LeadFollowUp!BreachIsRaised` | `orchestrator/src/bridge.ts:27` | The event is inserted, then the escalation, in transactions of their own; a repeat after a death in between finds the event known and raises nothing; orchestrator/src/bridge.ts:13 says "validate -> idempotent insert -> record receipt -> record any escalation hits". |
| `RepairCredits!AppliedIsShown` | `…/estimate.ts:247` | refreshLeadEstimateDraft replaces line_items, so from the second photo of an inspection on, or after one retry of the step, the credit line is gone; the credit was set to applied with the first and is not active any more; agents/src/functions/inspection-live-build.ts:25 says "Re-prices regenerate line items, so the active repair credit re-applies after every refresh (repair.credit_applied: no replacement estimate omits an active credit)". |
| `SupplierInvoices!BilledCostStands` | `…/material-order.ts:119` | setMaterialOrderStatus sums the orders alone, so moving an order of a billed job writes the estimate over the actuals; docs/…/2026-07-04-supplier-invoice-price-guard-design.md:102 says the cost is the sum of the bills "when any actuals exist, else fall back to the estimated material-order cost". |
| `SupplierInvoices!ReturnClaimedOnce` | `…/materials-reconcile.ts:130` | createCreditRequest commits in a transaction of its own, so when the reconciliation is rolled back after it the return is gone and its claim stays, and the replay makes another; db/src/lifecycle/materials-reconcile.ts:54 says "Idempotent — replays update the snapshot and skip existing returns." |
| `AgentRuns!OneEnd` | `…/agent-run.ts:62` | completeAgentRun updates by id alone, so a process that is only slow closes its row again after the reaper did; agents/src/functions/run-reaper.ts:5 says it flips "orphaned `running` agent_run rows". |
| `Appointments!WeatherMoveIsAnnounced` | `…/weather-reschedule.ts:132` | The evaluation is one step and the events come after it: a death after a move repeats it, the install is safe now, and its move is never announced; agents/src/functions/weather-reschedule.ts:131 says "reschedule succeeded => id returned => appointment/changed emitted". |
| `Appointments!RemindsTheRightDay` | `…/homeowner-crew-notify.ts:71` | A touch names the day loaded when its run began; until the cancelling event arrives, or if it was lost, it names the old one; agents/src/functions/homeowner-crew-notify.ts:71 says the run "cancels itself if the appointment is rescheduled or canceled". |

Met while modelling the certificates: `schema/cert.ts:14` says the invoice "rides the existing
invoice + dunning rails", but the delivery publishes no `invoice/sent`, so neither dunning nor the QuickBooks push
starts; and because every write of the row is by id alone, a request declined under a delivery ends delivered,
a second booking that read it in time reopens a delivered or declined one, and the partner may be
booked both the revenue and the cost (`DeclineStands` and its `raced` say exactly when).

Met while modelling the suppliers: the guard mails before it records the claim and swallows what is thrown,
so an e-mail may be left without a claim and nobody is told; a re-delivered e-mail whose first event
was lost is taken for a repeat and never parsed (`supplier-invoice-ingest.ts:79`); and a bill
parsed anew with another job leaves the first job's cost as it was (`supplier-invoice-parse.ts:89`).
`ClaimsAreMailed`, `BillsAreSettled` and `CostIsRight` say exactly when.

Met while modelling the credits: an estimate's page saves the lines it was opened with, and an upsell
those it read (`estimate-actions.ts:42`, `:73`), so either can take an applied credit off an estimate
or put back one a re-price removed. `OnItsEstimate` and its `edited` say exactly when. And of the fees: a
threshold lowered between `referral-payment.ts:50` and `:55` comes too late for the fee being recorded.

Also met there, and in no formula because what they speak of is outside the model:
`issueRepairCredit` promises "Once per source invoice" (`repair-credit.ts:79`) over a read and an
insert with no unique index, and has no caller in the repository yet; with quiet hours that cover
ten in the morning a tenant's check-ins never run (`repair-credit-sweep.ts:39`), although "no
credit expires without the cadence having run or an explicit opt-out" (`repair-credit-sweep.ts:5`);
a storm check or a check-in is admitted over a full cap (`touch-governor.ts:87`), so
`governorCapViolations`, "Must be empty — any hit means a path bypassed the calendar"
(`relationship-touch.ts:149`), can name a customer no path bypassed.

The runs next to a formula of this list check the part of the promise that the code does keep:
`AmountPaidIsLedgerTotal` fails, `PaidMeansCollected` (in `LedgerInv`) holds; `GreenTakesNights` fails,
`EarnedGreen` (where no retry scored the night again, in `HealthInv`) holds;
`RetryBooksNothingTwice` fails, `StoredIsNotPushedAgain` (in `BooksInv`) holds;
`RemindsTheRightDay` fails, `StaleOnlyIfLost` and `NewDayIsPlanned` hold; `OptOutIsHeard` fails, one
text at most leaves after it (`AtMostOneLateTouch`); `TickedIsMet` fails, `ReleasedByItsOwn` holds; and so on.

## 8. What is not modelled

* **Telephony, memberships**: stateful, and next in the plan (section 9).
* **Production phases**: nothing in the repository sends `job/stage-changed`, which the phase
  engine listens to, so the running program lays out no phase.
* **Lead intake's dedup and scoring, the search for open slots, the orchestrator's task graph**: the
  parts of otherwise modelled components that are read-only or one INSERT.
* **Canvassing, partner cadences, scheduling proposals, the media of
  inspections**: less concurrent than what is modelled; `PROJECT.json` says why of each.
* **Integrations** are modelled from how they are used, never on their own.
* **Pricing, scoring, formatting, read models, pages, prompts**: sequential functions of their
  arguments, covered by unit tests, or no state of the business.
* **Row-level security and tenants**: every module is one tenant, because no operation reads or
  writes across tenants except the sweeps, which take them one by one.
* **Time** is abstract: a sleep ends at any moment, an estimate expires at any moment, a night
  comes at any moment. No property compares two clocks.

## 9. Plan

The modules were written in the order of what it costs when they go wrong: money taken
(Invoicing, Dunning), money promised (EstimateAccept, ChangeOrders), what follows from both
(EstimateConversion, JobStages, Books, ReferralFees), then what tells the owner (TaskHealth,
TaskLedger), what reaches the customer (Drips, LeadFollowUp, Appointments, RepairCredits,
CertRequests), and what the office's books take in (AgentRuns, SupplierInvoices). Each composes by EXTENDS where two
components share rows and race (Dunning over Invoicing, EstimateConversion over
EstimateAccept), and meets the others through events only elsewhere.

1. **Telephony** and memberships; **production phases** once something starts them.
2. **Composition**: Drips with DomainEvents in place of its own `Publish` and `Raise`; no-shows
   with Drips, where Appointments stops at the event that puts a customer back.
3. **Abstract specifications** still worth stating: a drip as *at most one message a step until
   stopped*, the conversion as one atomic step from accepted to won, the stage ladder.
4. **Proofs**: the abstract specifications of item 3, step by step.

------------------------------ MODULE Dunning ------------------------------
(***************************************************************************)
(* Dunning: the durable function dunningRun, started by each invoice/sent  *)
(* event on the bus, beside every writer of the invoice row.               *)
(*                                                                         *)
(* Each step.run is retried as a whole when it throws or its process dies; *)
(* cancelOn ends a run between steps when invoice/paid or invoice/void     *)
(* arrives after the run began.                                            *)
(***************************************************************************)
EXTENDS Invoicing

CONSTANTS
    Runs,            \* runs of dunningRun (bound: one start each)
    MaxAttempts,     \* attempts Inngest makes of one step
    DunningEnabled   \* finance config of the tenant

ASSUME MaxAttemptsAssumption == MaxAttempts \in Nat \ {0}
ASSUME DunningEnabledAssumption == DunningEnabled \in BOOLEAN

VARIABLES
    run,
    revived          \* history, nothing reads it: how often an invoice became owed again

dunningVars == <<vars, run>>

-----------------------------------------------------------------------------
(* dunningSchedule: three e-mails, then the SMS that marks it overdue.     *)
Steps == 1..4
Channel(k) == IF k = 4 THEN "sms" ELSE "email"
FlipsOverdue(k) == k = 4

RunPc == {"idle", "load", "wait", "check", "read", "flip", "send", "log",
          "done", "stopped", "skipped", "cancelled", "failed"}
Ended == {"done", "stopped", "skipped", "cancelled", "failed"}
Outcome == {"none", "sent", "dropped", "suppressed"}

RunRow == [pc: RunPc, invoice: Invoices \cup {None}, by: Emitter,
           seen: SUBSET BusEvent,     \* cancelling events older than the run
           step: Steps, tries: 0..MaxAttempts, outcome: Outcome,
           logged: SUBSET Steps,      \* steps with a communication row
           late: SUBSET Steps,        \* steps that sent to a paid or void invoice
           texted: BOOLEAN,           \* an SMS left
           claimed: BOOLEAN]          \* a communication row says so

DunningTypeOK ==
    /\ TypeOK
    /\ run \in [Runs -> RunRow]
    /\ revived \in [Invoices -> Nat]

DunningInit ==
    /\ Init
    /\ run = [r \in Runs |->
                [pc |-> "idle", invoice |-> None, by |-> None, seen |-> {}, step |-> 1,
                 tries |-> 0, outcome |-> "none", logged |-> {}, late |-> {},
                 texted |-> FALSE, claimed |-> FALSE]]
    /\ revived = [i \in Invoices |-> 0]

Cancelling(i) == {e \in emitted : e[1] \in {"invoice/paid", "invoice/void"} /\ e[2] = i}
Settled(i) == invoice[i].status \in {"paid", "void"}

\* An update by id alone takes a paid or void invoice back: the flip to overdue, the
\* depreciation send.
Revives(i) == Settled(i) /\ ~Settled(i)'
Goto(r, pc) == run' = [run EXCEPT ![r].pc = pc, ![r].tries = 0]

-----------------------------------------------------------------------------
\* The bus starts one run for each event that reached it.
StartRun(r, i, by) ==
    /\ run[r].pc = "idle"
    /\ <<"invoice/sent", i, by>> \in emitted
    /\ \A q \in Runs : run[q].pc # "idle" => <<run[q].invoice, run[q].by>> # <<i, by>>
    /\ run' = [run EXCEPT ![r].pc = "load", ![r].invoice = i, ![r].by = by,
                          ![r].seen = Cancelling(i)]
    /\ UNCHANGED vars

\* dueAt is set with the number, by sendInvoice only.
Load(r) ==
    /\ run[r].pc = "load"
    /\ Goto(r, IF run[r].invoice \in Numbered /\ DunningEnabled THEN "wait" ELSE "skipped")
    /\ UNCHANGED vars

Wake(r) ==
    /\ run[r].pc = "wait"
    /\ Goto(r, "check")
    /\ UNCHANGED vars

StopsAtBug(i) == FALSE                    \* mutant: the backstop check dropped
StopsAt(i) == Settled(i)

Check(r) ==
    /\ run[r].pc = "check"
    /\ Goto(r, IF StopsAt(run[r].invoice) THEN "stopped" ELSE "read")
    /\ UNCHANGED vars

\* Phase 1 reads the row, then the customer, then updates by id alone.
ReadInvoice(r) ==
    /\ run[r].pc = "read"
    /\ run' = [run EXCEPT ![r].pc =
          IF FlipsOverdue(run[r].step) /\ invoice[run[r].invoice].status = "sent"
            THEN "flip" ELSE "send"]
    /\ UNCHANGED vars

FlipOverdue(r) ==
    /\ run[r].pc = "flip"
    /\ invoice' = [invoice EXCEPT ![run[r].invoice].status = "overdue"]
    /\ run' = [run EXCEPT ![r].pc = "send"]
    /\ UNCHANGED <<stripeConnected, payments, deliveryDone, sendVars, stripeVars, webhook, emitted>>

\* Phase 2, outside any transaction.  An e-mail error is swallowed; no address, an
\* opt-out and a guard refusal are "suppressed"; an SMS error is thrown.
Outcomes(k) == IF Channel(k) = "sms" THEN {"sent", "suppressed"}
                                     ELSE {"sent", "dropped", "suppressed"}

Outbound(r) ==
    LET k == run[r].step IN
    /\ run[r].pc = "send"
    /\ \E o \in Outcomes(k) :
         run' = [run EXCEPT ![r].pc = "log", ![r].outcome = o,
             ![r].late = IF o = "sent" /\ Settled(run[r].invoice) THEN @ \cup {k} ELSE @,
             ![r].texted = @ \/ (o = "sent" /\ Channel(k) = "sms")]
    /\ UNCHANGED vars

\* Phase 3 writes the communication row, then the run goes to the next step.
WithRowBug(r) ==                          \* mutant: only real sends are logged
    IF run[r].outcome = "suppressed" THEN run[r].logged ELSE run[r].logged \cup {run[r].step}
WithRow(r) == run[r].logged \cup {run[r].step}
LastStepShort == 3                        \* mutant: the loop ends one step early
LastStep == 4

LogRow(r) ==
    LET k == run[r].step IN
    /\ run[r].pc = "log"
    /\ run' = [run EXCEPT
          ![r].pc = IF k < LastStep THEN "wait" ELSE "done",
          ![r].step = IF k < LastStep THEN k + 1 ELSE k,
          ![r].tries = 0,
          ![r].outcome = "none",
          ![r].logged = WithRow(r),
          ![r].claimed = @ \/ (Channel(k) = "sms" /\ run[r].outcome # "suppressed")]
    /\ UNCHANGED vars

\* A thrown error or a dead process: the whole step again, until the attempts run out.
RetryPc(pc) == IF pc \in {"flip", "send", "log"} THEN "read" ELSE pc
Tries(r) == run[r].tries + 1

StepFails(r) ==
    /\ run[r].pc \in {"load", "check", "read", "flip", "send", "log"}
    /\ run' = [run EXCEPT ![r].pc = IF Tries(r) < MaxAttempts THEN RetryPc(@) ELSE "failed",
                          ![r].tries = Tries(r)]
    /\ UNCHANGED vars

\* cancelOn takes effect between steps.
Cancel(r) ==
    /\ run[r].pc \in {"load", "wait", "check", "read"}
    /\ Cancelling(run[r].invoice) \ run[r].seen # {}
    /\ run' = [run EXCEPT ![r].pc = "cancelled"]
    /\ UNCHANGED vars

-----------------------------------------------------------------------------
RunStep(r) ==
    \/ Load(r) \/ Wake(r) \/ Check(r)
    \/ ReadInvoice(r) \/ FlipOverdue(r) \/ Outbound(r) \/ LogRow(r)

DunningStep ==
    \/ Next /\ UNCHANGED run
    \/ \E r \in Runs, i \in Invoices, by \in Emitter : StartRun(r, i, by)
    \/ \E r \in Runs : RunStep(r) \/ StepFails(r) \/ Cancel(r)

DunningNext ==
    /\ DunningStep
    /\ revived' = [i \in Invoices |-> IF Revives(i) THEN revived[i] + 1 ELSE revived[i]]

DunningSpec == DunningInit /\ [][DunningNext]_<<dunningVars, revived>>

\* Besides what Invoicing assumes of requests and of Stripe's retries: sleeps end, and
\* Inngest runs the next step of a live run.
DunningFairSpec ==
    DunningSpec /\ Fairness /\ \A r \in Runs : WF_dunningVars(RunStep(r))

-----------------------------------------------------------------------------
(* Safety.                                                                 *)

\* A run that began sends at most one step's reminder to an invoice that is paid
\* or void by then, and one more each time a settled invoice was taken back: the step in
\* flight when it settled.  The re-check before each send sees to it even when the
\* cancelling event is lost.
AtMostOneLateStep ==
    \A r \in Runs, i \in Invoices :
        run[r].invoice = i => Cardinality(run[r].late) <= 1 + revived[i]

\* An invoice is overdue only after a run of it logged all three e-mail reminders
\* and reached the SMS, whatever was suppressed, dropped, retried or cancelled.
OverdueOnlyIfDunned ==
    \A i \in Invoices : invoice[i].status = "overdue" =>
        \E r \in Runs : run[r].invoice = i /\ run[r].step = 4 /\ 1..3 \subseteq run[r].logged

\* A communication row claims an SMS only if one left: "never a false sent".
NoFalseText == \A r \in Runs : run[r].claimed => run[r].texted

\* Each step a run went through left its row, suppressed ones included.
EveryStepLogged ==
    \A r \in Runs : 1..(run[r].step - 1) \cup (IF run[r].pc = "done" THEN Steps ELSE {})
                        \subseteq run[r].logged

\* A settled invoice is chased once more at most each time it settles, and what the tables say of the past is
\* true: rows of their types, the delivery task done for the invoices that were numbered,
\* overdue invoices dunned, and a communication row for each step that claims no message
\* which did not leave.
DunningInv ==
    /\ DunningTypeOK /\ DeliveryTaskMatchesNumber
    /\ AtMostOneLateStep
    /\ OverdueOnlyIfDunned /\ NoFalseText /\ EveryStepLogged

-----------------------------------------------------------------------------
(* Liveness, under DunningFairSpec.                                        *)

\* No run hangs, and an unpaid invoice whose run got going ends up overdue, unless it
\* settles or the run fails: a step that keeps failing exhausts its attempts, and cancelOn
\* never ends the run of an invoice that was owed all the time.
ChasedToTheEnd ==
    /\ \A r \in Runs : run[r].pc = "load" ~> run[r].pc \in Ended
    /\ \A r \in Runs, i \in Invoices :
         (run[r].pc = "wait" /\ run[r].invoice = i)
             ~> \/ invoice[i].status \in {"overdue", "paid", "void"} \/ revived[i] > 0
                \/ run[r].pc = "failed"

-----------------------------------------------------------------------------
(* What the repository says and the code does not do.                      *)

\* dunningRun: "stops immediately when the invoice is paid or voided"; it overwrites
\* the status of an invoice paid between its read and its update.
PaidIsNeverOverdue ==
    [][\A i \in Invoices : Settled(i) => invoice'[i].status # "overdue"]_dunningVars

\* dunningRun: "One run per sent invoice".
OneRunPerInvoice ==
    \A q, r \in Runs : run[q].pc \in {"wait", "check"} /\ run[r].pc \in {"wait", "check"}
                          /\ run[q].invoice = run[r].invoice => q = r
=============================================================================

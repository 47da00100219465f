---------------------------- MODULE ChangeOrders ----------------------------
(***************************************************************************)
(* Change orders of one job: priced, signed through DocuSeal, applied to   *)
(* the contract value by the durable function changeOrderAccepted, which   *)
(* then sends the supplemental invoice it drafted and enrols it in dunning.*)
(*                                                                         *)
(* A transaction that writes what an earlier read decided is two steps; a  *)
(* step of the durable function is retried from its start when it fails.   *)
(***************************************************************************)
EXTENDS Integers, FiniteSets, FiniteSetsExt

CONSTANTS
    Orders,        \* change orders of the job
    Totals,        \* line item totals a rep may enter; negative is a credit
    ValueEstimate, \* job.value_estimate
    Submissions,   \* DocuSeal submissions (bound: one each)
    Deliveries,    \* deliveries of a form.completed webhook (bound: one each)
    Runs,          \* runs of changeOrderAccepted; each names the invoice it may draft
    MaxAttempts,   \* attempts Inngest makes of one step
    None

ASSUME TotalsAssumption == Totals \subseteq Int /\ ValueEstimate \in Int
ASSUME AttemptsAssumption == MaxAttempts \in Nat \ {0}
ASSUME RunsAssumption == IsFiniteSet(Runs)
ASSUME NoneAssumption == None \notin Orders \cup Submissions \cup Deliveries \cup Runs \cup Int

VARIABLES
    stripeConnected,
    valueFinal,      \* job.value_final
    order,           \* table change_order
    supplement,      \* the invoice a run inserted
    signing,         \* DocuSeal submissions
    delivery,        \* webhook deliveries
    accepted,        \* change_order/accepted events on the bus: <<order, delivery>>
    run,             \* runs of changeOrderAccepted
    dunned           \* invoice/sent events on the bus: <<invoice, run>>

moneyVars == <<stripeConnected, valueFinal, supplement>>
signVars  == <<signing, delivery, accepted>>
vars == <<moneyVars, order, signVars, run, dunned>>

-----------------------------------------------------------------------------
OrderStatus == {"absent", "draft", "sent", "approved"}
RunPc == {"idle", "apply", "write", "logApplied", "load", "number", "checkout", "store",
          "logSent", "enroll", "done", "failed"}

OrderRow   == [status: OrderStatus, total: Totals \cup {0}, submission: Submissions \cup {None},
               applied: BOOLEAN, invoice: Runs \cup {None}]
InvoiceRow == [status: {"absent", "draft", "sent", "void"}, amount: Totals \cup {0}, checkout: BOOLEAN]
SigningRow == [phase: {"unused", "created", "signed"}, stored: BOOLEAN,
               order: Orders \cup {None}, total: Totals \cup {0}]
DeliveryRow == [pc: {"idle", "flip", "emit", "done"}, order: Orders \cup {None}]
RunRow     == [pc: RunPc, order: Orders \cup {None}, by: Deliveries \cup {None},
               total: Totals \cup {0}, invoice: Runs \cup {None}, tries: 0..MaxAttempts,
               bumped: BOOLEAN, numbered: BOOLEAN, stumbled: BOOLEAN]

ChangeOrdersTypeOK ==
    /\ stripeConnected \in BOOLEAN
    /\ valueFinal \in Int \cup {None}
    /\ order \in [Orders -> OrderRow]
    /\ supplement \in [Runs -> InvoiceRow]
    /\ signing \in [Submissions -> SigningRow]
    /\ delivery \in [Deliveries -> DeliveryRow]
    /\ accepted \subseteq Orders \X Deliveries
    /\ run \in [Runs -> RunRow]
    /\ dunned \subseteq Runs \X Runs

Init ==
    /\ stripeConnected = FALSE
    /\ valueFinal = None
    /\ order = [o \in Orders |-> [status |-> "absent", total |-> 0, submission |-> None,
                                  applied |-> FALSE, invoice |-> None]]
    /\ supplement = [v \in Runs |-> [status |-> "absent", amount |-> 0, checkout |-> FALSE]]
    /\ signing = [s \in Submissions |-> [phase |-> "unused", stored |-> FALSE, order |-> None,
                                         total |-> 0]]
    /\ delivery = [d \in Deliveries |-> [pc |-> "idle", order |-> None]]
    /\ accepted = {}
    /\ run = [r \in Runs |-> [pc |-> "idle", order |-> None, by |-> None, total |-> 0,
                              invoice |-> None, tries |-> 0, bumped |-> FALSE,
                              numbered |-> FALSE, stumbled |-> FALSE]]
    /\ dunned = {}

-----------------------------------------------------------------------------
(* The rep and the back office.                                            *)

ConnectStripe ==
    /\ ~stripeConnected
    /\ stripeConnected' = TRUE
    /\ UNCHANGED <<valueFinal, supplement, order, signVars, run, dunned>>

CreateChangeOrder(o, t) ==
    /\ order[o].status = "absent"
    /\ order' = [order EXCEPT ![o].status = "draft", ![o].total = t]
    /\ UNCHANGED <<moneyVars, signVars, run, dunned>>

\* updateChangeOrderLineItemsAction looks at no status.
EditLineItems(o, t) ==
    /\ order[o].status # "absent"
    /\ t # order[o].total
    /\ order' = [order EXCEPT ![o].total = t]
    /\ UNCHANGED <<moneyVars, signVars, run, dunned>>

\* The submission carries the total read before DocuSeal is called.
RequestSignature(s, o) ==
    /\ signing[s].phase = "unused"
    /\ order[o].status # "absent"
    /\ signing' = [signing EXCEPT ![s] = [phase |-> "created", stored |-> FALSE, order |-> o,
                                           total |-> order[o].total]]
    /\ UNCHANGED <<moneyVars, order, delivery, accepted, run, dunned>>

\* sendChangeOrder stores the submission id, whatever the status is by now.
StoreSubmission(s) ==
    LET o == signing[s].order IN
    /\ signing[s].phase # "unused"
    /\ ~signing[s].stored
    /\ order' = [order EXCEPT ![o].status = "sent", ![o].submission = s]
    /\ signing' = [signing EXCEPT ![s].stored = TRUE]
    /\ UNCHANGED <<moneyVars, delivery, accepted, run, dunned>>

\* The supplemental invoice is an invoice like any other: staff may send or void it.
StaffSend(v) ==
    /\ supplement[v].status = "draft"
    /\ stripeConnected
    /\ supplement' = [supplement EXCEPT ![v].status = "sent"]
    /\ UNCHANGED <<stripeConnected, valueFinal, order, signVars, run, dunned>>

StaffVoid(v) ==
    /\ supplement[v].status \notin {"absent", "void"}
    /\ supplement' = [supplement EXCEPT ![v].status = "void"]
    /\ UNCHANGED <<stripeConnected, valueFinal, order, signVars, run, dunned>>

-----------------------------------------------------------------------------
(* Signing, and the DocuSeal webhook.                                      *)

HomeownerSigns(s) ==
    /\ signing[s].phase = "created"
    /\ signing' = [signing EXCEPT ![s].phase = "signed"]
    /\ UNCHANGED <<moneyVars, order, delivery, accepted, run, dunned>>

\* markChangeOrderBySubmission finds the row by submission id; an approved row is
\* a replay, an id nobody stores any more matches nothing.  Other events of the
\* submission (viewed, started) are ignored.
Completed(s) == signing[s].phase = "signed"
Awaits(o, s) == order[o].submission = s /\ order[o].status # "approved"

Deliver(d, s) ==
    /\ delivery[d].pc = "idle"
    /\ Completed(s)
    /\ delivery' = [delivery EXCEPT ![d] =
          IF Awaits(signing[s].order, s) THEN [pc |-> "flip", order |-> signing[s].order]
                                         ELSE [pc |-> "done", order |-> None]]
    /\ UNCHANGED <<moneyVars, order, signing, accepted, run, dunned>>

MarkApproved(d) ==
    /\ delivery[d].pc = "flip"
    /\ order' = [order EXCEPT ![delivery[d].order].status = "approved"]
    /\ delivery' = [delivery EXCEPT ![d].pc = "emit"]
    /\ UNCHANGED <<moneyVars, signing, accepted, run, dunned>>

EmitAccepted(d) ==
    /\ delivery[d].pc = "emit"
    /\ accepted' \in {accepted, accepted \cup {<<delivery[d].order, d>>}}
    /\ delivery' = [delivery EXCEPT ![d].pc = "done"]
    /\ UNCHANGED <<moneyVars, order, signing, run, dunned>>

-----------------------------------------------------------------------------
(* changeOrderAccepted, step "apply": approveChangeOrder, then agent_run.  *)

Start(r, o, d) ==
    /\ run[r].pc = "idle"
    /\ <<o, d>> \in accepted
    /\ \A q \in Runs : run[q].by # d
    /\ run' = [run EXCEPT ![r].pc = "apply", ![r].order = o, ![r].by = d]
    /\ UNCHANGED <<moneyVars, order, signVars, dunned>>

Applied(o) == order[o].applied

ApplyRead(r) ==
    LET o == run[r].order IN
    /\ run[r].pc = "apply"
    /\ run' = [run EXCEPT
          ![r].pc = IF Applied(o) THEN "logApplied" ELSE "write",
          ![r].invoice = IF Applied(o) THEN order[o].invoice ELSE None,
          ![r].total = IF Applied(o) THEN @ ELSE order[o].total]
    /\ UNCHANGED <<moneyVars, order, signVars, dunned>>

\* value_final = coalesce(value_final, value_estimate, 0) + total, in SQL.
BumpedBug(t) == ValueEstimate + t         \* mutant: the coalesce the wrong way round
Bumped(t) == (IF valueFinal = None THEN ValueEstimate ELSE valueFinal) + t

DraftedBug(t) == TRUE                     \* mutant: a credit is invoiced too
Drafted(t) == t > 0

ApplyWrite(r) ==
    LET o == run[r].order
        t == run[r].total
        v == IF Drafted(t) THEN r ELSE None
    IN  /\ run[r].pc = "write"
        /\ valueFinal' = Bumped(t)
        /\ supplement' = IF Drafted(t)
              THEN [supplement EXCEPT ![r] = [status |-> "draft", amount |-> t, checkout |-> FALSE]]
              ELSE supplement
        /\ order' = [order EXCEPT ![o].applied = TRUE, ![o].invoice = v]
        /\ run' = [run EXCEPT ![r].pc = "logApplied", ![r].invoice = v, ![r].bumped = TRUE]
        /\ UNCHANGED <<stripeConnected, signVars, dunned>>

LogApplied(r) ==
    /\ run[r].pc = "logApplied"
    /\ run' = [run EXCEPT ![r].pc = "load", ![r].tries = 0]
    /\ UNCHANGED <<moneyVars, order, signVars, dunned>>

-----------------------------------------------------------------------------
(* Step "auto-send-invoice": autoSendSupplementalInvoice.                  *)

LoadInvoice(r) ==
    LET v == run[r].invoice IN
    /\ run[r].pc = "load"
    /\ run' = [run EXCEPT ![r].pc =
          IF v # None /\ stripeConnected /\ supplement[v].status = "draft"
            THEN "number" ELSE "done"]
    /\ UNCHANGED <<moneyVars, order, signVars, dunned>>

\* sendInvoice: UPDATE ... WHERE status = 'draft'; no row means somebody else did.
StillDraft(v) == supplement[v].status = "draft"

NumberInvoice(r) ==
    LET v == run[r].invoice IN
    /\ run[r].pc = "number"
    /\ IF StillDraft(v)
         THEN /\ supplement' = [supplement EXCEPT ![v].status = "sent"]
              /\ run' = [run EXCEPT ![r].pc = "checkout", ![r].numbered = TRUE]
         ELSE /\ run' = [run EXCEPT ![r].pc = "done"]
              /\ UNCHANGED supplement
    /\ UNCHANGED <<stripeConnected, valueFinal, order, signVars, dunned>>

CreateCheckout(r) ==
    /\ run[r].pc = "checkout"
    /\ run' = [run EXCEPT ![r].pc = "store"]
    /\ UNCHANGED <<moneyVars, order, signVars, dunned>>

StoreCheckout(r) ==
    /\ run[r].pc = "store"
    /\ supplement' = [supplement EXCEPT ![run[r].invoice].checkout = TRUE]
    /\ run' = [run EXCEPT ![r].pc = "logSent"]
    /\ UNCHANGED <<stripeConnected, valueFinal, order, signVars, dunned>>

AfterSentBug(r) ==                        \* mutant: if (applied.invoiceCreated)
    IF run[r].bumped THEN "enroll" ELSE "done"
AfterSent(r) == "enroll"                  \* if (result.sent)

LogSent(r) ==
    /\ run[r].pc = "logSent"
    /\ run' = [run EXCEPT ![r].pc = AfterSent(r), ![r].tries = 0]
    /\ UNCHANGED <<moneyVars, order, signVars, dunned>>

\* Step "enroll-dunning".
EnrollDunning(r) ==
    /\ run[r].pc = "enroll"
    /\ dunned' = dunned \cup {<<run[r].invoice, r>>}
    /\ run' = [run EXCEPT ![r].pc = "done"]
    /\ UNCHANGED <<moneyVars, order, signVars>>

-----------------------------------------------------------------------------
\* A step that throws, or whose process dies, starts over; after MaxAttempts the
\* run fails.  What its transactions committed stays.
Restart(pc) == CASE pc \in {"apply", "write", "logApplied"} -> "apply"
                 [] pc \in {"load", "number", "checkout", "store", "logSent"} -> "load"
                 [] pc = "enroll" -> "enroll"
TriesBug(r) == 0                          \* mutant: the attempts are not counted
Tries(r) == run[r].tries + 1
Exhausted(n) == n >= MaxAttempts

StepFails(r) ==
    /\ run[r].pc \notin {"idle", "done", "failed"}
    /\ run' = [run EXCEPT ![r].pc = IF Exhausted(Tries(r)) THEN "failed" ELSE Restart(@),
                          ![r].tries = Tries(r), ![r].stumbled = TRUE]
    /\ UNCHANGED <<moneyVars, order, signVars, dunned>>

RunStep(r) ==
    \/ ApplyRead(r) \/ ApplyWrite(r) \/ LogApplied(r)
    \/ LoadInvoice(r) \/ NumberInvoice(r) \/ CreateCheckout(r) \/ StoreCheckout(r)
    \/ LogSent(r) \/ EnrollDunning(r)

Next ==
    \/ ConnectStripe
    \/ \E o \in Orders, t \in Totals : CreateChangeOrder(o, t) \/ EditLineItems(o, t)
    \/ \E s \in Submissions, o \in Orders : RequestSignature(s, o)
    \/ \E s \in Submissions : StoreSubmission(s) \/ HomeownerSigns(s)
    \/ \E v \in Runs : StaffSend(v) \/ StaffVoid(v)
    \/ \E d \in Deliveries, s \in Submissions : Deliver(d, s)
    \/ \E d \in Deliveries : MarkApproved(d) \/ EmitAccepted(d)
    \/ \E r \in Runs, o \in Orders, d \in Deliveries : Start(r, o, d)
    \/ \E r \in Runs : RunStep(r) \/ StepFails(r)

Spec == Init /\ [][Next]_vars

\* Inngest starts a run for an event it took, and runs its steps.
Fairness ==
    /\ \A r \in Runs : WF_vars(RunStep(r))
    /\ \A o \in Orders, d \in Deliveries : WF_vars(\E r \in Runs : Start(r, o, d))

FairSpec == Spec /\ Fairness

-----------------------------------------------------------------------------
(* Safety.                                                                 *)

Bumps == {r \in Runs : run[r].bumped}

\* Two change orders of one job applied at once lose no delta: the contract value is
\* the estimate and every delta applied, credits included (approveChangeOrder).
ValueIsSumOfDeltas ==
    IF Bumps = {} THEN valueFinal = None
    ELSE valueFinal = FoldSet(LAMBDA r, sum : sum + run[r].total, ValueEstimate, Bumps)

\* A run whose apply step is retried, before or after its commit, applies its order
\* once: what is billed for an order is what was added to the contract for it.
BilledIsApplied ==
    \A r \in Runs :
        /\ supplement[r].status # "absent" =>
              run[r].bumped /\ supplement[r].amount = run[r].total /\ run[r].total > 0
        /\ run[r].bumped => order[run[r].order].applied
        /\ supplement[r].status = "absent" => (run[r].bumped => run[r].total <= 0)

\* Retries and concurrent runs number an invoice once at most.
NumberedOnce ==
    \A q, r \in Runs : run[q].numbered /\ run[r].numbered /\ run[q].invoice = run[r].invoice => q = r

\* Dunning is told only about an invoice that has its pay link and that the run itself sent.
EnrolledWasSent ==
    \A e \in dunned : /\ run[e[2]].numbered /\ run[e[2]].invoice = e[1]
                      /\ supplement[e[1]].checkout

\* The known gap and nothing else: an invoice the run sent misses dunning only when
\* one of its steps failed.
GapOnlyAfterFailure ==
    \A r \in Runs : run[r].pc = "done" /\ run[r].numbered /\ ~run[r].stumbled
                       => <<run[r].invoice, r>> \in dunned

\* An order is applied only after the homeowner signed one of its submissions.
AppliedWasSigned ==
    \A o \in Orders : order[o].applied =>
        \E s \in Submissions : signing[s].order = o /\ signing[s].phase = "signed"

\* The contract value is what was applied, and each row of the billing chain stands on the
\* one before it: signed, applied, billed, numbered once, enrolled unless a step failed.
ChangeOrdersInv ==
    /\ ChangeOrdersTypeOK
    /\ ValueIsSumOfDeltas /\ GapOnlyAfterFailure
    /\ AppliedWasSigned /\ BilledIsApplied /\ NumberedOnce /\ EnrolledWasSent

-----------------------------------------------------------------------------
\* Every accepted event is acted on: its order is applied or its run gave up.
AcceptedIsApplied ==
    \A o \in Orders, d \in Deliveries :
        <<o, d>> \in accepted ~> (order[o].applied \/ \E r \in Runs : run[r].pc = "failed")

-----------------------------------------------------------------------------
(* What the repository says and the code does not do.                      *)

\* The change order design: "no double value-bump or double invoice".
AppliedOnce == \A q, r \in Bumps : run[q].order = run[r].order => q = r

\* The change order design: "once sent, it's immutable".
AppliedIsSigned ==
    \A r \in Bumps : \E s \in Submissions :
        signing[s].order = run[r].order /\ signing[s].total = run[r].total
=============================================================================

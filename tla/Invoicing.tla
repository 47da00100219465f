----------------------------- MODULE Invoicing -----------------------------
(***************************************************************************)
(* The money path of one tenant: draft invoices, the numbered send under   *)
(* the tenant's advisory lock, void, the depreciation send, hosted         *)
(* checkout, and the reconciliation of Stripe webhook deliveries.          *)
(*                                                                         *)
(* Every withTenant call is one READ COMMITTED transaction.  A statement   *)
(* sees what is committed when it starts, so a transaction whose later     *)
(* statement depends on an earlier read is split there and keeps what it   *)
(* read in its process record.  The last write and the COMMIT are one      *)
(* step: nobody sees the write sooner, and the row lock it takes is held   *)
(* for that step only.  No transaction is retried by the code.             *)
(***************************************************************************)
EXTENDS Naturals, FiniteSets
LOCAL INSTANCE FiniteSetsExt

CONSTANTS
    Invoices,     \* invoice rows the tenant may create
    AmountDue,    \* amount_due each is created with, in cents
    Senders,      \* calls of sendInvoice (bound: one call each)
    Approvals,    \* calls of sendDepreciationInvoice (bound: one call each)
    Sessions,     \* Stripe Checkout sessions; each stands for its payment intent too
    Deliveries,   \* deliveries of a Stripe webhook (bound: one each)
    None          \* SQL null, and "nobody"

ASSUME AmountDueAssumption == AmountDue \in [Invoices -> Nat]
ASSUME InvoicesAssumption == IsFiniteSet(Invoices)
ASSUME NoneAssumption ==
    None \notin Invoices \cup Senders \cup Approvals \cup Sessions \cup Deliveries

VARIABLES
    stripeConnected,  \* tenant.stripe_account_id is set
    invoice,          \* table invoice; status "absent" before the INSERT
    payments,         \* table payment, committed rows
    deliveryDone,     \* invoices whose INVOICE_DELIVERY job task was marked done
    numberLock,       \* holder of pg_advisory_xact_lock(hashtext(tenant))
    sending,          \* calls of sendInvoice in progress
    approving,        \* calls of sendDepreciationInvoice in progress
    session,          \* Checkout sessions, and where Stripe has them
    stripeEvents,     \* webhook events Stripe has produced; any may be redelivered
    webhook,          \* webhook deliveries in progress
    emitted           \* Inngest events that reached the bus

tableVars   == <<invoice, payments, deliveryDone>>
sendVars    == <<numberLock, sending, approving>>
stripeVars  == <<session, stripeEvents>>
vars == <<stripeConnected, tableVars, sendVars, stripeVars, webhook, emitted>>

-----------------------------------------------------------------------------
Status      == {"absent", "draft", "sent", "paid", "overdue", "void"}
SendPc      == {"idle", "lock", "count", "assign", "emit", "done", "collided"}
ApprovePc   == {"idle", "write", "emit", "done"}
SessionPhase == {"unused", "opening", "open", "processing", "settled"}
EventKind   == {"completed_paid", "completed_unpaid", "async_succeeded"}
WebhookPc   == {"idle", "dup", "insert", "write", "emit", "done", "failed"}
EventName   == {"invoice/sent", "invoice/paid", "invoice/void"}

InvoiceRow  == [status: Status, number: Nat, amountPaid: Nat, checkout: Sessions \cup {None}]
PaymentRow  == [by: Deliveries, intent: Sessions, invoice: Invoices, amount: Nat]
SendRow     == [pc: SendPc, invoice: Invoices \cup {None}, count: Nat]
ApproveRow  == [pc: ApprovePc, invoice: Invoices \cup {None}]
SessionRow  == [phase: SessionPhase, invoice: Invoices \cup {None}, amount: Nat]
StripeEvent == [session: Sessions, kind: EventKind]
WebhookRow  == [pc: WebhookPc, event: StripeEvent \cup {None}, amountPaid: Nat, nowPaid: BOOLEAN]
Emitter     == Senders \cup Approvals \cup Deliveries \cup {None}
BusEvent    == EventName \X Invoices \X Emitter

TypeOK ==
    /\ stripeConnected \in BOOLEAN
    /\ invoice \in [Invoices -> InvoiceRow]
    /\ payments \subseteq PaymentRow
    /\ deliveryDone \subseteq Invoices
    /\ numberLock \in Senders \cup {None}
    /\ sending \in [Senders -> SendRow]
    /\ approving \in [Approvals -> ApproveRow]
    /\ session \in [Sessions -> SessionRow]
    /\ stripeEvents \subseteq StripeEvent
    /\ webhook \in [Deliveries -> WebhookRow]
    /\ emitted \subseteq BusEvent

Init ==
    /\ stripeConnected = FALSE
    /\ invoice = [i \in Invoices |->
                    [status |-> "absent", number |-> 0, amountPaid |-> 0, checkout |-> None]]
    /\ payments = {}
    /\ deliveryDone = {}
    /\ numberLock = None
    /\ sending = [s \in Senders |-> [pc |-> "idle", invoice |-> None, count |-> 0]]
    /\ approving = [a \in Approvals |-> [pc |-> "idle", invoice |-> None]]
    /\ session = [p \in Sessions |-> [phase |-> "unused", invoice |-> None, amount |-> 0]]
    /\ stripeEvents = {}
    /\ webhook = [d \in Deliveries |->
                    [pc |-> "idle", event |-> None, amountPaid |-> 0, nowPaid |-> FALSE]]
    /\ emitted = {}

Announced(name, i) == \E by \in Emitter : <<name, i, by>> \in emitted
Exists(i)   == invoice[i].status # "absent"
Numbered    == {i \in Invoices : invoice[i].number # 0}
\* A best-effort inngest.send: the caller catches the error, so the event may be lost.
BestEffort(name, i, by) == emitted' \in {emitted, emitted \cup {<<name, i, by>>}}

-----------------------------------------------------------------------------
(* Staff actions on an invoice.                                            *)

\* The Connect callback stores tenant.stripe_account_id.
ConnectStripe ==
    /\ ~stripeConnected
    /\ stripeConnected' = TRUE
    /\ UNCHANGED <<tableVars, sendVars, stripeVars, webhook, emitted>>

CreateInvoice(i) ==
    /\ ~Exists(i)
    /\ invoice' = [invoice EXCEPT ![i].status = "draft"]
    /\ UNCHANGED <<stripeConnected, payments, deliveryDone, sendVars, stripeVars, webhook, emitted>>

\* voidInvoice has no status condition: a paid invoice may be voided.
VoidInvoice(i) ==
    /\ Exists(i)
    /\ invoice' = [invoice EXCEPT ![i].status = "void"]
    /\ BestEffort("invoice/void", i, None)
    /\ UNCHANGED <<stripeConnected, payments, deliveryDone, sendVars, stripeVars, webhook>>

-----------------------------------------------------------------------------
(* sendInvoice: lock, count, conditional update; then the action's event.  *)

BeginSend(s, i) ==
    /\ sending[s].pc = "idle"
    /\ Exists(i)
    /\ stripeConnected          \* otherwise StripeNotConnectedError
    /\ sending' = [sending EXCEPT ![s] = [pc |-> "lock", invoice |-> i, count |-> 0]]
    /\ UNCHANGED <<stripeConnected, tableVars, numberLock, approving, stripeVars, webhook, emitted>>

\* pg_advisory_xact_lock waits for the holder; COMMIT or ROLLBACK releases it.
LockFreeBug == TRUE                       \* mutant: the lock statement dropped
LockFree == numberLock = None
ReleaseBug(s) == numberLock               \* mutant: a session-level lock, never unlocked
Release(s) == IF numberLock = s THEN None ELSE numberLock

TakeNumberLock(s) ==
    /\ sending[s].pc = "lock"
    /\ LockFree
    /\ numberLock' = s
    /\ sending' = [sending EXCEPT ![s].pc = "count"]
    /\ UNCHANGED <<stripeConnected, tableVars, approving, stripeVars, webhook, emitted>>

CountNumbered(s) ==
    /\ sending[s].pc = "count"
    /\ sending' = [sending EXCEPT ![s].pc = "assign", ![s].count = Cardinality(Numbered)]
    /\ UNCHANGED <<stripeConnected, tableVars, numberLock, approving, stripeVars, webhook, emitted>>

\* The UPDATE's WHERE, re-evaluated on the committed row.
StillDraftBug(i) == TRUE                  \* mutant: WHERE on the id alone
StillDraft(i) == invoice[i].status = "draft"

\* if (row) markJobTaskDoneTx(INVOICE_DELIVERY)
Delivered(i, matched) == IF matched THEN deliveryDone \cup {i} ELSE deliveryDone

\* invoice_tenant_number_uniq backstops the number.
Collides(i, n) == \E other \in Invoices \ {i} : invoice[other].number = n

AssignNumber(s) ==
    LET i == sending[s].invoice
        n == sending[s].count + 1
        fails == StillDraft(i) /\ Collides(i, n)
    IN  /\ sending[s].pc = "assign"
        /\ numberLock' = Release(s)
        /\ sending' = [sending EXCEPT ![s].pc = IF fails THEN "collided" ELSE "emit"]
        /\ deliveryDone' = IF fails THEN deliveryDone ELSE Delivered(i, StillDraft(i))
        /\ invoice' = IF StillDraft(i) /\ ~fails
                        THEN [invoice EXCEPT ![i].number = n, ![i].status = "sent"]
                        ELSE invoice
        /\ UNCHANGED <<stripeConnected, payments, approving, stripeVars, webhook, emitted>>

\* sendInvoiceAction emits whether or not the UPDATE matched the row.
EmitSent(s) ==
    /\ sending[s].pc = "emit"
    /\ BestEffort("invoice/sent", sending[s].invoice, s)
    /\ sending' = [sending EXCEPT ![s].pc = "done"]
    /\ UNCHANGED <<stripeConnected, tableVars, numberLock, approving, stripeVars, webhook>>

\* The server process dies: the transaction rolls back, its lock is released.
SendCrashes(s) ==
    /\ sending[s].pc \in {"lock", "count", "assign", "emit"}
    /\ sending' = [sending EXCEPT ![s].pc = "done"]
    /\ numberLock' = Release(s)
    /\ UNCHANGED <<stripeConnected, tableVars, approving, stripeVars, webhook, emitted>>

-----------------------------------------------------------------------------
(* sendDepreciationInvoice: reads the status, then updates by id alone and *)
(* assigns neither number nor due date.                                    *)

BeginApproval(a, i) ==
    /\ approving[a].pc = "idle"
    /\ invoice[i].status = "draft"
    /\ approving' = [approving EXCEPT ![a] = [pc |-> "write", invoice |-> i]]
    /\ UNCHANGED <<stripeConnected, tableVars, numberLock, sending, stripeVars, webhook, emitted>>

ApproveSend(a) ==
    /\ approving[a].pc = "write"
    /\ invoice' = [invoice EXCEPT ![approving[a].invoice].status = "sent"]
    /\ approving' = [approving EXCEPT ![a].pc = "emit"]
    /\ UNCHANGED <<stripeConnected, payments, deliveryDone, numberLock, sending, stripeVars, webhook, emitted>>

EmitApproved(a) ==
    /\ approving[a].pc = "emit"
    /\ BestEffort("invoice/sent", approving[a].invoice, a)
    /\ approving' = [approving EXCEPT ![a].pc = "done"]
    /\ UNCHANGED <<stripeConnected, tableVars, numberLock, sending, stripeVars, webhook>>

-----------------------------------------------------------------------------
(* Checkout: createCheckoutForInvoice reads, asks Stripe, stores the id.   *)

StartCheckout(p, i) ==
    /\ session[p].phase = "unused"
    /\ invoice[i].status \notin {"absent", "paid", "void"}
    /\ stripeConnected
    /\ AmountDue[i] > 0         \* Stripe refuses a zero charge
    /\ session' = [session EXCEPT ![p] = [phase |-> "opening", invoice |-> i, amount |-> AmountDue[i]]]
    /\ UNCHANGED <<stripeConnected, tableVars, sendVars, stripeEvents, webhook, emitted>>

\* Stripe has created the session; its id is stored, whatever happened to the
\* invoice meanwhile, and only then is the pay link handed out.  If the action
\* dies first the session stays "opening": nobody holds its link.

StoreSession(p) ==
    /\ session[p].phase = "opening"
    /\ session' = [session EXCEPT ![p].phase = "open"]
    /\ invoice' = [invoice EXCEPT ![session[p].invoice].checkout = p]
    /\ UNCHANGED <<stripeConnected, payments, deliveryDone, sendVars, stripeEvents, webhook, emitted>>

\* The homeowner pays: a card settles at once, a bank debit completes unpaid
\* and settles later.
PayByCard(p) ==
    /\ session[p].phase = "open"
    /\ session' = [session EXCEPT ![p].phase = "settled"]
    /\ stripeEvents' = stripeEvents \cup {[session |-> p, kind |-> "completed_paid"]}
    /\ UNCHANGED <<stripeConnected, tableVars, sendVars, webhook, emitted>>

PayByBank(p) ==
    /\ session[p].phase = "open"
    /\ session' = [session EXCEPT ![p].phase = "processing"]
    /\ stripeEvents' = stripeEvents \cup {[session |-> p, kind |-> "completed_unpaid"]}
    /\ UNCHANGED <<stripeConnected, tableVars, sendVars, webhook, emitted>>

BankSettles(p) ==
    /\ session[p].phase = "processing"
    /\ session' = [session EXCEPT ![p].phase = "settled"]
    /\ stripeEvents' = stripeEvents \cup {[session |-> p, kind |-> "async_succeeded"]}
    /\ UNCHANGED <<stripeConnected, tableVars, sendVars, webhook, emitted>>

-----------------------------------------------------------------------------
(* The webhook route and recordStripePayment.                              *)

\* Only a settled session goes past the payment_status gate.
SettlesBug(e) == TRUE                     \* mutant: the payment_status check dropped
Settles(e) == e.kind \in {"completed_paid", "async_succeeded"}

\* Stripe delivers at least once, in any order.
Deliver(d) ==
    /\ webhook[d].pc = "idle"
    /\ \E e \in stripeEvents :
         webhook' = [webhook EXCEPT ![d] =
                       [pc |-> IF Settles(e) THEN "dup" ELSE "done", event |-> e,
                        amountPaid |-> 0, nowPaid |-> FALSE]]
    /\ UNCHANGED <<stripeConnected, tableVars, sendVars, stripeVars, emitted>>

Intent(d)   == webhook[d].event.session
PaysFor(d)  == session[Intent(d)].invoice
Amount(d)   == session[Intent(d)].amount
Recorded(p) == \E r \in payments : r.intent = p

\* The duplicate check reads committed rows only.
SeesDuplicateBug(d) ==                    \* mutant: an uncommitted row counts too
    \/ Recorded(Intent(d))
    \/ \E other \in Deliveries : webhook[other].pc = "write" /\ Intent(other) = Intent(d)
SeesDuplicate(d) == Recorded(Intent(d))

CheckDuplicate(d) ==
    /\ webhook[d].pc = "dup"
    /\ webhook' = [webhook EXCEPT ![d].pc = IF SeesDuplicate(d) THEN "done" ELSE "insert"]
    /\ UNCHANGED <<stripeConnected, tableVars, sendVars, stripeVars, emitted>>

\* payment_stripe_pmt_uniq: an INSERT waits for an uncommitted row with its key,
\* and fails (23505, logged, 200) on a committed one.  The invoice is read next.
KeyFreeBug(d) == TRUE                     \* mutant: no unique index
KeyFree(d) == \A other \in Deliveries : webhook[other].pc = "write" => Intent(other) # Intent(d)

InsertPayment(d) ==
    /\ webhook[d].pc = "insert"
    /\ KeyFree(d)
    /\ webhook' = [webhook EXCEPT
          ![d].pc = IF Recorded(Intent(d)) THEN "failed" ELSE "write",
          ![d].amountPaid = IF Recorded(Intent(d)) THEN 0 ELSE invoice[PaysFor(d)].amountPaid]
    /\ UNCHANGED <<stripeConnected, tableVars, sendVars, stripeVars, emitted>>

\* amount_paid is written from the value read, not added to in SQL.
WritePayment(d) ==
    LET i     == PaysFor(d)
        total == webhook[d].amountPaid + Amount(d)
        full  == total >= AmountDue[i]
    IN  /\ webhook[d].pc = "write"
        /\ payments' = payments \cup
             {[by |-> d, intent |-> Intent(d), invoice |-> i, amount |-> Amount(d)]}
        /\ invoice' = [invoice EXCEPT ![i].amountPaid = total,
                                      ![i].status = IF full THEN "paid" ELSE @]
        /\ webhook' = [webhook EXCEPT ![d].pc = "emit", ![d].nowPaid = full]
        /\ UNCHANGED <<stripeConnected, deliveryDone, sendVars, stripeVars, emitted>>

EmitPaid(d) ==
    /\ webhook[d].pc = "emit"
    /\ IF webhook[d].nowPaid THEN BestEffort("invoice/paid", PaysFor(d), d) ELSE UNCHANGED emitted
    /\ webhook' = [webhook EXCEPT ![d].pc = "done"]
    /\ UNCHANGED <<stripeConnected, tableVars, sendVars, stripeVars>>

\* An error inside the transaction rolls it back; the route logs it and answers
\* 200, so Stripe does not retry on its account.
DeliveryFails(d) ==
    /\ webhook[d].pc \in {"dup", "insert", "write"}
    /\ webhook' = [webhook EXCEPT ![d].pc = "failed"]
    /\ UNCHANGED <<stripeConnected, tableVars, sendVars, stripeVars, emitted>>

-----------------------------------------------------------------------------
SendStep(s) == TakeNumberLock(s) \/ CountNumbered(s) \/ AssignNumber(s) \/ EmitSent(s)

ApprovalStep(a) == ApproveSend(a) \/ EmitApproved(a)

ReconcileStep(d) == CheckDuplicate(d) \/ InsertPayment(d) \/ WritePayment(d) \/ EmitPaid(d)

StaffStep(i) ==
    \/ CreateInvoice(i) \/ VoidInvoice(i)
    \/ \E s \in Senders : BeginSend(s, i)
    \/ \E a \in Approvals : BeginApproval(a, i)
    \/ \E p \in Sessions : StartCheckout(p, i)

StripeStep(p) == StoreSession(p) \/ PayByCard(p) \/ PayByBank(p) \/ BankSettles(p)

Next ==
    \/ ConnectStripe
    \/ \E i \in Invoices : StaffStep(i)
    \/ \E s \in Senders : SendStep(s) \/ SendCrashes(s)
    \/ \E a \in Approvals : ApprovalStep(a)
    \/ \E p \in Sessions : StripeStep(p)
    \/ \E d \in Deliveries : Deliver(d) \/ ReconcileStep(d) \/ DeliveryFails(d)

Spec == Init /\ [][Next]_vars

\* A request that was started runs on unless its process dies.
Fairness ==
    /\ \A s \in Senders : WF_vars(SendStep(s))
    /\ \A d \in Deliveries : WF_vars(ReconcileStep(d))

FairSpec == Spec /\ Fairness

-----------------------------------------------------------------------------
(* Safety.                                                                 *)

\* Concurrent sends, crashes in the middle of them, and voids leave the numbers
\* handed out without a gap or a repeat (sendInvoice's lock-count-update).
GaplessNumbers ==
    {invoice[i].number : i \in Numbered} = 1..Cardinality(Numbered)

\* The advisory lock does its work: no send ever runs into the unique index on
\* (tenant, number) that backstops it.
SendNeverCollides == \A s \in Senders : sending[s].pc # "collided"

\* The numbers printed on a tenant's invoices are 1..n, and the lock alone sees to it.
NumbersInv == GaplessNumbers /\ SendNeverCollides

\* A number, once printed on an invoice, is never changed by a second send.
NumbersArePermanent ==
    [][\A i \in Numbered : invoice'[i].number = invoice[i].number]_vars

\* The INVOICE_DELIVERY task is marked done for exactly the invoices that went
\* out through sendInvoice, in the transaction that numbers them.
DeliveryTaskMatchesNumber == deliveryDone = Numbered

Collected(i) == {p \in Sessions : session[p].phase = "settled" /\ session[p].invoice = i}

\* An invoice is paid, and invoice/paid is announced, only when Stripe settled a
\* charge of at least the amount due: never on a bank debit still in flight.
PaidMeansCollected ==
    \A i \in Invoices :
        (invoice[i].status = "paid" \/ Announced("invoice/paid", i))
            => \E p \in Collected(i) : session[p].amount >= AmountDue[i]

\* However often Stripe delivers an event, and however the deliveries interleave,
\* one payment row at most is recorded for a charge, for its invoice and amount.
EachChargeRecordedOnce ==
    \A r \in payments :
        /\ r.intent \in Collected(r.invoice)
        /\ r.amount = session[r.intent].amount
        /\ \A q \in payments : q.intent = r.intent => q = r

\* The money recorded is the money Stripe collected, no more and no oftener.
LedgerInv == PaidMeansCollected /\ EachChargeRecordedOnce

\* Numbers on paper and money in the ledger are right at once, whoever sends and whatever
\* Stripe repeats.
InvoicingInv == NumbersInv /\ LedgerInv

-----------------------------------------------------------------------------
(* What makes those invariants inductive: how the processes in flight, the  *)
(* rows and Stripe's sessions are tied to each other.                       *)

\* A process past its first step holds the row it started on; a session that was
\* asked for is for that invoice's full amount; an event is only ever produced
\* by a session that was paid, and a delivery carries an event Stripe produced.
ProcessesLinked ==
    /\ \A s \in Senders : sending[s].pc # "idle" => sending[s].invoice \in Invoices
    /\ \A a \in Approvals : approving[a].pc # "idle" => approving[a].invoice \in Invoices
    /\ \A p \in Sessions : session[p].phase # "unused" =>
          session[p].invoice \in Invoices /\ session[p].amount = AmountDue[session[p].invoice]
    /\ \A e \in stripeEvents :
          /\ session[e.session].phase \in {"processing", "settled"}
          /\ Settles(e) => session[e.session].phase = "settled"
    /\ \A d \in Deliveries :
          /\ webhook[d].pc # "idle" => webhook[d].event \in stripeEvents
          /\ webhook[d].pc \notin {"idle", "done"} => Settles(webhook[d].event)

\* Between INSERT and COMMIT a delivery is alone with its charge.
InsertsExclusive ==
    \A d \in Deliveries : webhook[d].pc = "write" =>
        /\ ~Recorded(Intent(d))
        /\ \A c \in Deliveries : webhook[c].pc = "write" /\ Intent(c) = Intent(d) => c = d

\* Between its count and its update a send is alone, and its count stays right.
LockProtectsCount ==
    /\ \A s \in Senders : sending[s].pc \in {"count", "assign"} <=> numberLock = s
    /\ \A s \in Senders : sending[s].pc = "assign" => sending[s].count = Cardinality(Numbered)
    /\ \A i \in Invoices : invoice[i].status \in {"absent", "draft"} => i \notin Numbered

-----------------------------------------------------------------------------
(* The webhook path implements the charge ledger.                          *)

\* The charges Stripe settled, each with the invoice and amount of its session.
SettledCharges ==
    {[intent |-> p, invoice |-> session[p].invoice, amount |-> session[p].amount] :
        p \in {q \in Sessions : session[q].phase = "settled"}}

Ledger == INSTANCE ChargeLedger WITH
    Charges <- Sessions, Clerks <- Deliveries,
    settled <- SettledCharges, entries <- payments,
    announced <- {i \in Invoices : Announced("invoice/paid", i)}

\* Every step of the tables, the webhook deliveries and the bus is a step of the ledger, or
\* none: no interleaving enters a charge twice, or announces what was not collected.
ImplementsLedger == Ledger!Spec

-----------------------------------------------------------------------------
(* What makes the refinement inductive.                                    *)

\* A delivery that has an announcement to make committed its entry before.
AnnouncesItsEntry ==
    \A d \in Deliveries : webhook[d].pc = "emit" =>
        [by |-> d, intent |-> Intent(d), invoice |-> PaysFor(d), amount |-> Amount(d)] \in payments

-----------------------------------------------------------------------------
(* Liveness, under FairSpec.                                               *)

\* A send that queues for the number lock gets through or its process dies: the
\* lock is handed on by commits, rollbacks and crashes alike.
EverySendEnds ==
    \A s \in Senders : sending[s].pc = "lock" ~> sending[s].pc \in {"done", "collided"}

\* A delivery that passed the payment_status gate gets its charge into the
\* ledger, its own row or a concurrent delivery's, unless its transaction fails:
\* waiting on another delivery's uncommitted row never ends in neither.
SettledReachesLedger ==
    \A d \in Deliveries, p \in Sessions :
        (webhook[d].pc = "dup" /\ Intent(d) = p) ~> (Recorded(p) \/ webhook[d].pc = "failed")

\* Neither lock of the invoices, that of the numbers and that of a Stripe key, keeps anybody
\* for ever.
NobodyStarves == EverySendEnds /\ SettledReachesLedger

-----------------------------------------------------------------------------
(* What the repository says and the code does not do.                      *)

PaidTotal(i) == FoldSet(LAMBDA r, sum : sum + r.amount, 0, {r \in payments : r.invoice = i})

\* The money-path design: "amountPaid += amount" on every recorded payment.
AmountPaidIsLedgerTotal == \A i \in Invoices : invoice[i].amountPaid = PaidTotal(i)

\* The money-path design: invoice/sent is emitted when "sendInvoice succeeds".
SentEventMeansSent ==
    \A i \in Invoices : Announced("invoice/sent", i) =>
        \/ i \in Numbered
        \/ \E a \in Approvals : approving[a].invoice = i /\ approving[a].pc = "done"

\* sendDepreciationInvoice: "No-op if the invoice is not a draft".
DepreciationSendOnlyFromDraft ==
    [][\A i \in Invoices : invoice[i].status = "void" => invoice'[i].status # "sent"]_vars
=============================================================================

-------------------------- MODULE InvoicingProofs --------------------------
(***************************************************************************)
(* Proofs about Invoicing for every set of invoices, sessions and          *)
(* processes.  The typing of a payment row rests on the links between a    *)
(* delivery, its event and its session, so the two are proved together.    *)
(***************************************************************************)
EXTENDS Dunning, FiniteSetTheorems, TLAPS

(* The rows numbered so far are finitely many: counting them gives a natural *)
(* number.                                                                   *)
LEMMA NumberedFinite == IsFiniteSet(Numbered) /\ Cardinality(Numbered) \in Nat
<1>1. Numbered \in SUBSET Invoices
  BY DEF Numbered
<1>2. QED BY <1>1, InvoicesAssumption, FS_Subset, FS_CardinalityType

(* Writing a delivery's program counter and the amount it read keeps its     *)
(* record one.                                                               *)
LEMMA WebhookRowWrite ==
  ASSUME NEW f \in [Deliveries -> WebhookRow], NEW d \in Deliveries,
         NEW next \in WebhookPc, NEW seen \in Nat
  PROVE  [f EXCEPT ![d].pc = next, ![d].amountPaid = seen] \in [Deliveries -> WebhookRow]
BY DEF WebhookRow

(* So does writing what it found out about the total.                        *)
LEMMA WebhookRowPaid ==
  ASSUME NEW f \in [Deliveries -> WebhookRow], NEW d \in Deliveries,
         NEW pc \in WebhookPc, NEW full \in BOOLEAN
  PROVE  [f EXCEPT ![d].pc = pc, ![d].nowPaid = full] \in [Deliveries -> WebhookRow]
BY DEF WebhookRow

(* Writing the amount paid and the status of an invoice keeps its row a row. *)
LEMMA InvoiceRowWrite ==
  ASSUME NEW f \in [Invoices -> InvoiceRow], NEW i \in Invoices,
         NEW total \in Nat, NEW status \in Status
  PROVE  [f EXCEPT ![i].amountPaid = total, ![i].status = status] \in [Invoices -> InvoiceRow]
BY DEF InvoiceRow

(* A step keeps the tables, the processes and the events well typed.        *)
LEMMA TypeStep == TypeOK /\ ProcessesLinked /\ [Next]_vars => TypeOK'
<1>1. SUFFICES ASSUME TypeOK, ProcessesLinked, [Next]_vars PROVE TypeOK'
  OBVIOUS
<1>2. QED
  <2> USE <1>1 DEF TypeOK, tableVars, sendVars, stripeVars
  <2>1. CASE ConnectStripe
    BY <2>1 DEF ConnectStripe
  <2>2. ASSUME NEW i \in Invoices, CreateInvoice(i) PROVE TypeOK'
    <3> USE <2>2 DEF CreateInvoice
    <3>1. invoice' \in [Invoices -> InvoiceRow]
      BY DEF InvoiceRow, Status
    <3>2. QED BY <3>1
  <2>3. ASSUME NEW i \in Invoices, VoidInvoice(i) PROVE TypeOK'
    <3> USE <2>3 DEF VoidInvoice, BestEffort
    <3>1. invoice' \in [Invoices -> InvoiceRow]
      BY DEF InvoiceRow, Status
    <3>2. emitted' \subseteq BusEvent
      BY DEF BusEvent, EventName, Emitter
    <3>3. QED BY <3>1, <3>2
  <2>4. ASSUME NEW i \in Invoices, NEW s \in Senders, BeginSend(s, i) PROVE TypeOK'
    <3> USE <2>4 DEF BeginSend
    <3>1. sending' \in [Senders -> SendRow]
      BY DEF SendRow, SendPc
    <3>2. QED BY <3>1
  <2>5. ASSUME NEW i \in Invoices, NEW a \in Approvals, BeginApproval(a, i) PROVE TypeOK'
    <3> USE <2>5 DEF BeginApproval
    <3>1. approving' \in [Approvals -> ApproveRow]
      BY DEF ApproveRow, ApprovePc
    <3>2. QED BY <3>1
  <2>6. ASSUME NEW i \in Invoices, NEW p \in Sessions, StartCheckout(p, i) PROVE TypeOK'
    <3> USE <2>6 DEF StartCheckout
    <3>1. session' \in [Sessions -> SessionRow]
      BY AmountDueAssumption DEF SessionRow, SessionPhase
    <3>2. QED BY <3>1
  <2>7. ASSUME NEW s \in Senders, TakeNumberLock(s) PROVE TypeOK'
    <3> USE <2>7 DEF TakeNumberLock, LockFree
    <3>1. sending' \in [Senders -> SendRow]
      BY DEF SendRow, SendPc
    <3>2. QED BY <3>1
  <2>8. ASSUME NEW s \in Senders, CountNumbered(s) PROVE TypeOK'
    <3> USE <2>8 DEF CountNumbered
    <3>1. sending' \in [Senders -> SendRow]
      BY ZenonT(40), NumberedFinite DEF SendRow, SendPc
    <3>2. QED BY <3>1
  <2>9. ASSUME NEW s \in Senders, AssignNumber(s) PROVE TypeOK'
    <3> USE <2>9 DEF AssignNumber, StillDraft, Collides, Delivered, Release
    <3>1. sending[s].invoice \in Invoices
      BY DEF ProcessesLinked, SendRow, ApproveRow, SessionRow, StripeEvent, WebhookRow, Intent, PaysFor, Amount
    <3>2. invoice' \in [Invoices -> InvoiceRow]
      BY <3>1 DEF InvoiceRow, Status, SendRow
    <3>3. sending' \in [Senders -> SendRow]
      BY <3>1 DEF SendRow, SendPc
    <3>4. deliveryDone' \subseteq Invoices
      BY <3>1
    <3>5. numberLock' \in Senders \cup {None}
      BY <3>1
    <3>6. QED BY <3>2, <3>3, <3>4, <3>5
  <2>10. ASSUME NEW s \in Senders, EmitSent(s) PROVE TypeOK'
    <3> USE <2>10 DEF EmitSent, BestEffort
    <3>1. sending[s].invoice \in Invoices
      BY DEF ProcessesLinked, SendRow, ApproveRow, SessionRow, StripeEvent, WebhookRow, Intent, PaysFor, Amount
    <3>2. sending' \in [Senders -> SendRow]
      BY <3>1 DEF SendRow, SendPc
    <3>3. emitted' \subseteq BusEvent
      BY <3>1 DEF BusEvent, EventName, Emitter
    <3>4. QED BY <3>2, <3>3
  <2>11. ASSUME NEW s \in Senders, SendCrashes(s) PROVE TypeOK'
    <3> USE <2>11 DEF SendCrashes, Release
    <3>1. sending' \in [Senders -> SendRow]
      BY DEF SendRow, SendPc
    <3>2. numberLock' \in Senders \cup {None}
      OBVIOUS
    <3>3. QED BY <3>1, <3>2
  <2>12. ASSUME NEW a \in Approvals, ApproveSend(a) PROVE TypeOK'
    <3> USE <2>12 DEF ApproveSend
    <3>1. approving[a].invoice \in Invoices
      BY DEF ProcessesLinked, SendRow, ApproveRow, SessionRow, StripeEvent, WebhookRow, Intent, PaysFor, Amount
    <3>2. invoice' \in [Invoices -> InvoiceRow]
      BY <3>1 DEF InvoiceRow, Status
    <3>3. approving' \in [Approvals -> ApproveRow]
      BY <3>1 DEF ApproveRow, ApprovePc
    <3>4. QED BY <3>2, <3>3
  <2>13. ASSUME NEW a \in Approvals, EmitApproved(a) PROVE TypeOK'
    <3> USE <2>13 DEF EmitApproved, BestEffort
    <3>1. approving[a].invoice \in Invoices
      BY DEF ProcessesLinked, SendRow, ApproveRow, SessionRow, StripeEvent, WebhookRow, Intent, PaysFor, Amount
    <3>2. approving' \in [Approvals -> ApproveRow]
      BY <3>1 DEF ApproveRow, ApprovePc
    <3>3. emitted' \subseteq BusEvent
      BY <3>1 DEF BusEvent, EventName, Emitter
    <3>4. QED BY <3>2, <3>3
  <2>14. ASSUME NEW p \in Sessions, StripeStep(p) PROVE TypeOK'
    <3> USE <2>14 DEF StripeStep, StoreSession, PayByCard, PayByBank, BankSettles
    <3>1. session' \in [Sessions -> SessionRow]
      BY DEF SessionRow, SessionPhase
    <3>2. invoice' \in [Invoices -> InvoiceRow]
      BY DEF InvoiceRow, Status, SessionRow
    <3>3. stripeEvents' \subseteq StripeEvent
      BY DEF StripeEvent, EventKind
    <3>4. QED BY <3>1, <3>2, <3>3
  <2>15. ASSUME NEW d \in Deliveries, Deliver(d) PROVE TypeOK'
    <3> USE <2>15 DEF Deliver
    <3>1. webhook' \in [Deliveries -> WebhookRow]
      BY DEF WebhookRow, WebhookPc
    <3>2. QED BY <3>1
  <2>16. ASSUME NEW d \in Deliveries, CheckDuplicate(d) PROVE TypeOK'
    <3> USE <2>16 DEF CheckDuplicate, SeesDuplicate
    <3>1. webhook' \in [Deliveries -> WebhookRow]
      BY DEF WebhookRow, WebhookPc
    <3>2. QED BY <3>1
  <2>17. ASSUME NEW d \in Deliveries, InsertPayment(d) PROVE TypeOK'
    <3> USE <2>17 DEF InsertPayment, KeyFree
    <3>1. Intent(d) \in Sessions /\ PaysFor(d) \in Invoices
      BY DEF ProcessesLinked, SendRow, ApproveRow, SessionRow, StripeEvent, WebhookRow, Intent, PaysFor, Amount
    <3>2. webhook' \in [Deliveries -> WebhookRow]
      <4> DEFINE after == IF Recorded(Intent(d)) THEN "failed" ELSE "write"
                 seen == IF Recorded(Intent(d)) THEN 0 ELSE invoice[PaysFor(d)].amountPaid
      <4>1. after \in WebhookPc
        BY DEF WebhookPc
      <4>2. seen \in Nat
        BY <3>1 DEF InvoiceRow
      <4>3. webhook' = [webhook EXCEPT ![d].pc = after, ![d].amountPaid = seen]
        OBVIOUS
      <4> HIDE DEF after, seen
      <4>4. [webhook EXCEPT ![d].pc = after, ![d].amountPaid = seen] \in [Deliveries -> WebhookRow]
        BY <4>1, <4>2, WebhookRowWrite
      <4>5. QED BY <4>3, <4>4
    <3>3. QED BY <3>2
  <2>18. ASSUME NEW d \in Deliveries, WritePayment(d) PROVE TypeOK'
    <3> USE <2>18 DEF WritePayment
    <3>1. Intent(d) \in Sessions /\ PaysFor(d) \in Invoices /\ Amount(d) \in Nat
      BY DEF ProcessesLinked, SendRow, ApproveRow, SessionRow, StripeEvent, WebhookRow, Intent, PaysFor, Amount
    <3>2. invoice' \in [Invoices -> InvoiceRow]
      <4> DEFINE i == PaysFor(d)
                 total == webhook[d].amountPaid + Amount(d)
                 status == IF total >= AmountDue[i] THEN "paid" ELSE invoice[i].status
      <4>1. total \in Nat
        BY <3>1 DEF WebhookRow
      <4>2. status \in Status
        BY <3>1 DEF Status, InvoiceRow
      <4>3. invoice' = [invoice EXCEPT ![i].amountPaid = total, ![i].status = status]
        OBVIOUS
      <4>4. i \in Invoices
        BY <3>1
      <4> HIDE DEF i, total, status
      <4>5. [invoice EXCEPT ![i].amountPaid = total, ![i].status = status] \in [Invoices -> InvoiceRow]
        BY <4>1, <4>2, <4>4, InvoiceRowWrite
      <4>6. QED BY <4>3, <4>5
    <3>3. payments' \subseteq PaymentRow
      BY <3>1 DEF PaymentRow
    <3>4. webhook' \in [Deliveries -> WebhookRow]
      <4> DEFINE full == webhook[d].amountPaid + Amount(d) >= AmountDue[PaysFor(d)]
      <4>1. full \in BOOLEAN
        OBVIOUS
      <4>2. webhook' = [webhook EXCEPT ![d].pc = "emit", ![d].nowPaid = full]
        OBVIOUS
      <4> HIDE DEF full
      <4>3. "emit" \in WebhookPc
        BY DEF WebhookPc
      <4>4. [webhook EXCEPT ![d].pc = "emit", ![d].nowPaid = full] \in [Deliveries -> WebhookRow]
        BY <4>1, <4>3, WebhookRowPaid
      <4>5. QED BY <4>2, <4>4
    <3>5. QED BY <3>2, <3>3, <3>4
  <2>19. ASSUME NEW d \in Deliveries, EmitPaid(d) PROVE TypeOK'
    <3> USE <2>19 DEF EmitPaid, BestEffort
    <3>1. PaysFor(d) \in Invoices
      BY DEF ProcessesLinked, SendRow, ApproveRow, SessionRow, StripeEvent, WebhookRow, Intent, PaysFor, Amount
    <3>2. webhook' \in [Deliveries -> WebhookRow]
      BY <3>1 DEF WebhookRow, WebhookPc
    <3>3. emitted' \subseteq BusEvent
      BY <3>1 DEF BusEvent, EventName, Emitter
    <3>4. QED BY <3>2, <3>3
  <2>20. ASSUME NEW d \in Deliveries, DeliveryFails(d) PROVE TypeOK'
    <3> USE <2>20 DEF DeliveryFails
    <3>1. webhook' \in [Deliveries -> WebhookRow]
      BY DEF WebhookRow, WebhookPc
    <3>2. QED BY <3>1
  <2>21. CASE UNCHANGED vars
    BY <2>21 DEF vars
  <2>22. QED
    BY <2>1, <2>2, <2>3, <2>4, <2>5, <2>6, <2>7, <2>8, <2>9, <2>10, <2>11, <2>12, <2>13, <2>14, <2>15, <2>16, <2>17, <2>18, <2>19, <2>20, <2>21
    DEF Next, StaffStep, SendStep, ApprovalStep, ReconcileStep

(* A step keeps every process linked to the row, session or event it holds.  *)
LEMMA LinkStep == TypeOK /\ ProcessesLinked /\ [Next]_vars => ProcessesLinked'
<1>1. SUFFICES ASSUME TypeOK, ProcessesLinked, [Next]_vars PROVE ProcessesLinked'
  OBVIOUS
<1>2. QED
  <2> USE <1>1 DEF TypeOK, ProcessesLinked, Settles, tableVars, sendVars, stripeVars
  <2>1. CASE ConnectStripe
    BY <2>1 DEF ConnectStripe
  <2>2. ASSUME NEW i \in Invoices, CreateInvoice(i) PROVE ProcessesLinked'
    BY <2>2 DEF CreateInvoice
  <2>3. ASSUME NEW i \in Invoices, VoidInvoice(i) PROVE ProcessesLinked'
    BY <2>3 DEF VoidInvoice
  <2>4. ASSUME NEW i \in Invoices, NEW s \in Senders, BeginSend(s, i) PROVE ProcessesLinked'
    BY <2>4 DEF BeginSend, SendRow
  <2>5. ASSUME NEW i \in Invoices, NEW a \in Approvals, BeginApproval(a, i) PROVE ProcessesLinked'
    BY <2>5 DEF BeginApproval, ApproveRow
  <2>6. ASSUME NEW i \in Invoices, NEW p \in Sessions, StartCheckout(p, i) PROVE ProcessesLinked'
    BY <2>6, AmountDueAssumption DEF StartCheckout, SessionRow, StripeEvent
  <2>7. ASSUME NEW s \in Senders, TakeNumberLock(s) PROVE ProcessesLinked'
    BY <2>7 DEF TakeNumberLock, LockFree, SendRow
  <2>8. ASSUME NEW s \in Senders, CountNumbered(s) PROVE ProcessesLinked'
    BY <2>8 DEF CountNumbered, SendRow
  <2>9. ASSUME NEW s \in Senders, AssignNumber(s) PROVE ProcessesLinked'
    BY <2>9 DEF AssignNumber, StillDraft, Collides, Delivered, Release, SendRow
  <2>10. ASSUME NEW s \in Senders, EmitSent(s) PROVE ProcessesLinked'
    BY <2>10 DEF EmitSent, SendRow
  <2>11. ASSUME NEW s \in Senders, SendCrashes(s) PROVE ProcessesLinked'
    BY <2>11 DEF SendCrashes, Release, SendRow
  <2>12. ASSUME NEW a \in Approvals, ApproveSend(a) PROVE ProcessesLinked'
    BY <2>12 DEF ApproveSend, ApproveRow
  <2>13. ASSUME NEW a \in Approvals, EmitApproved(a) PROVE ProcessesLinked'
    BY <2>13 DEF EmitApproved, ApproveRow
  <2>14. ASSUME NEW p \in Sessions, StripeStep(p) PROVE ProcessesLinked'
    BY <2>14 DEF StripeStep, StoreSession, PayByCard, PayByBank, BankSettles, SessionRow, StripeEvent
  <2>15. ASSUME NEW d \in Deliveries, Deliver(d) PROVE ProcessesLinked'
    BY <2>15 DEF Deliver, WebhookRow, StripeEvent
  <2>16. ASSUME NEW d \in Deliveries, CheckDuplicate(d) PROVE ProcessesLinked'
    BY <2>16 DEF CheckDuplicate, SeesDuplicate, WebhookRow, StripeEvent
  <2>17. ASSUME NEW d \in Deliveries, InsertPayment(d) PROVE ProcessesLinked'
    BY <2>17 DEF InsertPayment, KeyFree, WebhookRow, StripeEvent
  <2>18. ASSUME NEW d \in Deliveries, WritePayment(d) PROVE ProcessesLinked'
    BY <2>18 DEF WritePayment, WebhookRow, StripeEvent
  <2>19. ASSUME NEW d \in Deliveries, EmitPaid(d) PROVE ProcessesLinked'
    BY <2>19 DEF EmitPaid, WebhookRow, StripeEvent
  <2>20. ASSUME NEW d \in Deliveries, DeliveryFails(d) PROVE ProcessesLinked'
    BY <2>20 DEF DeliveryFails, WebhookRow, StripeEvent
  <2>21. CASE UNCHANGED vars
    BY <2>21 DEF vars
  <2>22. QED
    BY <1>1, <2>1, <2>2, <2>3, <2>4, <2>5, <2>6, <2>7, <2>8, <2>9, <2>10, <2>11, <2>12, <2>13, <2>14, <2>15, <2>16, <2>17, <2>18, <2>19, <2>20, <2>21
    DEF Next, StaffStep, SendStep, ApprovalStep, ReconcileStep

(* The tables and the processes begin well typed, nothing under way.          *)
LEMMA TypeCorrectInit == Init => TypeOK /\ ProcessesLinked
<1>1. Init => TypeOK
  <2> SUFFICES ASSUME Init PROVE TypeOK
    OBVIOUS
  <2> USE DEF Init
  <2>1. invoice \in [Invoices -> InvoiceRow]
    BY DEF InvoiceRow, Status
  <2>2. sending \in [Senders -> SendRow]
    BY DEF SendRow, SendPc
  <2>3. approving \in [Approvals -> ApproveRow]
    BY DEF ApproveRow, ApprovePc
  <2>4. session \in [Sessions -> SessionRow]
    BY DEF SessionRow, SessionPhase
  <2>5. webhook \in [Deliveries -> WebhookRow]
    BY DEF WebhookRow, WebhookPc
  <2>6. QED BY <2>1, <2>2, <2>3, <2>4, <2>5 DEF TypeOK
<1>2. Init => ProcessesLinked
  BY DEF Init, ProcessesLinked
<1>3. QED BY <1>1, <1>2

(* Every reachable state of the money path is well typed, and every process  *)
(* in flight is linked to the row, session or event it works on.             *)
THEOREM TypeCorrect == Spec => [](TypeOK /\ ProcessesLinked)
<1>1. TypeOK /\ ProcessesLinked /\ [Next]_vars => TypeOK' /\ ProcessesLinked'
  BY TypeStep, LinkStep
<1>2. QED BY <1>1, TypeCorrectInit, PTL DEF Spec

(* Money that Stripe settled stays settled, for the same invoice and amount. *)
LEMMA CollectedStays ==
  ASSUME TypeOK, ProcessesLinked, [Next]_vars, NEW i \in Invoices, NEW q \in Collected(i)
  PROVE  q \in Collected(i)' /\ session'[q] = session[q]
<1>1. q \in Sessions /\ session[q].phase = "settled" /\ session[q].invoice = i
  BY DEF Collected
<1>2. session'[q] = session[q]
  BY <1>1 DEF TypeOK, Next, vars, tableVars, sendVars, stripeVars, ConnectStripe, StaffStep, CreateInvoice,
     VoidInvoice, BeginSend, BeginApproval, StartCheckout, SendStep, TakeNumberLock, CountNumbered,
     AssignNumber, EmitSent, SendCrashes, ApprovalStep, ApproveSend, EmitApproved, StripeStep,
     StoreSession, PayByCard, PayByBank, BankSettles, Deliver, ReconcileStep, CheckDuplicate,
     InsertPayment, WritePayment, EmitPaid, DeliveryFails
<1>3. QED BY <1>1, <1>2 DEF Collected

(* A delivery past the gate carries a charge Stripe settled in full.         *)
LEMMA DeliveryIsCollected ==
  ASSUME TypeOK, ProcessesLinked, NEW d \in Deliveries, webhook[d].pc \notin {"idle", "done"}
  PROVE  /\ PaysFor(d) \in Invoices
         /\ Intent(d) \in Collected(PaysFor(d))
         /\ Amount(d) = AmountDue[PaysFor(d)]
BY DEF TypeOK, ProcessesLinked, StripeEvent, WebhookRow, SessionRow, Collected, PaysFor, Intent, Amount

(* Only a committed payment and its announcement make an invoice paid.      *)
LEMMA PaidHasCause ==
  ASSUME TypeOK, [Next]_vars, NEW i \in Invoices,
         invoice'[i].status = "paid" \/ Announced("invoice/paid", i)'
  PROVE  \/ invoice[i].status = "paid" \/ Announced("invoice/paid", i)
         \/ \E d \in Deliveries : (WritePayment(d) \/ EmitPaid(d)) /\ i = PaysFor(d)
<1> DEFINE Before == invoice[i].status = "paid" \/ Announced("invoice/paid", i)
           Cause  == \E d \in Deliveries : (WritePayment(d) \/ EmitPaid(d)) /\ i = PaysFor(d)
<1> USE DEF tableVars, sendVars, stripeVars
<1>1. invoice \in [Invoices -> InvoiceRow]
  BY DEF TypeOK
<1>2. CASE UNCHANGED <<invoice, emitted>>
  BY <1>2 DEF Announced
<1>3. ASSUME NEW d \in Deliveries, WritePayment(d) PROVE Before \/ Cause
  <2>1. emitted' = emitted
    BY <1>3 DEF WritePayment
  <2>2. i # PaysFor(d) => invoice'[i] = invoice[i]
    BY <1>1, <1>3 DEF WritePayment
  <2>3. QED BY <1>3, <2>1, <2>2 DEF Announced
<1>4. ASSUME NEW d \in Deliveries, EmitPaid(d) PROVE Before \/ Cause
  <2>1. invoice' = invoice
    BY <1>4 DEF EmitPaid
  <2>2. Announced("invoice/paid", i)' => Announced("invoice/paid", i) \/ i = PaysFor(d)
    BY <1>4 DEF EmitPaid, BestEffort, Announced
  <2>3. QED BY <1>4, <2>1, <2>2
<1>5. ASSUME NEW s \in Senders, AssignNumber(s) PROVE Before \/ Cause
  <2>1. emitted' = emitted
    BY <1>5 DEF AssignNumber, StillDraft, Collides, Delivered, Release
  <2>2. invoice'[i].status = "paid" => invoice[i].status = "paid"
    <3> DEFINE j == sending[s].invoice
               n == sending[s].count + 1
    <3>1. invoice' = invoice \/ invoice' = [invoice EXCEPT ![j].number = n, ![j].status = "sent"]
      BY <1>5 DEF AssignNumber, StillDraft, Collides, Delivered, Release
    <3> HIDE DEF j, n
    <3>2. QED BY <1>1, <3>1 DEF InvoiceRow
  <2>3. QED BY <2>1, <2>2 DEF Announced
<1>6. ASSUME NEW q \in Sessions, StoreSession(q) PROVE Before \/ Cause
  BY <1>1, <1>6 DEF StoreSession, Announced
<1>7. ASSUME NEW a \in Approvals, ApproveSend(a) PROVE Before \/ Cause
  BY <1>1, <1>7 DEF ApproveSend, Announced
<1>8. ASSUME NEW a \in Approvals, EmitApproved(a) PROVE Before \/ Cause
  BY <1>8 DEF EmitApproved, BestEffort, Announced
<1>9. ASSUME NEW s \in Senders, EmitSent(s) PROVE Before \/ Cause
  BY <1>9 DEF EmitSent, BestEffort, Announced
<1>10. ASSUME NEW j \in Invoices, CreateInvoice(j) PROVE Before \/ Cause
  BY <1>1, <1>10 DEF CreateInvoice, Announced
<1>11. ASSUME NEW j \in Invoices, VoidInvoice(j) PROVE Before \/ Cause
  <2>1. invoice'[i].status = "paid" => invoice[i].status = "paid"
    BY <1>1, <1>11 DEF VoidInvoice
  <2>2. Announced("invoice/paid", i)' => Announced("invoice/paid", i)
    BY <1>11 DEF VoidInvoice, BestEffort, Announced
  <2>3. QED BY <2>1, <2>2
<1>12. QED
  BY <1>2, <1>3, <1>4, <1>5, <1>6, <1>7, <1>8, <1>9, <1>10, <1>11
  DEF Next, vars, StaffStep, SendStep, ApprovalStep, StripeStep, ReconcileStep, ConnectStripe,
      BeginSend, TakeNumberLock, CountNumbered, SendCrashes, BeginApproval, StartCheckout,
      PayByCard, PayByBank, BankSettles, Deliver, CheckDuplicate, InsertPayment, DeliveryFails

(* An invoice is paid, and invoice/paid announced, only once Stripe settled  *)
(* a charge of the amount due: PaidMeansCollected, in every reachable state.  *)
THEOREM PaidIsCollected == Spec => []PaidMeansCollected
<1>1. Init => PaidMeansCollected
  BY DEF Init, PaidMeansCollected, Announced
<1>2. TypeOK /\ ProcessesLinked /\ PaidMeansCollected /\ [Next]_vars => PaidMeansCollected'
  <2> SUFFICES ASSUME TypeOK, ProcessesLinked, PaidMeansCollected, [Next]_vars,
                      NEW i \in Invoices,
                      invoice'[i].status = "paid" \/ Announced("invoice/paid", i)'
               PROVE  \E q \in Collected(i)' : session'[q].amount >= AmountDue[i]
    BY DEF PaidMeansCollected
  <2>1. CASE invoice[i].status = "paid" \/ Announced("invoice/paid", i)
    <3>1. PICK q \in Collected(i) : session[q].amount >= AmountDue[i]
      BY <2>1 DEF PaidMeansCollected
    <3>2. QED BY <3>1, CollectedStays
  <2>2. CASE \E d \in Deliveries : (WritePayment(d) \/ EmitPaid(d)) /\ i = PaysFor(d)
    <3>1. PICK d \in Deliveries : (WritePayment(d) \/ EmitPaid(d)) /\ i = PaysFor(d)
      BY <2>2
    <3>2. /\ Intent(d) \in Collected(i)
          /\ session[Intent(d)].amount = AmountDue[i]
      BY <3>1, DeliveryIsCollected DEF WritePayment, EmitPaid, Amount
    <3>3. AmountDue[i] \in Nat
      BY AmountDueAssumption
    <3>4. /\ Intent(d) \in Collected(i)'
          /\ session'[Intent(d)].amount >= AmountDue[i]
      BY <3>2, <3>3, CollectedStays
    <3>5. QED BY <3>4
  <2>3. \/ invoice[i].status = "paid" \/ Announced("invoice/paid", i)
        \/ \E d \in Deliveries : (WritePayment(d) \/ EmitPaid(d)) /\ i = PaysFor(d)
    BY PaidHasCause
  <2>4. QED BY <2>1, <2>2, <2>3
<1>3. QED BY <1>1, <1>2, TypeCorrect, PTL DEF Spec

-----------------------------------------------------------------------------
(* A step leaves every delivery between INSERT and COMMIT alone with its      *)
(* charge: the unique index keeps the others waiting.                        *)
LEMMA ExclusiveStep ==
  TypeOK /\ ProcessesLinked /\ InsertsExclusive /\ [Next]_vars => InsertsExclusive'
<1>1. SUFFICES ASSUME TypeOK, ProcessesLinked, InsertsExclusive, [Next]_vars
               PROVE  InsertsExclusive'
  OBVIOUS
<1>2. webhook \in [Deliveries -> WebhookRow]
  BY <1>1 DEF TypeOK
<1> USE DEF tableVars, sendVars, stripeVars
<1>3. CASE UNCHANGED <<webhook, payments>>
  BY <1>1, <1>3 DEF InsertsExclusive, Recorded, Intent
<1>4. ASSUME NEW d \in Deliveries, Deliver(d) PROVE InsertsExclusive'
  BY <1>1, <1>2, <1>4 DEF InsertsExclusive, Recorded, Intent, Deliver, WebhookRow
<1>5. ASSUME NEW d \in Deliveries, CheckDuplicate(d) PROVE InsertsExclusive'
  BY <1>1, <1>2, <1>5 DEF InsertsExclusive, Recorded, Intent, CheckDuplicate, SeesDuplicate, WebhookRow
<1>6. ASSUME NEW d \in Deliveries, InsertPayment(d) PROVE InsertsExclusive'
  <2>1. payments' = payments /\ \A c \in Deliveries : webhook'[c].event = webhook[c].event
    BY <1>2, <1>6 DEF InsertPayment, KeyFree, WebhookRow
  <2>2. \A c \in Deliveries : Intent(c)' = Intent(c)
    BY <2>1 DEF Intent
  <2>3. \A c \in Deliveries \ {d} : webhook'[c] = webhook[c]
    BY <1>2, <1>6 DEF InsertPayment, KeyFree
  <2>4. webhook'[d].pc = "write" => ~Recorded(Intent(d))
    BY <1>2, <1>6 DEF InsertPayment, KeyFree, WebhookRow
  <2>5. \A c \in Deliveries : webhook[c].pc = "write" => Intent(c) # Intent(d)
    BY <1>6 DEF InsertPayment, KeyFree
  <2>6. QED BY <1>1, <2>1, <2>2, <2>3, <2>4, <2>5 DEF InsertsExclusive, Recorded
<1>7. ASSUME NEW d \in Deliveries, WritePayment(d) PROVE InsertsExclusive'
  <2>1. \A c \in Deliveries : webhook'[c].event = webhook[c].event
    BY <1>2, <1>7 DEF WritePayment, WebhookRow
  <2>2. \A c \in Deliveries : Intent(c)' = Intent(c)
    BY <2>1 DEF Intent
  <2>3. \A c \in Deliveries \ {d} : webhook'[c] = webhook[c]
    BY <1>2, <1>7 DEF WritePayment
  <2>4. webhook[d].pc = "write" /\ webhook'[d].pc # "write"
    BY <1>2, <1>7 DEF WritePayment, WebhookRow
  <2>5. ASSUME NEW r \in payments' PROVE r \in payments \/ r.intent = Intent(d)
    BY <1>7 DEF WritePayment
  <2>6. QED BY <1>1, <2>2, <2>3, <2>4, <2>5 DEF InsertsExclusive, Recorded
<1>8. ASSUME NEW d \in Deliveries, EmitPaid(d) PROVE InsertsExclusive'
  BY <1>1, <1>2, <1>8 DEF InsertsExclusive, Recorded, Intent, EmitPaid, WebhookRow
<1>9. ASSUME NEW d \in Deliveries, DeliveryFails(d) PROVE InsertsExclusive'
  BY <1>1, <1>2, <1>9 DEF InsertsExclusive, Recorded, Intent, DeliveryFails, WebhookRow
<1>10. QED
  BY <1>1, <1>3, <1>4, <1>5, <1>6, <1>7, <1>8, <1>9
  DEF Next, vars, StaffStep, SendStep, ApprovalStep, StripeStep, ReconcileStep, ConnectStripe,
      CreateInvoice, VoidInvoice, BeginSend, TakeNumberLock, CountNumbered, AssignNumber, EmitSent,
      SendCrashes, BeginApproval, ApproveSend, EmitApproved, StartCheckout, StoreSession,
      PayByCard, PayByBank, BankSettles

(* A step keeps one row for a charge, and only for a charge Stripe settled.  *)
LEMMA RecordedOnceStep ==
  TypeOK /\ ProcessesLinked /\ InsertsExclusive /\ EachChargeRecordedOnce /\ [Next]_vars
    => EachChargeRecordedOnce'
<1>1. SUFFICES ASSUME TypeOK, ProcessesLinked, InsertsExclusive, EachChargeRecordedOnce, [Next]_vars
               PROVE  EachChargeRecordedOnce'
  OBVIOUS
<1>2. ASSUME NEW r \in payments
      PROVE  r.intent \in Collected(r.invoice)' /\ r.amount = session'[r.intent].amount
  <2>1. r.invoice \in Invoices /\ r.intent \in Collected(r.invoice) /\ r.amount = session[r.intent].amount
    BY <1>1 DEF TypeOK, PaymentRow, EachChargeRecordedOnce
  <2>2. QED BY <1>1, <2>1, CollectedStays
<1>3. CASE payments' = payments
  BY <1>1, <1>2, <1>3 DEF EachChargeRecordedOnce
<1>4. ASSUME NEW d \in Deliveries, WritePayment(d) PROVE EachChargeRecordedOnce'
  <2>1. PaysFor(d) \in Invoices /\ Intent(d) \in Collected(PaysFor(d)) /\ ~Recorded(Intent(d))
    BY <1>1, <1>4, DeliveryIsCollected DEF InsertsExclusive, WritePayment
  <2>2. PICK i \in Invoices : i = PaysFor(d)
    BY <2>1
  <2>3. PICK q \in Collected(i) : q = Intent(d)
    BY <2>1, <2>2
  <2>4. PICK amount : amount = session[q].amount
    OBVIOUS
  <2> DEFINE new == [by |-> d, intent |-> q, invoice |-> i, amount |-> amount]
  <2>5. payments' = payments \cup {new}
    BY <1>4, <2>2, <2>3, <2>4 DEF WritePayment, Amount
  <2>6. new.intent \in Collected(new.invoice)' /\ new.amount = session'[new.intent].amount
    BY <1>1, <2>4, CollectedStays
  <2>7. \A r \in payments : r.intent # new.intent
    BY <2>1, <2>3 DEF Recorded
  <2> HIDE DEF new
  <2>8. QED BY <1>1, <1>2, <2>5, <2>6, <2>7 DEF EachChargeRecordedOnce
<1>5. QED
  BY <1>1, <1>3, <1>4
  DEF Next, vars, tableVars, StaffStep, SendStep, ApprovalStep, StripeStep, ReconcileStep, ConnectStripe,
      CreateInvoice, VoidInvoice, BeginSend, TakeNumberLock, CountNumbered, AssignNumber, EmitSent,
      SendCrashes, BeginApproval, ApproveSend, EmitApproved, StartCheckout, StoreSession,
      PayByCard, PayByBank, BankSettles, Deliver, CheckDuplicate, InsertPayment, EmitPaid, DeliveryFails

(* Reconciliation is idempotent under concurrent redelivery: one row at most *)
(* is recorded for a charge, for its invoice and amount.                     *)
THEOREM ChargesRecordedOnce == Spec => []EachChargeRecordedOnce
<1>1. Init => InsertsExclusive /\ EachChargeRecordedOnce
  BY DEF Init, InsertsExclusive, EachChargeRecordedOnce
<1>2. QED BY <1>1, ExclusiveStep, RecordedOnceStep, TypeCorrect, PTL DEF Spec

(* For every number of invoices, sessions and redeliveries, what is recorded *)
(* and announced as paid is what Stripe collected, once (recordStripePayment). *)
THEOREM LedgerHolds == Spec => []LedgerInv
<1>1. PaidMeansCollected /\ EachChargeRecordedOnce => LedgerInv
  BY DEF LedgerInv
<1> QED BY <1>1, PaidIsCollected, ChargesRecordedOnce, PTL

-----------------------------------------------------------------------------
(* Numbering: without gap or repeat, whatever sends race, crash or void.     *)

(* Only the conditional update of sendInvoice touches a number.              *)
LEMMA NumbersKept ==
  ASSUME TypeOK, [Next]_vars, \A s \in Senders : ~AssignNumber(s)
  PROVE  /\ \A i \in Invoices : invoice'[i].number = invoice[i].number
         /\ Numbered' = Numbered
<1>1. invoice \in [Invoices -> InvoiceRow]
  BY DEF TypeOK
<1>2. \A i \in Invoices : invoice'[i].number = invoice[i].number
  <2> USE <1>1 DEF tableVars, sendVars, stripeVars, InvoiceRow
  <2>1. CASE UNCHANGED invoice
    BY <2>1
  <2>2. ASSUME NEW j \in Invoices, CreateInvoice(j) \/ VoidInvoice(j)
        PROVE  \A i \in Invoices : invoice'[i].number = invoice[i].number
    BY <2>2 DEF CreateInvoice, VoidInvoice
  <2>3. ASSUME NEW a \in Approvals, ApproveSend(a)
        PROVE  \A i \in Invoices : invoice'[i].number = invoice[i].number
    BY <2>3 DEF ApproveSend
  <2>4. ASSUME NEW p \in Sessions, StoreSession(p)
        PROVE  \A i \in Invoices : invoice'[i].number = invoice[i].number
    BY <2>4 DEF StoreSession
  <2>5. ASSUME NEW d \in Deliveries, WritePayment(d)
        PROVE  \A i \in Invoices : invoice'[i].number = invoice[i].number
    <3> DEFINE k == PaysFor(d)
               total == webhook[d].amountPaid + Amount(d)
               status == IF total >= AmountDue[k] THEN "paid" ELSE invoice[k].status
    <3>1. invoice' = [invoice EXCEPT ![k].amountPaid = total, ![k].status = status]
      BY <2>5 DEF WritePayment
    <3> HIDE DEF k, total, status
    <3>2. QED BY <3>1
  <2>6. QED
    BY <2>1, <2>2, <2>3, <2>4, <2>5
    DEF Next, vars, StaffStep, SendStep, ApprovalStep, StripeStep, ReconcileStep, ConnectStripe,
        BeginSend, TakeNumberLock, CountNumbered, EmitSent, SendCrashes, BeginApproval, EmitApproved,
        StartCheckout, PayByCard, PayByBank, BankSettles, Deliver, CheckDuplicate, InsertPayment,
        EmitPaid, DeliveryFails
<1>3. QED BY <1>2 DEF Numbered

(* Under the lock a count stays right until it is used.                      *)
LEMMA LockStep ==
  ASSUME TypeOK, ProcessesLinked, LockProtectsCount, [Next]_vars, \A s \in Senders : ~AssignNumber(s)
  PROVE  LockProtectsCount'
<1>1. /\ sending \in [Senders -> SendRow]
      /\ invoice \in [Invoices -> InvoiceRow]
      /\ numberLock \in Senders \cup {None} /\ None \notin Senders
  BY NoneAssumption DEF TypeOK
<1>2. Numbered' = Numbered /\ \A i \in Invoices : invoice'[i].number = invoice[i].number
  BY NumbersKept
<1> DEFINE Held == \A s \in Senders : sending[s].pc \in {"count", "assign"} <=> numberLock = s
           Counted == \A s \in Senders : sending[s].pc = "assign" => sending[s].count = Cardinality(Numbered)
           Fresh == \A i \in Invoices : invoice[i].status \in {"absent", "draft"} => i \notin Numbered
<1>3. Held /\ Counted /\ Fresh
  BY DEF LockProtectsCount
<1>4. Held' /\ Counted'
  <2> USE <1>1, <1>2, <1>3 DEF SendRow, sendVars
  <2>1. CASE UNCHANGED <<sending, numberLock>>
    BY <2>1
  <2>2. ASSUME NEW s \in Senders, NEW i \in Invoices, BeginSend(s, i) PROVE Held' /\ Counted'
    BY <2>2 DEF BeginSend
  <2>3. ASSUME NEW s \in Senders, TakeNumberLock(s) PROVE Held' /\ Counted'
    BY <2>3 DEF TakeNumberLock, LockFree
  <2>4. ASSUME NEW s \in Senders, CountNumbered(s) PROVE Held' /\ Counted'
    BY <2>4 DEF CountNumbered
  <2>5. ASSUME NEW s \in Senders, EmitSent(s) PROVE Held' /\ Counted'
    BY <2>5 DEF EmitSent
  <2>6. ASSUME NEW s \in Senders, SendCrashes(s) PROVE Held' /\ Counted'
    BY <2>6 DEF SendCrashes, Release
  <2>7. QED
    BY <2>1, <2>2, <2>3, <2>4, <2>5, <2>6
    DEF Next, vars, StaffStep, SendStep, ApprovalStep, StripeStep, ReconcileStep, ConnectStripe,
        CreateInvoice, VoidInvoice, BeginApproval, ApproveSend, EmitApproved, StartCheckout, StoreSession,
        PayByCard, PayByBank, BankSettles, Deliver, CheckDuplicate, InsertPayment, WritePayment,
        EmitPaid, DeliveryFails
<1>5. Fresh'
  <2>1. ASSUME NEW i \in Invoices, invoice'[i].status \in {"absent", "draft"}
        PROVE  invoice[i].status \in {"absent", "draft"}
    <3> USE <1>1, <2>1 DEF InvoiceRow, tableVars, sendVars, stripeVars
    <3>1. CASE UNCHANGED invoice
      BY <3>1
    <3>2. ASSUME NEW j \in Invoices, CreateInvoice(j) \/ VoidInvoice(j)
          PROVE  invoice[i].status \in {"absent", "draft"}
      BY <3>2 DEF CreateInvoice, VoidInvoice, Exists
    <3>3. ASSUME NEW a \in Approvals, ApproveSend(a) PROVE invoice[i].status \in {"absent", "draft"}
      BY <3>3 DEF ApproveSend
    <3>4. ASSUME NEW p \in Sessions, StoreSession(p) PROVE invoice[i].status \in {"absent", "draft"}
      BY <3>4 DEF StoreSession
    <3>5. ASSUME NEW d \in Deliveries, WritePayment(d) PROVE invoice[i].status \in {"absent", "draft"}
      <4> DEFINE k == PaysFor(d)
                 total == webhook[d].amountPaid + Amount(d)
                 full == total >= AmountDue[k]
      <4>1. invoice' = [invoice EXCEPT ![k].amountPaid = total, ![k].status = IF full THEN "paid" ELSE @]
        BY <3>5 DEF WritePayment
      <4> HIDE DEF k, total, full
      <4>2. CASE full
        BY <4>1, <4>2
      <4>3. CASE ~full
        BY <4>1, <4>3
      <4>4. QED BY <4>2, <4>3
    <3>6. QED
      BY <3>1, <3>2, <3>3, <3>4, <3>5
      DEF Next, vars, StaffStep, SendStep, ApprovalStep, StripeStep, ReconcileStep, ConnectStripe,
          BeginSend, TakeNumberLock, CountNumbered, EmitSent, SendCrashes, BeginApproval, EmitApproved,
          StartCheckout, PayByCard, PayByBank, BankSettles, Deliver, CheckDuplicate, InsertPayment,
          EmitPaid, DeliveryFails
  <2>2. QED BY <1>2, <1>3, <2>1
<1>6. QED BY <1>4, <1>5 DEF LockProtectsCount

(* The update under the lock hands out the next number and never collides.   *)
LEMMA AssignStep ==
  ASSUME TypeOK, ProcessesLinked, LockProtectsCount, GaplessNumbers,
         NEW s \in Senders, AssignNumber(s)
  PROVE  /\ LockProtectsCount' /\ GaplessNumbers'
         /\ \A k \in Numbered : invoice'[k].number = invoice[k].number
         /\ sending'[s].pc = "emit"
         /\ \A t \in Senders \ {s} : sending'[t] = sending[t]
<1> DEFINE i == sending[s].invoice
           n == sending[s].count + 1
<1>1. /\ sending \in [Senders -> SendRow]
      /\ invoice \in [Invoices -> InvoiceRow]
      /\ numberLock = s /\ None \notin Senders
      /\ sending[s].pc = "assign" /\ i \in Invoices
  BY NoneAssumption DEF TypeOK, ProcessesLinked, LockProtectsCount, AssignNumber
<1>2. n = Cardinality(Numbered) + 1 /\ Cardinality(Numbered) \in Nat
  BY <1>1, NumberedFinite DEF LockProtectsCount
<1>3. \A other \in Invoices : invoice[other].number # n
  <2>1. \A other \in Numbered : invoice[other].number \in 1..Cardinality(Numbered)
    BY DEF GaplessNumbers
  <2>2. QED BY <1>2, <2>1 DEF Numbered
<1>4. /\ numberLock' = None
      /\ sending' = [sending EXCEPT ![s].pc = "emit"]
      /\ \/ invoice[i].status # "draft" /\ invoice' = invoice
         \/ invoice[i].status = "draft" /\ invoice' = [invoice EXCEPT ![i].number = n, ![i].status = "sent"]
  BY <1>1, <1>3 DEF AssignNumber, StillDraft, Collides, Delivered, Release
<1> HIDE DEF i, n
<1>5. /\ sending'[s].pc = "emit"
      /\ \A t \in Senders \ {s} : sending'[t] = sending[t]
  BY <1>1, <1>4 DEF SendRow
<1>6. \A t \in Senders : sending'[t].pc \notin {"count", "assign"}
  BY <1>1, <1>5 DEF LockProtectsCount
<1>7. CASE invoice' = invoice
  <2>1. Numbered' = Numbered
    BY <1>7 DEF Numbered
  <2>2. GaplessNumbers'
    BY <1>7, <2>1 DEF GaplessNumbers
  <2>3. LockProtectsCount'
    BY <1>1, <1>4, <1>6, <1>7, <2>1 DEF LockProtectsCount
  <2>4. QED BY <1>5, <1>7, <2>2, <2>3
<1>8. CASE invoice[i].status = "draft" /\ invoice' = [invoice EXCEPT ![i].number = n, ![i].status = "sent"]
  <2>1. i \notin Numbered
    BY <1>1, <1>8 DEF LockProtectsCount
  <2>2. /\ invoice'[i].number = n /\ invoice'[i].status = "sent"
        /\ \A k \in Invoices \ {i} : invoice'[k] = invoice[k]
    BY <1>1, <1>8 DEF InvoiceRow
  <2>3. Numbered' = Numbered \cup {i}
    BY <1>1, <1>2, <2>2 DEF Numbered
  <2>4. Cardinality(Numbered') = n
    BY <1>2, <2>1, <2>3, NumberedFinite, FS_AddElement
  <2>5. GaplessNumbers'
    <3>1. {invoice'[k].number : k \in Numbered'} = {invoice[k].number : k \in Numbered} \cup {n}
      <4>1. \A k \in Numbered : invoice'[k].number = invoice[k].number
        BY <2>1, <2>2 DEF Numbered
      <4>2. QED BY <2>2, <2>3, <4>1
    <3>2. 1..n = (1..Cardinality(Numbered)) \cup {n}
      BY <1>2
    <3>3. QED BY <2>4, <3>1, <3>2 DEF GaplessNumbers
  <2>6. LockProtectsCount'
    <3>1. \A k \in Invoices : invoice'[k].status \in {"absent", "draft"} => k \notin Numbered'
      BY <2>2, <2>3 DEF LockProtectsCount
    <3>2. QED BY <1>1, <1>4, <1>6, <3>1 DEF LockProtectsCount
  <2>7. \A k \in Numbered : invoice'[k].number = invoice[k].number
    BY <2>1, <2>2 DEF Numbered
  <2>8. QED BY <1>5, <2>5, <2>6, <2>7
<1>9. QED BY <1>4, <1>7, <1>8

(* What the lock keeps right, with what it keeps it for, survives every step. *)
LEMMA NumberingHolds == Spec => [](LockProtectsCount /\ GaplessNumbers /\ SendNeverCollides)
<1> DEFINE IInv == LockProtectsCount /\ GaplessNumbers /\ SendNeverCollides
<1>1. Init => IInv
  <2> SUFFICES ASSUME Init PROVE IInv
    OBVIOUS
  <2>1. Numbered = {} /\ Cardinality(Numbered) = 0
    BY FS_EmptySet DEF Init, Numbered
  <2>2. GaplessNumbers
    BY <2>1 DEF GaplessNumbers
  <2>3. LockProtectsCount /\ SendNeverCollides
    BY <2>1, NoneAssumption DEF Init, LockProtectsCount, SendNeverCollides
  <2>4. QED BY <2>2, <2>3
<1>2. TypeOK /\ ProcessesLinked /\ IInv /\ [Next]_vars => IInv'
  <2> SUFFICES ASSUME TypeOK, ProcessesLinked, IInv, [Next]_vars PROVE IInv'
    OBVIOUS
  <2>1. CASE \E s \in Senders : AssignNumber(s)
    <3>1. PICK s \in Senders : AssignNumber(s)
      BY <2>1
    <3>2. QED BY <3>1, AssignStep DEF SendNeverCollides
  <2>2. CASE \A s \in Senders : ~AssignNumber(s)
    <3>1. LockProtectsCount'
      BY <2>2, LockStep
    <3>2. GaplessNumbers'
      <4>1. Numbered' = Numbered /\ \A i \in Invoices : invoice'[i].number = invoice[i].number
        BY <2>2, NumbersKept
      <4>2. \A i \in Numbered : invoice'[i].number = invoice[i].number
        BY <4>1 DEF Numbered
      <4>3. QED BY <4>1, <4>2 DEF GaplessNumbers
    <3>3. SendNeverCollides'
      <4>1. sending \in [Senders -> SendRow]
        BY DEF TypeOK
      <4> USE <4>1 DEF SendNeverCollides, SendRow, sendVars
      <4>2. CASE UNCHANGED sending
        BY <4>2
      <4>3. ASSUME NEW s \in Senders,
                   TakeNumberLock(s) \/ CountNumbered(s) \/ EmitSent(s) \/ SendCrashes(s)
                     \/ \E i \in Invoices : BeginSend(s, i)
            PROVE  SendNeverCollides'
        BY <4>3 DEF TakeNumberLock, LockFree, CountNumbered, EmitSent, SendCrashes, Release, BeginSend
      <4>4. QED
        BY <2>2, <4>2, <4>3
        DEF Next, vars, StaffStep, SendStep, ApprovalStep, StripeStep, ReconcileStep, ConnectStripe,
            CreateInvoice, VoidInvoice, BeginApproval, ApproveSend, EmitApproved, StartCheckout,
            StoreSession, PayByCard, PayByBank, BankSettles, Deliver, CheckDuplicate, InsertPayment,
            WritePayment, EmitPaid, DeliveryFails
    <3>4. QED BY <3>1, <3>2, <3>3
  <2>3. QED BY <2>1, <2>2
<1>3. QED BY <1>1, <1>2, TypeCorrect, PTL DEF Spec

(* Whatever sends race, crash or meet a void, the numbers handed out are     *)
(* exactly 1..n, and no send ever fails on the unique index.                 *)
THEOREM NumbersGapless == Spec => []NumbersInv
<1>1. LockProtectsCount /\ GaplessNumbers /\ SendNeverCollides => NumbersInv
  BY DEF NumbersInv
<1>2. QED BY <1>1, NumberingHolds, PTL

(* A number once printed stays: of all writers of an invoice only sendInvoice *)
(* touches its number, and its conditional update finds no numbered draft,    *)
(* because an invoice leaves "draft" before or when it is numbered.           *)
THEOREM NumbersStay == Spec => NumbersArePermanent
<1> DEFINE Kept == \A i \in Numbered : invoice'[i].number = invoice[i].number
<1>1. TypeOK /\ ProcessesLinked /\ LockProtectsCount /\ GaplessNumbers /\ [Next]_vars => [Kept]_vars
  <2> SUFFICES ASSUME TypeOK, ProcessesLinked, LockProtectsCount, GaplessNumbers, [Next]_vars
               PROVE  Kept
    OBVIOUS
  <2>1. CASE \E s \in Senders : AssignNumber(s)
    BY <2>1, AssignStep
  <2>2. CASE \A s \in Senders : ~AssignNumber(s)
    BY <2>2, NumbersKept DEF Numbered
  <2>3. QED BY <2>1, <2>2
<1>2. QED BY <1>1, TypeCorrect, NumberingHolds, PTL DEF Spec, NumbersArePermanent

-----------------------------------------------------------------------------
(* The numbers and the ledger together, as the run checks them.             *)
THEOREM InvoicingHolds == Spec => []InvoicingInv
<1>1. NumbersInv /\ LedgerInv => InvoicingInv
  BY DEF InvoicingInv
<1>2. QED BY <1>1, NumbersGapless, LedgerHolds, PTL

-----------------------------------------------------------------------------
(* Invoicing implements ChargeLedger: the webhook route, its transaction    *)
(* and its best-effort announcement, under the unique index on the charge,  *)
(* do what the ledger promises, for any number of sessions and deliveries.  *)


(* A settled session is never written again.                                *)
LEMMA SettledStays ==
  ASSUME TypeOK, [Next]_vars, NEW q \in Sessions, session[q].phase = "settled"
  PROVE  session'[q] = session[q]
BY DEF TypeOK, Next, vars, tableVars, sendVars, stripeVars, ConnectStripe, StaffStep, CreateInvoice,
     VoidInvoice, BeginSend, BeginApproval, StartCheckout, SendStep, TakeNumberLock, CountNumbered,
     AssignNumber, EmitSent, SendCrashes, ApprovalStep, ApproveSend, EmitApproved, StripeStep,
     StoreSession, PayByCard, PayByBank, BankSettles, Deliver, ReconcileStep, CheckDuplicate,
     InsertPayment, WritePayment, EmitPaid, DeliveryFails

(* What a delivery past the payment_status gate carries does not change     *)
(* while it is under way.                                                   *)
LEMMA CarriedStays ==
  ASSUME TypeOK, ProcessesLinked, [Next]_vars, NEW d \in Deliveries,
         webhook[d].pc \notin {"idle", "done"}, webhook'[d].event = webhook[d].event
  PROVE  Intent(d)' = Intent(d) /\ PaysFor(d)' = PaysFor(d) /\ Amount(d)' = Amount(d)
<1>1. Intent(d) \in Sessions /\ session[Intent(d)].phase = "settled"
  BY DEF TypeOK, ProcessesLinked, StripeEvent, Intent
<1>2. Intent(d)' = Intent(d)
  BY DEF Intent
<1>3. session'[Intent(d)] = session[Intent(d)]
  BY <1>1, SettledStays
<1>4. QED BY <1>2, <1>3 DEF PaysFor, Amount

(* A delivery that is to announce has its entry in the ledger.              *)
LEMMA AnnouncesStep ==
  TypeOK /\ ProcessesLinked /\ AnnouncesItsEntry /\ [Next]_vars => AnnouncesItsEntry'
<1>1. SUFFICES ASSUME TypeOK, ProcessesLinked, AnnouncesItsEntry, [Next]_vars,
                      NEW d \in Deliveries, webhook'[d].pc = "emit"
               PROVE  [by |-> d, intent |-> Intent(d)', invoice |-> PaysFor(d)',
                       amount |-> Amount(d)'] \in payments'
  BY DEF AnnouncesItsEntry
<1>2. webhook \in [Deliveries -> WebhookRow]
  BY <1>1 DEF TypeOK
<1>3. payments \subseteq payments'
  BY <1>1 DEF Next, vars, tableVars, sendVars, stripeVars, ConnectStripe, StaffStep, CreateInvoice,
     VoidInvoice, BeginSend, BeginApproval, StartCheckout, SendStep, TakeNumberLock, CountNumbered,
     AssignNumber, EmitSent, SendCrashes, ApprovalStep, ApproveSend, EmitApproved, StripeStep,
     StoreSession, PayByCard, PayByBank, BankSettles, Deliver, ReconcileStep, CheckDuplicate,
     InsertPayment, WritePayment, EmitPaid, DeliveryFails
<1> DEFINE Came == /\ webhook'[d].event = webhook[d].event
                   /\ webhook[d].pc = "emit" \/ (webhook[d].pc = "write" /\ WritePayment(d))
<1>4. Came
  <2>1. CASE UNCHANGED webhook
    BY <1>1, <2>1
  <2>2. ASSUME NEW c \in Deliveries, Deliver(c) PROVE Came
    BY <1>1, <1>2, <2>2 DEF Deliver
  <2>3. ASSUME NEW c \in Deliveries, CheckDuplicate(c) PROVE Came
    BY <1>1, <1>2, <2>3 DEF CheckDuplicate, WebhookRow
  <2>4. ASSUME NEW c \in Deliveries, InsertPayment(c) PROVE Came
    BY <1>1, <1>2, <2>4 DEF InsertPayment, WebhookRow
  <2>5. ASSUME NEW c \in Deliveries, WritePayment(c) PROVE Came
    <3>1. CASE c = d
      BY <1>2, <2>5, <3>1 DEF WritePayment, WebhookRow
    <3>2. CASE c # d
      BY <1>1, <1>2, <2>5, <3>2 DEF WritePayment, WebhookRow
    <3>3. QED BY <3>1, <3>2
  <2>6. ASSUME NEW c \in Deliveries, EmitPaid(c) PROVE Came
    BY <1>1, <1>2, <2>6 DEF EmitPaid, WebhookRow
  <2>7. ASSUME NEW c \in Deliveries, DeliveryFails(c) PROVE Came
    BY <1>1, <1>2, <2>7 DEF DeliveryFails, WebhookRow
  <2>8. QED
    BY <1>1, <2>1, <2>2, <2>3, <2>4, <2>5, <2>6, <2>7
    DEF Next, vars, ConnectStripe, StaffStep, CreateInvoice, VoidInvoice, BeginSend, BeginApproval,
        StartCheckout, SendStep, TakeNumberLock, CountNumbered, AssignNumber, EmitSent, SendCrashes,
        ApprovalStep, ApproveSend, EmitApproved, StripeStep, StoreSession, PayByCard, PayByBank,
        BankSettles, ReconcileStep
<1>5. Intent(d)' = Intent(d) /\ PaysFor(d)' = PaysFor(d) /\ Amount(d)' = Amount(d)
  BY <1>1, <1>4, CarriedStays
<1>6. CASE webhook[d].pc = "emit"
  BY <1>1, <1>3, <1>5, <1>6 DEF AnnouncesItsEntry
<1>7. CASE WritePayment(d)
  BY <1>5, <1>7 DEF WritePayment
<1>8. QED BY <1>4, <1>6, <1>7

(* The events on the bus that say an invoice is paid.                       *)
PaidInvoices == {i \in Invoices : Announced("invoice/paid", i)}

(* A step that is neither a settlement, a commit of a payment nor its       *)
(* announcement leaves the ledger as it is.                                 *)
LEMMA OtherStepStutters ==
  ASSUME TypeOK, [Next]_vars,
         \A p \in Sessions : ~PayByCard(p) /\ ~BankSettles(p),
         \A d \in Deliveries : ~WritePayment(d) /\ ~EmitPaid(d)
  PROVE  UNCHANGED <<SettledCharges, payments, PaidInvoices>>
<1>1. payments' = payments
  BY DEF Next, vars, tableVars, sendVars, stripeVars, ConnectStripe, StaffStep, CreateInvoice,
     VoidInvoice, BeginSend, BeginApproval, StartCheckout, SendStep, TakeNumberLock, CountNumbered,
     AssignNumber, EmitSent, SendCrashes, ApprovalStep, ApproveSend, EmitApproved, StripeStep,
     StoreSession, PayByBank, Deliver, ReconcileStep, CheckDuplicate, InsertPayment, DeliveryFails
<1>2. \A p \in Sessions : session'[p].phase = "settled" => session[p].phase = "settled"
  <2> DEFINE Kept == \A p \in Sessions : session'[p].phase = "settled" => session[p].phase = "settled"
  <2>1. session \in [Sessions -> SessionRow]
    BY DEF TypeOK
  <2>2. CASE session' = session
    BY <2>2
  <2>3. ASSUME NEW q \in Sessions, NEW i \in Invoices, StartCheckout(q, i) PROVE Kept
    BY <2>1, <2>3 DEF StartCheckout
  <2>4. ASSUME NEW q \in Sessions, StoreSession(q) PROVE Kept
    BY <2>1, <2>4 DEF StoreSession, SessionRow
  <2>5. ASSUME NEW q \in Sessions, PayByBank(q) PROVE Kept
    BY <2>1, <2>5 DEF PayByBank, SessionRow
  <2>6. QED
    BY <2>2, <2>3, <2>4, <2>5
    DEF Next, vars, tableVars, sendVars, stripeVars, ConnectStripe, StaffStep, CreateInvoice,
        VoidInvoice, BeginSend, BeginApproval, SendStep, TakeNumberLock, CountNumbered,
        AssignNumber, EmitSent, SendCrashes, ApprovalStep, ApproveSend, EmitApproved, StripeStep,
        Deliver, ReconcileStep, CheckDuplicate, InsertPayment, DeliveryFails
<1>3. \A p \in Sessions : session[p].phase = "settled" => session'[p] = session[p]
  BY SettledStays
<1>4. SettledCharges' = SettledCharges
  BY <1>2, <1>3 DEF SettledCharges
<1> DEFINE NoNews == \A i \in Invoices, by \in Emitter :
                <<"invoice/paid", i, by>> \in emitted' <=> <<"invoice/paid", i, by>> \in emitted
<1>5. NoNews
  <2>1. CASE emitted' = emitted
    BY <2>1
  <2>2. ASSUME NEW name \in {"invoice/sent", "invoice/void"}, NEW j, NEW who, BestEffort(name, j, who)
        PROVE  NoNews
    BY <2>2 DEF BestEffort
  <2>3. QED
    BY <2>1, <2>2
    DEF Next, vars, tableVars, sendVars, stripeVars, ConnectStripe, StaffStep, CreateInvoice,
        VoidInvoice, BeginSend, BeginApproval, StartCheckout, SendStep, TakeNumberLock, CountNumbered,
        AssignNumber, EmitSent, SendCrashes, ApprovalStep, ApproveSend, EmitApproved, StripeStep,
        StoreSession, PayByBank, Deliver, ReconcileStep, CheckDuplicate, InsertPayment, DeliveryFails
<1>6. PaidInvoices' = PaidInvoices
  BY <1>5 DEF PaidInvoices, Announced
<1>7. QED BY <1>1, <1>4, <1>6

(* A bank debit or a card that settles is a settlement of the ledger.       *)
LEMMA SettlementSettles ==
  ASSUME TypeOK, ProcessesLinked, NEW p \in Sessions, PayByCard(p) \/ BankSettles(p)
  PROVE  Ledger!Settle
<1> DEFINE i == session[p].invoice
           new == [intent |-> p, invoice |-> i, amount |-> AmountDue[i]]
<1>1. session \in [Sessions -> SessionRow]
  BY DEF TypeOK
<1>2. session[p].phase \in {"open", "processing"} /\ session' = [session EXCEPT ![p].phase = "settled"]
      /\ UNCHANGED <<payments, emitted>>
  BY DEF PayByCard, BankSettles, tableVars
<1>3. i \in Invoices /\ session[p].amount = AmountDue[i]
  BY <1>2 DEF ProcessesLinked
<1>4. session'[p].phase = "settled" /\ session'[p].invoice = i /\ session'[p].amount = AmountDue[i]
  BY <1>1, <1>2, <1>3 DEF SessionRow
<1>5. \A q \in Sessions \ {p} : session'[q] = session[q]
  BY <1>1, <1>2
<1>6. SettledCharges' = SettledCharges \cup {new}
  BY <1>2, <1>4, <1>5 DEF SettledCharges
<1>7. \A other \in SettledCharges : other.intent # p
  BY <1>2 DEF SettledCharges
<1>8. UNCHANGED PaidInvoices
  BY <1>2 DEF PaidInvoices, Announced
<1>9. QED BY <1>2, <1>3, <1>6, <1>7, <1>8 DEF Ledger!Settle, PaidInvoices

(* A committed payment is an entry of the ledger.                           *)
LEMMA CommitEnters ==
  ASSUME TypeOK, ProcessesLinked, InsertsExclusive, NEW d \in Deliveries, WritePayment(d)
  PROVE  Ledger!Enter
<1> DEFINE c == [intent |-> Intent(d), invoice |-> PaysFor(d), amount |-> Amount(d)]
<1>1. webhook[d].pc = "write" /\ UNCHANGED <<session, emitted>>
      /\ payments' = payments \cup
           {[by |-> d, intent |-> Intent(d), invoice |-> PaysFor(d), amount |-> Amount(d)]}
  BY DEF WritePayment, stripeVars
<1>2. Intent(d) \in Sessions /\ session[Intent(d)].phase = "settled"
  BY <1>1 DEF TypeOK, ProcessesLinked, StripeEvent, Intent
<1>3. c \in SettledCharges
  BY <1>2 DEF SettledCharges, PaysFor, Amount
<1>4. \A e \in payments : e.intent # c.intent
  BY <1>1 DEF InsertsExclusive, Recorded
<1>5. UNCHANGED SettledCharges /\ UNCHANGED PaidInvoices
  BY <1>1 DEF SettledCharges, PaidInvoices, Announced
<1>6. QED BY <1>1, <1>3, <1>4, <1>5 DEF Ledger!Enter, PaidInvoices

(* invoice/paid announces the invoice of an entry, or is lost.              *)
LEMMA AnnouncementAnnounces ==
  ASSUME TypeOK, AnnouncesItsEntry, NEW d \in Deliveries, EmitPaid(d)
  PROVE  Ledger!Announce \/ UNCHANGED <<SettledCharges, payments, PaidInvoices>>
<1> DEFINE e == [by |-> d, intent |-> Intent(d), invoice |-> PaysFor(d), amount |-> Amount(d)]
<1>1. webhook[d].pc = "emit" /\ UNCHANGED <<session, payments>>
  BY DEF EmitPaid, tableVars, stripeVars
<1>2. e \in payments /\ PaysFor(d) \in Invoices
  BY <1>1 DEF AnnouncesItsEntry, TypeOK, PaymentRow
<1>3. UNCHANGED SettledCharges
  BY <1>1 DEF SettledCharges
<1>4. CASE emitted' = emitted
  BY <1>1, <1>3, <1>4 DEF PaidInvoices, Announced
<1>5. CASE emitted' = emitted \cup {<<"invoice/paid", PaysFor(d), d>>}
  <2>1. PaidInvoices' = PaidInvoices \cup {PaysFor(d)}
    BY <1>2, <1>5 DEF PaidInvoices, Announced, Emitter
  <2>2. QED BY <1>1, <1>2, <1>3, <2>1 DEF Ledger!Announce, PaidInvoices
<1>6. QED BY <1>4, <1>5 DEF EmitPaid, BestEffort

(* The money path, whatever is delivered, repeated, lost or crashes,        *)
(* implements the charge ledger: each of its steps is a step of the ledger, *)
(* or leaves it alone.                                                      *)
THEOREM RefinesLedger == Spec => ImplementsLedger
<1>1. Init => InsertsExclusive /\ AnnouncesItsEntry
  BY DEF Init, InsertsExclusive, AnnouncesItsEntry
<1>2. Init => Ledger!Init
  BY DEF Init, Ledger!Init, SettledCharges, Announced
<1>3. TypeOK /\ ProcessesLinked /\ InsertsExclusive /\ AnnouncesItsEntry /\ [Next]_vars
        => [Ledger!Next]_<<SettledCharges, payments, PaidInvoices>>
  <2> SUFFICES ASSUME TypeOK, ProcessesLinked, InsertsExclusive, AnnouncesItsEntry, [Next]_vars
               PROVE  Ledger!Next \/ UNCHANGED <<SettledCharges, payments, PaidInvoices>>
    OBVIOUS
  <2>1. CASE \E p \in Sessions : PayByCard(p) \/ BankSettles(p)
    BY <2>1, SettlementSettles DEF Ledger!Next
  <2>2. CASE \E d \in Deliveries : WritePayment(d)
    BY <2>2, CommitEnters DEF Ledger!Next
  <2>3. CASE \E d \in Deliveries : EmitPaid(d)
    BY <2>3, AnnouncementAnnounces DEF Ledger!Next
  <2>4. QED BY <2>1, <2>2, <2>3, OtherStepStutters
<1>4. QED
  BY <1>1, <1>2, <1>3, ExclusiveStep, AnnouncesStep, TypeCorrect, PTL
  DEF Spec, ImplementsLedger, Ledger!Spec, PaidInvoices

-----------------------------------------------------------------------------
(* Dunning beside the writers of the invoice.  The reminders a run sends too *)
(* late are paid for: by the step in flight when the invoice settled, one for *)
(* each time it settled.                                                     *)

(* A run holds the invoice it was started for; before it starts it holds     *)
(* nothing.  A run that goes on has attempts left, only the SMS step gets to  *)
(* the flip, and a run that is to write its communication row knows an        *)
(* outcome its channel has.                                                  *)
RunIsSound(r) ==
  /\ run[r].pc = "idle" => /\ run[r].invoice = None /\ run[r].step = 1
                           /\ run[r].logged = {} /\ run[r].late = {}
  /\ run[r].pc # "idle" => run[r].invoice \in Invoices
  /\ run[r].pc \notin Ended => run[r].tries < MaxAttempts
  /\ run[r].pc = "flip" => run[r].step = 4
  /\ run[r].pc = "log" => /\ run[r].outcome \in Outcomes(run[r].step)
                          /\ (run[r].step = 4 /\ run[r].outcome = "sent" => run[r].texted)

(* While the invoice is owed there are no more late steps than it was taken   *)
(* back, and a run past its check may only repeat the step that is counted.   *)
LateIsPaidFor(r) ==
  \A i \in Invoices : run[r].invoice = i =>
    /\ Cardinality(run[r].late) <= 1 + revived[i]
    /\ ~Settled(i) => Cardinality(run[r].late) <= revived[i]
    /\ run[r].pc \in {"read", "flip", "send", "log"} =>
          Cardinality(run[r].late) <= revived[i] \/ run[r].step \in run[r].late

RunsAreSound == \A r \in Runs : RunIsSound(r)
LatesArePaidFor == \A r \in Runs : LateIsPaidFor(r)

DunningInductive ==
  /\ DunningTypeOK /\ ProcessesLinked /\ DeliveryTaskMatchesNumber
  /\ RunsAreSound /\ LatesArePaidFor
  /\ OverdueOnlyIfDunned /\ NoFalseText /\ EveryStepLogged

(* Writing any record of a run keeps the table of runs one.                  *)
LEMMA AnyRun ==
  ASSUME NEW f \in [Runs -> RunRow], NEW r \in Runs, NEW row \in RunRow
  PROVE  /\ [f EXCEPT ![r] = row] \in [Runs -> RunRow]
         /\ [f EXCEPT ![r] = row][r] = row
         /\ \A q \in Runs \ {r} : [f EXCEPT ![r] = row][q] = f[q]
OBVIOUS

(* The parts of a run's record, each of its type.                           *)
LEMMA RunFields ==
  ASSUME NEW row \in RunRow
  PROVE  /\ row.pc \in RunPc /\ row.invoice \in Invoices \cup {None} /\ row.by \in Emitter
         /\ row.seen \in SUBSET BusEvent /\ row.step \in 1..4 /\ row.tries \in 0..MaxAttempts
         /\ row.outcome \in Outcome /\ row.logged \in SUBSET (1..4) /\ row.late \in SUBSET (1..4)
         /\ row.texted \in BOOLEAN /\ row.claimed \in BOOLEAN
BY DEF RunRow, Steps

(* Moving on, with or without a new count of attempts, keeps a run one.       *)
LEMMA MovedRun ==
  ASSUME NEW f \in [Runs -> RunRow], NEW r \in Runs, NEW pc \in RunPc, NEW tries \in 0..MaxAttempts
  PROVE  /\ [f EXCEPT ![r].pc = pc, ![r].tries = tries]
              = [f EXCEPT ![r] = [f[r] EXCEPT !.pc = pc, !.tries = tries]]
         /\ [f EXCEPT ![r].pc = pc] = [f EXCEPT ![r] = [f[r] EXCEPT !.pc = pc]]
         /\ [f[r] EXCEPT !.pc = pc, !.tries = tries] \in RunRow
         /\ [f[r] EXCEPT !.pc = pc] \in RunRow
BY DEF RunRow

(* An invoice is revived as often as it was, and once more when a step takes  *)
(* it back; a step that leaves the row alone revives nothing.                 *)
LEMMA RevivedStep ==
  ASSUME revived \in [Invoices -> Nat], DunningNext
  PROVE  /\ revived' \in [Invoices -> Nat]
         /\ \A i \in Invoices : /\ revived[i] <= revived'[i]
                                /\ Settled(i) /\ ~Settled(i)' => revived'[i] = revived[i] + 1
BY DEF DunningNext, Revives

(* The late steps of a run are finitely many, and a set of them grows by one   *)
(* step at a time.                                                           *)
LEMMA LateFinite ==
  ASSUME NEW L \in SUBSET (1..4)
  PROVE  /\ Cardinality(L) \in Nat
         /\ \A k \in 1..4 : Cardinality(L \cup {k}) = IF k \in L THEN Cardinality(L) ELSE Cardinality(L) + 1
         /\ Cardinality({}) = 0
<1>1. ASSUME NEW S, IsFiniteSet(S), NEW x PROVE IsFiniteSet(S \cup {x})
  BY <1>1, FS_AddElement
<1>2. IsFiniteSet(((({} \cup {1}) \cup {2}) \cup {3}) \cup {4})
  <2>1. IsFiniteSet({} \cup {1})
    BY <1>1, FS_EmptySet
  <2>2. IsFiniteSet(({} \cup {1}) \cup {2})
    BY <1>1, <2>1
  <2>3. IsFiniteSet((({} \cup {1}) \cup {2}) \cup {3})
    BY <1>1, <2>2
  <2>4. QED BY <1>1, <2>3
<1>3. IsFiniteSet(L) /\ Cardinality(L) \in Nat
  <2>1. L \subseteq ((({} \cup {1}) \cup {2}) \cup {3}) \cup {4}
    OBVIOUS
  <2>2. QED BY <1>2, <2>1, FS_Subset, FS_CardinalityType
<1>4. ASSUME NEW k \in 1..4, k \in L PROVE L \cup {k} = L
  BY <1>4
<1>5. QED BY <1>3, <1>4, FS_AddElement, FS_EmptySet

(* A step of a run that sends nothing late keeps its late steps paid for, if  *)
(* it was past its check before or finds the invoice owed.                    *)
LEMMA LateKept ==
  ASSUME revived \in [Invoices -> Nat], DunningNext, NEW r \in Runs, LateIsPaidFor(r),
         run[r].late \in SUBSET (1..4),
         run'[r].invoice = run[r].invoice, run'[r].late = run[r].late,
         run'[r].pc \in {"read", "flip", "send", "log"} =>
            \/ run[r].pc \in {"read", "flip", "send", "log"} /\ run'[r].step = run[r].step
            \/ ~Settled(run[r].invoice)
  PROVE  LateIsPaidFor(r)'
<1>1. SUFFICES ASSUME NEW i \in Invoices, run[r].invoice = i
               PROVE  /\ Cardinality(run[r].late) <= 1 + revived'[i]
                      /\ ~Settled(i)' => Cardinality(run[r].late) <= revived'[i]
                      /\ run'[r].pc \in {"read", "flip", "send", "log"} =>
                           \/ Cardinality(run[r].late) <= revived'[i]
                           \/ run'[r].step \in run[r].late
  BY DEF LateIsPaidFor
<1>2. PICK n : n = Cardinality(run[r].late)
  OBVIOUS
<1>3. n \in Nat
  BY <1>2, LateFinite
<1>4. /\ revived[i] \in Nat /\ revived'[i] \in Nat /\ revived[i] <= revived'[i]
      /\ Settled(i) /\ ~Settled(i)' => revived'[i] = revived[i] + 1
  BY RevivedStep
<1>5. /\ n <= 1 + revived[i]
      /\ ~Settled(i) => n <= revived[i]
      /\ run[r].pc \in {"read", "flip", "send", "log"} => n <= revived[i] \/ run[r].step \in run[r].late
  BY <1>1, <1>2 DEF LateIsPaidFor
<1>6. n <= 1 + revived'[i] /\ (n <= revived[i] => n <= revived'[i])
  BY <1>3, <1>4, <1>5
<1>7. ~Settled(i)' => n <= revived'[i]
  BY <1>3, <1>4, <1>5
<1>8. run'[r].pc \in {"read", "flip", "send", "log"} => n <= revived'[i] \/ run'[r].step \in run[r].late
  BY <1>1, <1>5, <1>6
<1>9. QED BY <1>2, <1>6, <1>7, <1>8

(* What every step of a run leaves true of its own record, whatever it is.   *)
Stepped(r) ==
  /\ run' \in [Runs -> RunRow] /\ \A q \in Runs \ {r} : run'[q] = run[q]
  /\ RunIsSound(r)' /\ LateIsPaidFor(r)'
  /\ run[r].pc # "idle" => /\ run'[r].invoice = run[r].invoice
                           /\ run[r].step <= run'[r].step /\ run[r].logged \subseteq run'[r].logged
  /\ run'[r].claimed => run'[r].texted
  /\ 1..(run'[r].step - 1) \cup (IF run'[r].pc = "done" THEN Steps ELSE {}) \subseteq run'[r].logged

(* The record is as it was but for its program counter and its attempts.      *)
OnlyMoved(old, new) ==
  /\ new.invoice = old.invoice /\ new.step = old.step /\ new.outcome = old.outcome
  /\ new.logged = old.logged /\ new.late = old.late /\ new.texted = old.texted
  /\ new.claimed = old.claimed

(* A step that only moves a run on keeps its record sound; it comes past the  *)
(* check only with an invoice that is owed.                                  *)
LEMMA MoveSteps ==
  ASSUME DunningInductive, DunningNext, NEW r \in Runs, run[r].pc # "idle",
         NEW row \in RunRow, run' = [run EXCEPT ![r] = row], OnlyMoved(run[r], row),
         row.pc \notin {"idle", "log", "done"},
         row.pc = "flip" => run[r].step = 4, row.pc \notin Ended => row.tries < MaxAttempts,
         row.pc \in {"read", "flip", "send"} =>
            run[r].pc \in {"read", "flip", "send", "log"} \/ ~Settled(run[r].invoice)
  PROVE  Stepped(r)
<1>1. /\ run \in [Runs -> RunRow] /\ revived \in [Invoices -> Nat]
      /\ RunIsSound(r) /\ LateIsPaidFor(r)
      /\ run[r].claimed => run[r].texted
      /\ 1..(run[r].step - 1) \subseteq run[r].logged
  BY DEF DunningInductive, DunningTypeOK, RunsAreSound, LatesArePaidFor, NoFalseText, EveryStepLogged
<1>2. /\ run' \in [Runs -> RunRow] /\ run'[r] = row /\ \A q \in Runs \ {r} : run'[q] = run[q]
  BY <1>1, AnyRun
<1>3. RunIsSound(r)'
  BY <1>1, <1>2 DEF RunIsSound, OnlyMoved
<1>4. LateIsPaidFor(r)'
  <2>1. run[r].late \in SUBSET (1..4) /\ run'[r].late = run[r].late /\ run'[r].invoice = run[r].invoice
    BY <1>1, <1>2, RunFields DEF OnlyMoved
  <2>2. run'[r].pc \in {"read", "flip", "send", "log"} =>
            \/ run[r].pc \in {"read", "flip", "send", "log"} /\ run'[r].step = run[r].step
            \/ ~Settled(run[r].invoice)
    BY <1>2 DEF OnlyMoved
  <2>3. QED BY <1>1, <2>1, <2>2, LateKept
<1>5. run[r].step \in 1..4
  BY <1>1, RunFields
<1>6. QED BY <1>1, <1>2, <1>3, <1>4, <1>5 DEF Stepped, OnlyMoved

(* Loading, waking, checking, reading, failing and being cancelled only move  *)
(* a run on.                                                                 *)
LEMMA QuietSteps ==
  ASSUME DunningInductive, DunningNext, NEW r \in Runs,
         Load(r) \/ Wake(r) \/ Check(r) \/ ReadInvoice(r) \/ FlipOverdue(r) \/ StepFails(r) \/ Cancel(r)
  PROVE  Stepped(r)
<1>1. run \in [Runs -> RunRow] /\ MaxAttempts \in Nat \ {0}
  BY MaxAttemptsAssumption DEF DunningInductive, DunningTypeOK
<1>2. /\ run[r].pc \in RunPc /\ run[r].tries \in 0..MaxAttempts /\ 0 \in 0..MaxAttempts
      /\ 0 < MaxAttempts /\ (run[r].pc \notin Ended => run[r].tries < MaxAttempts)
      /\ (run[r].pc = "flip" => run[r].step = 4)
  BY <1>1, RunFields DEF DunningInductive, RunsAreSound, RunIsSound
<1> DEFINE Moves(pc, tries) ==
      /\ pc \in RunPc /\ tries \in 0..MaxAttempts /\ run[r].pc # "idle"
      /\ pc \notin {"idle", "log", "done"} /\ (pc = "flip" => run[r].step = 4)
      /\ (pc \notin Ended => tries < MaxAttempts)
      /\ (pc \in {"read", "flip", "send"} =>
            run[r].pc \in {"read", "flip", "send", "log"} \/ ~Settled(run[r].invoice))
<1>3. ASSUME NEW pc, NEW tries, Moves(pc, tries),
             run' = [run EXCEPT ![r].pc = pc, ![r].tries = tries]
      PROVE  Stepped(r)
  <2> DEFINE row == [run[r] EXCEPT !.pc = pc, !.tries = tries]
  <2>1. row \in RunRow /\ run' = [run EXCEPT ![r] = row]
    BY <1>1, <1>3, MovedRun
  <2>2. OnlyMoved(run[r], row) /\ row.pc = pc /\ row.tries = tries
    BY <1>1 DEF RunRow, OnlyMoved
  <2> HIDE DEF row
  <2>3. QED BY <1>3, <2>1, <2>2, MoveSteps
<1>4. ASSUME NEW pc, Moves(pc, run[r].tries), run' = [run EXCEPT ![r].pc = pc]
      PROVE  Stepped(r)
  <2> DEFINE row == [run[r] EXCEPT !.pc = pc]
  <2>1. row \in RunRow /\ run' = [run EXCEPT ![r] = row]
    BY <1>1, <1>2, <1>4, MovedRun
  <2>2. OnlyMoved(run[r], row) /\ row.pc = pc /\ row.tries = run[r].tries
    BY <1>1 DEF RunRow, OnlyMoved
  <2> HIDE DEF row
  <2>3. QED BY <1>4, <2>1, <2>2, MoveSteps
<1>5. CASE Load(r)
  <2>1. PICK pc \in {"wait", "skipped"} : run' = [run EXCEPT ![r].pc = pc, ![r].tries = 0]
    BY <1>5 DEF Load, Goto
  <2>2. QED BY <1>2, <1>3, <1>5, <2>1 DEF Load, RunPc
<1>6. CASE Wake(r)
  <2>1. PICK pc \in {"check"} : run' = [run EXCEPT ![r].pc = pc, ![r].tries = 0]
    BY <1>6 DEF Wake, Goto
  <2>2. QED BY <1>2, <1>3, <1>6, <2>1 DEF Wake, RunPc
<1>7. CASE Check(r)
  <2>1. PICK pc \in {"stopped", "read"} : /\ run' = [run EXCEPT ![r].pc = pc, ![r].tries = 0]
                                          /\ pc = "read" => ~Settled(run[r].invoice)
    BY <1>7 DEF Check, Goto, StopsAt
  <2>2. QED BY <1>2, <1>3, <1>7, <2>1 DEF Check, RunPc
<1>8. CASE ReadInvoice(r)
  <2>1. PICK pc \in {"flip", "send"} : /\ run' = [run EXCEPT ![r].pc = pc]
                                       /\ pc = "flip" => run[r].step = 4
    BY <1>8 DEF ReadInvoice, FlipsOverdue
  <2>2. QED BY <1>2, <1>4, <1>8, <2>1 DEF ReadInvoice, RunPc, Ended
<1>9. CASE FlipOverdue(r)
  <2>1. PICK pc \in {"send"} : run' = [run EXCEPT ![r].pc = pc]
    BY <1>9 DEF FlipOverdue
  <2>2. QED BY <1>2, <1>4, <1>9, <2>1 DEF FlipOverdue, RunPc, Ended
<1>10. CASE Cancel(r)
  <2>1. PICK pc \in {"cancelled"} : run' = [run EXCEPT ![r].pc = pc]
    BY <1>10 DEF Cancel
  <2>2. QED BY <1>2, <1>4, <1>10, <2>1 DEF Cancel, RunPc, Ended
<1>11. CASE StepFails(r)
  <2>1. PICK tries : tries = run[r].tries + 1
    OBVIOUS
  <2>2. PICK pc : pc = IF tries < MaxAttempts THEN RetryPc(run[r].pc) ELSE "failed"
    OBVIOUS
  <2>3. run' = [run EXCEPT ![r].pc = pc, ![r].tries = tries]
    BY <1>11, <2>1, <2>2 DEF StepFails, Tries
  <2>4. run[r].pc \in {"load", "check", "read", "flip", "send", "log"}
    BY <1>11 DEF StepFails
  <2>5. tries \in 0..MaxAttempts /\ tries \in Nat
    BY <1>1, <1>2, <2>1, <2>4 DEF Ended
  <2>6. CASE tries < MaxAttempts
    <3>1. pc \in {"load", "check", "read"} /\ (pc = "read" => run[r].pc \in {"read", "flip", "send", "log"})
      BY <2>2, <2>4, <2>6 DEF RetryPc
    <3>2. Moves(pc, tries)
      BY <2>4, <2>5, <2>6, <3>1 DEF RunPc, Ended
    <3>3. QED BY <1>3, <2>3, <3>2
  <2>7. CASE ~(tries < MaxAttempts)
    <3>1. pc = "failed"
      BY <2>2, <2>7
    <3>2. Moves(pc, tries)
      BY <2>4, <2>5, <3>1 DEF RunPc, Ended
    <3>3. QED BY <1>3, <2>3, <3>2
  <2>8. QED BY <2>6, <2>7
<1>12. QED BY <1>5, <1>6, <1>7, <1>8, <1>9, <1>10, <1>11

(* The bus starts a run with nothing done and nothing sent.                  *)
LEMMA StartSteps ==
  ASSUME DunningInductive, DunningNext, NEW r \in Runs, NEW i \in Invoices, NEW by \in Emitter,
         StartRun(r, i, by)
  PROVE  Stepped(r)
<1> DEFINE row == [run[r] EXCEPT !.pc = "load", !.invoice = i, !.by = by, !.seen = Cancelling(i)]
<1>1. /\ run \in [Runs -> RunRow] /\ revived \in [Invoices -> Nat] /\ MaxAttempts \in Nat \ {0}
      /\ run[r].pc = "idle" /\ RunIsSound(r) /\ emitted \subseteq BusEvent
      /\ (run[r].claimed => run[r].texted)
  BY MaxAttemptsAssumption
  DEF StartRun, DunningInductive, DunningTypeOK, TypeOK, RunsAreSound, NoFalseText
<1>2. Cancelling(i) \subseteq BusEvent
  BY <1>1 DEF Cancelling
<1>3. /\ row \in RunRow /\ row.pc = "load" /\ row.invoice = i /\ row.step = run[r].step
      /\ row.logged = run[r].logged /\ row.late = run[r].late /\ row.tries = run[r].tries
      /\ row.claimed = run[r].claimed /\ row.texted = run[r].texted
  BY ZenonT(40), <1>1, <1>2 DEF RunRow, RunPc
<1>4. run' = [run EXCEPT ![r] = row]
  BY DEF StartRun
<1> HIDE DEF row
<1>5. /\ run' \in [Runs -> RunRow] /\ run'[r] = row /\ \A q \in Runs \ {r} : run'[q] = run[q]
  BY <1>1, <1>3, <1>4, AnyRun
<1>6. /\ run[r].late = {} /\ run[r].logged = {} /\ run[r].step = 1 /\ run[r].tries < MaxAttempts
  BY <1>1 DEF RunIsSound, Ended
<1>7. RunIsSound(r)'
  BY <1>3, <1>5, <1>6 DEF RunIsSound
<1>8. LateIsPaidFor(r)'
  <2>1. \A j \in Invoices : revived'[j] \in Nat
    BY <1>1, RevivedStep
  <2>2. run'[r].late = {} /\ Cardinality({}) = 0
    BY <1>3, <1>5, <1>6, FS_EmptySet
  <2>3. run'[r].pc = "load"
    BY <1>3, <1>5
  <2>4. PICK n : n = Cardinality(run'[r].late)
    OBVIOUS
  <2>5. n = 0
    BY <2>2, <2>4
  <2>6. \A j \in Invoices : n <= revived'[j] /\ n <= 1 + revived'[j]
    BY <2>1, <2>5
  <2>7. QED BY <2>3, <2>4, <2>6 DEF LateIsPaidFor
<1>9. QED BY <1>1, <1>3, <1>5, <1>6, <1>7, <1>8 DEF Stepped

(* A run that sends counts the step as late if the invoice is settled, which  *)
(* its settling pays for.                                                    *)
LEMMA SendSteps ==
  ASSUME DunningInductive, DunningNext, NEW r \in Runs, Outbound(r)
  PROVE  Stepped(r)
<1>1. /\ run \in [Runs -> RunRow] /\ revived \in [Invoices -> Nat]
      /\ run[r].pc = "send" /\ RunIsSound(r) /\ LateIsPaidFor(r) /\ UNCHANGED invoice
      /\ (run[r].claimed => run[r].texted) /\ 1..(run[r].step - 1) \subseteq run[r].logged
  BY DEF Outbound, DunningInductive, DunningTypeOK, RunsAreSound, LatesArePaidFor, NoFalseText, EveryStepLogged,
         vars, tableVars
<1>2. PICK k \in 1..4 : k = run[r].step
  BY <1>1, RunFields
<1>3. PICK i \in Invoices : i = run[r].invoice
  BY <1>1 DEF RunIsSound
<1>4. PICK o \in Outcomes(k) :
        run' = [run EXCEPT ![r].pc = "log", ![r].outcome = o,
             ![r].late = IF o = "sent" /\ Settled(i) THEN @ \cup {k} ELSE @,
             ![r].texted = @ \/ (o = "sent" /\ Channel(k) = "sms")]
  BY <1>2, <1>3 DEF Outbound
<1> DEFINE late == IF o = "sent" /\ Settled(i) THEN run[r].late \cup {k} ELSE run[r].late
           texted == run[r].texted \/ (o = "sent" /\ Channel(k) = "sms")
           row == [run[r] EXCEPT !.pc = "log", !.outcome = o, !.late = late, !.texted = texted]
<1>5. run' = [run EXCEPT ![r] = row]
  BY <1>4
<1>6. late \in SUBSET (1..4) /\ texted \in BOOLEAN /\ o \in Outcome
  BY <1>1, <1>2, RunFields DEF Outcomes, Outcome
<1>7. (run[r].texted => texted) /\ (k = 4 /\ o = "sent" => texted)
  BY DEF Channel
<1>8. \/ late = run[r].late
      \/ Settled(i) /\ late = run[r].late \cup {k}
  OBVIOUS
<1> HIDE DEF late, texted
<1>9. /\ row \in RunRow /\ row.pc = "log" /\ row.invoice = i /\ row.step = k
      /\ row.logged = run[r].logged /\ row.late = late /\ row.tries = run[r].tries
      /\ row.claimed = run[r].claimed /\ row.texted = texted /\ row.outcome = o
  BY ZenonT(40), <1>1, <1>2, <1>3, <1>6 DEF RunRow, RunPc, Steps
<1> HIDE DEF row
<1>10. /\ run' \in [Runs -> RunRow] /\ run'[r] = row /\ \A q \in Runs \ {r} : run'[q] = run[q]
  BY <1>1, <1>5, <1>9, AnyRun
<1>11. RunIsSound(r)'
  BY <1>1, <1>2, <1>3, <1>4, <1>7, <1>9, <1>10 DEF RunIsSound, Ended
<1>12. LateIsPaidFor(r)'
  <2>1. PICK n, v : n = Cardinality(run[r].late) /\ v = revived[i]
    OBVIOUS
  <2>2. /\ n \in Nat /\ v \in Nat
        /\ Cardinality(run[r].late \cup {k}) = IF k \in run[r].late THEN n ELSE n + 1
    BY <1>1, <2>1, RunFields, LateFinite
  <2>3. /\ n <= 1 + v /\ (~Settled(i) => n <= v) /\ (n <= v \/ k \in run[r].late)
    BY <1>1, <1>2, <1>3, <2>1 DEF LateIsPaidFor
  <2>4. revived'[i] = v /\ (Settled(i)' <=> Settled(i))
    BY <1>1, <2>1 DEF DunningNext, Revives, Settled
  <2>5. PICK m : m = Cardinality(late)
    OBVIOUS
  <2>6. /\ m <= 1 + v /\ (~Settled(i) => m <= v) /\ (m <= v \/ k \in late)
    <3>1. CASE late = run[r].late
      BY <2>1, <2>3, <2>5, <3>1
    <3>2. CASE Settled(i) /\ late = run[r].late \cup {k}
      <4>1. m = (IF k \in run[r].late THEN n ELSE n + 1) /\ k \in late
        BY <2>2, <2>5, <3>2
      <4>2. QED BY <2>2, <2>3, <3>2, <4>1
    <3>3. QED BY <1>8, <3>1, <3>2
  <2>7. QED BY <1>9, <1>10, <2>4, <2>5, <2>6 DEF LateIsPaidFor
<1>13. QED BY <1>1, <1>2, <1>3, <1>7, <1>9, <1>10, <1>11, <1>12 DEF Stepped

(* The communication row is written for what left, and the next step begins.  *)
LEMMA LogSteps ==
  ASSUME DunningInductive, DunningNext, NEW r \in Runs, LogRow(r)
  PROVE  Stepped(r)
<1>1. /\ run \in [Runs -> RunRow] /\ revived \in [Invoices -> Nat] /\ MaxAttempts \in Nat \ {0}
      /\ run[r].pc = "log" /\ RunIsSound(r) /\ LateIsPaidFor(r)
      /\ (run[r].claimed => run[r].texted) /\ 1..(run[r].step - 1) \subseteq run[r].logged
  BY MaxAttemptsAssumption
  DEF LogRow, DunningInductive, DunningTypeOK, RunsAreSound, LatesArePaidFor, NoFalseText, EveryStepLogged
<1>2. PICK k \in 1..4 : k = run[r].step
  BY <1>1, RunFields
<1> DEFINE pc == IF k < 4 THEN "wait" ELSE "done"
           next == IF k < 4 THEN k + 1 ELSE k
           logged == run[r].logged \cup {k}
           claimed == run[r].claimed \/ (Channel(k) = "sms" /\ run[r].outcome # "suppressed")
           row == [run[r] EXCEPT !.pc = pc, !.step = next, !.tries = 0, !.outcome = "none",
                                 !.logged = logged, !.claimed = claimed]
<1>3. run' = [run EXCEPT ![r] = row]
  BY <1>2 DEF LogRow, LastStep, WithRow
<1>4. pc \in {"wait", "done"} /\ next \in 1..4 /\ k <= next /\ (pc = "done" => k = 4) /\ next <= k + 1
  BY <1>2
<1>5. logged \in SUBSET (1..4) /\ claimed \in BOOLEAN /\ run[r].logged \subseteq logged /\ k \in logged
  BY <1>1, <1>2, RunFields
<1>6. claimed => run[r].texted
  BY <1>1, <1>2 DEF RunIsSound, Channel, Outcomes
<1> HIDE DEF pc, next, logged, claimed
<1>7. /\ row \in RunRow /\ row.pc = pc /\ row.invoice = run[r].invoice /\ row.step = next
      /\ row.logged = logged /\ row.late = run[r].late /\ row.tries = 0
      /\ row.claimed = claimed /\ row.texted = run[r].texted
  <2>1. pc \in RunPc /\ "none" \in Outcome /\ 0 \in 0..MaxAttempts
    BY <1>1, <1>4 DEF RunPc, Outcome
  <2>2. next \in Steps /\ logged \in SUBSET Steps
    BY <1>4, <1>5 DEF Steps
  <2>3. run[r] \in RunRow
    BY <1>1
  <2>4. row \in RunRow
    BY <1>5, <2>1, <2>2, <2>3 DEF RunRow
  <2>5. QED BY <2>3, <2>4 DEF RunRow
<1> HIDE DEF row
<1>8. /\ run' \in [Runs -> RunRow] /\ run'[r] = row /\ \A q \in Runs \ {r} : run'[q] = run[q]
  BY <1>1, <1>3, <1>7, AnyRun
<1>9. RunIsSound(r)'
  BY <1>1, <1>4, <1>7, <1>8 DEF RunIsSound
<1>10. LateIsPaidFor(r)'
  <2>1. run[r].late \in SUBSET (1..4)
    BY <1>1, RunFields
  <2>2. run'[r].late = run[r].late /\ run'[r].invoice = run[r].invoice /\ run'[r].pc \in {"wait", "done"}
    BY <1>4, <1>7, <1>8
  <2>3. QED BY <1>1, <2>1, <2>2, LateKept
<1>11. 1..(next - 1) \cup (IF pc = "done" THEN Steps ELSE {}) \subseteq logged
  <2>1. 1..k \subseteq logged
    BY <1>1, <1>2, <1>5
  <2>2. QED BY <1>2, <1>4, <2>1 DEF Steps
<1>12. QED BY <1>1, <1>2, <1>4, <1>5, <1>6, <1>7, <1>8, <1>9, <1>10, <1>11 DEF Stepped

-----------------------------------------------------------------------------
(* The numbered send alone marks a delivery task, with the number.           *)
LEMMA DeliveryStep ==
  ASSUME TypeOK, ProcessesLinked, DeliveryTaskMatchesNumber, [Next]_vars
  PROVE  DeliveryTaskMatchesNumber'
<1>1. CASE \A s \in Senders : ~AssignNumber(s)
  <2>1. Numbered' = Numbered
    BY <1>1, NumbersKept
  <2>2. deliveryDone' = deliveryDone
    BY <1>1
    DEF Next, vars, tableVars, StaffStep, SendStep, ApprovalStep, StripeStep, ReconcileStep, ConnectStripe,
        CreateInvoice, VoidInvoice, BeginSend, TakeNumberLock, CountNumbered, EmitSent, SendCrashes,
        BeginApproval, ApproveSend, EmitApproved, StartCheckout, StoreSession, PayByCard, PayByBank,
        BankSettles, Deliver, CheckDuplicate, InsertPayment, WritePayment, EmitPaid, DeliveryFails
  <2>3. QED BY <2>1, <2>2 DEF DeliveryTaskMatchesNumber
<1>2. ASSUME NEW s \in Senders, AssignNumber(s) PROVE DeliveryTaskMatchesNumber'
  <2>1. PICK i \in Invoices, n \in Nat : i = sending[s].invoice /\ n = sending[s].count + 1
    BY <1>2 DEF AssignNumber, TypeOK, ProcessesLinked, SendRow
  <2>2. \/ invoice' = invoice /\ deliveryDone' = deliveryDone
        \/ /\ invoice' = [invoice EXCEPT ![i].number = n, ![i].status = "sent"]
           /\ deliveryDone' = deliveryDone \cup {i}
    BY <1>2, <2>1 DEF AssignNumber, StillDraft, Delivered
  <2>3. n # 0
    BY <1>2, <2>1 DEF TypeOK, SendRow
  <2>4. CASE invoice' = invoice /\ deliveryDone' = deliveryDone
    BY <2>4 DEF DeliveryTaskMatchesNumber, Numbered
  <2>5. CASE /\ invoice' = [invoice EXCEPT ![i].number = n, ![i].status = "sent"]
             /\ deliveryDone' = deliveryDone \cup {i}
    <3>1. invoice'[i].number = n /\ \A k \in Invoices \ {i} : invoice'[k] = invoice[k]
      BY <2>5 DEF TypeOK, InvoiceRow
    <3>2. Numbered' = Numbered \cup {i}
      BY <2>3, <3>1 DEF Numbered
    <3>3. QED BY <2>5, <3>2 DEF DeliveryTaskMatchesNumber
  <2>6. QED BY <2>2, <2>4, <2>5
<1>3. QED BY <1>1, <1>2

(* No other writer of the invoice marks it overdue.                          *)
LEMMA OverdueComesFromFlip ==
  ASSUME TypeOK, [Next]_vars, NEW i \in Invoices, invoice'[i].status = "overdue"
  PROVE  invoice[i].status = "overdue"
<1>1. invoice \in [Invoices -> InvoiceRow]
  BY DEF TypeOK
<1>2. CASE UNCHANGED invoice
  BY <1>2
<1>3. ASSUME NEW j \in Invoices, CreateInvoice(j) \/ VoidInvoice(j) PROVE invoice[i].status = "overdue"
  <2>1. PICK status \in {"draft", "void"} : invoice' = [invoice EXCEPT ![j].status = status]
    BY <1>3 DEF CreateInvoice, VoidInvoice
  <2>2. QED BY <1>1, <2>1 DEF InvoiceRow
<1>4. ASSUME NEW a \in Approvals, ApproveSend(a) PROVE invoice[i].status = "overdue"
  BY <1>1, <1>4 DEF ApproveSend
<1>5. ASSUME NEW q \in Sessions, StoreSession(q) PROVE invoice[i].status = "overdue"
  BY <1>1, <1>5 DEF StoreSession, InvoiceRow
<1>6. ASSUME NEW s \in Senders, AssignNumber(s) PROVE invoice[i].status = "overdue"
  <2> DEFINE j == sending[s].invoice
             n == sending[s].count + 1
  <2>1. invoice' = invoice \/ invoice' = [invoice EXCEPT ![j].number = n, ![j].status = "sent"]
    BY <1>6 DEF AssignNumber
  <2> HIDE DEF j, n
  <2>2. QED BY <1>1, <2>1 DEF InvoiceRow
<1>7. ASSUME NEW d \in Deliveries, WritePayment(d) PROVE invoice[i].status = "overdue"
  <2> DEFINE k == PaysFor(d)
             total == webhook[d].amountPaid + Amount(d)
             full == total >= AmountDue[k]
  <2>1. invoice' = [invoice EXCEPT ![k].amountPaid = total, ![k].status = IF full THEN "paid" ELSE @]
    BY <1>7 DEF WritePayment
  <2> HIDE DEF k, total, full
  <2>2. CASE full
    BY <1>1, <2>1, <2>2
  <2>3. CASE ~full
    BY <1>1, <2>1, <2>3
  <2>4. QED BY <2>2, <2>3
<1>8. QED
  BY <1>2, <1>3, <1>4, <1>5, <1>6, <1>7
  DEF Next, vars, tableVars, StaffStep, SendStep, ApprovalStep, StripeStep, ReconcileStep, ConnectStripe,
      BeginSend, TakeNumberLock, CountNumbered, EmitSent, SendCrashes, BeginApproval, EmitApproved,
      StartCheckout, PayByCard, PayByBank, BankSettles, Deliver, CheckDuplicate, InsertPayment, EmitPaid,
      DeliveryFails

(* The flip writes a status only.                                            *)
LEMMA FlipKeeps ==
  ASSUME TypeOK, ProcessesLinked, DeliveryTaskMatchesNumber,
         NEW r \in Runs, run[r].invoice \in Invoices, FlipOverdue(r)
  PROVE  /\ TypeOK' /\ ProcessesLinked' /\ DeliveryTaskMatchesNumber'
         /\ \A i \in Invoices : invoice'[i].status = "overdue" =>
               invoice[i].status = "overdue" \/ run[r].invoice = i
<1>1. PICK i \in Invoices : i = run[r].invoice
  OBVIOUS
<1>2. /\ invoice' = [invoice EXCEPT ![i].status = "overdue"]
      /\ UNCHANGED <<stripeConnected, payments, deliveryDone, sendVars, stripeVars, webhook, emitted>>
  BY <1>1 DEF FlipOverdue
<1>3. /\ invoice \in [Invoices -> InvoiceRow] /\ invoice' \in [Invoices -> InvoiceRow]
      /\ \A k \in Invoices : invoice'[k].number = invoice[k].number
      /\ \A k \in Invoices \ {i} : invoice'[k] = invoice[k]
  BY <1>2 DEF TypeOK, InvoiceRow, Status
<1>4. TypeOK'
  BY <1>2, <1>3 DEF TypeOK, sendVars, stripeVars
<1>5. ProcessesLinked'
  BY <1>2 DEF ProcessesLinked, Settles, sendVars, stripeVars
<1>6. Numbered' = Numbered
  BY <1>3 DEF Numbered
<1>7. DeliveryTaskMatchesNumber'
  BY <1>2, <1>6 DEF DeliveryTaskMatchesNumber
<1>8. QED BY <1>1, <1>3, <1>4, <1>5, <1>7

(* A step of dunning keeps the money path typed and linked, and a new overdue *)
(* invoice is that of the run that flipped it.                               *)
LEMMA MoneyKeeps ==
  ASSUME DunningInductive, DunningNext
  PROVE  /\ TypeOK' /\ ProcessesLinked' /\ DeliveryTaskMatchesNumber'
         /\ \A i \in Invoices : invoice'[i].status = "overdue" =>
               \/ invoice[i].status = "overdue"
               \/ \E r \in Runs : run[r].pc = "flip" /\ run[r].invoice = i
<1>1. TypeOK /\ ProcessesLinked /\ DeliveryTaskMatchesNumber /\ RunsAreSound
  BY DEF DunningInductive, DunningTypeOK
<1>2. CASE [Next]_vars
  BY <1>1, <1>2, TypeStep, LinkStep, DeliveryStep, OverdueComesFromFlip
<1>3. CASE \E r \in Runs : FlipOverdue(r)
  <2>1. PICK r \in Runs : FlipOverdue(r)
    BY <1>3
  <2>2. run[r].pc = "flip" /\ run[r].invoice \in Invoices
    BY <1>1, <2>1 DEF FlipOverdue, RunsAreSound, RunIsSound
  <2>3. QED BY <1>1, <2>1, <2>2, FlipKeeps
<1>4. [Next]_vars \/ \E r \in Runs : FlipOverdue(r)
  BY ZenonT(40) DEF DunningNext, DunningStep, RunStep, StartRun, Load, Wake, Check, ReadInvoice, Outbound, LogRow,
         StepFails, Cancel
<1>5. QED BY <1>2, <1>3, <1>4

(* In a step one run at most does something, and its record stays sound.     *)
LEMMA RunsStep ==
  ASSUME DunningInductive, DunningNext
  PROVE  UNCHANGED run \/ \E r \in Runs : Stepped(r)
BY StartSteps, QuietSteps, SendSteps, LogSteps DEF DunningNext, DunningStep, RunStep

LEMMA DunningKeeps ==
  ASSUME DunningInductive, DunningNext
  PROVE  DunningInductive'
<1>1. /\ run \in [Runs -> RunRow] /\ revived \in [Invoices -> Nat]
      /\ RunsAreSound /\ LatesArePaidFor /\ OverdueOnlyIfDunned /\ NoFalseText /\ EveryStepLogged
  BY DEF DunningInductive, DunningTypeOK
<1>2. /\ TypeOK' /\ ProcessesLinked' /\ DeliveryTaskMatchesNumber' /\ revived' \in [Invoices -> Nat]
  BY <1>1, MoneyKeeps, RevivedStep
<1>3. ASSUME NEW q \in Runs, run'[q] = run[q] PROVE RunIsSound(q)' /\ LateIsPaidFor(q)'
  <2>1. RunIsSound(q) /\ LateIsPaidFor(q)
    BY <1>1 DEF RunsAreSound, LatesArePaidFor
  <2>2. RunIsSound(q)'
    BY <1>3, <2>1 DEF RunIsSound
  <2>3. run[q].late \in SUBSET (1..4)
    BY <1>1, RunFields
  <2>4. QED BY <1>1, <1>3, <2>1, <2>2, <2>3, LateKept
<1>4. \A q \in Runs : run'[q] = run[q] \/ Stepped(q)
  BY RunsStep DEF Stepped
<1>5. run' \in [Runs -> RunRow]
  BY <1>1, RunsStep DEF Stepped
<1>6. RunsAreSound' /\ LatesArePaidFor'
  BY <1>3, <1>4 DEF Stepped, RunsAreSound, LatesArePaidFor
<1>7. NoFalseText'
  BY <1>1, <1>4 DEF Stepped, NoFalseText
<1>8. EveryStepLogged'
  BY <1>1, <1>4 DEF Stepped, EveryStepLogged
<1>9. OverdueOnlyIfDunned'
  <2>1. SUFFICES ASSUME NEW i \in Invoices, invoice'[i].status = "overdue"
                 PROVE  \E r \in Runs : run'[r].invoice = i /\ run'[r].step = 4 /\ 1..3 \subseteq run'[r].logged
    BY DEF OverdueOnlyIfDunned
  <2>2. PICK r \in Runs : run[r].invoice = i /\ run[r].step = 4 /\ 1..3 \subseteq run[r].logged
    <3>1. CASE invoice[i].status = "overdue"
      BY <1>1, <3>1 DEF OverdueOnlyIfDunned
    <3>2. ASSUME NEW r \in Runs, run[r].pc = "flip", run[r].invoice = i
          PROVE  run[r].step = 4 /\ 1..3 \subseteq run[r].logged
      <4>1. run[r].step = 4
        BY <1>1, <3>2 DEF RunsAreSound, RunIsSound
      <4>2. 1..(run[r].step - 1) \subseteq run[r].logged
        BY <1>1 DEF EveryStepLogged
      <4>3. QED BY <4>1, <4>2
    <3>3. QED BY <2>1, <3>1, <3>2, MoneyKeeps
  <2>3. run[r].pc # "idle"
    BY <1>1, <2>2, NoneAssumption DEF RunsAreSound, RunIsSound
  <2>4. CASE run'[r] = run[r]
    BY <2>2, <2>4
  <2>5. CASE Stepped(r)
    <3>1. /\ run'[r].invoice = i /\ 4 <= run'[r].step /\ 1..3 \subseteq run'[r].logged
      BY <2>2, <2>3, <2>5 DEF Stepped
    <3>2. run'[r].step \in 1..4
      BY <1>5, RunFields
    <3>3. QED BY <3>1, <3>2
  <2>6. QED BY <1>4, <2>4, <2>5
<1>10. QED BY <1>2, <1>5, <1>6, <1>7, <1>8, <1>9 DEF DunningInductive, DunningTypeOK

LEMMA DunningStarts == DunningInit => DunningInductive
<1> SUFFICES ASSUME DunningInit PROVE DunningInductive
  OBVIOUS
<1>1. Init /\ Numbered = {}
  BY DEF DunningInit, Init, Numbered
<1>2. TypeOK /\ ProcessesLinked
  BY <1>1, TypeCorrectInit
<1>3. DeliveryTaskMatchesNumber /\ OverdueOnlyIfDunned
  BY <1>1 DEF Init, DeliveryTaskMatchesNumber, OverdueOnlyIfDunned
<1> DEFINE row == [pc |-> "idle", invoice |-> None, by |-> None, seen |-> {}, step |-> 1,
                   tries |-> 0, outcome |-> "none", logged |-> {}, late |-> {},
                   texted |-> FALSE, claimed |-> FALSE]
<1>4. row \in RunRow /\ 0 < MaxAttempts
  BY MaxAttemptsAssumption DEF RunRow, RunPc, Emitter, Steps, Outcome
<1>5. /\ row.pc = "idle" /\ row.invoice = None /\ row.step = 1 /\ row.tries = 0 /\ row.logged = {}
      /\ row.late = {} /\ ~row.claimed
  OBVIOUS
<1>6. run = [r \in Runs |-> row] /\ revived = [i \in Invoices |-> 0]
  BY DEF DunningInit
<1> HIDE DEF row
<1>7. \A r \in Runs : run[r] = row
  BY <1>6
<1>8. run \in [Runs -> RunRow] /\ revived \in [Invoices -> Nat]
  BY <1>4, <1>6
<1>9. RunsAreSound /\ NoFalseText /\ EveryStepLogged
  BY <1>4, <1>5, <1>7 DEF RunsAreSound, RunIsSound, NoFalseText, EveryStepLogged
<1>10. LatesArePaidFor
  <2>1. ASSUME NEW r \in Runs, NEW i \in Invoices PROVE run[r].invoice # i
    BY <1>5, <1>7, NoneAssumption
  <2>2. QED BY <2>1 DEF LatesArePaidFor, LateIsPaidFor
<1>11. QED BY <1>2, <1>3, <1>8, <1>9, <1>10 DEF DunningInductive, DunningTypeOK

(* Whatever is paid, voided, taken back, lost or retried while dunning runs,  *)
(* for any number of invoices and of runs: a settled invoice is chased once   *)
(* more at most each time it settles, is overdue only after three reminders,  *)
(* and no communication row claims a text that did not leave (dunningRun).    *)
THEOREM DunningHolds == DunningSpec => []DunningInv
<1>1. DunningInductive => DunningInv
  <2> SUFFICES ASSUME DunningInductive PROVE DunningInv
    OBVIOUS
  <2>1. AtMostOneLateStep
    BY DEF DunningInductive, LatesArePaidFor, LateIsPaidFor, AtMostOneLateStep
  <2>2. QED BY <2>1 DEF DunningInductive, DunningInv
<1>2. DunningInductive /\ UNCHANGED <<dunningVars, revived>> => DunningInductive'
  BY DEF DunningInductive, DunningTypeOK, TypeOK, ProcessesLinked, DeliveryTaskMatchesNumber, Numbered,
         RunsAreSound, RunIsSound, LatesArePaidFor, LateIsPaidFor, Settled, OverdueOnlyIfDunned, NoFalseText,
         EveryStepLogged, dunningVars, vars, tableVars, sendVars, stripeVars
<1>3. QED BY <1>1, <1>2, DunningStarts, DunningKeeps, PTL DEF DunningSpec
=============================================================================

------------------------------- MODULE Books -------------------------------
(***************************************************************************)
(* Books: the QuickBooks (QBO) sync.  qboPushInvoice runs on invoice/sent, *)
(* qboPushPayment on invoice/paid.                                         *)
(*                                                                         *)
(* Each step is one transaction that calls QBO between its reads and its   *)
(* COMMIT.  QBO creates a document at every call, so an attempt that dies  *)
(* after a call leaves the document in the books and nothing in the row.   *)
(* A step retried after its COMMIT, before its result was recorded, reads  *)
(* what it stored.                                                         *)
(***************************************************************************)
EXTENDS Naturals, FiniteSets

CONSTANTS
    Invoices,
    Customers,
    CustomerOf,    \* customer of each invoice, or None
    Installments,  \* how many payments settle each invoice
    Runs,          \* runs of the two functions (bound: one start each)
    MaxAttempts,   \* attempts Inngest makes of one step
    MaxFailures,   \* failed attempts in all (bound)
    None

ASSUME CustomerAssumption == CustomerOf \in [Invoices -> Customers \cup {None}]
ASSUME InstallmentsAssumption == Installments \in [Invoices -> Nat \ {0}]
ASSUME LimitsAssumption == MaxAttempts \in Nat \ {0} /\ MaxFailures \in Nat /\ IsFiniteSet(Runs)

VARIABLES
    connected,   \* tenant.qbo_connection_id is set
    announced,   \* <<event, invoice>> pairs that reached the bus
    received,    \* payments received of each invoice, in order of receivedAt
    stored,      \* committed qbo_id of every customer, invoice and payment row, or None
    books,       \* documents QBO holds
    run,         \* runs in progress
    failures,    \* failed attempts so far
    missing      \* attempts that found the row without a qbo_id (history)

worldVars == <<connected, announced, received>>
vars == <<worldVars, stored, books, run, failures, missing>>

-----------------------------------------------------------------------------
Events == {"invoice/sent", "invoice/paid"}
Payments == UNION {{<<i, k>> : k \in 1..Installments[i]} : i \in Invoices}
Rows == Customers \cup Invoices \cup Payments
ASSUME RowsAssumption ==                  \* three tables
    /\ Customers \cap Invoices = {} /\ Payments \cap (Customers \cup Invoices) = {}
    /\ None \notin Rows
\* The n-th copy QBO holds of a row.
DocId == Rows \X (1 .. MaxFailures + Cardinality(Runs))
ASSUME DocsAssumption == None \notin DocId
\* A document refers to the customer (of an invoice) or the invoice (of a payment).
Doc == [id : DocId, ref : DocId \cup {None}]

EnsurePc  == {"ensure", "customer", "storeCustomer", "invoice", "storeInvoice", "memo"}
PaymentPc == {"payment", "storePayment", "memoPayment"}
Ended     == {"done", "skipped", "failed"}
RunRow == [pc : EnsurePc \cup PaymentPc \cup Ended \cup {"idle"},
           event : Events, invoice : Invoices \cup {None},
           customer : DocId \cup {None},  \* qbo_id of the customer, read or created
           wrote : BOOLEAN,               \* its row is written, not yet committed
           doc : DocId \cup {None},       \* invoice or payment the attempt created
           ensured : DocId \cup {None},   \* memoised result of ensure-invoice
           tries : 0..MaxAttempts]

TypeOK ==
    /\ connected \in BOOLEAN
    /\ announced \subseteq Events \X Invoices
    /\ \A i \in Invoices : received[i] \in 0..Installments[i]
    /\ stored \in [Rows -> DocId \cup {None}]
    /\ books \subseteq Doc
    /\ run \in [Runs -> RunRow]
    /\ \A r \in Runs : run[r].pc \in EnsurePc \cup PaymentPc => run[r].tries < MaxAttempts
    /\ failures \in 0..MaxFailures
    /\ missing \in [Rows -> Nat]

IdleRow == [pc |-> "idle", event |-> "invoice/sent", invoice |-> None, customer |-> None,
            wrote |-> FALSE, doc |-> None, ensured |-> None, tries |-> 0]

Init ==
    /\ connected = FALSE
    /\ announced = {}
    /\ received = [i \in Invoices |-> 0]
    /\ stored = [w \in Rows |-> None]
    /\ books = {}
    /\ run = [r \in Runs |-> IdleRow]
    /\ failures = 0
    /\ missing = [w \in Rows |-> 0]

Copies(w) == {d \in books : d.id[1] = w}
NewId(w) == <<w, Cardinality(Copies(w)) + 1>>
Create(w, ref) == books' = books \cup {[id |-> NewId(w), ref |-> ref]}
FoundMissing(w) == missing' = [missing EXCEPT ![w] = IF stored[w] = None THEN @ + 1 ELSE @]
Move(r, pc) == run' = [run EXCEPT ![r].pc = pc]

HasIdBug(w) == FALSE                      \* mutant: the stored id is not looked at
HasId(w) == stored[w] # None

-----------------------------------------------------------------------------
(* The world around the sync.                                              *)

Connect ==
    /\ ~connected
    /\ connected' = TRUE
    /\ UNCHANGED <<announced, received, stored, books, run, failures, missing>>

Send(i) ==
    /\ <<"invoice/sent", i>> \notin announced
    /\ announced' = announced \cup {<<"invoice/sent", i>>}
    /\ UNCHANGED <<connected, received, stored, books, run, failures, missing>>

\* A payment row; the one that settles the invoice announces it.
Receive(i) ==
    /\ <<"invoice/sent", i>> \in announced
    /\ received[i] < Installments[i]
    /\ received' = [received EXCEPT ![i] = @ + 1]
    /\ announced' = IF received'[i] = Installments[i]
                    THEN announced \cup {<<"invoice/paid", i>>} ELSE announced
    /\ UNCHANGED <<connected, stored, books, run, failures, missing>>

\* The bus starts one run for each event that reached it.
StartRun(r, e, i) ==
    /\ run[r].pc = "idle"
    /\ <<e, i>> \in announced
    /\ \A q \in Runs : run[q].pc # "idle" => <<run[q].event, run[q].invoice>> # <<e, i>>
    /\ run' = [run EXCEPT ![r] = [IdleRow EXCEPT !.pc = "ensure", !.event = e, !.invoice = i]]
    /\ UNCHANGED <<worldVars, stored, books, failures, missing>>

-----------------------------------------------------------------------------
(* ensureCustomerAndInvoice.                                               *)

Ensure(r) ==
    LET i == run[r].invoice IN
    /\ run[r].pc = "ensure"
    /\ run' = [run EXCEPT
         ![r].pc = IF ~connected THEN "skipped" ELSE IF HasId(i) THEN "memo" ELSE "customer",
         ![r].ensured = IF connected /\ HasId(i) THEN stored[i] ELSE None]
    /\ IF connected THEN FoundMissing(i) ELSE UNCHANGED missing
    /\ UNCHANGED <<worldVars, stored, books, failures>>

\* Reads the customer row and, if it has no qbo_id, creates the customer.
EnsureCustomer(r) ==
    LET c == CustomerOf[run[r].invoice] IN
    /\ run[r].pc = "customer"
    /\ IF c = None
       THEN Move(r, "invoice") /\ UNCHANGED <<books, missing>>
       ELSE /\ FoundMissing(c)
            /\ IF HasId(c)
               THEN /\ run' = [run EXCEPT ![r].pc = "invoice", ![r].customer = stored[c]]
                    /\ UNCHANGED books
               ELSE /\ Create(c, None)
                    /\ run' = [run EXCEPT ![r].pc = "storeCustomer", ![r].customer = NewId(c)]
    /\ UNCHANGED <<worldVars, stored, failures>>

\* Updates the customer row by id alone; the row stays locked until the COMMIT.
StoreCustomer(r) ==
    LET c == CustomerOf[run[r].invoice] IN
    /\ run[r].pc = "storeCustomer"
    /\ \A q \in Runs : run[q].wrote => CustomerOf[run[q].invoice] # c
    /\ run' = [run EXCEPT ![r].pc = "invoice", ![r].wrote = TRUE]
    /\ UNCHANGED <<worldVars, stored, books, failures, missing>>

CreateInvoice(r) ==
    LET i == run[r].invoice IN
    /\ run[r].pc = "invoice"
    /\ Create(i, run[r].customer)
    /\ run' = [run EXCEPT ![r].pc = "storeInvoice", ![r].doc = NewId(i)]
    /\ UNCHANGED <<worldVars, stored, failures, missing>>

\* What the transaction writes: the invoice row, and the customer row if it created one.
Written(r, w) ==
    IF w = run[r].invoice THEN run[r].doc
    ELSE IF run[r].wrote /\ w = CustomerOf[run[r].invoice] THEN run[r].customer ELSE stored[w]

\* The update of the invoice row and the COMMIT of both rows.
StoreInvoice(r) ==
    /\ run[r].pc = "storeInvoice"
    /\ stored' = [w \in Rows |-> Written(r, w)]
    /\ run' = [run EXCEPT ![r].pc = "memo", ![r].wrote = FALSE, ![r].ensured = run[r].doc]
    /\ UNCHANGED <<worldVars, books, failures, missing>>

\* qboPushPayment has a second step, qboPushInvoice has none.
AfterEnsureBug(e) == "done"               \* mutant: the payment is never pushed
AfterEnsure(e) == IF e = "invoice/paid" THEN "payment" ELSE "done"

\* Inngest records the result of the step.
RecordEnsured(r) ==
    /\ run[r].pc = "memo"
    /\ run' = [run EXCEPT ![r].pc = AfterEnsure(run[r].event), ![r].tries = 0]
    /\ UNCHANGED <<worldVars, stored, books, failures, missing>>

-----------------------------------------------------------------------------
(* pushPaymentToQbo: the payment received first, or nothing.               *)

PushPayment(r) ==
    LET p == <<run[r].invoice, 1>> IN
    /\ run[r].pc = "payment"
    /\ IF ~connected \/ received[run[r].invoice] = 0
       THEN Move(r, "done") /\ UNCHANGED <<books, missing>>
       ELSE /\ FoundMissing(p)
            /\ IF HasId(p)
               THEN Move(r, "done") /\ UNCHANGED books
               ELSE /\ Create(p, run[r].ensured)
                    /\ run' = [run EXCEPT ![r].pc = "storePayment", ![r].doc = NewId(p)]
    /\ UNCHANGED <<worldVars, stored, failures>>

StorePayment(r) ==
    /\ run[r].pc = "storePayment"
    /\ stored' = [stored EXCEPT ![<<run[r].invoice, 1>>] = run[r].doc]
    /\ Move(r, "memoPayment")
    /\ UNCHANGED <<worldVars, books, failures, missing>>

RecordPayment(r) ==
    /\ run[r].pc = "memoPayment"
    /\ Move(r, "done")
    /\ UNCHANGED <<worldVars, stored, books, failures, missing>>

\* Each step.run is retried from its own start.
RestartBug(pc) == IF pc \in EnsurePc THEN "invoice" ELSE "payment"  \* mutant: resumes midway
Restart(pc) == IF pc \in EnsurePc THEN "ensure" ELSE "payment"

GivesUp(r) == run[r].tries + 1 = MaxAttempts

\* QBO answers an error, or the process dies: the transaction rolls back.
AttemptFails(r) ==
    /\ failures < MaxFailures
    /\ run[r].pc \in EnsurePc \cup PaymentPc
    /\ failures' = failures + 1
    /\ run' = [run EXCEPT
         ![r].pc = IF GivesUp(r) THEN "failed" ELSE Restart(run[r].pc),
         ![r].tries = @ + 1, ![r].wrote = FALSE, ![r].customer = None, ![r].doc = None]
    /\ UNCHANGED <<worldVars, stored, books, missing>>

-----------------------------------------------------------------------------
RunStep(r) ==
    \/ \E e \in Events, i \in Invoices : StartRun(r, e, i)
    \/ Ensure(r) \/ EnsureCustomer(r) \/ StoreCustomer(r) \/ CreateInvoice(r)
    \/ StoreInvoice(r) \/ RecordEnsured(r)
    \/ PushPayment(r) \/ StorePayment(r) \/ RecordPayment(r)

Next ==
    \/ Connect
    \/ \E i \in Invoices : Send(i) \/ Receive(i)
    \/ \E r \in Runs : RunStep(r) \/ AttemptFails(r)

Spec == Init /\ [][Next]_vars
\* Inngest keeps a started run going and starts one for each event.
FairSpec == Spec /\ \A r \in Runs : WF_vars(RunStep(r))

-----------------------------------------------------------------------------
\* No more documents copy a row than attempts found that row without a qbo_id: neither a
\* retry after the COMMIT nor the run of the second event pushes what is stored already.
StoredIsNotPushedAgain == \A w \in Rows : Cardinality(Copies(w)) <= missing[w]

\* Every document refers to a document QBO holds: an invoice to a copy of its own customer,
\* a payment to a copy of its own invoice, whatever attempts failed before it was made.
BooksAreLinked ==
    \A d \in books :
        LET w == d.id[1]
            target == IF w \in Invoices THEN CustomerOf[w]
                      ELSE IF w \in Payments THEN w[1] ELSE None IN
        IF target = None THEN d.ref = None
        ELSE d.ref # None /\ d.ref[1] = target /\ \E e \in books : e.id = d.ref

\* A row never names a document QBO does not hold, and a payment row names one only when
\* its invoice row does.
StoredIsBooked ==
    /\ \A w \in Rows : stored[w] # None => \E d \in Copies(w) : d.id = stored[w]
    /\ \A p \in Payments : stored[p] # None => stored[p[1]] # None

\* The CRM's rows and the documents in QuickBooks agree: rows name documents that exist,
\* documents refer to documents that exist, and a stored row is not copied again.
BooksInv == TypeOK /\ BooksAreLinked /\ StoredIsBooked /\ StoredIsNotPushedAgain

\* A run of a settled invoice ends with the invoice's first payment booked, by itself or by
\* another, unless it found no connection or ran out of attempts.
PaidIsBooked ==
    \A r \in Runs, i \in Invoices :
        (/\ run[r].pc = "customer"
         /\ run[r].event = "invoice/paid" /\ run[r].invoice = i)
            ~> (stored[<<i, 1>>] # None \/ run[r].pc = "failed")

-----------------------------------------------------------------------------
(* What the comments say and the code does not do.                         *)

\* "Already pushed - return stored id without hitting QBO again (idempotent)."
InvoiceBookedOnce == \A i \in Invoices : Cardinality(Copies(i)) <= 1

\* "Idempotent - safe to retry."
RetryBooksNothingTwice == \A w \in Rows : Cardinality(Copies(w)) <= 1

\* "Push the latest unsynced payment for an invoice."
LatestPaymentPushed ==
    \A r \in Runs : run[r].pc = "memoPayment" =>
        LET i == run[r].invoice IN run[r].doc[1] = <<i, received[i]>>
=============================================================================

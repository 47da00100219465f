-------------------------- MODULE SupplierInvoices --------------------------
(***************************************************************************)
(* SupplierInvoices: the bills and credit memos suppliers send by e-mail.  *)
(* One durable function parses each, files it with a job and sums the      *)
(* job's cost again; another compares it with what was ordered and claims  *)
(* what was billed too much, or settles a claim when it is a memo.  Both   *)
(* catch their own errors, so only a death repeats a step; every update is *)
(* by id alone.  The office orders material and counts what was left over. *)
(***************************************************************************)
EXTENDS AgentRuns

CONSTANTS
    Bills,       \* invoices with a positive total
    Memos,       \* credit memos, each for as much as any one claim
    Jobs,        \* jobs with a material order
    Overbilled,  \* the bills with a qualifying overage, once they have a job
    BillCents, OrderCents,
    Guards,      \* runs of priceGuardSupplierInvoice (bound)
    Desks,       \* leftovers entered by the office (bound)
    Nil

ASSUME SupplierAssumption ==
    /\ Overbilled \subseteq Bills /\ Bills \cap Memos = {}
    /\ BillCents \in Nat \ {0} /\ OrderCents \in Nat \ {0} /\ BillCents # OrderCents
    /\ Nil \notin Bills \cup Memos \cup Jobs
    /\ IsFiniteSet(Bills) /\ IsFiniteSet(Guards \cup Desks) /\ Guards \cap Desks = {}

VARIABLES
    invoice,     \* table supplier_invoice
    order,       \* material_order.status of each job's order
    cost,        \* job.cost_cents
    taken,       \* invoices whose supplier-invoice/received reached the bus
    parse,       \* runs of parseSupplierInvoice
    parsed,      \* supplier-invoice/parsed events of an invoice not yet taken
    guard,       \* runs of priceGuardSupplierInvoice, and reconciliations of the office
    claims,      \* table credit_request
    leftover,    \* material_leftover rows
    matReturn,   \* table material_return
    told,        \* what happened to an invoice on the way (history)
    rolled,      \* returns of a job rolled back after their claim (history)
    stale        \* jobs whose cost something is known to have left behind (history)

Mail == Bills \cup Memos
costVars == <<order, cost, stale>>
parseVars == <<taken, parse>>
returnVars == <<leftover, matReturn, rolled>>
mailVars == <<invoice, costVars, parseVars, parsed, guard, claims, returnVars, told>>
supplierVars == <<runVars, mailVars>>

-----------------------------------------------------------------------------
Writing == {"actuals", "estimate", "write"}
Parsing == {"match", "save", "record"} \cup Writing
Guarding == {"load", "guard", "email", "begin", "finish", "claim", "record"}
Recovering == {"open", "credit", "recorded"}
Reconciling == {"reconcile", "return", "chase", "commit"}

InvoiceRow == [status : {"absent", "received", "parsed", "guarded", "parse_failed"}, job : Jobs \cup {Nil}]
ParseRow == [pc : Parsing \cup {"idle", "emit", "sent", "done", "failed"}, job : Jobs \cup {Nil},
             actuals : Nat, estimate : Nat, tries : 0..MaxTries,
             late : BOOLEAN]     \* what it read has changed since (history)
GuardRow == [pc : Guarding \cup Recovering \cup Reconciling \cup {"idle", "done", "failed"},
             of : Mail \cup {Nil}, job : Jobs \cup {Nil}, plan : {"send", "defer", "draft"},
             row : Nat, claim : Nat, anchor : Mail \cup {Nil}, tries : 0..MaxTries]
Claim == [for : {"overage", "return"}, of : Mail, job : Jobs,
          status : {"drafted", "sent", "credited"}, by : SUBSET Memos]
ReturnRow == [status : {"none", "pending_pickup", "credited", "written_off"}, claim : Nat]
ToldRow == [mailed : Nat,      \* credit requests e-mailed about it
            again : Nat,       \* times its guard was begun anew
            unclaimed : Nat,   \* e-mails whose claim was not recorded
            skipped : BOOLEAN] \* an error was swallowed, or the attempts ran out

SupplierTypeOK ==
    /\ RunTypeOK
    /\ invoice \in [Mail -> InvoiceRow]
    /\ order \in [Jobs -> {"draft", "ordered", "delivered"}]
    /\ cost \in [Jobs -> Nat]
    /\ taken \subseteq Mail
    /\ parse \in [Mail -> ParseRow]
    /\ parsed \in [Mail -> Nat]
    /\ guard \in [Guards \cup Desks -> GuardRow]
    /\ claims \in Seq(Claim)
    /\ leftover \in [Jobs -> BOOLEAN]
    /\ matReturn \in [Jobs -> ReturnRow] /\ \A j \in Jobs : matReturn[j].claim \in 0..Len(claims)
    /\ told \in [Mail -> ToldRow] /\ rolled \in [Jobs -> Nat]
    /\ stale \subseteq Jobs

NoParse == [pc |-> "idle", job |-> Nil, actuals |-> 0, estimate |-> 0, tries |-> 0, late |-> FALSE]
NoGuard == [pc |-> "idle", of |-> Nil, job |-> Nil, plan |-> "draft", row |-> 0, claim |-> 0, anchor |-> Nil,
            tries |-> 0]

SupplierInit ==
    /\ RunInit
    /\ invoice = [m \in Mail |-> [status |-> "absent", job |-> Nil]]
    /\ order = [j \in Jobs |-> "draft"]
    /\ cost = [j \in Jobs |-> 0]
    /\ taken = {} /\ stale = {}
    /\ parse = [m \in Mail |-> NoParse]
    /\ parsed = [m \in Mail |-> 0]
    /\ guard = [g \in Guards \cup Desks |-> NoGuard]
    /\ claims = <<>>
    /\ leftover = [j \in Jobs |-> FALSE]
    /\ matReturn = [j \in Jobs |-> [status |-> "none", claim |-> 0]] /\ rolled = [j \in Jobs |-> 0]
    /\ told = [m \in Mail |-> [mailed |-> 0, again |-> 0, unclaimed |-> 0, skipped |-> FALSE]]

-----------------------------------------------------------------------------
(* job.cost_cents: what was billed, or what was ordered while nothing is.  *)

IsOpen(j) == order[j] \in {"ordered", "delivered"}
Counts(status) == status \in {"parsed", "guarded"}
Actuals(j) == BillCents * Cardinality({b \in Bills : invoice[b].job = j /\ Counts(invoice[b].status)})
Estimated(j) == IF IsOpen(j) THEN OrderCents ELSE 0
JobCost(actuals, estimate) == IF actuals > 0 THEN actuals ELSE estimate

\* The runs that have read something of job j by then know it no more.
Overtaken(p, jobs, read) ==
    [m \in Mail |-> IF p[m].job \in jobs /\ p[m].pc \in read THEN [p[m] EXCEPT !.late = TRUE] ELSE p[m]]

\* setMaterialOrderStatus sums the orders alone, whatever was billed already.
AdvanceOrder(j) ==
    /\ order[j] # "delivered"
    /\ order' = [order EXCEPT ![j] = IF @ = "draft" THEN "ordered" ELSE "delivered"]
    /\ cost' = [cost EXCEPT ![j] = OrderCents]
    /\ parse' = Overtaken(parse, {j}, {"write"})
    /\ stale' = IF Actuals(j) > 0 THEN stale \cup {j} ELSE stale \ {j}
    /\ UNCHANGED <<runVars, invoice, taken, parsed, guard, claims, returnVars, told>>

-----------------------------------------------------------------------------
(* The inbox and parseSupplierInvoice.                                     *)

\* A second delivery of the e-mail finds the row and emits nothing, even when the first
\* one's event was lost.
Ingest(m) ==
    /\ invoice[m].status = "absent"
    /\ invoice' = [invoice EXCEPT ![m].status = "received"]
    /\ taken' \in {taken, taken \cup {m}}
    /\ UNCHANGED <<runVars, costVars, parse, parsed, guard, claims, returnVars, told>>

StartParse(m) ==
    /\ m \in taken /\ parse[m].pc = "idle"
    /\ parse' = [parse EXCEPT ![m].pc = "match"]
    /\ UNCHANGED <<runVars, invoice, costVars, taken, parsed, guard, claims, returnVars, told>>

\* matchSupplierInvoiceJob: the one job with an open order, if there is just one.
OpenJobs == {j \in Jobs : IsOpen(j)}
MatchJob(m) ==
    /\ parse[m].pc = "match"
    /\ parse' = [parse EXCEPT ![m].pc = "save", ![m].late = FALSE,
                              ![m].job = IF Cardinality(OpenJobs) = 1 THEN CHOOSE j \in OpenJobs : TRUE ELSE Nil]
    /\ UNCHANGED <<runVars, invoice, costVars, taken, parsed, guard, claims, returnVars, told>>

SaveParsed(m) ==
    LET p == parse[m] IN
    /\ p.pc = "save"
    /\ invoice' = [invoice EXCEPT ![m] = [status |-> "parsed", job |-> p.job]]
    /\ parse' = [Overtaken(parse, {p.job, invoice[m].job}, {"estimate", "write"})
                    EXCEPT ![m].pc = IF p.job = Nil THEN "record" ELSE "actuals"]
    /\ stale' = IF invoice[m].job \in Jobs \ {p.job} THEN stale \cup {invoice[m].job} ELSE stale
    /\ UNCHANGED <<runVars, order, cost, taken, parsed, guard, claims, returnVars, told>>

\* recomputeJobActualCost: two sums, then the row of the job.
SumActuals(m) ==
    /\ parse[m].pc = "actuals"
    /\ parse' = [parse EXCEPT ![m].pc = "estimate", ![m].actuals = Actuals(parse[m].job)]
    /\ UNCHANGED <<runVars, invoice, costVars, taken, parsed, guard, claims, returnVars, told>>

SumOrders(m) ==
    /\ parse[m].pc = "estimate"
    /\ parse' = [parse EXCEPT ![m].pc = "write", ![m].estimate = Estimated(parse[m].job)]
    /\ UNCHANGED <<runVars, invoice, costVars, taken, parsed, guard, claims, returnVars, told>>

WriteCost(m) ==
    LET p == parse[m] IN
    /\ p.pc = "write"
    /\ cost' = [cost EXCEPT ![p.job] = JobCost(p.actuals, p.estimate)]
    /\ stale' = IF p.late THEN stale \cup {p.job} ELSE stale \ {p.job}
    /\ parse' = [parse EXCEPT ![m] = [p EXCEPT !.pc = "record", !.actuals = 0, !.estimate = 0]]
    /\ UNCHANGED <<runVars, invoice, order, taken, parsed, guard, claims, returnVars, told>>

RecordParsed(m) ==
    /\ parse[m].pc = "record"
    /\ parse' = [parse EXCEPT ![m].pc = "emit", ![m].tries = 0]
    /\ UNCHANGED <<runVars, invoice, costVars, taken, parsed, guard, claims, returnVars, told>>

EmitParsed(m) ==
    /\ parse[m].pc = "emit"
    /\ parsed' = [parsed EXCEPT ![m] = @ + 1]
    /\ parse' = [parse EXCEPT ![m].pc = "sent"]
    /\ UNCHANGED <<runVars, invoice, costVars, taken, guard, claims, returnVars, told>>

RecordSent(m) ==
    /\ parse[m].pc = "sent"
    /\ parse' = [parse EXCEPT ![m] = [NoParse EXCEPT !.pc = "done"]]
    /\ UNCHANGED <<runVars, invoice, costVars, taken, parsed, guard, claims, returnVars, told>>

\* The handler catches what it or a call threw, and marks the row unless that fails too.
ParseThrows(m) ==
    LET j == invoice[m].job IN
    /\ parse[m].pc \in Parsing \ {"record"} /\ Fault
    /\ \E marked \in BOOLEAN :
          /\ invoice' = IF marked THEN [invoice EXCEPT ![m].status = "parse_failed"] ELSE invoice
          /\ told' = IF marked THEN told ELSE [told EXCEPT ![m].skipped = TRUE]
    /\ stale' = IF j \in Jobs THEN stale \cup {j} ELSE stale
    /\ parse' = [Overtaken(parse, {j}, {"estimate", "write"}) EXCEPT ![m] = [NoParse EXCEPT !.pc = "failed"]]
    /\ UNCHANGED <<agentRun, work, order, cost, taken, parsed, guard, claims, returnVars>>

ParseRestart(pc) == IF pc \in Parsing THEN "match" ELSE "emit"
LastTry(p) == p.tries + 1 = MaxTries

ParseDies(m) ==
    LET p == parse[m] IN
    /\ p.pc \in Parsing \cup {"emit", "sent"} /\ Fault
    /\ parse' = [parse EXCEPT ![m] = [p EXCEPT !.pc = IF LastTry(p) THEN "failed" ELSE ParseRestart(p.pc),
                                               !.tries = @ + 1, !.actuals = 0, !.estimate = 0]]
    /\ told' = [told EXCEPT ![m].skipped = @ \/ LastTry(p), ![m].again = IF p.pc = "sent" THEN @ + 1 ELSE @]
    /\ stale' = IF p.pc \in Writing THEN stale \cup {p.job} ELSE stale
    /\ UNCHANGED <<agentRun, work, invoice, order, cost, taken, parsed, guard, claims, returnVars>>

-----------------------------------------------------------------------------
(* priceGuardSupplierInvoice: a bill is guarded.                           *)

StartGuard(g, m) ==
    /\ guard[g].pc = "idle" /\ parsed[m] > 0
    /\ parsed' = [parsed EXCEPT ![m] = @ - 1]
    /\ guard' = [guard EXCEPT ![g].pc = IF m \in Memos THEN "open" ELSE "load", ![g].of = m]
    /\ UNCHANGED <<runVars, invoice, costVars, parseVars, claims, returnVars, told>>

LoadInvoice(g) ==
    /\ guard[g].pc = "load"
    /\ guard' = [guard EXCEPT ![g].pc = "guard", ![g].job = invoice[guard[g].of].job]
    /\ UNCHANGED <<runVars, invoice, costVars, parseVars, parsed, claims, returnVars, told>>

\* Without a job there is nothing to compare with, and so nothing to claim.
Overage(g) == guard[g].of \in Overbilled /\ guard[g].job # Nil
FirstOf(plan) == CASE plan = "send" -> "email" [] plan = "defer" -> "begin" [] plan = "draft" -> "claim"

\* Then the gate defers, or the claim is small, unsure or for nobody: it is drafted.
SaveGuarded(g) ==
    /\ guard[g].pc = "guard"
    /\ invoice' = [invoice EXCEPT ![guard[g].of].status = "guarded"]
    /\ IF Overage(g)
       THEN \E plan \in {"send", "defer", "draft"} :
               guard' = [guard EXCEPT ![g].pc = FirstOf(plan), ![g].plan = plan]
       ELSE guard' = [guard EXCEPT ![g].pc = "record"]
    /\ UNCHANGED <<runVars, costVars, parseVars, parsed, claims, returnVars, told>>

EmailSupplier(g) ==
    /\ guard[g].pc = "email"
    /\ told' = [told EXCEPT ![guard[g].of].mailed = @ + 1]
    /\ guard' = [guard EXCEPT ![g].pc = "claim"]
    /\ UNCHANGED <<runVars, invoice, costVars, parseVars, parsed, claims, returnVars>>

CreateClaim(g) ==
    LET sent == guard[g].plan = "send" IN
    /\ guard[g].pc = "claim"
    /\ claims' = Append(claims, [for |-> "overage", of |-> guard[g].of, job |-> guard[g].job,
                                 status |-> IF sent THEN "sent" ELSE "drafted", by |-> {}])
    /\ guard' = [guard EXCEPT ![g].pc = IF sent THEN "begin" ELSE "record"]
    /\ UNCHANGED <<runVars, invoice, costVars, parseVars, parsed, returnVars, told>>

\* recordAgentRun: after a claim was sent, or when the gate deferred.
BeginNote(g) ==
    /\ guard[g].pc = "begin"
    /\ agentRun' = Opened
    /\ guard' = [guard EXCEPT ![g].pc = "finish", ![g].row = Len(agentRun) + 1]
    /\ UNCHANGED <<work, faults, invoice, costVars, parseVars, parsed, claims, returnVars, told>>

NoteOf(g) == IF guard[g].plan = "send" THEN "ok" ELSE "skipped"
FinishNote(g) ==
    /\ guard[g].pc = "finish"
    /\ agentRun' = Closed(guard[g].row, NoteOf(g))
    /\ guard' = [guard EXCEPT ![g].pc = IF guard[g].plan = "send" THEN "record" ELSE "claim", ![g].row = 0]
    /\ UNCHANGED <<work, faults, invoice, costVars, parseVars, parsed, claims, returnVars, told>>

RecordGuarded(g) ==
    /\ guard[g].pc = "record"
    /\ guard' = [guard EXCEPT ![g].pc = "reconcile", ![g].plan = "draft", ![g].tries = 0]
    /\ UNCHANGED <<runVars, invoice, costVars, parseVars, parsed, claims, returnVars, told>>

Mailed(g) == guard[g].pc = "claim" /\ guard[g].plan = "send"
Lost(g) == IF Mailed(g) THEN 1 ELSE 0     \* its e-mail has no claim then

\* guard_skipped: whatever was thrown, the step is over.  An e-mail may have left all the same.
GuardThrows(g) ==
    /\ guard[g].pc \in Guarding \ {"record"} /\ Fault
    /\ \E left \in IF guard[g].pc = "email" THEN {0, 1} ELSE {0} :
          told' = [told EXCEPT ![guard[g].of].skipped = TRUE, ![guard[g].of].mailed = @ + left,
                               ![guard[g].of].unclaimed = @ + left + Lost(g)]
    /\ guard' = [guard EXCEPT ![g].pc = "record", ![g].row = 0]
    /\ UNCHANGED <<agentRun, work, invoice, costVars, parseVars, parsed, claims, returnVars>>

-----------------------------------------------------------------------------
(* recoverCreditMemo: a memo settles the one claim it can be for.          *)

OpenClaimsBug == {c \in DOMAIN claims : claims[c].status # "credited"}     \* mutant: drafts too
OpenClaims == {c \in DOMAIN claims : claims[c].status = "sent"}

ListOpen(g) ==
    /\ guard[g].pc = "open"
    /\ guard' = IF Cardinality(OpenClaims) = 1
                  THEN [guard EXCEPT ![g].pc = "credit", ![g].claim = CHOOSE c \in OpenClaims : TRUE]
                  ELSE [guard EXCEPT ![g].pc = "recorded"]
    /\ UNCHANGED <<runVars, invoice, costVars, parseVars, parsed, claims, returnVars, told>>

CreditClaim(g) ==
    /\ guard[g].pc = "credit"
    /\ claims' = [claims EXCEPT ![guard[g].claim].status = "credited", ![guard[g].claim].by = @ \cup {guard[g].of}]
    /\ guard' = [guard EXCEPT ![g].pc = "recorded", ![g].claim = 0]
    /\ UNCHANGED <<runVars, invoice, costVars, parseVars, parsed, returnVars, told>>

RecoverThrows(g) ==
    /\ guard[g].pc \in {"open", "credit"} /\ Fault
    /\ guard' = [guard EXCEPT ![g].pc = "recorded", ![g].claim = 0]
    /\ told' = [told EXCEPT ![guard[g].of].skipped = TRUE]
    /\ UNCHANGED <<agentRun, work, invoice, costVars, parseVars, parsed, claims, returnVars>>

RecordRecovered(g) ==
    /\ guard[g].pc = "recorded"
    /\ guard' = [guard EXCEPT ![g] = [NoGuard EXCEPT !.pc = "done"]]
    /\ UNCHANGED <<runVars, invoice, costVars, parseVars, parsed, claims, returnVars, told>>

-----------------------------------------------------------------------------
(* reconcileJobMaterials: one transaction, but for the claim, which has    *)
(* its own.  The snapshot it writes first locks the job's reconciliation.  *)

LogLeftover(d, j) ==
    /\ guard[d].pc = "idle"
    /\ leftover' = [leftover EXCEPT ![j] = TRUE]
    /\ guard' = [guard EXCEPT ![d].pc = "reconcile", ![d].job = j]
    /\ UNCHANGED <<runVars, invoice, costVars, parseVars, parsed, claims, matReturn, rolled, told>>

InvoicesOf(j) == {m \in Mail : invoice[m].job = j /\ Counts(invoice[m].status)}
Over == [NoGuard EXCEPT !.pc = "done"]

\* A guard's run reads the job of its invoice again.  The newest invoice anchors a claim.
Reconcile(g) ==
    LET j == IF g \in Guards THEN invoice[guard[g].of].job ELSE guard[g].job IN
    /\ guard[g].pc = "reconcile"
    /\ IF j = Nil \/ ~leftover[j]
       THEN guard' = [guard EXCEPT ![g] = Over]
       ELSE \E a \in IF InvoicesOf(j) = {} THEN {Nil} ELSE InvoicesOf(j) :
               guard' = [guard EXCEPT ![g].pc = "return", ![g].job = j, ![g].anchor = a]
    /\ UNCHANGED <<runVars, invoice, costVars, parseVars, parsed, claims, returnVars, told>>

InReturn == {g \in Guards \cup Desks : guard[g].pc \in {"chase", "commit"}}
HasReturn(j) == matReturn[j].status # "none"

\* A return that is there already is skipped, whatever became of it.
InsertReturn(g) ==
    LET j == guard[g].job IN
    /\ guard[g].pc = "return" /\ \A h \in InReturn : guard[h].job # j
    /\ guard' = IF HasReturn(j) THEN [guard EXCEPT ![g] = Over]
                ELSE [guard EXCEPT ![g].pc = IF guard[g].anchor = Nil THEN "commit" ELSE "chase"]
    /\ UNCHANGED <<runVars, invoice, costVars, parseVars, parsed, claims, returnVars, told>>

ChaseReturn(g) ==
    /\ guard[g].pc = "chase"
    /\ claims' = Append(claims, [for |-> "return", of |-> guard[g].anchor, job |-> guard[g].job,
                                 status |-> "drafted", by |-> {}])
    /\ guard' = [guard EXCEPT ![g].pc = "commit", ![g].claim = Len(claims) + 1]
    /\ UNCHANGED <<runVars, invoice, costVars, parseVars, parsed, returnVars, told>>

CommitReturn(g) ==
    /\ guard[g].pc = "commit"
    /\ matReturn' = [matReturn EXCEPT ![guard[g].job] = [status |-> "pending_pickup", claim |-> guard[g].claim]]
    /\ guard' = [guard EXCEPT ![g] = Over]
    /\ UNCHANGED <<runVars, invoice, costVars, parseVars, parsed, claims, leftover, rolled, told>>

\* The transaction is rolled back; a claim made by then has been committed.
RolledBack(g) ==
    rolled' = IF guard[g].pc = "commit" /\ guard[g].claim # 0
              THEN [rolled EXCEPT ![guard[g].job] = @ + 1] ELSE rolled

\* The run catches it, and the office is told.
ReconcileThrows(g) ==
    /\ guard[g].pc \in Reconciling /\ Fault
    /\ RolledBack(g)
    /\ guard' = [guard EXCEPT ![g] = Over]
    /\ UNCHANGED <<agentRun, work, invoice, costVars, parseVars, parsed, claims, leftover, matReturn, told>>

ResolveReturn(j) ==
    /\ matReturn[j].status = "pending_pickup"
    /\ \E outcome \in {"credited", "written_off"} : matReturn' = [matReturn EXCEPT ![j].status = outcome]
    /\ UNCHANGED <<runVars, invoice, costVars, parseVars, parsed, guard, claims, leftover, rolled, told>>

\* A step that dies is repeated from its own start.
GuardRestart(pc) == CASE pc \in Guarding -> "load" [] pc \in Recovering -> "open" [] pc \in Reconciling -> "reconcile"
Working == Guarding \cup Recovering \cup Reconciling
GuardDies(g) ==
    LET r == guard[g] IN
    /\ r.pc \in Working /\ Fault
    /\ RolledBack(g)
    /\ guard' = [guard EXCEPT ![g] =
           IF g \in Desks THEN Over
           ELSE [NoGuard EXCEPT !.pc = IF LastTry(r) THEN "failed" ELSE GuardRestart(r.pc), !.of = r.of,
                                !.tries = r.tries + 1]]
    /\ \E left \in IF r.pc = "email" THEN {0, 1} ELSE {0} :
          told' = IF g \in Desks \/ r.pc \in Reconciling THEN told
                  ELSE [told EXCEPT ![r.of].skipped = @ \/ LastTry(r), ![r.of].again = @ + 1,
                                    ![r.of].mailed = @ + left, ![r.of].unclaimed = @ + left + Lost(g)]
    /\ UNCHANGED <<agentRun, work, invoice, costVars, parseVars, parsed, claims, leftover, matReturn>>

-----------------------------------------------------------------------------
ParseStep(m) ==
    \/ StartParse(m) \/ MatchJob(m) \/ SaveParsed(m) \/ SumActuals(m) \/ SumOrders(m)
    \/ WriteCost(m) \/ RecordParsed(m) \/ EmitParsed(m) \/ RecordSent(m)

GuardStep(g) ==
    \/ LoadInvoice(g) \/ SaveGuarded(g) \/ EmailSupplier(g) \/ CreateClaim(g) \/ BeginNote(g)
    \/ FinishNote(g) \/ RecordGuarded(g) \/ ListOpen(g) \/ CreditClaim(g) \/ RecordRecovered(g)
    \/ Reconcile(g) \/ InsertReturn(g) \/ ChaseReturn(g) \/ CommitReturn(g)

TakeParsed(m) == \E g \in Guards : StartGuard(g, m)
ReapRuns == Reap /\ UNCHANGED mailVars

SupplierNext ==
    \/ \E j \in Jobs : AdvanceOrder(j) \/ ResolveReturn(j)
    \/ \E m \in Mail : Ingest(m) \/ ParseStep(m) \/ ParseThrows(m) \/ ParseDies(m) \/ TakeParsed(m)
    \/ \E g \in Guards \cup Desks : GuardStep(g) \/ ReconcileThrows(g) \/ GuardDies(g)
    \/ \E g \in Guards : GuardThrows(g) \/ RecoverThrows(g)
    \/ \E d \in Desks, j \in Jobs : LogLeftover(d, j)
    \/ ReapRuns

SupplierSpec == SupplierInit /\ [][SupplierNext]_supplierVars
\* Inngest keeps a started run going and starts one for each event; the reaper comes every
\* five minutes.
SupplierFairSpec ==
    /\ SupplierSpec
    /\ WF_supplierVars(ReapRuns)
    /\ \A m \in Mail : WF_supplierVars(ParseStep(m)) /\ WF_supplierVars(TakeParsed(m))
    /\ \A g \in Guards : WF_supplierVars(GuardStep(g))

-----------------------------------------------------------------------------
\* What job j was billed and, while it was billed nothing, what was ordered for it.
Billed(j) == BillCents * Cardinality({b \in Bills : invoice[b].job = j /\ invoice[b].status \in {"parsed", "guarded"}})
CostOf(j) == IF Billed(j) > 0 THEN Billed(j) ELSE IF IsOpen(j) THEN OrderCents ELSE 0

\* recomputeJobActualCost: once nobody is summing a job's cost it is what its bills come to,
\* or its order before the first, except after an overtaken sum, a failed bill, a changed
\* match or an order that moved under its bills.
CostIsRight ==
    \A j \in Jobs \ stale :
        (\A m \in Mail : parse[m].job = j => parse[m].pc \notin Writing) => cost[j] = CostOf(j)

Overages(b) == {c \in DOMAIN claims : claims[c].for = "overage" /\ claims[c].of = b}

\* Every e-mail to a supplier has its claim, and every claim past its draft its e-mail, but
\* for those a fault or the next statement comes between; none goes out twice unless the
\* guard was begun anew; and a claim of a draft is never credited.
ClaimsAreMailed ==
    \A b \in Bills :
        /\ told[b].mailed = Cardinality({c \in Overages(b) : claims[c].status # "drafted"}) + told[b].unclaimed
                            + Cardinality({g \in Guards : guard[g].of = b /\ Mailed(g)})
        /\ told[b].mailed <= 1 + told[b].again
        /\ Cardinality(Overages(b)) <= 1 + told[b].again

\* A memo settles one claim, another only when its recovery was begun anew; and what is
\* settled has a memo.
MemosCreditOnce ==
    /\ \A m \in Memos : Cardinality({c \in DOMAIN claims : m \in claims[c].by}) <= 1 + told[m].again
    /\ \A c \in DOMAIN claims : claims[c].status = "credited" <=> claims[c].by # {}

Chases(j) == {c \in DOMAIN claims : claims[c].for = "return" /\ claims[c].job = j}

\* What is left over of a job is claimed once: by the claim its return names, the one a run
\* is about to commit, and one for each return that was rolled back after its claim.
ReturnsAreChasedOnce ==
    \A j \in Jobs :
        /\ matReturn[j].claim # 0 => matReturn[j].claim \in Chases(j)
        /\ Cardinality(Chases(j)) = rolled[j] + (IF matReturn[j].claim # 0 THEN 1 ELSE 0)
               + Cardinality({g \in InReturn : guard[g].job = j /\ guard[g].claim # 0})

\* What the rows of agent runs are worth: those of the guard's notes and those of works.
NotesClosing == {<<guard[g].row, NoteOf(g)>> : g \in {h \in Guards : guard[h].pc = "finish"}}

\* The books of the suppliers agree: cost, claims, memos, returns and run rows.
SuppliersInv ==
    /\ SupplierTypeOK
    /\ CostIsRight /\ ClaimsAreMailed /\ MemosCreditOnce /\ ReturnsAreChasedOnce
    /\ RunningIsOwned(Closing \cup NotesClosing)

\* An end of a run's row changes only from timed_out, to what its slow process has to say.
RunsEndOnce == [][EndsStand(Closing \cup NotesClosing)]_supplierVars

\* A bill whose parsing began is guarded in the end, or marked as failed, or an error over it
\* was swallowed; and no run's row stays running.
BillsAreSettled ==
    /\ \A b \in Bills : (parse[b].pc = "match") ~> (told[b].skipped \/ invoice[b].status \in {"parse_failed", "guarded"})
    /\ RunsAreClosed(1)

\* Ends stand, and everything that began has one.
SuppliersSettle == RunsEndOnce /\ BillsAreSettled

-----------------------------------------------------------------------------
(* What the docs say and the code does not do.                             *)

\* "job.costCents becomes actuals-when-present": moving an order leaves a billed cost alone.
BilledCostStands ==
    [][\A j \in Jobs : Billed(j) > 0 /\ cost[j] = Billed(j) /\ Billed(j)' = Billed(j) => cost'[j] = cost[j]]_supplierVars
\* "Idempotent - replays update the snapshot and skip existing returns."
ReturnClaimedOnce == \A j \in Jobs : Cardinality(Chases(j)) <= 1
=============================================================================

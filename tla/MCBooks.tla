------------------------------ MODULE MCBooks ------------------------------
(***************************************************************************)
(* Instances of what the office's books take in, one cast of actors for    *)
(* each behaviour:                                                         *)
(*   books    two invoices of one customer, each settled by one payment,   *)
(*            one failed attempt;                                          *)
(*   retries  one such invoice, two failed attempts;                       *)
(*   runs     two works with a row each, and the reaper;                   *)
(*   cost     two bills and the orders of two jobs;                        *)
(*   guard    a bill and a memo under two runs of the guard, one order;    *)
(*   returns  a bill, a run of the guard and the office, leftovers of two  *)
(*            jobs.                                                        *)
(***************************************************************************)
EXTENDS Books, SupplierInvoices

CONSTANTS c1, i2, r1, r2, w1, w2, b1, b2, m1, j1, j2, g1, g2

VARIABLE cast

MCVars == <<vars, supplierVars, cast>>
MCCustomerOf == [i \in Invoices |-> c1]
MCOnePayment == [i \in Invoices |-> 1]

InOrder ==
    /\ run[r2].pc # "idle" => run[r1].pc # "idle"
    /\ work[w2].pc # "idle" => work[w1].pc # "idle" \/ work[w1].tries > 0
    /\ guard[g2].pc # "idle" => guard[g1].pc # "idle"
    /\ invoice[b2].status # "absent" => invoice[b1].status # "absent"

Bookkeeping == cast \in {"books", "retries"}
OneBill == invoice[b2].status = "absent"
NoMemo == invoice[m1].status = "absent"
OneOrder == order[j1] # "delivered" /\ order[j2] = "draft"
NoLeftover == \A j \in Jobs : ~leftover[j]
OneFault == faults <= 1
MemoOnce == parse[m1].tries = 0
MemoIsAnswer == invoice[m1].status # "absent" => claims # <<>>

Plays ==
    CASE cast = "books"   -> failures <= 1
      [] cast = "retries" -> \A e \in Events : <<e, i2>> \notin announced
      [] cast = "cost"    -> NoMemo /\ OneFault /\ \A g \in Guards \cup Desks : guard[g].pc = "idle"
      [] cast = "guard"   -> OneBill /\ OneOrder /\ NoLeftover /\ OneFault /\ MemoOnce /\ MemoIsAnswer
      [] cast = "returns" -> OneBill /\ NoMemo /\ OneOrder /\ OneFault /\ guard[g2].pc = "idle"

MCInit ==
    /\ Init /\ SupplierInit
    /\ cast \in {"books", "retries", "runs", "cost", "guard", "returns"}

CastNext ==
    CASE Bookkeeping   -> Next /\ UNCHANGED supplierVars /\ Plays'
      [] cast = "runs" -> UNCHANGED <<vars, mailVars>> /\ WorkNext
      [] OTHER         -> UNCHANGED vars /\ SupplierNext /\ Plays'

MCNext ==
    /\ UNCHANGED cast
    /\ CastNext
    /\ InOrder'

\* The fairness of FairSpec, of RunFairSpec and of SupplierFairSpec, the memos' apart.
Suppliers(A) == ~Bookkeeping /\ A /\ UNCHANGED <<vars, cast>>
MCSpec ==
    /\ MCInit /\ [][MCNext]_MCVars
    /\ \A r \in Runs : WF_MCVars(Bookkeeping /\ RunStep(r) /\ UNCHANGED <<supplierVars, cast>>)
    /\ WF_MCVars(Suppliers(ReapRuns))
    /\ \A b \in Bills : WF_MCVars(Suppliers(ParseStep(b))) /\ WF_MCVars(Suppliers(TakeParsed(b)))
    /\ \A g \in Guards : WF_MCVars(Suppliers(GuardStep(g)))
=============================================================================

---------------------------- MODULE ReferralFees ----------------------------
(***************************************************************************)
(* ReferralFees: the payable owed to a referrer once the referred job is   *)
(* paid.  referralFeeOnPaid records it, at or under the threshold approved *)
(* outright, over it pending behind a card on the job's checklist; the     *)
(* approve button and the ordinary checklist tick act on that card.  It    *)
(* reads the payables, reads the threshold and inserts, in one transaction *)
(* of READ COMMITTED statements: the setting may change between them.      *)
(*                                                                         *)
(* A row inserted and not committed makes a second insert of its key wait  *)
(* for the outcome (unique index on tenant and job).                       *)
(***************************************************************************)
EXTENDS Naturals, FiniteSets

CONSTANTS
    Jobs,          \* jobs won from a referral that names a payee
    Fee,           \* referral_fee_cents of each job's lead
    Thresholds,    \* values the setting approvalThresholdCents may take
    Invoices,      \* invoices of these jobs
    JobOf,
    Runs,          \* runs of referralFeeOnPaid (bound: one start each)
    Approvals,     \* taps of the approve button (bound: one each)
    MaxAttempts, None

ASSUME FeeAssumption == Fee \in [Jobs -> Nat] /\ JobOf \in [Invoices -> Jobs]
ASSUME ThresholdAssumption == Thresholds \subseteq Nat /\ None \notin Nat /\ MaxAttempts \in Nat \ {0}

VARIABLES
    threshold,   \* the tenant's setting, None for no gating
    paid,        \* invoices whose invoice/paid reached the bus
    payable,     \* table referral_payment: rows committed or being inserted
    card,        \* "none", "pending" or "done": the approval card of each job
    run,         \* runs of referralFeeOnPaid
    approving    \* taps of the approve button in progress

vars == <<threshold, paid, payable, card, run, approving>>

-----------------------------------------------------------------------------
PayableRow == [job : Jobs, by : Runs, status : {"pending", "approved"},
               committed : BOOLEAN,
               gated : BOOLEAN,     \* over the threshold its attempt read (history)
               decided : BOOLEAN]   \* a tap approved it (history)
RunRow == [pc : {"idle", "look", "setting", "insert", "card", "memo", "done", "failed"},
           invoice : Invoices \cup {None}, tries : 0..MaxAttempts,
           gate : BOOLEAN,          \* requiresApproval
           over : BOOLEAN]          \* the fee was over the threshold it read (history)
ApproveRow == [pc : {"idle", "write", "done"}, job : Jobs \cup {None}]

TypeOK ==
    /\ threshold \in Thresholds \cup {None}
    /\ paid \subseteq Invoices
    /\ payable \subseteq PayableRow
    /\ card \in [Jobs -> {"none", "pending", "done"}]
    /\ run \in [Runs -> RunRow]
    /\ approving \in [Approvals -> ApproveRow]

Init ==
    /\ threshold = None
    /\ paid = {}
    /\ payable = {}
    /\ card = [j \in Jobs |-> "none"]
    /\ run = [r \in Runs |-> [pc |-> "idle", invoice |-> None, tries |-> 0,
                          gate |-> FALSE, over |-> FALSE]]
    /\ approving = [a \in Approvals |-> [pc |-> "idle", job |-> None]]

Job(r) == JobOf[run[r].invoice]
RowsOf(j) == {p \in payable : p.job = j}
Committed(j) == {p \in RowsOf(j) : p.committed}

RequiresApprovalBug(fee) == threshold # None /\ fee > threshold + 1  \* mutant: off by one
RequiresApproval(fee) == threshold # None /\ fee > threshold

-----------------------------------------------------------------------------
SetThreshold(t) ==
    /\ threshold # t
    /\ threshold' = t
    /\ UNCHANGED <<paid, payable, card, run, approving>>

Pay(i) ==
    /\ i \notin paid
    /\ paid' = paid \cup {i}
    /\ UNCHANGED <<threshold, payable, card, run, approving>>

\* The bus may deliver an event again.
StartRun(r, i) ==
    /\ run[r].pc = "idle" /\ i \in paid
    /\ run' = [run EXCEPT ![r].pc = "look", ![r].invoice = i]
    /\ UNCHANGED <<threshold, paid, payable, card, approving>>

\* A fee of zero owes nothing; a payable that is there already is left alone.
Look(r) ==
    /\ run[r].pc = "look"
    /\ run' = [run EXCEPT ![r].pc = IF Fee[Job(r)] = 0 \/ Committed(Job(r)) # {}
                                    THEN "memo" ELSE "setting"]
    /\ UNCHANGED <<threshold, paid, payable, card, approving>>

\* The setting is a statement of its own: it may change before the row is written.
ReadSetting(r) ==
    /\ run[r].pc = "setting"
    /\ run' = [run EXCEPT ![r].pc = "insert", ![r].gate = RequiresApproval(Fee[Job(r)]),
                          ![r].over = threshold # None /\ Fee[Job(r)] > threshold]
    /\ UNCHANGED <<threshold, paid, payable, card, approving>>

KeyFreeBug(j) == TRUE                     \* mutant: no unique index
KeyFree(j) == RowsOf(j) = {}

OnConflictBug(r, p) ==                    \* mutant: an upsert
    [p EXCEPT !.status = IF run[r].gate THEN "pending" ELSE "approved"]
OnConflict(r, p) == p

\* On conflict with a committed row, does nothing.
Insert(r) ==
    LET j == Job(r) IN
    /\ run[r].pc = "insert"
    /\ \/ /\ KeyFree(j)
          /\ payable' = payable \cup
               {[job |-> j, by |-> r, committed |-> FALSE, decided |-> FALSE,
                 gated |-> run[r].over,
                 status |-> IF run[r].gate THEN "pending" ELSE "approved"]}
          /\ run' = [run EXCEPT ![r].pc = "card"]
       \/ /\ ~KeyFree(j)
          /\ Committed(j) # {}
          /\ run' = [run EXCEPT ![r].pc = "memo"]
          /\ payable' = {IF p.job = j THEN OnConflict(r, p) ELSE p : p \in payable}
    /\ UNCHANGED <<threshold, paid, card, approving>>

CardFor(p, c) == IF p.status = "pending" /\ c = "none" THEN "pending" ELSE c

\* The approval card, and the COMMIT of both rows.
InsertCard(r) ==
    /\ run[r].pc = "card"
    /\ \E p \in RowsOf(Job(r)) :
         /\ p.by = r
         /\ payable' = (payable \ {p}) \cup {[p EXCEPT !.committed = TRUE]}
         /\ card' = [card EXCEPT ![p.job] = CardFor(p, @)]
    /\ run' = [run EXCEPT ![r].pc = "memo"]
    /\ UNCHANGED <<threshold, paid, approving>>

Record(r) ==
    /\ run[r].pc = "memo"
    /\ run' = [run EXCEPT ![r].pc = "done"]
    /\ UNCHANGED <<threshold, paid, payable, card, approving>>

RetriesBug(r) == FALSE                    \* mutant: not retried
Retries(r) == run[r].tries + 1 < MaxAttempts

\* The step throws or its process dies: an uncommitted row goes with it.
AttemptFails(r) ==
    /\ run[r].pc \in {"look", "setting", "insert", "card", "memo"}
    /\ payable' = {p \in payable : p.committed \/ p.by # r}
    /\ run' = [run EXCEPT ![r].pc = IF Retries(r) THEN "look" ELSE "failed", ![r].tries = @ + 1]
    /\ UNCHANGED <<threshold, paid, card, approving>>

-----------------------------------------------------------------------------
StillPending(p) == p.status = "pending"

\* approveReferralPayment reads the payable ...
ReadPayable(a, j) ==
    /\ approving[a].pc = "idle"
    /\ approving' = [approving EXCEPT
         ![a].pc = IF \E p \in Committed(j) : StillPending(p) THEN "write" ELSE "done",
         ![a].job = j]
    /\ UNCHANGED <<threshold, paid, payable, card, run>>

\* ... and updates it and its card by the job alone.
WriteApproval(a) ==
    LET j == approving[a].job IN
    /\ approving[a].pc = "write"
    /\ payable' = {p \in payable : p.job # j \/ ~p.committed} \cup
                  {[p EXCEPT !.status = "approved", !.decided = TRUE] : p \in Committed(j)}
    /\ card' = [card EXCEPT ![j] = IF @ = "none" THEN @ ELSE "done"]
    /\ approving' = [approving EXCEPT ![a].pc = "done"]
    /\ UNCHANGED <<threshold, paid, run>>

\* toggleTask ticks or unticks any row of the checklist by its id.
ToggleTask(j, status) ==
    /\ card[j] \notin {"none", status}
    /\ card' = [card EXCEPT ![j] = status]
    /\ UNCHANGED <<threshold, paid, payable, run, approving>>

-----------------------------------------------------------------------------
RunStep(r) ==
    \/ \E i \in Invoices : StartRun(r, i)
    \/ Look(r) \/ ReadSetting(r) \/ Insert(r) \/ InsertCard(r) \/ Record(r)

Next ==
    \/ \E t \in Thresholds : SetThreshold(t)
    \/ \E i \in Invoices : Pay(i)
    \/ \E r \in Runs : RunStep(r) \/ AttemptFails(r)
    \/ \E a \in Approvals : (\E j \in Jobs : ReadPayable(a, j)) \/ WriteApproval(a)
    \/ \E j \in Jobs, s \in {"pending", "done"} : ToggleTask(j, s)

Spec == Init /\ [][Next]_vars
\* A started run is kept going; failures use up its attempts.
FairSpec == Spec /\ \A r \in Runs :
    WF_vars(Look(r) \/ ReadSetting(r) \/ Insert(r) \/ InsertCard(r) \/ Record(r))

-----------------------------------------------------------------------------
\* One payable per job, however many of its invoices are paid, events redelivered and
\* attempts repeated after a COMMIT.
OnePayablePerJob == \A j \in Jobs : Cardinality(RowsOf(j)) <= 1

\* A pending payable always has its card on the job's checklist, and an approval card always
\* stands for a payable: the approve button is drawn from the two together.
PendingHasCard ==
    \A j \in Jobs :
        /\ (\E p \in Committed(j) : p.status = "pending") => card[j] # "none"
        /\ card[j] # "none" => Committed(j) # {}

\* A fee over the threshold that the attempt which recorded it read is approved by a tap
\* only, whatever the setting becomes and whoever ticks the card.  A threshold lowered
\* between that read and the insert comes too late for the fee.
OverThresholdIsDecided ==
    \A p \in payable : p.gated /\ p.status = "approved" => p.decided

\* The payables, their cards and the decisions taken on them agree: one payable of a job, a
\* card for a pending one, and a tap behind an approval over the threshold that was read.
PayablesInv == TypeOK /\ OnePayablePerJob /\ PendingHasCard /\ OverThresholdIsDecided

\* Once approved, a payable stays approved and stays there: no retry, redelivery or second
\* tap takes an approval back or forgets it.
ApprovalStands ==
    [][\A j \in Jobs : (\E p \in Committed(j) : p.status = "approved") =>
         \E p \in Committed(j)' : p.status = "approved"]_vars

\* A run that began on a job with a fee leaves a payable, its own or another run's, unless
\* each of its attempts failed.
FeeIsOwed ==
    \A r \in Runs, j \in Jobs :
        (run[r].pc = "look" /\ Job(r) = j /\ Fee[j] > 0)
            ~> Committed(j) # {} \/ (run[r].pc = "failed" /\ run[r].tries = MaxAttempts)

-----------------------------------------------------------------------------
\* "fees over threshold are left pending and surface a one-tap approval task in Needs-you."
PendingIsAskedFor ==
    \A j \in Jobs : (\E p \in Committed(j) : p.status = "pending") => card[j] = "pending"
=============================================================================

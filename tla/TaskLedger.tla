----------------------------- MODULE TaskLedger -----------------------------
(***************************************************************************)
(* The Job Ledger of one job: the registry tasks that apply to it as       *)
(* job_task rows, each blocked by the tasks it depends on until their      *)
(* doers mark them done.  The lead ledger is the same code over lead_task. *)
(* The board says what a job is waiting on: its first unblocked incomplete *)
(* row.                                                                    *)
(***************************************************************************)
CONSTANTS
    Tasks,      \* registry ids of scope per_job that apply to the job's type
    DependsOn,  \* task_registry.depends_on
    Manual      \* the tasks whose effective mode is manual

ASSUME LedgerAssumption ==
    /\ DependsOn \in [Tasks -> SUBSET Tasks]
    /\ \A S \in (SUBSET Tasks) \ {{}} : \E t \in S : DependsOn[t] \cap S = {}    \* no cycles
    /\ Manual \subseteq Tasks

VARIABLES
    enabled,    \* tasks registered and not disabled for the tenant
    status,     \* job_task.status, "absent" before the row
    blockedBy,  \* job_task.blocked_by
    peers,      \* the tasks instantiated by the call that made the row (history)
    disturbed   \* what happened beside the agents' work: ticks by hand, backfilled rows (history)

ledgerVars == <<enabled, status, blockedBy, peers, disturbed>>

Terminal   == {"done", "verified"}
Incomplete == {"pending", "exception"}
Present    == {t \in Tasks : status[t] # "absent"}
IsOpen(t)  == status[t] \in Incomplete

LedgerTypeOK ==
    /\ enabled \subseteq Tasks
    /\ status \in [Tasks -> {"absent"} \cup Incomplete \cup Terminal]
    /\ blockedBy \in [Tasks -> SUBSET Tasks]
    /\ peers \in [Tasks -> SUBSET Tasks]
    /\ disturbed \subseteq {"tick", "backfill"}

LedgerInit ==
    /\ enabled \in SUBSET Tasks
    /\ status = [t \in Tasks |-> "absent"]
    /\ blockedBy = [t \in Tasks |-> {}]
    /\ peers = [t \in Tasks |-> {}]
    /\ disturbed = {}

-----------------------------------------------------------------------------
Configure ==
    /\ enabled' \in SUBSET Tasks
    /\ UNCHANGED <<status, blockedBy, peers, disturbed>>

\* The dependencies that are instantiated with it.
BlockersBug(t) == DependsOn[t]            \* mutant: absent tasks block as well
Blockers(t) == DependsOn[t] \cap enabled

\* instantiateJobTasks, at the job's creation and again by a backfill, over a registry and
\* config changed since: ON CONFLICT (job_id, task_id) DO NOTHING leaves the rows there are.
Instantiate ==
    /\ LET new == enabled \ Present IN
         /\ status'    = [t \in Tasks |-> IF t \in new THEN "pending" ELSE status[t]]
         /\ blockedBy' = [t \in Tasks |-> IF t \in new THEN Blockers(t) ELSE blockedBy[t]]
         /\ peers'     = [t \in Tasks |-> IF t \in new THEN enabled ELSE peers[t]]
         /\ disturbed' = IF Present = {} THEN disturbed ELSE disturbed \cup {"backfill"}
    /\ UNCHANGED enabled

\* markJobTaskDoneTx: from any status, and the siblings are unblocked in the same transaction.
Unblocked(t, d) == blockedBy[t] \ {d}

MarkDone(d) ==
    /\ status' = [status EXCEPT ![d] = IF status[d] = "absent" THEN "absent" ELSE "done"]
    /\ blockedBy' = [t \in Tasks |-> Unblocked(t, d)]
    /\ UNCHANGED <<enabled, peers, disturbed>>

\* completeJobTaskManually writes the row alone, both ways.
Ticked(done) == IF done THEN "done" ELSE "pending"

Tick(d, done) ==
    /\ d \in Manual /\ d \in Present
    /\ status' = [status EXCEPT ![d] = Ticked(done)]
    /\ disturbed' = disturbed \cup {"tick"}
    /\ UNCHANGED <<enabled, blockedBy, peers>>

\* The health sweep judges a done row (TaskHealth).
Judge(d) ==
    /\ status[d] = "done"
    /\ \E verdict \in {"verified", "exception"} : status' = [status EXCEPT ![d] = verdict]
    /\ UNCHANGED <<enabled, blockedBy, peers, disturbed>>

LedgerNext ==
    \/ Configure \/ Instantiate
    \/ \E d \in Tasks : MarkDone(d) \/ Judge(d) \/ \E done \in BOOLEAN : Tick(d, done)

LedgerSpec == LedgerInit /\ [][LedgerNext]_ledgerVars

-----------------------------------------------------------------------------
(* firstUnblockedIncomplete picks one of these.                            *)

Waiting == {t \in Tasks : IsOpen(t) /\ blockedBy[t] = {}}

(* Safety.                                                                 *)

\* Until a box is ticked by hand or a backfill adds a row, a job with open tasks is
\* always waiting on one of them: the rows never block each other for good.
SomebodyIsWaitedOn ==
    (disturbed = {} /\ \E t \in Tasks : IsOpen(t)) => Waiting # {}

\* A row is released by its dependencies only: whatever agents do and redo, is judged,
\* configured and backfilled, one laid out with it and still pending blocks it, as long
\* as no box was unticked.
ReleasedByItsOwn == "tick" \notin disturbed =>
    \A t \in Present : \A d \in DependsOn[t] \cap peers[t] :
        status[d] = "pending" => d \in blockedBy[t]

\* What a row waits on is there to be done.
BlockersExist == \A t \in Tasks : blockedBy[t] \subseteq Present

\* The ledger of a job never hides work that is open: the three together, with the types.
TasksInv == LedgerTypeOK /\ SomebodyIsWaitedOn /\ ReleasedByItsOwn /\ BlockersExist

-----------------------------------------------------------------------------
(* What the repository says and the code does not do.                      *)

\* "at creation nothing is done yet, so every present dep blocks": a backfilled row is
\* blocked by dependencies done long ago.
BackfillBlocksOnOpen ==
    [][\A t \in Tasks : (status[t] = "absent" /\ status'[t] # "absent")
          => \A d \in blockedBy'[t] : status[d] \notin Terminal]_ledgerVars

\* "depends_on unmet => pending with a computed blocked_by": a dependency ticked by hand
\* is met, and goes on blocking.
TickedIsMet == \A t \in Tasks : \A d \in blockedBy[t] : status[d] \notin Terminal
=============================================================================

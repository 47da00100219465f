------------------------- MODULE EstimateConversion -------------------------
(***************************************************************************)
(* What estimate/accepted sets off: the durable function marks the         *)
(* estimate accepted, converts its lead to a job, backfills the estimate's *)
(* job, advances the job to "approved" and stops the follow-up drips.      *)
(* Staff may convert the same lead by hand meanwhile.                      *)
(***************************************************************************)
EXTENDS EstimateAccept

CONSTANTS
    Runs,         \* runs of estimateAcceptedAdvanceJob
    Manuals,      \* manual conversions by staff
    MaxAttempts   \* attempts Inngest makes of a step

ASSUME AttemptsAssumption == MaxAttempts \in Nat \ {0}
ASSUME ConvertersAssumption == Runs \cap Manuals = {} /\ None \notin Runs \cup Manuals

VARIABLES
    job,          \* the job each conversion inserted: its stage, or "absent"
    estimateJob,  \* estimate.job_id
    won,          \* lead.status = 'won'
    openTask,     \* a manual lead task is unresolved
    inspected,    \* an inspection is done, or a photo is on file
    advance,      \* runs of the function
    manual,       \* manual conversions
    stopped       \* runs whose drip/stop reached the bus

conversionVars == <<job, estimateJob, won, openTask, inspected, advance, manual, stopped>>
allVars == <<gateVars, conversionVars>>

-----------------------------------------------------------------------------
Jobs == Runs \cup Manuals
Stage == {"absent", "lead", "approved", "production"}
AdvanceRow == [pc: {"idle", "accept", "find", "insert", "backfill", "stage", "write", "customer",
                    "done", "blocked", "failed"},
               by: Hooks \cup {None},
               job: Jobs \cup {None}, tries: 0..MaxAttempts,
               refused: BOOLEAN]   \* the stage ladder refused the job

ConversionTypeOK ==
    /\ GateTypeOK
    /\ job \in [Jobs -> Stage]
    /\ estimateJob \in Jobs \cup {None}
    /\ won \in BOOLEAN /\ openTask \in BOOLEAN /\ inspected \in BOOLEAN
    /\ advance \in [Runs -> AdvanceRow]
    /\ manual \in [Manuals -> {"idle", "insert", "done"}]
    /\ stopped \subseteq Runs

ConversionInit ==
    /\ GateInit
    /\ job = [j \in Jobs |-> "absent"]
    /\ estimateJob = None
    /\ won = FALSE
    /\ openTask \in BOOLEAN
    /\ inspected = FALSE
    /\ advance = [r \in Runs |-> [pc |-> "idle", by |-> None, job |-> None,
                                  tries |-> 0, refused |-> FALSE]]
    /\ manual = [m \in Manuals |-> "idle"]
    /\ stopped = {}

Converted == {j \in Jobs : job[j] # "absent"}
Goto(r, pc) == advance' = [advance EXCEPT ![r].pc = pc]

-----------------------------------------------------------------------------
(* The office: inspections, task resolutions, production, manual jobs.     *)

Inspect ==
    /\ ~inspected
    /\ inspected' = TRUE
    /\ UNCHANGED <<gateVars, job, estimateJob, won, openTask, advance, manual, stopped>>

ResolveTask ==
    /\ openTask
    /\ openTask' = FALSE
    /\ UNCHANGED <<gateVars, job, estimateJob, won, inspected, advance, manual, stopped>>

StartProduction(j) ==
    /\ job[j] = "approved"
    /\ job' = [job EXCEPT ![j] = "production"]
    /\ UNCHANGED <<gateVars, estimateJob, won, openTask, inspected, advance, manual, stopped>>

\* deriveContiguousStage for a job of this lead: inspection, then an estimate, then
\* an accepted one; production needs a crew or materials, which a new job has not.
Derived == IF inspected /\ estimate.status = "accepted" THEN "approved" ELSE "lead"

\* The INSERT of convertLeadToJob with what follows it in the transaction.
InsertJob(j) ==
    /\ job' = [job EXCEPT ![j] = Derived]
    /\ estimateJob' = IF estimate.status = "accepted" THEN j ELSE estimateJob
    /\ won' = TRUE

\* convertLeadToJob with manualJob and a reason; the form supplies the dispositions of
\* the open tasks.
ManualFind(m) ==
    /\ manual[m] = "idle"
    /\ manual' = [manual EXCEPT ![m] = IF Converted = {} THEN "insert" ELSE "done"]
    /\ won' = (won \/ Converted # {})
    /\ UNCHANGED <<gateVars, job, estimateJob, openTask, inspected, advance, stopped>>

ManualInsert(m) ==
    /\ manual[m] = "insert"
    /\ InsertJob(m)
    /\ openTask' = FALSE
    /\ manual' = [manual EXCEPT ![m] = "done"]
    /\ UNCHANGED <<gateVars, inspected, advance, stopped>>

-----------------------------------------------------------------------------
(* estimateAcceptedAdvanceJob, step "advance".                             *)

Start(r, h) ==
    /\ advance[r].pc = "idle"
    /\ h \in accepted
    /\ \A q \in Runs : advance[q].by # h
    /\ advance' = [advance EXCEPT ![r].pc = "accept", ![r].by = h]
    /\ UNCHANGED <<gateVars, job, estimateJob, won, openTask, inspected, manual, stopped>>

\* Mark accepted first, so that the conversion finds an accepted estimate.
MarkAccepted(r) ==
    /\ advance[r].pc = "accept"
    /\ estimate' = [estimate EXCEPT !.status = "accepted"]
    /\ advance' = [advance EXCEPT
          ![r].pc = IF estimateJob # None THEN "stage" ELSE "find",
          ![r].job = estimateJob]
    /\ UNCHANGED <<expired, mintVars, outsideVars, hook, accepted,
                   job, estimateJob, won, openTask, inspected, manual, stopped>>

\* convertLeadToJob: an existing job is returned; an open manual task blocks; a lead
\* with no accepted estimate throws.
TaskBlocksBug == FALSE                    \* mutant: the resolution gate dropped
TaskBlocks == openTask

\* A blocked conversion has no jobId, so the function leaves the customer alone.
OnBlockBug == "customer"                  \* mutant: the "jobId" in res test dropped
OnBlock == "blocked"

FindJob(r) ==
    /\ advance[r].pc = "find"
    /\ IF Converted # {}
         THEN \E j \in Converted :
                /\ advance' = [advance EXCEPT ![r].pc = "backfill", ![r].job = j]
                /\ won' = TRUE
         ELSE /\ TaskBlocks \/ estimate.status = "accepted"
              /\ Goto(r, IF TaskBlocks THEN OnBlock ELSE "insert")
              /\ UNCHANGED won
    /\ UNCHANGED <<gateVars, job, estimateJob, openTask, inspected, manual, stopped>>

RunInserts(r) == InsertJob(r)

Insert(r) ==
    /\ advance[r].pc = "insert"
    /\ job[r] = "absent"
    /\ RunInserts(r)
    /\ advance' = [advance EXCEPT ![r].pc = "backfill", ![r].job = r]
    /\ UNCHANGED <<gateVars, openTask, inspected, manual, stopped>>

\* if (!est.jobId && jobId): on the row as step 1 read it.
Backfill(r) ==
    /\ advance[r].pc = "backfill"
    /\ estimateJob' = advance[r].job
    /\ Goto(r, "stage")
    /\ UNCHANGED <<gateVars, job, won, openTask, inspected, manual, stopped>>

\* recordStageChange to "approved": without its evidence, or from a later stage with no
\* reason, it throws.
LadderAllows(j) == job[j] = "lead" /\ inspected /\ estimate.status = "accepted"

ReadStage(r) ==
    LET j == advance[r].job IN
    /\ advance[r].pc = "stage"
    /\ job[j] = "approved" \/ LadderAllows(j)
    /\ Goto(r, IF job[j] = "approved" THEN "customer" ELSE "write")
    /\ UNCHANGED <<gateVars, job, estimateJob, won, openTask, inspected, manual, stopped>>

WriteStage(r) ==
    /\ advance[r].pc = "write"
    /\ job' = [job EXCEPT ![advance[r].job] = "approved"]
    /\ Goto(r, "customer")
    /\ UNCHANGED <<gateVars, estimateJob, won, openTask, inspected, manual, stopped>>

\* Steps "resolve-customer" and "stop-followups".
StopFollowups(r) ==
    /\ advance[r].pc = "customer"
    /\ stopped' = stopped \cup {r}
    /\ Goto(r, "done")
    /\ UNCHANGED <<gateVars, job, estimateJob, won, openTask, inspected, manual>>

\* A refusal or any error starts the step over; after MaxAttempts the run fails.
TriesBug(r) == 0                          \* mutant: the attempts are not counted
Tries(r) == advance[r].tries + 1

ConversionFails(r) ==
    LET j == advance[r].job IN
    /\ advance[r].pc \in {"accept", "find", "insert", "backfill", "stage", "write"}
    /\ advance' = [advance EXCEPT
          ![r].pc = IF Tries(r) < MaxAttempts THEN "accept" ELSE "failed",
          ![r].tries = Tries(r),
          ![r].refused = @ \/ (advance[r].pc = "stage" /\ job[j] = "production")]
    /\ UNCHANGED <<gateVars, job, estimateJob, won, openTask, inspected, manual, stopped>>

\* Where the code throws, the failure is all that can happen next.
Throws(r) ==
    \/ advance[r].pc = "stage" /\ job[advance[r].job] # "approved" /\ ~LadderAllows(advance[r].job)
    \/ advance[r].pc = "find" /\ Converted = {} /\ ~TaskBlocks /\ estimate.status # "accepted"

-----------------------------------------------------------------------------
RunStep(r) ==
    \/ MarkAccepted(r) \/ FindJob(r) \/ Insert(r) \/ Backfill(r)
    \/ ReadStage(r) \/ WriteStage(r) \/ StopFollowups(r)
    \/ Throws(r) /\ ConversionFails(r)

ConversionNext ==
    \/ GateNext /\ UNCHANGED conversionVars
    \/ Inspect \/ ResolveTask
    \/ \E j \in Jobs : StartProduction(j)
    \/ \E m \in Manuals : ManualFind(m) \/ ManualInsert(m)
    \/ \E r \in Runs, h \in Hooks : Start(r, h)
    \/ \E r \in Runs : RunStep(r) \/ ConversionFails(r)

ConversionSpec == ConversionInit /\ [][ConversionNext]_allVars

\* Inngest starts a run for an event it took, and runs its steps.
ConversionFairSpec ==
    /\ ConversionSpec
    /\ \A r \in Runs : WF_allVars(RunStep(r))
    /\ \A h \in Hooks : WF_allVars(\E r \in Runs : Start(r, h))

-----------------------------------------------------------------------------
(* Safety.                                                                 *)

\* The red path holds through the whole chain: a job that an acceptance created is
\* signed for and, where a deposit is due, paid for.
JobIsSignedAndPaid ==
    \A r \in Runs : (job[r] # "absent" /\ FromThePage) =>
        estimate.signed /\ (CollectsDeposit => estimate.paid)

\* A lead is won exactly when it has a job, at every moment: the two change in one
\* transaction, whoever converts.
WonMeansJob == won <=> Converted # {}

\* No acceptance converts a lead over an open manual task.
TasksGateConversion ==
    [][\A r \in Runs : job[r] = "absent" /\ job'[r] # "absent" => ~openTask]_allVars

\* The estimate points at a job that exists, and the follow-ups are stopped only once
\* it does.
PointersAreLive ==
    /\ estimateJob # None => estimateJob \in Converted
    /\ stopped # {} => Converted # {} /\ estimateJob # None

\* From the signature to the job each link stands on the one before: stamps backed by
\* DocuSeal and Stripe, a job only behind them, the lead won with it, pointers that hold.
ConversionInv ==
    /\ ConversionTypeOK /\ StampsAreBacked
    /\ JobIsSignedAndPaid /\ WonMeansJob /\ PointersAreLive

\* Before the acceptance the gate, after it the chain: neither is passed by an order of
\* signature, deposit, acceptance and office nobody thought of.
AcceptanceInv == GateInv /\ ConversionInv

\* Every acceptance has a run of its own, which leads to a job and stops the follow-ups,
\* unless an open task blocks it or it gives up.
AcceptanceConverts ==
    \A h \in Hooks : h \in accepted ~>
        \E r \in Runs : /\ advance[r].by = h
                        /\ r \in stopped \/ advance[r].pc \in {"blocked", "failed"}

-----------------------------------------------------------------------------
(* What the repository says and the code does not do.                      *)

\* convertLeadToJob: "a repeat call on an already-converted lead returns the existing
\* job"; two calls at once both find none.
OneJobPerLead == Cardinality(Converted) <= 1

\* advanceJobForAcceptedEstimate: "advances its job to approved (idempotent)"; on a job
\* already in production the repeat is refused as a move backward.
RepeatIsHarmless == \A r \in Runs : ~advance[r].refused
=============================================================================

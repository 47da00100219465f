----------------------------- MODULE AgentRuns -----------------------------
(***************************************************************************)
(* AgentRuns: the rows by which the office sees agents at work.            *)
(* withAgentRun opens a row, works and closes it by id alone; a step that  *)
(* is repeated opens another; and a reaper closes what has run too long,   *)
(* whether its process is dead or only slow.                               *)
(***************************************************************************)
EXTENDS Naturals, FiniteSets, Sequences

CONSTANTS
    Works,       \* steps of functions that call withAgentRun (bound)
    MaxTries,    \* attempts Inngest makes of one step
    MaxFaults    \* deaths and failed writes in all (bound)

ASSUME RunLimits == MaxTries \in Nat \ {0} /\ MaxFaults \in Nat

VARIABLES
    agentRun,    \* agent_run.status of each row, in order of started_at
    work,        \* the calls of withAgentRun
    faults       \* deaths and failed writes so far

runVars == <<agentRun, work, faults>>

-----------------------------------------------------------------------------
\* timed_out is an error whose text says so.
RunStatus == {"running", "ok", "skipped", "error", "timed_out"}
RunId == Nat
\* ok and error: the work is over and the row is about to say so.
WorkRow == [pc : {"idle", "work", "ok", "error", "record", "done", "failed"}, row : RunId,
            tries : 0..MaxTries]
Busy == {"work", "ok", "error"}

RunTypeOK ==
    /\ agentRun \in Seq(RunStatus)
    /\ work \in [Works -> WorkRow]
    /\ \A w \in Works : work[w].row \in 0..Len(agentRun)
    /\ faults \in 0..MaxFaults

RunInit ==
    /\ agentRun = <<>>
    /\ work = [w \in Works |-> [pc |-> "idle", row |-> 0, tries |-> 0]]
    /\ faults = 0

Opened == Append(agentRun, "running")
Closed(r, status) == [agentRun EXCEPT ![r] = status]
Fault == faults < MaxFaults /\ faults' = faults + 1

-----------------------------------------------------------------------------
Begin(w) ==
    /\ work[w].pc = "idle"
    /\ agentRun' = Opened
    /\ work' = [work EXCEPT ![w].pc = "work", ![w].row = Len(agentRun) + 1]
    /\ UNCHANGED faults

WorkEnds(w) ==
    /\ work[w].pc = "work"
    /\ \E end \in {"ok", "error"} : work' = [work EXCEPT ![w].pc = end]
    /\ UNCHANGED <<agentRun, faults>>

\* What a thrown error or a death makes of the step.
Retried(w) == [work EXCEPT ![w].pc = IF work[w].tries + 1 = MaxTries THEN "failed" ELSE "idle",
                           ![w].row = 0, ![w].tries = @ + 1]

CloseRun(w) ==
    /\ work[w].pc \in {"ok", "error"}
    /\ agentRun' = Closed(work[w].row, work[w].pc)
    /\ work' = IF work[w].pc = "ok" THEN [work EXCEPT ![w].pc = "record"] ELSE Retried(w)
    /\ UNCHANGED faults

\* A failed completion is caught like an error of the work; in the catch it is swallowed.
CloseFails(w) ==
    /\ work[w].pc \in {"ok", "error"} /\ Fault
    /\ work' = IF work[w].pc = "ok" THEN [work EXCEPT ![w].pc = "error"] ELSE Retried(w)
    /\ UNCHANGED agentRun

RecordWork(w) ==
    /\ work[w].pc = "record"
    /\ work' = [work EXCEPT ![w].pc = "done"]
    /\ UNCHANGED <<agentRun, faults>>

WorkDies(w) ==
    /\ work[w].pc \in Busy \cup {"record"} /\ Fault
    /\ work' = Retried(w)
    /\ UNCHANGED agentRun

ReapedBug(status) == "timed_out"            \* mutant: the status is not looked at
Reaped(status) == IF status = "running" THEN "timed_out" ELSE status

\* markStaleRunsTimedOut: of the rows, the n oldest began before the cutoff.
Reap ==
    /\ \E n \in DOMAIN agentRun :
          /\ \E r \in 1..n : agentRun[r] = "running"
          /\ agentRun' = [r \in DOMAIN agentRun |-> IF r <= n THEN Reaped(agentRun[r]) ELSE agentRun[r]]
    /\ UNCHANGED <<work, faults>>

WorkStep(w) == Begin(w) \/ WorkEnds(w) \/ CloseRun(w) \/ RecordWork(w)
WorkNext == Reap \/ \E w \in Works : WorkStep(w) \/ CloseFails(w) \/ WorkDies(w)

RunSpec == RunInit /\ [][WorkNext]_runVars
\* The reaper comes every five minutes; nothing is assumed of the works.
RunFairSpec == RunSpec /\ WF_runVars(Reap)

-----------------------------------------------------------------------------
\* The rows somebody is about to close, each with what it will say.
Closing == {<<work[w].row, work[w].pc>> : w \in {v \in Works : work[v].pc \in Busy}}

\* A row is left running by a fault only: every other one has a process that will close it,
\* and no two processes close the same one.
RunningIsOwned(closing) ==
    /\ Cardinality({r \in DOMAIN agentRun : agentRun[r] = "running" /\ \A c \in closing : c[1] # r}) <= faults
    /\ \A c, d \in closing : c[1] = d[1] => c = d

\* An end stands: it changes only from timed_out, to what a process too slow for the reaper
\* has to say, and never back to running.
EndsStand(closing) ==
    \A r \in DOMAIN agentRun : agentRun[r] # "running" /\ agentRun'[r] # agentRun[r] =>
        agentRun[r] = "timed_out" /\ <<r, agentRun'[r]>> \in closing

\* No row runs for ever, whoever died over it.
RunsAreClosed(most) ==
    \A r \in 1..most : (r \in DOMAIN agentRun) ~> (r \in DOMAIN agentRun /\ agentRun[r] # "running")

-----------------------------------------------------------------------------
(* What a comment says and the code does not do.                           *)

\* "flip orphaned running agent_run rows": only the dead are reaped, so a row has one end.
OneEnd == [][\A r \in DOMAIN agentRun : agentRun[r] # "running" => agentRun'[r] = agentRun[r]]_runVars
=============================================================================

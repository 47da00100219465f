------------------------------- MODULE Drips -------------------------------
(***************************************************************************)
(* Drips: the marketing sequences of one customer.  Each drip/enroll event *)
(* starts a run of dripRun, which enrolls the customer, then sleeps,       *)
(* checks the enrollment, sends and reports each step.  Replies, opt-outs, *)
(* staff and an accepted estimate stop them all, through the rows, the     *)
(* drip/stop event, or both.                                               *)
(*                                                                         *)
(* A step.run repeats from its start when it throws or its process dies; a *)
(* death after its COMMIT repeats it too.  A cancelled run ends at the end *)
(* of the step it is in.                                                   *)
(***************************************************************************)
EXTENDS Naturals, FiniteSets

CONSTANTS
    Drips,
    NumSteps,      \* steps of each drip
    Channel,       \* "sms" or "email" of each step
    ClosedSteps,   \* steps whose gate is closed or whose channel has no address
    Runs,          \* runs of dripRun (bound: one start each)
    MaxAttempts,   \* attempts Inngest makes of one step
    MaxDeaths,     \* attempts whose process dies, and errors a step swallows (bound)
    MaxStops,      \* requests to stop (bound)
    None

ASSUME StepsAssumption ==
    /\ NumSteps \in Nat \ {0}
    /\ Channel \in [1..NumSteps -> {"sms", "email"}]
    /\ ClosedSteps \subseteq 1..NumSteps
ASSUME BoundsAssumption == MaxAttempts \in Nat \ {0} /\ MaxDeaths \in Nat /\ MaxStops \in Nat

VARIABLES
    optedOut,    \* channels the customer opted out of
    enrollment,  \* latest enrollment row each run inserted
    published,   \* steps whose drip.step.sent key is in the event table
    raised,      \* compliance-block escalations: <<step, run>>
    run,
    stops,       \* requests to stop whose drip/stop event is still to be sent
    requests,    \* requests to stop so far
    deaths

vars == <<optedOut, enrollment, published, raised, run, stops, requests, deaths>>

-----------------------------------------------------------------------------
Steps == 1..NumSteps
Outcome == {"none", "sent", "throttled", "blocked", "error", "suppressed"}
\* Where a step.run begins, where it is under way, and where the run is over.
Boundary == {"enroll", "sleep", "check", "send", "publish", "complete"}
Inside   == {"insert", "enrolled", "guard", "log", "logged", "raise", "bridged"}
Over     == {"done", "skipped", "stopped", "cancelled", "failed"}

EnrollmentRow == [status : {"none", "active", "stopped", "completed"}, step : 0..NumSteps,
                  again : BOOLEAN]   \* the run's second row, its first one was stopped
RunRow == [pc : {"idle"} \cup Boundary \cup Inside \cup Over,
           drip : Drips \cup {None}, step : Steps, tries : 0..MaxAttempts,
           outcome : Outcome,
           rows : SUBSET (Steps \X Outcome),  \* communication rows of the run
           blocks : SUBSET Steps,     \* steps whose recorded verdict is "blocked"
           left : SUBSET Steps,       \* steps of which a message left
           late : SUBSET Steps,       \* of which one left after the run's row was stopped
           unwanted : Nat,            \* messages that left after the opt-out
           cancelling : BOOLEAN]      \* a drip/stop event arrived during the run

TypeOK ==
    /\ optedOut \subseteq {"sms", "email"}
    /\ enrollment \in [Runs -> EnrollmentRow]
    /\ published \subseteq Steps
    /\ raised \subseteq Steps \X Runs
    /\ run \in [Runs -> RunRow]
    /\ stops \in 0..MaxStops /\ requests \in 0..MaxStops /\ deaths \in 0..MaxDeaths

Init ==
    /\ optedOut = {}
    /\ enrollment = [r \in Runs |-> [status |-> "none", step |-> 0, again |-> FALSE]]
    /\ published = {} /\ raised = {}
    /\ run = [r \in Runs |->
                [pc |-> "idle", drip |-> None, step |-> 1, tries |-> 0, outcome |-> "none",
                 rows |-> {}, blocks |-> {}, left |-> {}, late |-> {}, unwanted |-> 0,
                 cancelling |-> FALSE]]
    /\ stops = 0 /\ requests = 0 /\ deaths = 0

Active(r) == enrollment[r].status = "active"
Started(r) == run[r].pc \notin Over \cup {"idle"}
\* drip_enr_active_uniq: an active row of the same drip is there.
Occupied(d) == \E r \in Runs : run[r].drip = d /\ Active(r)
Move(r, pc) == run' = [run EXCEPT ![r].pc = pc]
\* The step's result is recorded: the next step starts with fresh attempts.
Memo(r, pc) == run' = [run EXCEPT ![r].pc = pc, ![r].tries = 0]

-----------------------------------------------------------------------------
(* Stopping.                                                               *)

\* A reply, an opt-out of a channel, or the stop button: the rows first ...
Stop(c) ==
    /\ requests < MaxStops
    /\ requests' = requests + 1 /\ stops' = stops + 1
    /\ optedOut' = optedOut \cup c
    /\ enrollment' = [r \in Runs |-> IF Active(r) THEN [enrollment[r] EXCEPT !.status = "stopped"]
                                     ELSE enrollment[r]]
    /\ UNCHANGED <<published, raised, run, deaths>>

\* The event reaches the runs that have begun and are not over.
Announced == [r \in Runs |-> [run[r] EXCEPT !.cancelling = @ \/ Started(r)]]

\* ... then the event, which may be lost.
SendStop ==
    /\ stops > 0
    /\ stops' = stops - 1
    /\ run' \in {run, Announced}
    /\ UNCHANGED <<optedOut, enrollment, published, raised, requests, deaths>>

\* The accepted estimate sends the event and leaves the rows alone.
Convert ==
    /\ requests < MaxStops
    /\ requests' = requests + 1
    /\ run' = Announced
    /\ UNCHANGED <<optedOut, enrollment, published, raised, stops, deaths>>

Cancel(r) ==
    /\ run[r].cancelling /\ run[r].pc \in Boundary
    /\ Move(r, "cancelled")
    /\ UNCHANGED <<optedOut, enrollment, published, raised, stops, requests, deaths>>

-----------------------------------------------------------------------------
(* Enrolling.                                                              *)

StartRun(r, d) ==
    /\ run[r].pc = "idle"
    /\ run' = [run EXCEPT ![r].pc = "enroll", ![r].drip = d]
    /\ UNCHANGED <<optedOut, enrollment, published, raised, stops, requests, deaths>>

\* Staff may have switched the drip off; an active enrollment makes the run redundant.
LookEnrolled(r) ==
    /\ run[r].pc = "enroll" /\ ~run[r].cancelling
    /\ \/ Move(r, "skipped")
       \/ ~Occupied(run[r].drip) /\ Move(r, "insert")
    /\ UNCHANGED <<optedOut, enrollment, published, raised, stops, requests, deaths>>

Retried(r, pc) ==
    [run EXCEPT ![r].pc = IF run[r].tries + 1 = MaxAttempts THEN "failed" ELSE pc,
                ![r].tries = @ + 1]

IndexFreeBug(d) == TRUE                   \* mutant: no partial unique index
IndexFree(d) == ~Occupied(d)

\* A row the run inserted earlier may be there, stopped.
FreshRow(r) == [status |-> "active", step |-> 0, again |-> enrollment[r].status = "stopped"]

\* The insert and the COMMIT; the loser of a race violates the index and throws.
InsertEnrollment(r) ==
    /\ run[r].pc = "insert"
    /\ IF IndexFree(run[r].drip)
       THEN /\ enrollment' = [enrollment EXCEPT ![r] = FreshRow(r)]
            /\ Move(r, "enrolled")
       ELSE run' = Retried(r, "enroll") /\ UNCHANGED enrollment
    /\ UNCHANGED <<optedOut, published, raised, stops, requests, deaths>>

RecordEnrolled(r) ==
    /\ run[r].pc = "enrolled"
    /\ Memo(r, "sleep")
    /\ UNCHANGED <<optedOut, enrollment, published, raised, stops, requests, deaths>>

-----------------------------------------------------------------------------
(* One step of the sequence.                                               *)

Wake(r) ==
    /\ run[r].pc = "sleep" /\ ~run[r].cancelling
    /\ Memo(r, "check")
    /\ UNCHANGED <<optedOut, enrollment, published, raised, stops, requests, deaths>>

StillActiveBug(r) == TRUE                 \* mutant: the backstop check dropped
StillActive(r) == Active(r)

Check(r) ==
    /\ run[r].pc = "check" /\ ~run[r].cancelling
    /\ Memo(r, IF StillActive(r) THEN "send" ELSE "stopped")
    /\ UNCHANGED <<optedOut, enrollment, published, raised, stops, requests, deaths>>

Suppressed(k) == k \in ClosedSteps \/ Channel[k] \in optedOut

\* sendDripStep reads the customer: opted out, no address or a closed gate sends nothing.
ReadCustomer(r) ==
    /\ run[r].pc = "send" /\ ~run[r].cancelling
    /\ run' = IF Suppressed(run[r].step)
              THEN [run EXCEPT ![r].pc = "log", ![r].outcome = "suppressed"]
              ELSE [run EXCEPT ![r].pc = "guard", ![r].outcome = "none"]
    /\ UNCHANGED <<optedOut, enrollment, published, raised, stops, requests, deaths>>

\* What the attempt may come to, and whether a message left.  An SMS is throttled, blocked
\* by the guard, sent, or ends in an error, the sender's answer to a message that left
\* included; an e-mail that fails is logged as sent.
Results(channel) ==
    {<<"sent", TRUE>>} \cup
    IF channel = "sms"
    THEN {<<"throttled", FALSE>>, <<"blocked", FALSE>>, <<"error", FALSE>>, <<"error", TRUE>>}
    ELSE {<<"sent", FALSE>>}

Transmit(r) ==
    LET k == run[r].step IN
    /\ run[r].pc = "guard"
    /\ \E x \in Results(Channel[k]) :
         run' = [run EXCEPT
            ![r].pc = "log", ![r].outcome = x[1],
            ![r].left = IF x[2] THEN @ \cup {k} ELSE @,
            ![r].late = IF x[2] /\ (~Active(r) \/ enrollment[r].again) THEN @ \cup {k} ELSE @,
            ![r].unwanted = IF x[2] /\ Channel[k] \in optedOut THEN @ + 1 ELSE @]
    /\ UNCHANGED <<optedOut, enrollment, published, raised, stops, requests, deaths>>

\* Every outcome logs its row, a blocked or failed step too.
Row(r) == {<<run[r].step, run[r].outcome>>}

\* One transaction: the communication row and current_step, by the enrollment's id alone.
Log(r) ==
    /\ run[r].pc = "log"
    /\ run' = [run EXCEPT ![r].pc = "logged", ![r].rows = @ \cup Row(r)]
    /\ enrollment' = [enrollment EXCEPT ![r].step = run[r].step]
    /\ UNCHANGED <<optedOut, published, raised, stops, requests, deaths>>

IsLast(k) == k = NumSteps

NextStep(r) ==
    IF ~IsLast(run[r].step)
    THEN [run EXCEPT ![r].pc = "sleep", ![r].tries = 0, ![r].step = @ + 1, ![r].outcome = "none"]
    ELSE [run EXCEPT ![r].pc = "complete", ![r].tries = 0, ![r].outcome = "none"]

\* guardedSms gave a verdict: there is something to report.
Verdict(r) == Channel[run[r].step] = "sms" /\ run[r].outcome \in {"sent", "blocked"}

RecordSent(r) ==
    /\ run[r].pc = "logged"
    /\ run' = IF Verdict(r)
              THEN [run EXCEPT ![r].pc = "publish", ![r].tries = 0,
                               ![r].blocks = IF run[r].outcome = "blocked"
                                             THEN @ \cup {run[r].step} ELSE @]
              ELSE NextStep(r)
    /\ UNCHANGED <<optedOut, enrollment, published, raised, stops, requests, deaths>>

NewKey(k) == k \notin published

\* The key is made of the customer and the step: it names neither drip nor enrollment.
Publish(r) ==
    LET k == run[r].step IN
    /\ run[r].pc = "publish" /\ ~run[r].cancelling
    /\ published' = published \cup {k}
    /\ Move(r, IF NewKey(k) /\ run[r].outcome = "blocked" THEN "raise" ELSE "bridged")
    /\ UNCHANGED <<optedOut, enrollment, raised, stops, requests, deaths>>

Raise(r) ==
    /\ run[r].pc = "raise"
    /\ raised' = raised \cup {<<run[r].step, r>>}
    /\ Move(r, "bridged")
    /\ UNCHANGED <<optedOut, enrollment, published, stops, requests, deaths>>

\* An error is caught and the step goes on without the event or the escalation.
BridgeFails(r) ==
    /\ deaths < MaxDeaths
    /\ run[r].pc \in {"publish", "raise"}
    /\ deaths' = deaths + 1
    /\ Move(r, "bridged")
    /\ UNCHANGED <<optedOut, enrollment, published, raised, stops, requests>>

RecordBridged(r) ==
    /\ run[r].pc = "bridged"
    /\ run' = NextStep(r)
    /\ UNCHANGED <<optedOut, enrollment, published, raised, stops, requests, deaths>>

CompletesBug(e) == [e EXCEPT !.status = "completed"]  \* mutant: by the id alone
Completes(e) == IF e.status = "active" THEN [e EXCEPT !.status = "completed"] ELSE e

Complete(r) ==
    /\ run[r].pc = "complete" /\ ~run[r].cancelling
    /\ enrollment' = [enrollment EXCEPT ![r] = Completes(@)]
    /\ Move(r, "done")
    /\ UNCHANGED <<optedOut, published, raised, stops, requests, deaths>>

-----------------------------------------------------------------------------
\* Where a step.run that was under way begins again.
RestartBug(pc) == IF pc \in {"guard", "log", "logged"} THEN "guard"  \* mutant: keeps the customer it read
                  ELSE IF pc \in {"insert", "enrolled"} THEN "enroll" ELSE "publish"
Restart(pc) == IF pc \in {"insert", "enrolled"} THEN "enroll"
               ELSE IF pc \in {"guard", "log", "logged"} THEN "send" ELSE "publish"

Die(r) ==
    /\ deaths < MaxDeaths
    /\ run[r].pc \in Inside
    /\ deaths' = deaths + 1
    /\ run' = Retried(r, Restart(run[r].pc))
    /\ UNCHANGED <<optedOut, enrollment, published, raised, stops, requests>>

RunStep(r) ==
    \/ Cancel(r) \/ LookEnrolled(r) \/ InsertEnrollment(r) \/ RecordEnrolled(r)
    \/ Wake(r) \/ Check(r) \/ ReadCustomer(r) \/ Transmit(r) \/ Log(r) \/ RecordSent(r)
    \/ Publish(r) \/ Raise(r) \/ RecordBridged(r) \/ Complete(r)

Next ==
    \/ \E c \in {{}, {"sms"}, {"email"}} : Stop(c)
    \/ SendStop \/ Convert
    \/ \E r \in Runs : RunStep(r) \/ Die(r) \/ BridgeFails(r) \/ \E d \in Drips : StartRun(r, d)

Spec == Init /\ [][Next]_vars

-----------------------------------------------------------------------------
\* A customer is in one active enrollment of a drip, however many enroll events race.
OneActivePerDrip ==
    \A d \in Drips : Cardinality({r \in Runs : run[r].drip = d /\ Active(r)}) <= 1

\* A run whose enrollment is stopped sends one more step at most, the one under way - if it
\* does not enroll a second time: that step may then be missed twice.
AtMostOneLateStep == \A r \in Runs : ~enrollment[r].again => Cardinality(run[r].late) <= 1

\* One message at most leaves a run on a channel after the opt-out from it: a repeated
\* attempt, and every later step, sees the opt-out.
AtMostOneUnwanted == \A r \in Runs : run[r].unwanted <= 1

\* What still leaves after a stop or an opt-out is bounded by the step under way, however
\* often attempts die and events repeat.
StoppedSoon == AtMostOneLateStep /\ AtMostOneUnwanted

\* A run that came to the end, and an enrollment that is completed, logged every step.
WalkedIsLogged ==
    \A r \in Runs : (run[r].pc = "done" \/ enrollment[r].status = "completed") =>
        {row[1] : row \in run[r].rows} = Steps

\* One escalation per step of the customer, whatever is retried or runs beside it.
RaisedOnce == \A k \in Steps : Cardinality({x \in raised : x[1] = k}) <= 1

\* A run that came to its end leaves no active enrollment behind to block the next one,
\* whatever was stopped, repeated or enrolled beside it.
EndedIsClosed == \A r \in Runs : run[r].pc \in {"done", "stopped"} => ~Active(r)

\* The rows of the customer agree with the runs: enrollments, their log and escalations.
DripsInv ==
    /\ TypeOK /\ OneActivePerDrip /\ WalkedIsLogged /\ EndedIsClosed /\ RaisedOnce

\* A stop is final: no run marks a stopped enrollment active or completed, and one that is
\* past its enrollment never gets another.
StopIsFinal ==
    [][\A r \in Runs : enrollment[r].status = "stopped" =>
         enrollment'[r].status = "stopped" \/ run[r].pc = "insert"]_vars

-----------------------------------------------------------------------------
(* What the comments say and the code does not do.                         *)

\* "One run per enrollment.  Creates the enrollment, then walks the drip's steps."
EnrolledIsWalked == \A r \in Runs : Active(r) => run[r].pc # "skipped"

\* "The per-step re-check is the backstop."
StopIsABackstop == \A r \in Runs : enrollment[r].again => run[r].left = {}

\* "The stop SOURCE has already set status='stopped' in the DB."
CancelledIsStopped == \A r \in Runs : run[r].pc = "cancelled" => ~Active(r)

\* "a 'blocked' verdict turns into a compliance-block escalation" - with no call failing.
BlockedIsRaised ==
    \A r \in Runs : run[r].pc = "done" => \A k \in run[r].blocks : <<k, r>> \in raised

\* "Either way, the real send never fired."
ErrorMeansNothingLeft ==
    \A r \in Runs, k \in Steps : <<k, "error">> \in run[r].rows => k \notin run[r].left
=============================================================================

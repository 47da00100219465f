----------------------------- MODULE TaskHealth -----------------------------
(***************************************************************************)
(* The nightly scoreboard sweep of one registry task with a bound check,   *)
(* and the job_task rows of it.  sweepTenantHealth is one Inngest step:    *)
(* run the check, record it, spot-verify the done rows, recompute the      *)
(* health, reconcile the exception, page the owner.  Each is a transaction *)
(* of its own, and a step that fails starts again from the check.  Doers   *)
(* and staff write the rows meanwhile, and what the rows claim may turn    *)
(* out wrong.                                                              *)
(***************************************************************************)
EXTENDS Naturals, FiniteSets

CONSTANTS
    Rows,         \* job_task rows of the task (bound: their number)
    GreenStreak,  \* GREEN_STREAK_DAYS (bound: 14 in the code)
    Threshold,    \* exception rows whose dollars reach break_glass.min_dollars
    MaxRefs,      \* MAX_REFS, the violations a check reports (bound: 50 in the code)
    MaxTries,     \* attempts of one night's step (bound)
    MaxFailures   \* failures of it altogether (bound)

ASSUME HealthAssumption ==
    /\ GreenStreak \in Nat \ {0} /\ Threshold \in Nat \ {0} /\ MaxRefs \in Nat \ {0}
    /\ MaxTries \in Nat \ {0} /\ MaxFailures \in Nat

VARIABLES
    forced,    \* its check key is one of BREAK_GLASS_ON_FAIL_CHECK_KEYS; the registry is fixed
    mode,      \* "auto", "manual", or "off" for a disabled tenant_task_config
    row,       \* job_task.status
    wrong,     \* rows whose evidence the invariant rejects now
    hist,      \* verification_run: the latest status and the trailing fails
    health,    \* task_health: status, streak and whether it counted an exception row
    exc,       \* the unresolved task_exception, if any
    sweep,     \* the step under way: what its process remembers
    failures,  \* failed attempts so far
    nights,    \* nights of the present clean streak, whether tonight is counted, and whether
               \* a retry scored one of them again (history)
    pages      \* the pages of the present exception: none tried, tried and reaching nobody, or
               \* gone out once or more often (history)

healthVars == <<forced, mode, row, wrong, hist, health, exc, sweep, failures, nights, pages>>

-----------------------------------------------------------------------------
Results  == {"pass", "fail", "stale", "skip"}
Unhealthy == {"amber", "red"}
NoException == [open |-> FALSE, glass |-> FALSE, notified |-> FALSE]

Heard == {"once", "twice"}

Busy == {"check", "record", "select", "update", "recompute", "reconcile", "page", "mark"}

HealthTypeOK ==
    /\ forced \in BOOLEAN
    /\ mode \in {"auto", "manual", "off"}
    /\ row \in [Rows -> {"pending", "done", "verified", "exception"}]
    /\ wrong \subseteq Rows
    /\ hist \in [latest: Results \cup {"none"}, fails: 0..2]
    /\ health \in [status: {"gray", "green"} \cup Unhealthy, streak: 0..GreenStreak, counted: BOOLEAN]
    /\ exc \in [open: BOOLEAN, glass: BOOLEAN, notified: BOOLEAN] /\ (exc.open \/ exc = NoException)
    /\ sweep \in [pc: Busy \cup {"idle", "failed"}, result: Results, bad: SUBSET Rows, refs: SUBSET Rows,
                  seen: SUBSET Rows, todo: SUBSET Rows, try: 0..MaxTries]
    /\ failures \in 0..MaxFailures
    /\ nights \in [clean: 0..GreenStreak, tonight: BOOLEAN, again: BOOLEAN]
    /\ pages \in {"none", "unheard"} \cup Heard

Asleep(pc) == [pc |-> pc, result |-> "skip", bad |-> {}, refs |-> {}, seen |-> {}, todo |-> {}, try |-> 0]

HealthInit ==
    /\ forced \in BOOLEAN
    /\ mode \in {"auto", "manual"}
    /\ row = [r \in Rows |-> "pending"] /\ wrong = {}
    /\ hist = [latest |-> "none", fails |-> 0]
    /\ health = [status |-> "gray", streak |-> 0, counted |-> FALSE]
    /\ exc = NoException
    /\ sweep = Asleep("idle") /\ failures = 0
    /\ nights = [clean |-> 0, tonight |-> FALSE, again |-> FALSE] /\ pages = "none"

Capped(n, most) == IF n > most THEN most ELSE n
Having(status) == {r \in Rows : row[r] = status}

-----------------------------------------------------------------------------
(* The doers, the staff and the world.                                     *)

\* markJobTaskDoneTx: done from any status, on the same evidence or on other.  What the
\* check found names the old evidence, and the rows selected keep theirs.
DoerDone(r) ==
    /\ row' = [row EXCEPT ![r] = "done"]
    /\ \/ UNCHANGED <<wrong, sweep>>
       \/ /\ wrong' \in {wrong \ {r}, wrong \cup {r}}
          /\ sweep' = [sweep EXCEPT !.seen = @ \ {r}, !.bad = @ \ {r},
                                    !.refs = IF sweep.pc = "update" THEN @ ELSE @ \ {r}]
    /\ UNCHANGED <<forced, mode, hist, health, exc, failures, nights, pages>>

\* completeJobTaskManually: the checkbox of a manual task, both ways.
StaffTick(r, done) ==
    /\ mode = "manual"
    /\ row' = [row EXCEPT ![r] = IF done THEN "done" ELSE "pending"]
    /\ UNCHANGED <<forced, mode, wrong, hist, health, exc, sweep, failures, nights, pages>>

Turn(r) ==
    /\ wrong' = IF r \in wrong THEN wrong \ {r} ELSE wrong \cup {r}
    /\ UNCHANGED <<forced, mode, row, hist, health, exc, sweep, failures, nights, pages>>

SetMode ==
    /\ mode' \in {"auto", "manual", "off"} \ {mode}
    /\ UNCHANGED <<forced, row, wrong, hist, health, exc, sweep, failures, nights, pages>>

-----------------------------------------------------------------------------
(* The sweep.                                                              *)

SweepTo(pc) == sweep' = [sweep EXCEPT !.pc = pc]

\* A disabled task is passed over, but its exception is reconciled with the others.
Begin ==
    /\ sweep.pc \in {"idle", "failed"}
    /\ sweep' = [Asleep(IF mode = "off" THEN "reconcile" ELSE "check") EXCEPT !.try = 1]
    /\ nights' = [nights EXCEPT !.tonight = FALSE]
    /\ UNCHANGED <<forced, mode, row, wrong, hist, health, exc, failures, pages>>

\* The violations of the ledger and others no row is about, of which a failed check
\* reports the first MaxRefs.
Reported(others) ==
    LET n == Capped(Cardinality(wrong) + others, MaxRefs)
    IN  {refs \in SUBSET wrong : Cardinality(refs) <= n /\ Cardinality(refs) + others >= n}

\* It may also have nothing to look at, time out or throw.
Check ==
    /\ sweep.pc = "check"
    /\ \E others \in 0..MaxRefs :
       \E result \in {"stale", "skip", IF others > 0 \/ wrong # {} THEN "fail" ELSE "pass"} :
       \E refs \in IF result = "fail" THEN Reported(others) ELSE {{}} :
         sweep' = [sweep EXCEPT !.pc = "record", !.result = result, !.refs = refs,
                                !.bad = IF result = "fail" THEN wrong ELSE {}, !.seen = Having("done")]
    /\ UNCHANGED <<forced, mode, row, wrong, hist, health, exc, failures, nights, pages>>

Record ==
    /\ sweep.pc = "record"
    /\ hist' = [latest |-> sweep.result,
                fails |-> IF sweep.result = "fail" THEN Capped(hist.fails + 1, 2) ELSE 0]
    /\ SweepTo(IF sweep.result \in {"pass", "fail"} THEN "select" ELSE "recompute")
    /\ UNCHANGED <<forced, mode, row, wrong, health, exc, failures, nights, pages>>

SelectDone ==
    /\ sweep.pc = "select"
    /\ sweep' = [sweep EXCEPT !.pc = "update", !.todo = Having("done")]
    /\ UNCHANGED <<forced, mode, row, wrong, hist, health, exc, failures, nights, pages>>

\* spotVerifyDoneTasks: the rows selected are written by id, whatever they are by now.
Judged(r) == IF r \in sweep.refs THEN "exception" ELSE "verified"

UpdateRows ==
    /\ sweep.pc = "update"
    /\ row' = [r \in Rows |-> IF r \in sweep.todo THEN Judged(r) ELSE row[r]]
    /\ SweepTo("recompute")
    /\ UNCHANGED <<forced, mode, wrong, hist, health, exc, failures, nights, pages>>

\* computeTaskHealth.
Clean == hist.latest = "pass" /\ Having("exception") = {}
Neutral == hist.latest = "skip" /\ Having("exception") = {}

StatusFor(streak) ==
    IF Having("exception") # {} \/ hist.fails >= 2 THEN "red"
    ELSE IF hist.latest \in {"fail", "stale"} THEN "amber"
    ELSE IF streak >= GreenStreak THEN "green" ELSE "amber"

ComputeBug ==                             \* mutant: a neutral night counts as a clean one
    LET streak == IF Clean \/ Neutral THEN Capped(health.streak + 1, GreenStreak) ELSE 0
    IN  IF mode # "auto" THEN [health EXCEPT !.status = "gray"]
        ELSE [status |-> StatusFor(streak), streak |-> streak, counted |-> Having("exception") # {}]
ComputeRed ==                             \* mutant: only repeated fails are red
    LET streak == IF Clean THEN Capped(health.streak + 1, GreenStreak) ELSE 0
    IN  IF mode # "auto" THEN [health EXCEPT !.status = "gray"]
        ELSE [status |-> IF hist.fails >= 2 THEN "red" ELSE "amber", streak |-> streak,
              counted |-> Having("exception") # {}]
Compute ==
    LET counted == Having("exception") # {}
        streak  == IF Clean THEN Capped(health.streak + 1, GreenStreak) ELSE 0
    IN  IF mode # "auto" THEN [status |-> "gray", streak |-> health.streak, counted |-> counted]
        ELSE IF Neutral THEN [health EXCEPT !.counted = counted]
        ELSE [status |-> StatusFor(streak), streak |-> streak, counted |-> counted]

Recompute ==
    /\ sweep.pc = "recompute"
    /\ health' = Compute
    /\ nights' =
         IF mode # "auto" \/ Neutral THEN nights
         ELSE IF ~Clean THEN [clean |-> 0, tonight |-> FALSE, again |-> FALSE]
         ELSE IF nights.tonight THEN [nights EXCEPT !.again = TRUE]
         ELSE [nights EXCEPT !.clean = Capped(nights.clean + 1, GreenStreak), !.tonight = TRUE]
    /\ SweepTo("reconcile")
    /\ UNCHANGED <<forced, mode, row, wrong, hist, exc, failures, pages>>

\* Customer-facing deliveries break the glass whatever is at stake.  Elsewhere the dollars
\* decide: those of the exception rows, if health counted any.
DollarsReached == health.counted /\ Cardinality(Having("exception")) >= Threshold
BreaksGlass == forced \/ DollarsReached

ReconciledBug ==                          \* mutant: nothing is ever resolved
    [open |-> exc.open \/ health.status \in Unhealthy,
     glass |-> (exc.open \/ health.status \in Unhealthy) /\ BreaksGlass, notified |-> exc.notified]
Reconciled ==
    IF health.status \in Unhealthy
    THEN [open |-> TRUE, glass |-> BreaksGlass, notified |-> exc.notified]
    ELSE NoException

Reconcile ==
    /\ sweep.pc = "reconcile"
    /\ exc' = Reconciled
    /\ pages' = IF exc.open /\ exc'.open THEN pages ELSE "none"
    /\ SweepTo("page")
    /\ UNCHANGED <<forced, mode, row, wrong, hist, health, failures, nights>>

\* pageBreakGlass: SMS and email to the owner, each fail-soft, and only then the mark.
DueBug == exc.open /\ exc.glass /\ exc.notified     \* mutant: the null test the wrong way round
Due == exc.open /\ exc.glass /\ ~exc.notified

\* Nothing goes out where there is no contact or no sender, or where each of them throws.
Paged ==
    \/ pages' = IF pages \in Heard THEN "twice" ELSE "once"
    \/ pages' = IF pages = "none" THEN "unheard" ELSE pages

Page ==
    /\ sweep.pc = "page"
    /\ \/ Due /\ Paged /\ SweepTo("mark")
       \/ ~Due /\ sweep' = Asleep("idle") /\ UNCHANGED pages
    /\ UNCHANGED <<forced, mode, row, wrong, hist, health, exc, failures, nights>>

\* The mark does not ask whether anybody was reached.
Mark ==
    /\ sweep.pc = "mark"
    /\ exc' = [exc EXCEPT !.notified = TRUE]
    /\ sweep' = Asleep("idle")
    /\ UNCHANGED <<forced, mode, row, wrong, hist, health, failures, nights, pages>>

\* The attempt fails in its transaction under way: Inngest runs the whole step again,
\* or has no attempt left until the next night.
SweepFails ==
    /\ sweep.pc \in Busy
    /\ failures < MaxFailures
    /\ failures' = failures + 1
    /\ sweep' = IF sweep.try < MaxTries
                THEN [Asleep(IF mode = "off" THEN "reconcile" ELSE "check") EXCEPT !.try = sweep.try + 1]
                ELSE Asleep("failed")
    /\ UNCHANGED <<forced, mode, row, wrong, hist, health, exc, nights, pages>>

-----------------------------------------------------------------------------
SweepStep == Begin \/ Check \/ Record \/ SelectDone \/ UpdateRows \/ Recompute \/ Reconcile \/ Page \/ Mark

HealthNext ==
    \/ \E r \in Rows : DoerDone(r) \/ Turn(r) \/ \E done \in BOOLEAN : StaffTick(r, done)
    \/ SetMode
    \/ SweepStep \/ SweepFails

HealthSpec == HealthInit /\ [][HealthNext]_healthVars

\* The cron comes every night, and a step begun is carried on.
HealthFairSpec == HealthSpec /\ WF_healthVars(SweepStep)

-----------------------------------------------------------------------------
(* Safety.                                                                 *)

\* Green is earned: where no retry scored a night of the streak again, each of its days is
\* a night of its own whose check passed with no exception row about, and an unclean
\* night between starts it again, however modes changed and checks were skipped.
EarnedGreen ==
    (health.status = "green" /\ ~nights.again) => nights.clean >= GreenStreak

\* Done-but-wrong is never hidden: from the moment the sweep has scored the task until it
\* next judges the rows, an exception row that is left means red, unless the task is not measured.
WrongWorkIsRed ==
    (sweep.pc \in {"reconcile", "page", "mark"} /\ \E r \in sweep.todo : row[r] = "exception")
        => health.status \in {"red", "gray"}

\* The exception ledger follows the scoreboard: when the exception has been reconciled,
\* it is open exactly if the task is amber or red, and stays so until health is scored again.
ExceptionFollowsHealth ==
    sweep.pc \in {"idle", "page", "mark", "check", "record", "select", "update"} /\ failures = 0
        => (exc.open <=> health.status \in Unhealthy)

\* An exception marked as notified had a page of its own tried, one that went out or one
\* that reached nobody: no mark stands on a page of an earlier exception of the task.
NotifiedMeansTried == exc.notified => pages # "none"

\* The scoreboard says what the rows earned, and the exception ledger is in step with the
\* scoreboard and with the pages tried.
HealthInv ==
    /\ HealthTypeOK
    /\ EarnedGreen /\ WrongWorkIsRed
    /\ ExceptionFollowsHealth /\ NotifiedMeansTried

-----------------------------------------------------------------------------
(* Liveness, under HealthFairSpec.                                         *)

\* Once failures end, a break-glass exception has a page of its own tried and is marked, or
\* stops being one, however many nights were lost before.  A page that reached nobody counts:
\* the code takes it for done and never tries again (NotifiedWasHeard below).
PageIsTried ==
    [](exc.glass /\ ~exc.notified =>
          <>(~exc.glass \/ (exc.notified /\ pages # "none")))

-----------------------------------------------------------------------------
(* What the repository says and the code does not do.                      *)

\* "clean_streak_days >= 14": with a retried step one night counts as often as it ran.
GreenTakesNights == health.status = "green" => nights.clean >= GreenStreak

\* "check passed -> every done row is verified (invariant holds)": a row done after the
\* check ran was not seen by it, and no later sweep looks at it.
VerifiedWasChecked ==
    [][\A r \in Rows : (row[r] # "verified" /\ row'[r] = "verified") => r \in sweep.seen]_healthVars

\* "math checks the agent": of many violations the check names the first, and a done row
\* whose evidence is among the others is verified.
WrongIsNotVerified ==
    [][\A r \in sweep.bad : (row[r] = "done" /\ sweep.pc = "update") => row'[r] # "verified"]_healthVars

\* "For each done ledger row": a row reopened between the select and the update.
VerifiedWasDone ==
    [][\A r \in Rows : row'[r] = "verified" => row[r] \in {"done", "verified"}]_healthVars

\* "Fires once per exception": a sweep that fails between the page and the mark pages again.
PagedOnce == pages # "twice"

\* "The agent_run is the proof-of-page", written next to the mark: but an SMS and an email
\* that throw, or an owner without contact, leave both behind.
NotifiedWasHeard == exc.notified => pages \in Heard
=============================================================================

---------------------------- MODULE LeadFollowUp ----------------------------
(***************************************************************************)
(* LeadFollowUp: one new lead.  Its lead/created event starts three runs:  *)
(* intake qualifies it, finds it an owner and acknowledges it; speed to    *)
(* lead watches the first contact and hands the lead to another rep; the   *)
(* cadence keeps texting.  An overdue lead starts a voice run, which calls.*)
(* Beside them reps and the customer act on the lead, and lead/contacted   *)
(* and lead/disqualified cancel what is under way.                         *)
(*                                                                         *)
(* A run is at the beginning of a step or inside one.  A step whose process*)
(* dies is repeated from its beginning, after its effect too; a cancelled  *)
(* run ends at the end of the step it is in.  Sleeps take any time.        *)
(***************************************************************************)
EXTENDS DomainEvents

CONSTANTS
    Reps, NoRep,
    Voices,      \* runs of voice-fallback (bound: one per overdue event)
    NumTouches,  \* touches of the cadence
    MaxFaults,   \* deaths and swallowed errors (bound)
    Deliveries   \* which runs get lead/created, with how many acts of people beside (bound)

VARIABLES
    lead,      \* the row
    optedOut,  \* customer.smsOptOut
    audit,     \* task keys of speed to lead's rows in agent_run
    run,
    starting,  \* runs whose triggering event is on its way
    news,      \* cancelling events on their way
    out,       \* messages and calls each run let out
    late,      \* steps a run took towards a person after the lead was handled
    unwanted,  \* texts let out after the opt-out
    faults,
    acts       \* acts of people still to come

vars == <<lead, optedOut, audit, run, starting, news, out, late, unwanted, faults, acts, board>>

-----------------------------------------------------------------------------
Runs   == {"intake", "speed", "cadence"} \cup Voices
Over   == {"done", "cancelled", "failed"}
StepOf == {"qualify", "assign", "bridgeAssigned", "ack", "bridgeTouch",
           "alert", "checkOverdue", "emit", "bridgeBreach", "checkEscalate", "reassign",
           "load", "send", "guard", "place"}
Bridges == {"bridgeAssigned", "bridgeTouch", "bridgeBreach"}
Reason  == {"assigned", "off", "already-assigned", "no-candidate", "error"}
Verdict == {"sent", "deferred", "blocked", "error"}
Events  == {"contacted", "disqualified"}


ASSUME FollowUpAssumption ==
    /\ {"assigned", "assignment_failed", "first_touch", "sla_breach"} \subseteq Keys
    /\ NoRep \notin Reps
    /\ Voices \cap {"intake", "speed", "cadence"} = {}
    /\ NumTouches \in Nat \ {0} /\ MaxFaults \in Nat
    /\ \A d \in Deliveries : d.runs \subseteq Runs /\ d.acts \in Nat

Closed  == {"won", "lost"}
Open    == lead.status \notin Closed
Handled == lead.contacted \/ ~Open

RunRow == [step : {"idle"} \cup StepOf \cup Over, at : {"begin", "picked", "escalate", "queue"},
           rep : Reps \cup {NoRep},    \* the candidate picked, or the owner seen
           memo : {"none"} \cup Reason \cup Verdict,   \* the recorded result of the step before
           gate : BOOLEAN,             \* the consent the cadence loaded
           touch : 1..NumTouches,
           cancelling : BOOLEAN]

TypeOK ==
    /\ lead \in [status : {"new", "contacted"} \cup Closed, owner : Reps \cup {NoRep},
                 contacted : BOOLEAN]
    /\ optedOut \in BOOLEAN /\ audit \subseteq {"overdue", "escalated"}
    /\ run \in [Runs -> RunRow]
    /\ starting \subseteq Runs /\ news \subseteq Events
    /\ out \in [Runs -> Nat] /\ late \in [Runs -> Nat] /\ unwanted \in Nat
    /\ faults \in 0..MaxFaults /\ acts \in Nat
    /\ BoardTypeOK

Init ==
    /\ lead = [status |-> "new", owner |-> NoRep, contacted |-> FALSE]
    /\ optedOut = FALSE /\ audit = {}
    /\ run = [p \in Runs |-> [step |-> "idle", at |-> "begin", rep |-> NoRep, memo |-> "none",
                              gate |-> FALSE, touch |-> 1, cancelling |-> FALSE]]
    /\ \E d \in Deliveries : starting = d.runs /\ acts = d.acts
    /\ news = {}
    /\ out = [p \in Runs |-> 0] /\ late = [p \in Runs |-> 0] /\ unwanted = 0
    /\ faults = 0
    /\ BoardInit

-----------------------------------------------------------------------------
Begins(p, step) == run[p].step = step /\ run[p].at = "begin"
UnderWay(p) == run[p].step \notin Over \cup {"idle"}

\* What is left of a run when the step's result is recorded, and it goes on at step.
Recorded(r, step) ==
    [r EXCEPT !.step = IF r.cancelling THEN "cancelled" ELSE step, !.at = "begin"]
\* The step ends with its result recorded, or its process dies first and it is repeated.
EndsAs(p, r, step) ==
    \/ run' = [run EXCEPT ![p] = Recorded(r, step)] /\ UNCHANGED faults
    \/ /\ faults < MaxFaults /\ faults' = faults + 1
       /\ run' = [run EXCEPT ![p].at = "begin"]
Ends(p, step) == EndsAs(p, run[p], step)
Inside(p, at) == run' = [run EXCEPT ![p].at = at] /\ UNCHANGED faults
LateStep(p) == late' = [late EXCEPT ![p] = @ + IF Handled THEN 1 ELSE 0]
LetOut(p) == out' = [out EXCEPT ![p] = @ + 1]

Start(p) ==
    /\ p \in starting /\ run[p].step = "idle"
    /\ starting' = starting \ {p}
    /\ run' = [run EXCEPT ![p].step = CASE p = "intake" -> "qualify" [] p = "speed" -> "alert"
                                        [] p = "cadence" -> "load" [] OTHER -> "guard"]
    /\ UNCHANGED <<lead, optedOut, audit, news, out, late, unwanted, faults, acts, board>>

\* cancelOn: the event ends the runs under way, not those that have yet to start.
Listens(p, e) == p \in {"speed", "cadence"} \/ (p \in Voices /\ e = "contacted")
Hear(e) ==
    /\ e \in news
    /\ news' = news \ {e}
    /\ run' = [p \in Runs |->
                 IF ~(Listens(p, e) /\ UnderWay(p)) THEN run[p]
                 ELSE IF run[p].at = "begin" THEN [run[p] EXCEPT !.step = "cancelled"]
                 ELSE [run[p] EXCEPT !.cancelling = TRUE]]
    /\ UNCHANGED <<lead, optedOut, audit, starting, out, late, unwanted, faults, acts, board>>

Die(p) ==
    /\ UnderWay(p) /\ run[p].at # "begin" /\ faults < MaxFaults
    /\ faults' = faults + 1
    /\ run' = [run EXCEPT ![p].at = "begin"]
    /\ UNCHANGED <<lead, optedOut, audit, starting, news, out, late, unwanted, acts, board>>

\* The step fails as often as Inngest tries it.
GiveUp(p) ==
    /\ UnderWay(p) /\ run[p].at = "begin" /\ faults < MaxFaults
    /\ faults' = faults + 1
    /\ run' = [run EXCEPT ![p].step = "failed"]
    /\ UNCHANGED <<lead, optedOut, audit, starting, news, out, late, unwanted, acts, board>>

-----------------------------------------------------------------------------
(* Publishing, for the three bridge steps.                                 *)

AfterBridge(p) == CASE run[p].step = "bridgeAssigned" -> "ack"
                    [] run[p].step = "bridgeTouch"    -> "done"
                    [] run[p].step = "bridgeBreach"   -> "checkEscalate"
KeyOf(p) == CASE run[p].step = "bridgeAssigned" ->
                   (IF run[p].memo = "assigned" THEN "assigned" ELSE "assignment_failed")
              [] run[p].step = "bridgeTouch"    -> "first_touch"
              [] run[p].step = "bridgeBreach"   -> "sla_breach"
Benign == {"off", "already-assigned"}
Escalates(p) == \/ KeyOf(p) \in Rules
                \/ run[p].step = "bridgeTouch" /\ run[p].memo = "blocked"

Publish(p) ==
    /\ run[p].step \in Bridges /\ run[p].at = "begin"
    /\ \/ /\ run[p].memo \in Benign \/ ~IsNew(KeyOf(p))
          /\ Ends(p, AfterBridge(p)) /\ UNCHANGED board
       \/ /\ run[p].memo \notin Benign /\ IsNew(KeyOf(p))
          /\ InsertEvent(KeyOf(p))
          /\ IF Escalates(p) THEN Inside(p, "escalate") ELSE Ends(p, AfterBridge(p))
    /\ UNCHANGED <<lead, optedOut, audit, starting, news, out, late, unwanted, acts>>

Escalate(p) ==
    /\ run[p].step \in Bridges /\ run[p].at = "escalate"
    /\ RecordEscalation(KeyOf(p))
    /\ Inside(p, "queue")
    /\ UNCHANGED <<lead, optedOut, audit, starting, news, out, late, unwanted, acts>>

QueueException(p) ==
    /\ run[p].step \in Bridges /\ run[p].at = "queue"
    /\ RecordException(KeyOf(p))
    /\ Ends(p, AfterBridge(p))
    /\ UNCHANGED <<lead, optedOut, audit, starting, news, out, late, unwanted, acts>>

\* Every bridge catches what its calls throw: the step ends all the same.
Swallow(p) ==
    /\ run[p].step \in Bridges /\ faults < MaxFaults
    /\ faults' = faults + 1
    /\ run' = [run EXCEPT ![p] = Recorded(run[p], AfterBridge(p))]
    /\ UNCHANGED <<lead, optedOut, audit, starting, news, out, late, unwanted, acts, board>>

-----------------------------------------------------------------------------
(* lead-intake.                                                            *)

\* One UPDATE with a CASE on the status the row has by then.
AdvancedBug(row) == [row EXCEPT !.status = "contacted"]
Advanced(row) == [row EXCEPT !.status = IF @ = "new" THEN "contacted" ELSE @]

Qualify ==
    /\ Begins("intake", "qualify")
    /\ lead' = Advanced(lead)
    /\ Ends("intake", "assign")
    /\ UNCHANGED <<optedOut, audit, starting, news, out, late, unwanted, acts, board>>

\* The transaction reads the owner, then measures drive times and picks: the outcome
\* without a candidate is recorded at once.
Assign ==
    LET result(reason) == [run["intake"] EXCEPT !.memo = reason] IN
    /\ Begins("intake", "assign")
    /\ \/ EndsAs("intake", result("off"), "bridgeAssigned")
       \/ /\ lead.owner # NoRep
          /\ EndsAs("intake", result("already-assigned"), "bridgeAssigned")
       \/ /\ lead.owner = NoRep
          /\ \/ \E why \in {"no-candidate", "error"} :
                    EndsAs("intake", result(why), "bridgeAssigned")
             \/ \E r \in Reps :
                    /\ run' = [run EXCEPT !["intake"].at = "picked", !["intake"].rep = r]
                    /\ UNCHANGED faults
    /\ UNCHANGED <<lead, optedOut, audit, starting, news, out, late, unwanted, acts, board>>

\* setLeadOwner: by id alone.
SetPicked ==
    /\ run["intake"].step = "assign" /\ run["intake"].at = "picked"
    /\ lead' = [lead EXCEPT !.owner = run["intake"].rep]
    /\ EndsAs("intake", [run["intake"] EXCEPT !.memo = "assigned"], "bridgeAssigned")
    /\ UNCHANGED <<optedOut, audit, starting, news, out, late, unwanted, acts, board>>

\* The acknowledgment, whatever became of the lead; without a verdict nothing is bridged.
\* It is exempt from quiet hours, so it is never deferred.
Ack ==
    /\ Begins("intake", "ack")
    /\ \E v \in IF optedOut THEN {"blocked", "error"} ELSE {"sent", "blocked", "error"} :
         /\ IF v = "sent" THEN LetOut("intake") ELSE UNCHANGED out
         /\ EndsAs("intake", [run["intake"] EXCEPT !.memo = v],
                   IF v = "error" THEN "done" ELSE "bridgeTouch")
    /\ UNCHANGED <<lead, optedOut, audit, starting, news, late, unwanted, acts, board>>

-----------------------------------------------------------------------------
(* lead-speed-to-lead.                                                     *)

\* A text to the owner of the moment, if there is one.
Alert ==
    /\ Begins("speed", "alert")
    /\ IF lead.owner = NoRep THEN UNCHANGED out ELSE LetOut("speed")
    /\ Ends("speed", "checkOverdue")
    /\ UNCHANGED <<lead, optedOut, audit, starting, news, late, unwanted, acts, board>>

CheckOverdue ==
    /\ Begins("speed", "checkOverdue")
    /\ Ends("speed", IF ~lead.contacted /\ lead.owner # NoRep /\ Open THEN "emit" ELSE "done")
    /\ UNCHANGED <<lead, optedOut, audit, starting, news, out, late, unwanted, acts, board>>

\* lead/contact-overdue starts a voice run each time it is sent.
NextVoice == {v \in Voices : run[v].step = "idle" /\ v \notin starting}
EmitOverdue ==
    /\ Begins("speed", "emit")
    /\ NextVoice # {}
    /\ starting' = starting \cup {CHOOSE v \in NextVoice : TRUE}
    /\ audit' = audit \cup {"overdue"}
    /\ Ends("speed", "bridgeBreach")
    /\ UNCHANGED <<lead, optedOut, news, out, late, unwanted, acts, board>>

\* An unowned lead is escalated too.
StillOpenBug == ~lead.contacted /\ Open /\ lead.owner # NoRep
StillOpen == ~lead.contacted /\ Open
CheckEscalate ==
    /\ Begins("speed", "checkEscalate")
    /\ EndsAs("speed", [run["speed"] EXCEPT !.rep = lead.owner],
              IF StillOpen THEN "reassign" ELSE "done")
    /\ UNCHANGED <<lead, optedOut, audit, starting, news, out, late, unwanted, acts, board>>

\* To another rep than the owner seen, by id alone; without one only the audit row is left.
Reassign ==
    /\ Begins("speed", "reassign")
    /\ lead' \in {lead} \cup {[lead EXCEPT !.owner = r] : r \in Reps \ {run["speed"].rep}}
    /\ audit' = audit \cup {"escalated"}
    /\ LateStep("speed")
    /\ Ends("speed", "done")
    /\ UNCHANGED <<optedOut, starting, news, out, unwanted, acts, board>>

-----------------------------------------------------------------------------
(* lead-cadence.                                                           *)

AfterTouchBug == IF run["cadence"].touch <= NumTouches THEN "load" ELSE "done"
AfterTouch == IF run["cadence"].touch < NumTouches THEN "load" ELSE "done"
NextTouch(r) == [r EXCEPT !.touch = IF @ < NumTouches THEN @ + 1 ELSE @]

\* The lead was contacted or closed by the time of the touch.
StoppedBug == ~Open
Stopped == Handled

\* The state is read, the consent with it; a closed gate skips the touch.
Load ==
    /\ Begins("cadence", "load")
    /\ LET r == [run["cadence"] EXCEPT !.gate = ~optedOut] IN
         IF Stopped THEN EndsAs("cadence", r, "done")
         ELSE IF optedOut THEN EndsAs("cadence", NextTouch(r), AfterTouch)
         ELSE EndsAs("cadence", r, "send")
    /\ UNCHANGED <<lead, optedOut, audit, starting, news, out, late, unwanted, acts, board>>

\* Hours later, past the quiet hours, on the consent loaded: let out or not.
Send ==
    /\ Begins("cadence", "send")
    /\ \/ /\ run["cadence"].gate
          /\ LetOut("cadence") /\ LateStep("cadence")
          /\ unwanted' = unwanted + IF optedOut THEN 1 ELSE 0
       \/ UNCHANGED <<out, late, unwanted>>
    /\ EndsAs("cadence", NextTouch(run["cadence"]), AfterTouch)
    /\ UNCHANGED <<lead, optedOut, audit, starting, news, acts, board>>

-----------------------------------------------------------------------------
(* voice-fallback.                                                         *)

\* Quiet hours or a missing number skip the call whatever the lead is like.
Guard(v) ==
    /\ Begins(v, "guard")
    /\ \/ ~Handled /\ ~optedOut /\ Ends(v, "place")
       \/ Ends(v, "done")
    /\ UNCHANGED <<lead, optedOut, audit, starting, news, out, late, unwanted, acts, board>>

Place(v) ==
    /\ Begins(v, "place")
    /\ LetOut(v) /\ LateStep(v)
    /\ Ends(v, "done")
    /\ UNCHANGED <<lead, optedOut, audit, starting, news, unwanted, acts, board>>

-----------------------------------------------------------------------------
(* People.  An event is sent after the COMMIT, and may be lost.            *)

Act == /\ acts > 0 /\ acts' = acts - 1
       /\ UNCHANGED <<audit, run, starting, out, late, unwanted, faults, board>>
Emits(e) == news' \in {news, news \cup {e}}

\* A logged contact marks whatever lead, a reply only an open one; the event is sent when
\* it was the first.
Contact(open) ==
    /\ Act
    /\ ~lead.contacted /\ (open => Open)
    /\ lead' = [lead EXCEPT !.contacted = TRUE]
    /\ Emits("contacted")
    /\ UNCHANGED optedOut
LogContact == Contact(FALSE)
Reply == Contact(TRUE)

\* The rep who took the call owns the lead and is its first contact; always announced.
BookIntake(r) ==
    /\ Act
    /\ lead' = [lead EXCEPT !.owner = r, !.contacted = TRUE]
    /\ Emits("contacted")
    /\ UNCHANGED optedOut

OptOut ==
    /\ Act
    /\ ~optedOut /\ optedOut' = TRUE
    /\ UNCHANGED <<lead, news>>

AssignOwner(r) ==
    /\ Act
    /\ lead' = [lead EXCEPT !.owner = r]
    /\ UNCHANGED <<optedOut, news>>

MarkLost ==
    /\ Act
    /\ lead' = [lead EXCEPT !.status = "lost"]
    /\ Emits("disqualified")
    /\ UNCHANGED optedOut

\* A conversion wins the lead and tells these runs nothing.
Convert ==
    /\ Act
    /\ Open /\ lead' = [lead EXCEPT !.status = "won"]
    /\ UNCHANGED <<optedOut, news>>

-----------------------------------------------------------------------------
Intake == Qualify \/ Assign \/ SetPicked \/ Ack
Speed  == Alert \/ CheckOverdue \/ EmitOverdue \/ CheckEscalate \/ Reassign
Touch  == Load \/ Send
Bridge(p) == Publish(p) \/ Escalate(p) \/ QueueException(p)
People == \/ LogContact \/ Reply \/ OptOut \/ MarkLost \/ Convert
          \/ \E r \in Reps : BookIntake(r)
          \/ \E r \in Reps \cup {NoRep} : AssignOwner(r)

Next ==
    \/ Intake \/ Speed \/ Touch \/ People
    \/ \E v \in Voices : Guard(v) \/ Place(v)
    \/ \E p \in {"intake", "speed"} : Bridge(p) \/ Swallow(p)
    \/ \E p \in Runs : Start(p) \/ Die(p) \/ GiveUp(p)
    \/ \E e \in Events : Hear(e)

Spec == Init /\ [][Next]_vars
\* Inngest goes on with a run that has begun; nothing makes people act or an event arrive.
FairSpec == Spec /\ WF_vars(Speed \/ Bridge("speed"))

-----------------------------------------------------------------------------
\* A breach is published only of a lead announced as overdue, an assignment never both ways,
\* and a person finds in the queue only what the bus escalated.
BoardAgrees ==
    /\ "sla_breach" \in received => "overdue" \in audit
    /\ ~({"assigned", "assignment_failed"} \subseteq received)
    /\ \A k \in exceptions : escalations[k] > 0

\* Nothing leaves more often than planned, plus once for each death.
Planned(p) == IF p = "cadence" THEN NumTouches ELSE 1
OutIsBounded == \A p \in Runs : out[p] <= Planned(p) + faults

\* What the runs of a lead leave behind: the row, the messages and calls let out, the
\* events published of it and what was raised to people.
LeadsInv == TypeOK /\ BoardAgrees /\ OutIsBounded

\* After a contact, a loss or a win each run takes at most the one step it had decided on, and
\* after an opt-out at most one text leaves - whether or not the cancelling event arrives.
AtMostOneLateTouch ==
    /\ \A p \in Runs : late[p] <= 1 + faults
    /\ unwanted <= 1 + faults

\* No run takes a lead back from won or lost: the qualification finishes late, beside a
\* conversion or a loss, and leaves the status it finds.
ClosedStaysClosed == [][lead.status \in Closed => lead'.status \in Closed]_vars

\* The tables of the bus implement the board: at most one escalation for a key.
B == INSTANCE EscalationBoard WITH known <- received, raised <- escalations, queued <- exceptions
ImplementsBoard == B!Spec

\* A lead found overdue is handed on or left with an audit row, unless somebody handles it or
\* the run fails for good.
OverdueIsEscalated ==
    "overdue" \in audit ~> ("escalated" \in audit \/ Handled \/ run["speed"].step = "failed")

-----------------------------------------------------------------------------
(* What the comments say and the code does not do.                         *)

\* "Never overrides a rep who already owns the lead."
OwnersStay == [][SetPicked => lead.owner = NoRep]_vars

\* "Emit + audit inside a memoized step so a downstream retry can't double-fire", and
\* "Place the call - memoized so a retry can't double-dial."
DialsOnce == \A v, w \in Voices : out[v] <= 1 /\ (v # w => out[v] + out[w] <= 1)

\* "guardedSms re-checks at actual send time plus enforces ... consent/opt-out."
OptOutIsHeard == unwanted = 0

\* "validate -> idempotent insert -> record receipt -> record any escalation hits."
BreachIsRaised ==
    run["speed"].step = "done" /\ "sla_breach" \in received => "sla_breach" \in exceptions
=============================================================================

------------------------- MODULE LeadFollowUpProofs -------------------------
(***************************************************************************)
(* Proofs about LeadFollowUp, for any reps, voice runs, touches, faults    *)
(* and deliveries.                                                         *)
(***************************************************************************)
EXTENDS LeadFollowUp, TLAPS

-----------------------------------------------------------------------------
(* The runs.                                                               *)

Waiting == {"idle"} \cup StepOf
BridgeKeys == {"assigned", "assignment_failed", "first_touch", "sla_breach"}

\* What a step that may end leaves of p: its result recorded with what went into it, or the
\* row as the step found it, after a death.
Went(p, r, step) ==
    /\ \A q \in Runs \ {p} : run'[q] = run[q]
    /\ run'[p] \in RunRow /\ run'[p].at = "begin"
    /\ \/ /\ faults' = faults
          /\ run'[p].step \in {step, "cancelled"}
          /\ run'[p].memo = r.memo /\ run'[p].touch = r.touch
       \/ /\ faults' = faults + 1
          /\ run'[p].step = run[p].step
          /\ run'[p].memo = run[p].memo /\ run'[p].touch = run[p].touch

LEMMA EndsAsWent ==
    ASSUME TypeOK, NEW p \in Runs, NEW r \in RunRow, NEW step \in StepOf \cup Over,
           EndsAs(p, r, step)
    PROVE  run' \in [Runs -> RunRow] /\ faults' \in 0..MaxFaults /\ Went(p, r, step)
<1> USE DEF TypeOK
<1>1. Recorded(r, step) \in RunRow /\ Recorded(r, step).at = "begin"
      /\ Recorded(r, step).step \in {step, "cancelled"}
      /\ Recorded(r, step).memo = r.memo /\ Recorded(r, step).touch = r.touch
    BY DEF Recorded, RunRow, Over
<1>2. [run[p] EXCEPT !.at = "begin"] \in RunRow
      /\ [run[p] EXCEPT !.at = "begin"].at = "begin"
      /\ [run[p] EXCEPT !.at = "begin"].step = run[p].step
      /\ [run[p] EXCEPT !.at = "begin"].memo = run[p].memo
      /\ [run[p] EXCEPT !.at = "begin"].touch = run[p].touch
    BY DEF RunRow
<1>3. CASE run' = [run EXCEPT ![p] = Recorded(r, step)] /\ UNCHANGED faults
    BY <1>1, <1>3 DEF Went
<1>4. CASE /\ faults < MaxFaults /\ faults' = faults + 1
           /\ run' = [run EXCEPT ![p].at = "begin"]
    <2>1. run' = [run EXCEPT ![p] = [run[p] EXCEPT !.at = "begin"]] BY <1>4
    <2> QED BY <1>2, <1>4, <2>1, FollowUpAssumption DEF Went
<1> QED BY <1>3, <1>4 DEF EndsAs

LEMMA EndsWent ==
    ASSUME TypeOK, NEW p \in Runs, NEW step \in StepOf \cup Over, Ends(p, step)
    PROVE  run' \in [Runs -> RunRow] /\ faults' \in 0..MaxFaults /\ Went(p, run[p], step)
<1>1. run[p] \in RunRow BY DEF TypeOK
<1> QED BY <1>1, EndsAsWent DEF Ends
\* The runs after a step of p that is not cut short: p has the row q.
LEMMA MovedType ==
    ASSUME TypeOK, NEW p \in Runs, NEW q \in RunRow, run' = [run EXCEPT ![p] = q]
    PROVE  run' \in [Runs -> RunRow] /\ run'[p] = q /\ \A s \in Runs \ {p} : run'[s] = run[s]
BY DEF TypeOK

-----------------------------------------------------------------------------
(* What each step of a run leaves of the runs.                             *)

Typed == run' \in [Runs -> RunRow] /\ faults' \in 0..MaxFaults

LEMMA RunsNamed == {"intake", "speed", "cadence"} \subseteq Runs /\ Voices \subseteq Runs
                   /\ \A v \in Voices : v \notin {"intake", "speed", "cadence"}
BY FollowUpAssumption DEF Runs

LEMMA QualifyWent ==
    ASSUME TypeOK, Qualify PROVE Typed /\ Went("intake", run["intake"], "assign")
BY EndsWent, RunsNamed DEF Qualify, Typed, StepOf

LEMMA AssignWent ==
    ASSUME TypeOK, Assign
    PROVE  /\ Typed
           /\ \/ \E why \in Reason :
                    Went("intake", [run["intake"] EXCEPT !.memo = why], "bridgeAssigned")
              \/ /\ faults' = faults /\ \A q \in Runs \ {"intake"} : run'[q] = run[q]
                 /\ run'["intake"].step = "assign" /\ run'["intake"].at = "picked"
                 /\ run'["intake"].rep \in Reps
<1>1. ASSUME NEW why \in Reason,
             EndsAs("intake", [run["intake"] EXCEPT !.memo = why], "bridgeAssigned")
      PROVE  Typed /\ Went("intake", [run["intake"] EXCEPT !.memo = why], "bridgeAssigned")
    <2>1. [run["intake"] EXCEPT !.memo = why] \in RunRow
        BY RunsNamed DEF TypeOK, RunRow, Reason
    <2>2. "bridgeAssigned" \in StepOf \cup Over BY DEF StepOf
    <2> QED BY <1>1, <2>1, <2>2, EndsAsWent, RunsNamed DEF Typed
<1>2. ASSUME NEW r \in Reps, UNCHANGED faults,
             run' = [run EXCEPT !["intake"].at = "picked", !["intake"].rep = r]
      PROVE  /\ Typed /\ \A q \in Runs \ {"intake"} : run'[q] = run[q]
             /\ run'["intake"].step = run["intake"].step /\ run'["intake"].at = "picked"
             /\ run'["intake"].rep \in Reps
    <2>1. run["intake"] \in RunRow BY RunsNamed DEF TypeOK
    <2>2. [run["intake"] EXCEPT !.at = "picked", !.rep = r] \in RunRow BY <2>1 DEF RunRow
    <2>3. run' = [run EXCEPT !["intake"] = [run["intake"] EXCEPT !.at = "picked", !.rep = r]]
        BY <1>2, RunsNamed DEF TypeOK
    <2>4. faults' \in 0..MaxFaults BY <1>2 DEF TypeOK
    <2> DEFINE row == [run["intake"] EXCEPT !.at = "picked", !.rep = r]
    <2>5. row.step = run["intake"].step /\ row.at = "picked" /\ row.rep = r BY <2>1 DEF RunRow
    <2> HIDE DEF row
    <2> QED BY <2>2, <2>3, <2>4, <2>5, MovedType, RunsNamed DEF Typed, row
<1>3. CASE EndsAs("intake", [run["intake"] EXCEPT !.memo = "off"], "bridgeAssigned")
    BY <1>1, <1>3 DEF Reason
<1>4. CASE EndsAs("intake", [run["intake"] EXCEPT !.memo = "already-assigned"], "bridgeAssigned")
    BY <1>1, <1>4 DEF Reason
<1>5. CASE \E why \in {"no-candidate", "error"} :
              EndsAs("intake", [run["intake"] EXCEPT !.memo = why], "bridgeAssigned")
    BY <1>1, <1>5 DEF Reason
<1>6. CASE \E r \in Reps :
              /\ run' = [run EXCEPT !["intake"].at = "picked", !["intake"].rep = r]
              /\ UNCHANGED faults
    BY <1>2, <1>6 DEF Assign, Begins
<1> QED BY <1>3, <1>4, <1>5, <1>6 DEF Assign

LEMMA SetPickedWent ==
    ASSUME TypeOK, SetPicked
    PROVE  Typed /\ Went("intake", [run["intake"] EXCEPT !.memo = "assigned"], "bridgeAssigned")
<1>1. [run["intake"] EXCEPT !.memo = "assigned"] \in RunRow
    BY RunsNamed DEF TypeOK, RunRow, Reason
<1>2. "bridgeAssigned" \in StepOf \cup Over BY DEF StepOf
<1> QED BY <1>1, <1>2, EndsAsWent, RunsNamed DEF SetPicked, Typed

LEMMA AckWent ==
    ASSUME TypeOK, Ack
    PROVE  /\ Typed
           /\ \E v \in Verdict, step \in {"done", "bridgeTouch"} :
                Went("intake", [run["intake"] EXCEPT !.memo = v], step)
           /\ out' = out \/ out' = [out EXCEPT !["intake"] = @ + 1]
<1>1. PICK v \in {"sent", "blocked", "error"} :
          /\ IF v = "sent" THEN LetOut("intake") ELSE UNCHANGED out
          /\ EndsAs("intake", [run["intake"] EXCEPT !.memo = v],
                    IF v = "error" THEN "done" ELSE "bridgeTouch")
    BY DEF Ack
<1>2. PICK step \in {"done", "bridgeTouch"} :
          EndsAs("intake", [run["intake"] EXCEPT !.memo = v], step)
    BY <1>1
<1>3. [run["intake"] EXCEPT !.memo = v] \in RunRow
    BY RunsNamed DEF TypeOK, RunRow, Verdict
<1>4. step \in StepOf \cup Over BY DEF StepOf, Over
<1>5. Typed /\ Went("intake", [run["intake"] EXCEPT !.memo = v], step)
    BY <1>2, <1>3, <1>4, EndsAsWent, RunsNamed DEF Typed
<1>6. out' = out \/ out' = [out EXCEPT !["intake"] = @ + 1] BY <1>1 DEF LetOut
<1> QED BY <1>5, <1>6 DEF Verdict

LEMMA AlertWent ==
    ASSUME TypeOK, Alert
    PROVE  /\ Typed /\ Went("speed", run["speed"], "checkOverdue")
           /\ out' = out \/ out' = [out EXCEPT !["speed"] = @ + 1]
BY EndsWent, RunsNamed DEF Alert, Typed, StepOf, LetOut

LEMMA CheckOverdueWent ==
    ASSUME TypeOK, CheckOverdue
    PROVE  Typed /\ \E step \in {"emit", "done"} : Went("speed", run["speed"], step)
<1>1. PICK step \in {"emit", "done"} : Ends("speed", step) BY DEF CheckOverdue
<1>2. step \in StepOf \cup Over BY DEF StepOf, Over
<1> QED BY <1>1, <1>2, EndsWent, RunsNamed DEF Typed

LEMMA EmitOverdueWent ==
    ASSUME TypeOK, EmitOverdue
    PROVE  Typed /\ Went("speed", run["speed"], "bridgeBreach") /\ starting' \subseteq Runs
<1>1. (CHOOSE v \in NextVoice : TRUE) \in Voices BY DEF EmitOverdue, NextVoice
<1> QED BY <1>1, EndsWent, RunsNamed DEF EmitOverdue, Typed, StepOf, TypeOK

LEMMA CheckEscalateWent ==
    ASSUME TypeOK, CheckEscalate
    PROVE  Typed /\ \E step \in {"reassign", "done"}, r \in RunRow :
                      r.memo = run["speed"].memo /\ Went("speed", r, step)
<1>1. PICK step \in {"reassign", "done"} :
          EndsAs("speed", [run["speed"] EXCEPT !.rep = lead.owner], step)
    BY DEF CheckEscalate
<1>2. run["speed"] \in RunRow /\ lead.owner \in Reps \cup {NoRep} BY RunsNamed DEF TypeOK
<1>3. [run["speed"] EXCEPT !.rep = lead.owner] \in RunRow
      /\ [run["speed"] EXCEPT !.rep = lead.owner].memo = run["speed"].memo
    BY <1>2 DEF RunRow
<1>4. step \in StepOf \cup Over BY DEF StepOf, Over
<1> QED BY <1>1, <1>3, <1>4, EndsAsWent, RunsNamed DEF Typed

LEMMA ReassignWent ==
    ASSUME TypeOK, Reassign PROVE Typed /\ Went("speed", run["speed"], "done")
BY EndsWent, RunsNamed DEF Reassign, Typed, Over

LEMMA GuardWent ==
    ASSUME TypeOK, NEW v \in Voices, Guard(v)
    PROVE  Typed /\ \E step \in {"place", "done"} : Went(v, run[v], step)
<1>1. PICK step \in {"place", "done"} : Ends(v, step) BY DEF Guard
<1>2. step \in StepOf \cup Over BY DEF StepOf, Over
<1> QED BY <1>1, <1>2, EndsWent, RunsNamed DEF Typed

LEMMA PlaceWent ==
    ASSUME TypeOK, NEW v \in Voices, Place(v) PROVE Typed /\ Went(v, run[v], "done")
BY EndsWent, RunsNamed DEF Place, Typed, Over

LEMMA NextTouchOK ==
    ASSUME NEW r \in RunRow
    PROVE  /\ NextTouch(r) \in RunRow
           /\ r.touch < NumTouches => NextTouch(r).touch = r.touch + 1
BY FollowUpAssumption DEF NextTouch, RunRow

LEMMA LoadWent ==
    ASSUME TypeOK, Load
    PROVE  /\ Typed
           /\ \E r \in RunRow, step \in {"done", "load", "send"} :
                /\ Went("cadence", r, step)
                /\ step = "send" => ~Handled /\ ~optedOut /\ r.touch = run["cadence"].touch
                /\ step = "load" => r.touch = run["cadence"].touch + 1
<1> DEFINE old == run["cadence"]
           r   == [old EXCEPT !.gate = ~optedOut]
<1>1. old \in RunRow /\ optedOut \in BOOLEAN BY RunsNamed DEF TypeOK
<1>2. r \in RunRow /\ r.touch = old.touch BY <1>1 DEF RunRow
<1>3. ASSUME NEW row \in RunRow, NEW step \in {"done", "load", "send"},
             EndsAs("cadence", row, step)
      PROVE  Typed /\ Went("cadence", row, step)
    <2>1. step \in StepOf \cup Over BY DEF StepOf, Over
    <2> QED BY <1>3, <2>1, EndsAsWent, RunsNamed DEF Typed
<1> HIDE DEF r
<1>4. CASE Stopped
    <2>1. EndsAs("cadence", r, "done") BY <1>4 DEF Load, r
    <2> QED BY <1>2, <1>3, <2>1
<1>5. CASE ~Stopped /\ optedOut
    <2>1. EndsAs("cadence", NextTouch(r), AfterTouch) BY <1>5 DEF Load, r
    <2>2. AfterTouch \in {"load", "done"}
          /\ (AfterTouch = "load" => NextTouch(r).touch = old.touch + 1)
        BY <1>2, NextTouchOK DEF AfterTouch
    <2> QED BY <1>2, <1>3, <2>1, <2>2, NextTouchOK
<1>6. CASE ~Stopped /\ ~optedOut
    <2>1. EndsAs("cadence", r, "send") BY <1>6 DEF Load, r
    <2> QED BY <1>2, <1>3, <1>6, <2>1 DEF Stopped
<1> QED BY <1>4, <1>5, <1>6

LEMMA SendWent ==
    ASSUME TypeOK, Send
    PROVE  /\ Typed
           /\ \E r \in RunRow, step \in {"done", "load"} :
                /\ Went("cadence", r, step)
                /\ step = "load" => r.touch = run["cadence"].touch + 1
<1> DEFINE old == run["cadence"]
<1>1. old \in RunRow BY RunsNamed DEF TypeOK
<1>2. EndsAs("cadence", NextTouch(old), AfterTouch) BY DEF Send
<1>3. AfterTouch \in {"load", "done"}
      /\ (AfterTouch = "load" => NextTouch(old).touch = old.touch + 1)
    BY <1>1, NextTouchOK DEF AfterTouch
<1>4. AfterTouch \in StepOf \cup Over BY <1>3 DEF StepOf, Over
<1>5. Typed /\ Went("cadence", NextTouch(old), AfterTouch)
    BY <1>1, <1>2, <1>4, NextTouchOK, EndsAsWent, RunsNamed DEF Typed
<1> QED BY <1>1, <1>3, <1>5, NextTouchOK

\* The steps that publish: the one after is never one of them, and the key is one of four.
LEMMA AfterBridgeOK ==
    ASSUME NEW p \in Runs, run[p].step \in Bridges
    PROVE  /\ AfterBridge(p) \in {"ack", "done", "checkEscalate"}
           /\ AfterBridge(p) \in StepOf \cup Over
           /\ KeyOf(p) \in BridgeKeys /\ KeyOf(p) \in Keys
<1>1. BridgeKeys \subseteq Keys BY FollowUpAssumption DEF BridgeKeys
<1> QED BY <1>1 DEF Bridges, AfterBridge, KeyOf, BridgeKeys, StepOf, Over

\* The step goes on to its next transaction.
Into(p, at) == /\ \A q \in Runs \ {p} : run'[q] = run[q]
               /\ run'[p].at = at /\ faults' = faults
               /\ run'[p].step = run[p].step /\ run'[p].memo = run[p].memo
               /\ run'[p].touch = run[p].touch

LEMMA InsideInto ==
    ASSUME TypeOK, NEW p \in Runs, NEW at \in {"picked", "escalate", "queue"}, Inside(p, at)
    PROVE  Typed /\ Into(p, at)
<1> DEFINE row == [run[p] EXCEPT !.at = at]
<1>1. run[p] \in RunRow BY DEF TypeOK
<1>2. row \in RunRow /\ row.at = at /\ row.step = run[p].step /\ row.memo = run[p].memo
      /\ row.touch = run[p].touch
    BY <1>1 DEF RunRow
<1>3. run' = [run EXCEPT ![p] = row] BY DEF Inside
<1>4. faults' \in 0..MaxFaults /\ faults' = faults BY DEF Inside, TypeOK
<1> HIDE DEF row
<1> QED BY <1>2, <1>3, <1>4, MovedType DEF Typed, Into

LEMMA PublishWent ==
    ASSUME TypeOK, NEW p \in Runs, Publish(p)
    PROVE  /\ Typed
           /\ \/ board' = board /\ Went(p, run[p], AfterBridge(p))
              \/ /\ KeyOf(p) \in Keys \ received /\ InsertEvent(KeyOf(p))
                 /\ Into(p, "escalate") \/ Went(p, run[p], AfterBridge(p))
<1>1. run[p].step \in Bridges BY DEF Publish
<1>2. CASE Ends(p, AfterBridge(p)) /\ UNCHANGED board
    BY <1>1, <1>2, AfterBridgeOK, EndsWent DEF Typed
<1>3. CASE /\ IsNew(KeyOf(p)) /\ InsertEvent(KeyOf(p))
           /\ Ends(p, AfterBridge(p))
    BY <1>1, <1>3, AfterBridgeOK, EndsWent DEF Typed, IsNew
<1>4. CASE /\ IsNew(KeyOf(p)) /\ InsertEvent(KeyOf(p))
           /\ Inside(p, "escalate")
    BY <1>1, <1>4, AfterBridgeOK, InsideInto DEF IsNew
<1> QED BY <1>2, <1>3, <1>4 DEF Publish

LEMMA EscalateInto ==
    ASSUME TypeOK, NEW p \in Runs, Escalate(p)
    PROVE  Typed /\ Into(p, "queue")
BY InsideInto DEF Escalate

LEMMA QueueWent ==
    ASSUME TypeOK, NEW p \in Runs, QueueException(p)
    PROVE  Typed /\ Went(p, run[p], AfterBridge(p))
BY AfterBridgeOK, EndsWent DEF QueueException, Typed

LEMMA SwallowWent ==
    ASSUME TypeOK, NEW p \in Runs, Swallow(p)
    PROVE  /\ Typed /\ faults' = faults + 1
           /\ \A q \in Runs \ {p} : run'[q] = run[q]
           /\ run'[p].at = "begin" /\ run'[p].step \in {AfterBridge(p), "cancelled"}
           /\ run'[p].memo = run[p].memo /\ run'[p].touch = run[p].touch
<1> DEFINE row == Recorded(run[p], AfterBridge(p))
<1>1. run[p] \in RunRow BY DEF TypeOK
<1>2. AfterBridge(p) \in StepOf \cup Over BY AfterBridgeOK DEF Swallow
<1>3. /\ row \in RunRow /\ row.at = "begin" /\ row.step \in {AfterBridge(p), "cancelled"}
      /\ row.memo = run[p].memo /\ row.touch = run[p].touch
    BY <1>1, <1>2 DEF Recorded, RunRow, Over
<1>4. run' = [run EXCEPT ![p] = row] BY DEF Swallow
<1>5. faults' = faults + 1 /\ faults' \in 0..MaxFaults
    BY FollowUpAssumption DEF Swallow, TypeOK
<1> HIDE DEF row
<1> QED BY <1>3, <1>4, <1>5, MovedType DEF Typed

FirstSteps == {"qualify", "alert", "load", "guard"}
LEMMA StartWent ==
    ASSUME TypeOK, NEW p \in Runs, Start(p)
    PROVE  /\ Typed /\ faults' = faults
           /\ \A q \in Runs \ {p} : run'[q] = run[q]
           /\ run'[p].at = run[p].at /\ run'[p].touch = run[p].touch
           /\ \/ p = "intake" /\ run'[p].step = "qualify"
              \/ p = "speed" /\ run'[p].step = "alert"
              \/ p = "cadence" /\ run'[p].step = "load"
              \/ p \in Voices /\ run'[p].step = "guard"
<1>1. run[p] \in RunRow BY DEF TypeOK
<1>2. PICK step \in FirstSteps :
          /\ run' = [run EXCEPT ![p].step = step]
          /\ \/ p = "intake" /\ step = "qualify"
             \/ p = "speed" /\ step = "alert"
             \/ p = "cadence" /\ step = "load"
             \/ p \in Voices /\ step = "guard"
    BY DEF Start, Runs, FirstSteps
<1> DEFINE row == [run[p] EXCEPT !.step = step]
<1>3. row \in RunRow /\ row.at = run[p].at /\ row.step = step /\ row.touch = run[p].touch
    BY <1>1 DEF RunRow, FirstSteps, StepOf
<1>4. run' = [run EXCEPT ![p] = row] BY <1>2
<1>5. faults' = faults /\ faults' \in 0..MaxFaults BY DEF Start, TypeOK
<1> HIDE DEF row
<1> QED BY <1>2, <1>3, <1>4, <1>5, MovedType DEF Typed

LEMMA DieWent ==
    ASSUME TypeOK, NEW p \in Runs, Die(p)
    PROVE  /\ Typed /\ faults' = faults + 1
           /\ \A q \in Runs \ {p} : run'[q] = run[q]
           /\ run'[p].at = "begin" /\ run'[p].step = run[p].step
           /\ run'[p].memo = run[p].memo /\ run'[p].touch = run[p].touch
<1> DEFINE row == [run[p] EXCEPT !.at = "begin"]
<1>1. run[p] \in RunRow BY DEF TypeOK
<1>2. row \in RunRow /\ row.at = "begin" /\ row.step = run[p].step /\ row.memo = run[p].memo
      /\ row.touch = run[p].touch
    BY <1>1 DEF RunRow
<1>3. run' = [run EXCEPT ![p] = row] BY DEF Die
<1>4. faults' = faults + 1 /\ faults' \in 0..MaxFaults
    BY FollowUpAssumption DEF Die, TypeOK
<1> HIDE DEF row
<1> QED BY <1>2, <1>3, <1>4, MovedType DEF Typed

LEMMA GiveUpWent ==
    ASSUME TypeOK, NEW p \in Runs, GiveUp(p)
    PROVE  /\ Typed /\ faults' = faults + 1
           /\ \A q \in Runs \ {p} : run'[q] = run[q]
           /\ run'[p].at = "begin" /\ run'[p].step = "failed"
<1> DEFINE row == [run[p] EXCEPT !.step = "failed"]
<1>1. run[p] \in RunRow BY DEF TypeOK
<1>2. row \in RunRow /\ row.at = run[p].at /\ row.step = "failed"
    BY <1>1 DEF RunRow, Over
<1>3. run' = [run EXCEPT ![p] = row] BY DEF GiveUp
<1>4. faults' = faults + 1 /\ faults' \in 0..MaxFaults
    BY FollowUpAssumption DEF GiveUp, TypeOK
<1>5. run[p].at = "begin" BY DEF GiveUp
<1> HIDE DEF row
<1> QED BY <1>2, <1>3, <1>4, <1>5, MovedType DEF Typed

LEMMA HearWent ==
    ASSUME TypeOK, NEW e \in Events, Hear(e)
    PROVE  /\ Typed /\ faults' = faults
           /\ \A q \in Runs :
                /\ run'[q].at = run[q].at /\ run'[q].memo = run[q].memo
                /\ run'[q].touch = run[q].touch
                /\ \/ run'[q].step = run[q].step
                   \/ run'[q].step = "cancelled" /\ run[q].at = "begin"
<1>1. ASSUME NEW q \in Runs
      PROVE  /\ run'[q] \in RunRow
             /\ run'[q].at = run[q].at /\ run'[q].memo = run[q].memo
             /\ run'[q].touch = run[q].touch
             /\ \/ run'[q].step = run[q].step
                \/ run'[q].step = "cancelled" /\ run[q].at = "begin"
    <2>1. run[q] \in RunRow BY DEF TypeOK
    <2>2. CASE run'[q] = run[q] BY <2>1, <2>2
    <2>3. CASE run[q].at = "begin" /\ run'[q] = [run[q] EXCEPT !.step = "cancelled"]
        BY <2>1, <2>3 DEF RunRow, Over
    <2>4. CASE run'[q] = [run[q] EXCEPT !.cancelling = TRUE]
        BY <2>1, <2>4 DEF RunRow
    <2> QED BY <2>2, <2>3, <2>4 DEF Hear
<1>2. run' \in [Runs -> RunRow] BY <1>1 DEF Hear
<1> QED BY <1>1, <1>2 DEF Hear, Typed, TypeOK

-----------------------------------------------------------------------------
(* Type correctness.                                                       *)

LEMMA InitType == Init => TypeOK
<1> SUFFICES ASSUME Init PROVE TypeOK OBVIOUS
<1> USE DEF Init
<1>1. lead \in [status : {"new", "contacted"} \cup Closed, owner : Reps \cup {NoRep},
                contacted : BOOLEAN]
    OBVIOUS
<1>2. ASSUME NEW p \in Runs PROVE run[p] \in RunRow
    BY FollowUpAssumption DEF RunRow
<1>3. run \in [Runs -> RunRow] BY <1>2
<1>4. starting \subseteq Runs /\ acts \in Nat BY FollowUpAssumption
<1>5. faults \in 0..MaxFaults BY FollowUpAssumption
<1>6. BoardTypeOK BY DEF BoardInit, BoardTypeOK
<1> QED BY <1>1, <1>3, <1>4, <1>5, <1>6 DEF TypeOK

\* What a step counts.
LEMMA CountType ==
    ASSUME TypeOK, NEW p \in Runs
    PROVE  /\ LetOut(p) => out' \in [Runs -> Nat]
           /\ LateStep(p) => late' \in [Runs -> Nat]
<1>1. out[p] + 1 \in Nat BY DEF TypeOK
<1>2. late[p] + (IF Handled THEN 1 ELSE 0) \in Nat BY DEF TypeOK
<1> QED BY <1>1, <1>2 DEF LetOut, LateStep, TypeOK

\* What people change.
LEMMA PeopleType ==
    ASSUME TypeOK, People
    PROVE  /\ lead' \in [status : {"new", "contacted"} \cup Closed, owner : Reps \cup {NoRep},
                         contacted : BOOLEAN]
           /\ optedOut' \in BOOLEAN /\ news' \subseteq Events /\ acts' \in Nat
           /\ UNCHANGED <<audit, run, starting, out, late, unwanted, faults, board>>
<1> USE DEF TypeOK
<1>1. Act => /\ acts' \in Nat
             /\ UNCHANGED <<audit, run, starting, out, late, unwanted, faults, board>>
    BY DEF Act
<1>2. \A e \in Events : Emits(e) => news' \subseteq Events BY DEF Emits
<1>3. "contacted" \in Events /\ "disqualified" \in Events BY DEF Events
<1>4. CASE \E open \in BOOLEAN : Contact(open) BY <1>1, <1>2, <1>3, <1>4 DEF Contact
<1>5. CASE OptOut BY <1>1, <1>5 DEF OptOut
<1>6. CASE MarkLost BY <1>1, <1>2, <1>3, <1>6 DEF MarkLost, Closed
<1>7. CASE Convert BY <1>1, <1>7 DEF Convert, Closed
<1>8. CASE \E r \in Reps : BookIntake(r) BY <1>1, <1>2, <1>3, <1>8 DEF BookIntake
<1>9. CASE \E r \in Reps \cup {NoRep} : AssignOwner(r) BY <1>1, <1>9 DEF AssignOwner
<1> QED BY <1>4, <1>5, <1>6, <1>7, <1>8, <1>9 DEF People, LogContact, Reply

LEMMA NextType == ASSUME TypeOK, [Next]_vars PROVE TypeOK'
<1> USE RunsNamed
<1> DEFINE LeadType == lead \in [status : {"new", "contacted"} \cup Closed,
                                 owner : Reps \cup {NoRep}, contacted : BOOLEAN]
<1> DEFINE Rest == /\ optedOut \in BOOLEAN /\ audit \subseteq {"overdue", "escalated"}
                   /\ run \in [Runs -> RunRow]
                   /\ starting \subseteq Runs /\ news \subseteq Events
                   /\ out \in [Runs -> Nat] /\ late \in [Runs -> Nat] /\ unwanted \in Nat
                   /\ faults \in 0..MaxFaults /\ acts \in Nat
<1>1. /\ LeadType /\ Rest /\ BoardTypeOK
      /\ LeadType' /\ Rest' /\ BoardTypeOK' => TypeOK'
    BY DEF TypeOK
<1>2. UNCHANGED lead => LeadType' BY <1>1
<1>3. UNCHANGED board => BoardTypeOK' BY <1>1 DEF board, BoardTypeOK
<1> HIDE DEF LeadType
<1> USE <1>1, <1>2, <1>3 DEF Typed
<1>4. CASE Qualify
    <2>1. LeadType' BY <1>4 DEF Qualify, Advanced, LeadType
    <2> QED BY <1>4, <2>1, QualifyWent DEF Qualify
<1>5. CASE Assign BY <1>5, AssignWent DEF Assign
<1>6. CASE SetPicked
    <2>1. run["intake"].rep \in Reps \cup {NoRep} BY DEF RunRow
    <2>2. LeadType' BY <1>6, <2>1 DEF SetPicked, LeadType
    <2> QED BY <1>6, <2>2, SetPickedWent DEF SetPicked
<1>7. CASE Ack
    <2>1. out' \in [Runs -> Nat] BY <1>7, AckWent, CountType DEF LetOut
    <2> QED BY <1>7, <2>1, AckWent DEF Ack
<1>8. CASE Alert
    <2>1. out' \in [Runs -> Nat] BY <1>8, AlertWent, CountType DEF LetOut
    <2> QED BY <1>8, <2>1, AlertWent DEF Alert
<1>9. CASE CheckOverdue BY <1>9, CheckOverdueWent DEF CheckOverdue
<1>10. CASE EmitOverdue BY <1>10, EmitOverdueWent DEF EmitOverdue
<1>11. CASE CheckEscalate BY <1>11, CheckEscalateWent DEF CheckEscalate
<1>12. CASE Reassign
    <2>1. LeadType' BY <1>12 DEF Reassign, LeadType
    <2> QED BY <1>12, <2>1, ReassignWent, CountType DEF Reassign
<1>13. CASE Load BY <1>13, LoadWent DEF Load
<1>14. CASE Send
    <2>1. out' \in [Runs -> Nat] /\ late' \in [Runs -> Nat] BY <1>14, CountType DEF Send
    <2>2. unwanted' \in Nat BY <1>14 DEF Send
    <2> QED BY <1>14, <2>1, <2>2, SendWent DEF Send
<1>15. CASE People BY <1>15, PeopleType DEF LeadType
<1>16. ASSUME NEW v \in Voices, Guard(v) PROVE TypeOK' BY <1>16, GuardWent DEF Guard
<1>17. ASSUME NEW v \in Voices, Place(v) PROVE TypeOK'
    BY <1>17, PlaceWent, CountType DEF Place
<1>18. ASSUME NEW p \in {"intake", "speed"}, Publish(p) PROVE TypeOK'
    <2>1. BoardTypeOK' BY <1>18, PublishWent DEF InsertEvent, BoardTypeOK
    <2> QED BY <1>18, <2>1, PublishWent DEF Publish
<1>19. ASSUME NEW p \in {"intake", "speed"}, Escalate(p) PROVE TypeOK'
    <2>1. KeyOf(p) \in Keys BY <1>19, AfterBridgeOK DEF Escalate
    <2>2. escalations[KeyOf(p)] + 1 \in Nat BY <2>1 DEF BoardTypeOK
    <2>3. BoardTypeOK' BY <1>19, <2>1, <2>2 DEF Escalate, RecordEscalation, BoardTypeOK
    <2> QED BY <1>19, <2>3, EscalateInto DEF Escalate
<1>20. ASSUME NEW p \in {"intake", "speed"}, QueueException(p) PROVE TypeOK'
    <2>1. KeyOf(p) \in Keys BY <1>20, AfterBridgeOK DEF QueueException
    <2>2. BoardTypeOK' BY <1>20, <2>1 DEF QueueException, RecordException, BoardTypeOK
    <2> QED BY <1>20, <2>2, QueueWent DEF QueueException
<1>21. ASSUME NEW p \in {"intake", "speed"}, Swallow(p) PROVE TypeOK'
    BY <1>21, SwallowWent DEF Swallow
<1>22. ASSUME NEW p \in Runs, Start(p) PROVE TypeOK' BY <1>22, StartWent DEF Start
<1>23. ASSUME NEW p \in Runs, Die(p) PROVE TypeOK' BY <1>23, DieWent DEF Die
<1>24. ASSUME NEW p \in Runs, GiveUp(p) PROVE TypeOK' BY <1>24, GiveUpWent DEF GiveUp
<1>25. ASSUME NEW e \in Events, Hear(e) PROVE TypeOK' BY <1>25, HearWent DEF Hear
<1>26. CASE UNCHANGED vars BY <1>26 DEF vars
<1> QED
    BY <1>4, <1>5, <1>6, <1>7, <1>8, <1>9, <1>10, <1>11, <1>12, <1>13, <1>14, <1>15, <1>16,
       <1>17, <1>18, <1>19, <1>20, <1>21, <1>22, <1>23, <1>24, <1>25, <1>26
    DEF Next, Intake, Speed, Touch, Bridge

-----------------------------------------------------------------------------
(* The lead: handled once and for all.                                     *)

LEMMA LeadStep ==
    ASSUME TypeOK, [Next]_vars
    PROVE  /\ lead.status \in Closed => lead'.status \in Closed
           /\ lead.contacted => lead'.contacted
           /\ optedOut => optedOut'
<1> DEFINE Kept == /\ lead.status \in Closed => lead'.status \in Closed
                   /\ lead.contacted => lead'.contacted
<1>1. lead \in [status : {"new", "contacted"} \cup Closed, owner : Reps \cup {NoRep},
                contacted : BOOLEAN]
    BY DEF TypeOK
<1>2. UNCHANGED <<lead, optedOut>> => Kept /\ (optedOut => optedOut') OBVIOUS
<1>3. CASE Qualify BY <1>1, <1>3 DEF Qualify, Advanced, Closed
<1>4. CASE Assign BY <1>2, <1>4 DEF Assign
<1>5. CASE SetPicked BY <1>1, <1>5 DEF SetPicked
<1>6. CASE Ack BY <1>2, <1>6 DEF Ack
<1>7. CASE Alert \/ CheckOverdue \/ EmitOverdue \/ CheckEscalate
    BY <1>2, <1>7 DEF Alert, CheckOverdue, EmitOverdue, CheckEscalate
<1>8. CASE Reassign BY <1>1, <1>8 DEF Reassign
<1>9. CASE Load \/ Send BY <1>2, <1>9 DEF Load, Send
<1>10. CASE People
    <2>1. CASE \E open \in BOOLEAN : Contact(open) BY <1>1, <2>1 DEF Contact
    <2>2. CASE OptOut BY <2>2 DEF OptOut
    <2>3. CASE MarkLost BY <1>1, <2>3 DEF MarkLost, Closed
    <2>4. CASE Convert BY <1>1, <2>4 DEF Convert, Closed
    <2>5. CASE \E r \in Reps : BookIntake(r) BY <1>1, <2>5 DEF BookIntake
    <2>6. CASE \E r \in Reps \cup {NoRep} : AssignOwner(r) BY <1>1, <2>6 DEF AssignOwner
    <2> QED BY <1>10, <2>1, <2>2, <2>3, <2>4, <2>5, <2>6 DEF People, LogContact, Reply
<1>11. CASE \E v \in Voices : Guard(v) \/ Place(v) BY <1>2, <1>11 DEF Guard, Place
<1>12. CASE \E p \in {"intake", "speed"} : Bridge(p) \/ Swallow(p)
    BY <1>2, <1>12 DEF Bridge, Publish, Escalate, QueueException, Swallow
<1>13. CASE \E p \in Runs : Start(p) \/ Die(p) \/ GiveUp(p)
    BY <1>2, <1>13 DEF Start, Die, GiveUp
<1>14. CASE \E e \in Events : Hear(e) BY <1>2, <1>14 DEF Hear
<1>15. CASE UNCHANGED vars BY <1>2, <1>15 DEF vars
<1> QED
    BY <1>3, <1>4, <1>5, <1>6, <1>7, <1>8, <1>9, <1>10, <1>11, <1>12, <1>13, <1>14, <1>15
    DEF Next, Intake, Speed, Touch

LEMMA HandledStays == ASSUME TypeOK, [Next]_vars, Handled PROVE Handled'
<1>1. Handled <=> lead.contacted \/ lead.status \in Closed BY DEF Handled, Open
<1>2. Handled' <=> lead'.contacted \/ lead'.status \in Closed BY DEF Handled, Open, Closed
<1> QED BY <1>1, <1>2, LeadStep

\* For any number of reps, runs and faults a lead is always a row of its type, and so are the
\* runs of it and what they leave behind: agents/src/functions/lead-intake.ts:265.
THEOREM LeadTyped == Spec => []TypeOK
<1>1. Init => TypeOK BY InitType
<1>2. TypeOK /\ [Next]_vars => TypeOK' BY NextType
<1> QED BY <1>1, <1>2, PTL DEF Spec

\* No run takes a lead back from won or lost (lead-intake.ts:366 advances the status it finds).
THEOREM ClosedStays == Spec => ClosedStaysClosed
<1>1. TypeOK /\ [Next]_vars => [lead.status \in Closed => lead'.status \in Closed]_vars
    BY LeadStep
<1> QED BY <1>1, LeadTyped, PTL DEF Spec, ClosedStaysClosed

-----------------------------------------------------------------------------
(* The board.                                                              *)

\* Who publishes what: the breach is the speed run's.
Lanes == /\ run["intake"].step # "bridgeBreach"
         /\ run["speed"].step \notin {"bridgeAssigned", "bridgeTouch"}

LEMMA LanesStep == ASSUME TypeOK, Lanes, [Next]_vars PROVE Lanes'
<1> USE RunsNamed DEF Lanes, Went
<1>1. CASE Qualify BY <1>1, QualifyWent
<1>2. CASE Assign BY <1>2, AssignWent
<1>3. CASE SetPicked BY <1>3, SetPickedWent
<1>4. CASE Ack BY <1>4, AckWent
<1>5. CASE Alert BY <1>5, AlertWent
<1>6. CASE CheckOverdue BY <1>6, CheckOverdueWent
<1>7. CASE EmitOverdue BY <1>7, EmitOverdueWent
<1>8. CASE CheckEscalate BY <1>8, CheckEscalateWent
<1>9. CASE Reassign BY <1>9, ReassignWent
<1>10. CASE Load BY <1>10, LoadWent
<1>11. CASE Send BY <1>11, SendWent
<1>12. CASE People BY <1>12, PeopleType
<1>13. ASSUME NEW v \in Voices, Guard(v) PROVE Lanes' BY <1>13, GuardWent
<1>14. ASSUME NEW v \in Voices, Place(v) PROVE Lanes' BY <1>14, PlaceWent
<1>15. ASSUME NEW p \in {"intake", "speed"}, Bridge(p) \/ Swallow(p) PROVE Lanes'
    <2>1. run[p].step \in Bridges
        BY <1>15 DEF Bridge, Publish, Escalate, QueueException, Swallow
    <2>2. AfterBridge(p) \notin Bridges BY <2>1, AfterBridgeOK DEF Bridges
    <2>3. /\ \A q \in Runs \ {p} : run'[q] = run[q]
          /\ run'[p].step \in {run[p].step, AfterBridge(p), "cancelled"}
        BY <1>15, PublishWent, EscalateInto, QueueWent, SwallowWent DEF Bridge, Into
    <2> QED BY <2>2, <2>3 DEF Bridges
<1>16. ASSUME NEW p \in Runs, Start(p) PROVE Lanes' BY <1>16, StartWent
<1>17. ASSUME NEW p \in Runs, Die(p) PROVE Lanes' BY <1>17, DieWent
<1>18. ASSUME NEW p \in Runs, GiveUp(p) PROVE Lanes' BY <1>18, GiveUpWent
<1>19. ASSUME NEW e \in Events, Hear(e) PROVE Lanes'
    <2>1. \A q \in Runs : run'[q].step \in {run[q].step, "cancelled"} BY <1>19, HearWent
    <2> QED BY <2>1
<1>20. CASE UNCHANGED vars BY <1>20 DEF vars
<1> QED
    BY <1>1, <1>2, <1>3, <1>4, <1>5, <1>6, <1>7, <1>8, <1>9, <1>10, <1>11, <1>12, <1>13,
       <1>14, <1>15, <1>16, <1>17, <1>18, <1>19, <1>20
    DEF Next, Intake, Speed, Touch

\* A key is raised once it is known and not raised yet, and queued once raised; between the
\* transactions of a step nobody else raises its key.
RaiseInv ==
    /\ \A k \in Keys : escalations[k] \in {0, 1} /\ (k \notin received => escalations[k] = 0)
    /\ \A k \in exceptions : escalations[k] = 1
    /\ \A p \in {"intake", "speed"} : run[p].step \in Bridges =>
         /\ run[p].at = "escalate" => KeyOf(p) \in received /\ escalations[KeyOf(p)] = 0
         /\ run[p].at = "queue" => escalations[KeyOf(p)] = 1

\* A step that leaves the board alone, and the runs where nothing is half published.
Calm == /\ board' = board
        /\ \A p \in {"intake", "speed"} :
             \/ run'[p].at \in {"begin", "picked"}
             \/ run'[p].step \notin Bridges
             \/ /\ run'[p].at = run[p].at
                /\ run'[p].step = run[p].step /\ run'[p].memo = run[p].memo

LEMMA SameKey ==
    ASSUME NEW p, run'[p].step = run[p].step, run'[p].memo = run[p].memo
    PROVE  KeyOf(p)' = KeyOf(p)
BY DEF KeyOf

LEMMA CalmRaises == ASSUME RaiseInv, Calm PROVE RaiseInv'
<1>1. escalations' = escalations /\ received' = received /\ exceptions' = exceptions
    BY DEF Calm, board
<1>2. ASSUME NEW p \in {"intake", "speed"}, run'[p].step \in Bridges,
             run'[p].at \in {"escalate", "queue"}
      PROVE  run[p].step \in Bridges /\ run[p].at = run'[p].at /\ KeyOf(p)' = KeyOf(p)
    BY <1>2, SameKey DEF Calm
<1> QED BY <1>1, <1>2 DEF RaiseInv

LEMMA CalmSteps ==
    ASSUME TypeOK, [Next]_vars
    PROVE  Calm \/ \E p \in {"intake", "speed"} : Bridge(p)
<1> USE RunsNamed DEF Calm, Went
<1>1. CASE Qualify BY <1>1, QualifyWent DEF Qualify
<1>2. CASE Assign BY <1>2, AssignWent DEF Assign
<1>3. CASE SetPicked BY <1>3, SetPickedWent DEF SetPicked
<1>4. CASE Ack BY <1>4, AckWent DEF Ack
<1>5. CASE Alert BY <1>5, AlertWent DEF Alert
<1>6. CASE CheckOverdue BY <1>6, CheckOverdueWent DEF CheckOverdue
<1>7. CASE EmitOverdue BY <1>7, EmitOverdueWent DEF EmitOverdue
<1>8. CASE CheckEscalate BY <1>8, CheckEscalateWent DEF CheckEscalate
<1>9. CASE Reassign BY <1>9, ReassignWent DEF Reassign
<1>10. CASE Load BY <1>10, LoadWent DEF Load
<1>11. CASE Send BY <1>11, SendWent DEF Send
<1>12. CASE People BY <1>12, PeopleType
<1>13. ASSUME NEW v \in Voices, Guard(v) PROVE Calm BY <1>13, GuardWent DEF Guard
<1>14. ASSUME NEW v \in Voices, Place(v) PROVE Calm BY <1>14, PlaceWent DEF Place
<1>15. ASSUME NEW p \in {"intake", "speed"}, Swallow(p) PROVE Calm
    BY ZenonT(40), <1>15, SwallowWent DEF Swallow
<1>16. ASSUME NEW p \in Runs, Start(p) PROVE Calm
    <2>1. p \in {"intake", "speed"} => run'[p].step \notin Bridges
        BY <1>16, StartWent DEF Bridges
    <2> QED BY <1>16, <2>1, StartWent DEF Start
<1>17. ASSUME NEW p \in Runs, Die(p) PROVE Calm BY <1>17, DieWent DEF Die
<1>18. ASSUME NEW p \in Runs, GiveUp(p) PROVE Calm BY <1>18, GiveUpWent DEF GiveUp
<1>19. ASSUME NEW e \in Events, Hear(e) PROVE Calm
    <2>1. ASSUME NEW q \in {"intake", "speed"}
          PROVE  \/ run'[q].step = "cancelled"
                 \/ run'[q].at = run[q].at /\ run'[q].step = run[q].step
                    /\ run'[q].memo = run[q].memo
        BY <1>19, HearWent
    <2>2. board' = board BY <1>19 DEF Hear
    <2> QED BY <2>1, <2>2 DEF Bridges
<1>20. CASE UNCHANGED vars BY <1>20 DEF vars
<1> QED
    BY <1>1, <1>2, <1>3, <1>4, <1>5, <1>6, <1>7, <1>8, <1>9, <1>10, <1>11, <1>12, <1>13,
       <1>14, <1>15, <1>16, <1>17, <1>18, <1>19, <1>20
    DEF Next, Intake, Speed, Touch

\* The two runs that publish never have the same key at hand.
LEMMA KeysApart ==
    ASSUME Lanes, NEW p \in {"intake", "speed"}, NEW q \in {"intake", "speed"} \ {p},
           run[p].step \in Bridges, run[q].step \in Bridges
    PROVE  KeyOf(p) # KeyOf(q)
BY DEF Lanes, Bridges, KeyOf

\* What a publishing step does to the board.
BoardStep(p) ==
    \/ board' = board
    \/ KeyOf(p) \in Keys \ received /\ InsertEvent(KeyOf(p))
    \/ /\ KeyOf(p) \in received \cap Keys /\ escalations[KeyOf(p)] = 0
       /\ RecordEscalation(KeyOf(p))
    \/ KeyOf(p) \in Keys /\ escalations[KeyOf(p)] = 1 /\ RecordException(KeyOf(p))

LEMMA BridgeBoard ==
    ASSUME TypeOK, RaiseInv, NEW p \in {"intake", "speed"}, Bridge(p)
    PROVE  BoardStep(p)
<1> USE RunsNamed DEF BoardStep
<1>1. CASE Publish(p) BY <1>1, PublishWent
<1>2. CASE Escalate(p)
    <2>1. KeyOf(p) \in Keys BY <1>2, AfterBridgeOK DEF Escalate
    <2> QED BY <1>2, <2>1 DEF Escalate, RaiseInv
<1>3. CASE QueueException(p)
    <2>1. KeyOf(p) \in Keys BY <1>3, AfterBridgeOK DEF QueueException
    <2> QED BY <1>3, <2>1 DEF QueueException, RaiseInv
<1> QED BY <1>1, <1>2, <1>3 DEF Bridge

LEMMA BridgeRaises ==
    ASSUME TypeOK, Lanes, RaiseInv, NEW p \in {"intake", "speed"}, Bridge(p)
    PROVE  RaiseInv'
<1> USE RunsNamed
<1>1. BoardTypeOK /\ run[p].step \in Bridges
    BY DEF TypeOK, Bridge, Publish, Escalate, QueueException
<1> DEFINE k == KeyOf(p)
<1>2. k \in Keys BY <1>1, AfterBridgeOK
<1>3. /\ \A q \in {"intake", "speed"} \ {p} : run'[q] = run[q]
      /\ \/ run'[p].at = "begin"
         \/ /\ run'[p].step = run[p].step /\ run'[p].memo = run[p].memo
            /\ \/ run'[p].at = "escalate" /\ k \notin received /\ InsertEvent(k)
               \/ run'[p].at = "queue" /\ escalations[k] = 0 /\ RecordEscalation(k)
    <2>1. CASE Publish(p) BY <2>1, PublishWent DEF Went, Into
    <2>2. CASE Escalate(p) BY <2>2, EscalateInto DEF Into, Escalate, RaiseInv
    <2>3. CASE QueueException(p) BY <2>3, QueueWent DEF Went
    <2> QED BY <2>1, <2>2, <2>3 DEF Bridge
<1>4. /\ received \subseteq received'
      /\ \A j \in Keys \ {k} : escalations'[j] = escalations[j]
      /\ escalations' \in [Keys -> Nat]
      /\ received' \subseteq received \cup {k}
    BY <1>1, <1>2, BridgeBoard, NextType
    DEF BoardStep, board, InsertEvent, RecordEscalation, RecordException, BoardTypeOK
<1>5. \A j \in Keys : escalations'[j] \in {0, 1} /\ (j \notin received' => escalations'[j] = 0)
    <2>1. escalations'[k] \in {0, 1} /\ (k \notin received' => escalations'[k] = 0)
        BY <1>1, <1>2, BridgeBoard
        DEF BoardStep, board, InsertEvent, RecordEscalation, RecordException, BoardTypeOK,
            RaiseInv
    <2> QED BY <1>4, <2>1 DEF RaiseInv
<1>6. \A j \in exceptions' : escalations'[j] = 1
    BY <1>1, <1>2, BridgeBoard
    DEF BoardStep, board, InsertEvent, RecordEscalation, RecordException, BoardTypeOK,
        RaiseInv
<1>7. ASSUME NEW q \in {"intake", "speed"}, run'[q].step \in Bridges
      PROVE  /\ run'[q].at = "escalate" =>
                  KeyOf(q)' \in received' /\ escalations'[KeyOf(q)'] = 0
             /\ run'[q].at = "queue" => escalations'[KeyOf(q)'] = 1
    <2>1. CASE q = p
        <3>1. CASE run'[p].at = "begin" BY <2>1, <3>1
        <3>2. CASE /\ run'[p].step = run[p].step /\ run'[p].memo = run[p].memo
                   /\ run'[p].at = "escalate" /\ k \notin received /\ InsertEvent(k)
            BY <1>2, <2>1, <3>2, SameKey DEF InsertEvent, RaiseInv
        <3>3. CASE /\ run'[p].step = run[p].step /\ run'[p].memo = run[p].memo
                   /\ run'[p].at = "queue" /\ escalations[k] = 0 /\ RecordEscalation(k)
            BY <1>1, <1>2, <2>1, <3>3, SameKey DEF RecordEscalation, BoardTypeOK
        <3> QED BY <1>3, <3>1, <3>2, <3>3
    <2>2. CASE q # p
        <3>1. run'[q] = run[q] BY <1>3, <2>2
        <3>2. KeyOf(q)' = KeyOf(q) BY <3>1, SameKey
        <3>3. KeyOf(q) # k BY <1>1, <1>7, <2>2, <3>1, KeysApart
        <3>4. KeyOf(q) \in Keys BY <1>7, <3>1, AfterBridgeOK
        <3> QED BY <1>4, <1>7, <3>1, <3>2, <3>3, <3>4 DEF RaiseInv
    <2> QED BY <2>1, <2>2
<1> QED BY <1>5, <1>6, <1>7 DEF RaiseInv

LEMMA RaiseStep == ASSUME TypeOK, Lanes, RaiseInv, [Next]_vars PROVE RaiseInv'
BY CalmSteps, CalmRaises, BridgeRaises

LEMMA InitRaise == Init => Lanes /\ RaiseInv
BY RunsNamed DEF Init, BoardInit, Lanes, RaiseInv, Bridges

-----------------------------------------------------------------------------
(* The tables of the bus implement the board.                              *)

LEMMA BoardStepMapped ==
    ASSUME BoardTypeOK, NEW p \in {"intake", "speed"}, BoardStep(p)
    PROVE  [B!Next]_<<received, escalations, exceptions>>
<1> DEFINE k == KeyOf(p)
<1>1. CASE board' = board BY <1>1 DEF board
<1>2. CASE k \in Keys \ received /\ InsertEvent(k)
    <2>1. B!Know(k) BY <1>2 DEF InsertEvent, B!Know
    <2> QED BY <1>2, <2>1 DEF B!Next
<1>3. CASE k \in received \cap Keys /\ escalations[k] = 0 /\ RecordEscalation(k)
    <2>1. escalations[k] + 1 = 1 BY <1>3
    <2>2. B!Raise(k) BY <1>3, <2>1 DEF RecordEscalation, B!Raise, BoardTypeOK
    <2> QED BY <1>3, <2>2 DEF B!Next
<1>4. CASE k \in Keys /\ escalations[k] = 1 /\ RecordException(k)
    <2>1. B!Queue(k) BY <1>4 DEF RecordException, B!Queue
    <2> QED BY <1>4, <2>1 DEF B!Next
<1> HIDE DEF k
<1>5. BoardStep(p) <=>
        \/ board' = board
        \/ k \in Keys \ received /\ InsertEvent(k)
        \/ k \in received \cap Keys /\ escalations[k] = 0 /\ RecordEscalation(k)
        \/ k \in Keys /\ escalations[k] = 1 /\ RecordException(k)
    BY DEF BoardStep, k
<1> QED BY <1>1, <1>2, <1>3, <1>4, <1>5

\* Whatever dies, is repeated or runs at once, the tables the bus writes in transactions of
\* their own implement the board: one event and at most one escalation for a key, and in the
\* queue only what was escalated (orchestrator/src/bridge.ts:20).
THEOREM BoardImplemented == Spec => ImplementsBoard
<1> DEFINE Inv == TypeOK /\ Lanes /\ RaiseInv
<1>1. Init => Inv BY InitType, InitRaise
<1>2. Inv /\ [Next]_vars => Inv' BY NextType, LanesStep, RaiseStep
<1>3. Init => B!Init BY DEF Init, BoardInit, B!Init
<1>4. Inv /\ [Next]_vars => [B!Next]_<<received, escalations, exceptions>>
    <2> SUFFICES ASSUME Inv, [Next]_vars
                 PROVE  [B!Next]_<<received, escalations, exceptions>>
        OBVIOUS
    <2>1. BoardTypeOK BY DEF TypeOK
    <2>2. CASE Calm BY <2>2 DEF Calm, board
    <2>3. ASSUME NEW p \in {"intake", "speed"}, Bridge(p)
          PROVE  [B!Next]_<<received, escalations, exceptions>>
        BY <2>1, <2>3, BridgeBoard, BoardStepMapped
    <2> QED BY <2>2, <2>3, CalmSteps
<1> HIDE DEF Inv
<1> QED BY <1>1, <1>2, <1>3, <1>4, PTL DEF Spec, ImplementsBoard, B!Spec

-----------------------------------------------------------------------------
(* What is published agrees with the row.                                  *)

Assignment == {"assigned", "assignment_failed"}

\* The overdue event precedes the breach, and the assignment is published once, as it came out.
TalkInv ==
    /\ "sla_breach" \in received => "overdue" \in audit
    /\ run["speed"].step = "bridgeBreach" => "overdue" \in audit
    /\ run["intake"].step \in {"idle", "qualify", "assign"} => received \cap Assignment = {}
    /\ run["intake"].step = "bridgeAssigned" => received \cap Assignment \subseteq {KeyOf("intake")}
    /\ ~(Assignment \subseteq received)

\* A step where nothing is published and the two runs stay, end or go on past assignment.
Quiet ==
    /\ received' = received /\ audit \subseteq audit'
    /\ \/ run'["speed"].step = run["speed"].step
       \/ run'["speed"].step # "bridgeBreach"
    /\ \/ run'["intake"].step = run["intake"].step /\ run'["intake"].memo = run["intake"].memo
       \/ run'["intake"].step \notin {"idle", "qualify", "assign", "bridgeAssigned"}
       \/ /\ run["intake"].step \in {"idle", "qualify", "assign"}
          /\ run'["intake"].step \in {"qualify", "assign", "bridgeAssigned"}

LEMMA QuietTalk == ASSUME TalkInv, Quiet PROVE TalkInv'
<1>1. CASE run'["intake"].step = run["intake"].step /\ run'["intake"].memo = run["intake"].memo
    <2>1. KeyOf("intake")' = KeyOf("intake") BY <1>1, SameKey
    <2> QED BY <1>1, <2>1 DEF TalkInv, Quiet, Assignment
<1>2. CASE run'["intake"].step \notin {"idle", "qualify", "assign", "bridgeAssigned"}
    BY <1>2 DEF TalkInv, Quiet, Assignment
<1>3. CASE /\ run["intake"].step \in {"idle", "qualify", "assign"}
           /\ run'["intake"].step \in {"qualify", "assign", "bridgeAssigned"}
    BY <1>3 DEF TalkInv, Quiet, Assignment
<1> QED BY <1>1, <1>2, <1>3 DEF Quiet

LEMMA TalkStep == ASSUME TypeOK, Lanes, TalkInv, [Next]_vars PROVE TalkInv'
<1> USE RunsNamed DEF Went
<1>1. CASE Qualify
    <2>1. Quiet BY <1>1, QualifyWent DEF Qualify, Begins, Quiet, board
    <2> QED BY <2>1, QuietTalk
<1>2. CASE Assign
    <2>1. Quiet BY <1>2, AssignWent DEF Assign, Begins, Quiet, board
    <2> QED BY <2>1, QuietTalk
<1>3. CASE SetPicked
    <2>1. Quiet BY <1>3, SetPickedWent DEF SetPicked, Quiet, board
    <2> QED BY <2>1, QuietTalk
<1>4. CASE Ack
    <2>1. Quiet BY <1>4, AckWent DEF Ack, Begins, Quiet, board
    <2> QED BY <2>1, QuietTalk
<1>5. CASE Alert
    <2>1. Quiet BY <1>5, AlertWent DEF Alert, Quiet, board
    <2> QED BY <2>1, QuietTalk
<1>6. CASE CheckOverdue
    <2>1. Quiet BY <1>6, CheckOverdueWent DEF CheckOverdue, Quiet, board
    <2> QED BY <2>1, QuietTalk
<1>7. CASE EmitOverdue
    <2>1. /\ "overdue" \in audit' /\ received' = received /\ run'["intake"] = run["intake"]
        BY <1>7, EmitOverdueWent DEF EmitOverdue, board
    <2>2. KeyOf("intake")' = KeyOf("intake") BY <2>1, SameKey
    <2> QED BY <2>1, <2>2 DEF TalkInv, Assignment
<1>8. CASE CheckEscalate
    <2>1. Quiet BY <1>8, CheckEscalateWent DEF CheckEscalate, Quiet, board
    <2> QED BY <2>1, QuietTalk
<1>9. CASE Reassign
    <2>1. Quiet BY <1>9, ReassignWent DEF Reassign, Quiet, board
    <2> QED BY <2>1, QuietTalk
<1>10. CASE Load
    <2>1. Quiet BY <1>10, LoadWent DEF Load, Quiet, board
    <2> QED BY <2>1, QuietTalk
<1>11. CASE Send
    <2>1. Quiet BY <1>11, SendWent DEF Send, Quiet, board
    <2> QED BY <2>1, QuietTalk
<1>12. CASE People
    <2>1. Quiet BY <1>12, PeopleType DEF Quiet, board
    <2> QED BY <2>1, QuietTalk
<1>13. ASSUME NEW v \in Voices, Guard(v) \/ Place(v) PROVE TalkInv'
    <2>1. Quiet BY <1>13, GuardWent, PlaceWent DEF Guard, Place, Quiet, board
    <2> QED BY <2>1, QuietTalk
<1>14. ASSUME NEW p \in {"intake", "speed"}, Bridge(p) \/ Swallow(p) PROVE TalkInv'
    <2>1. run[p].step \in Bridges
        BY <1>14 DEF Bridge, Publish, Escalate, QueueException, Swallow
    <2>2. AfterBridge(p) \in {"ack", "done", "checkEscalate"} BY <2>1, AfterBridgeOK
    <2>3. /\ \A q \in Runs \ {p} : run'[q] = run[q]
          /\ run'[p].step \in {run[p].step, AfterBridge(p), "cancelled"}
          /\ run'[p].memo = run[p].memo
        BY <1>14, PublishWent, EscalateInto, QueueWent, SwallowWent DEF Bridge, Into
    <2>4. UNCHANGED audit
        BY <1>14 DEF Bridge, Publish, Escalate, QueueException, Swallow
    <2>5. CASE received' = received
        <3>1. Quiet BY <2>2, <2>3, <2>4, <2>5 DEF Quiet
        <3> QED BY <3>1, QuietTalk
    <2>6. CASE received' = received \cup {KeyOf(p)}
        <3>1. p = "speed" => run[p].step = "bridgeBreach" /\ KeyOf(p) = "sla_breach"
            BY <2>1 DEF Lanes, Bridges, KeyOf
        <3>2. CASE p = "speed"
            <4>1. KeyOf("intake")' = KeyOf("intake") BY <2>3, <3>2, SameKey
            <4> QED BY <2>2, <2>3, <2>4, <2>6, <3>1, <3>2, <4>1 DEF TalkInv, Assignment
        <3>3. CASE p = "intake" /\ run[p].step = "bridgeAssigned"
            <4>1. KeyOf(p) # "sla_breach" BY <3>3 DEF KeyOf
            <4>2. run'[p].step = run[p].step => KeyOf(p)' = KeyOf(p) BY <2>3, SameKey
            <4>3. received' \cap Assignment \subseteq {KeyOf(p)} BY <2>6, <3>3 DEF TalkInv
            <4> QED BY <2>2, <2>3, <2>4, <2>6, <3>3, <4>1, <4>2, <4>3 DEF TalkInv, Assignment
        <3>4. CASE p = "intake" /\ run[p].step = "bridgeTouch"
            <4>1. KeyOf(p) = "first_touch" BY <3>4 DEF KeyOf
            <4> QED BY <2>2, <2>3, <2>4, <2>6, <3>4, <4>1 DEF TalkInv, Assignment
        <3> QED BY <2>1, <3>2, <3>3, <3>4 DEF Lanes, Bridges
    <2>7. received' \in {received, received \cup {KeyOf(p)}}
        BY <1>14, PublishWent
        DEF Bridge, Escalate, QueueException, Swallow, board, InsertEvent, RecordEscalation,
            RecordException
    <2> QED BY <2>5, <2>6, <2>7
<1>15. ASSUME NEW p \in Runs, Start(p) PROVE TalkInv'
    <2>1. Quiet BY <1>15, StartWent DEF Start, Quiet, board
    <2> QED BY <2>1, QuietTalk
<1>16. ASSUME NEW p \in Runs, Die(p) PROVE TalkInv'
    <2>1. Quiet BY <1>16, DieWent DEF Die, Quiet, board
    <2> QED BY <2>1, QuietTalk
<1>17. ASSUME NEW p \in Runs, GiveUp(p) PROVE TalkInv'
    <2>1. Quiet BY <1>17, GiveUpWent DEF GiveUp, Quiet, board
    <2> QED BY <2>1, QuietTalk
<1>18. ASSUME NEW e \in Events, Hear(e) PROVE TalkInv'
    <2>1. Quiet BY <1>18, HearWent DEF Hear, Quiet, board
    <2> QED BY <2>1, QuietTalk
<1>19. CASE UNCHANGED vars
    <2>1. Quiet BY <1>19 DEF vars, Quiet, board
    <2> QED BY <2>1, QuietTalk
<1> QED
    BY <1>1, <1>2, <1>3, <1>4, <1>5, <1>6, <1>7, <1>8, <1>9, <1>10, <1>11, <1>12, <1>13,
       <1>14, <1>15, <1>16, <1>17, <1>18, <1>19
    DEF Next, Intake, Speed, Touch

-----------------------------------------------------------------------------
(* How often something leaves, and what comes too late.                    *)

BeforeOut == {"idle", "qualify", "assign", "bridgeAssigned", "ack", "alert", "guard", "place"}
Touching  == {"idle", "load", "send"}

\* Until its message has left a run let out none but those it repeats after a death; the
\* cadence is a touch ahead of what it let out.
OutOK(p) ==
    /\ out[p] <= Planned(p) + faults
    /\ p # "cadence" /\ run[p].step \in BeforeOut => out[p] <= faults
    /\ p = "cadence" /\ run[p].step \in Touching => out[p] <= run[p].touch - 1 + faults
OutInv == \A p \in Runs : OutOK(p)

\* Until a run has taken its step towards a person it took none too late but those it repeats.
LateOK(p) ==
    /\ late[p] <= 1 + faults
    /\ run[p].step \notin Over \cup {"load"} => late[p] <= faults
\* The cadence, which goes on after a touch, finds the lead handled and the consent gone.
LateInv ==
    /\ \A p \in Runs : LateOK(p)
    /\ late["cadence"] > 0 => Handled
    /\ unwanted <= 1 + faults
    /\ run["cadence"].step = "send" => unwanted <= faults
    /\ unwanted > 0 => optedOut

\* A run from which nothing leaves in this step.
Mute(q) ==
    /\ out'[q] = out[q]
    /\ q # "cadence" /\ run'[q].step \in BeforeOut => run[q].step \in BeforeOut
    /\ q = "cadence" /\ run'[q].step \in Touching =>
         run[q].step \in Touching /\ run[q].touch <= run'[q].touch
\* One that takes no step towards a person.
Still(q) ==
    /\ late'[q] = late[q]
    /\ run'[q].step \notin Over \cup {"load"} => run[q].step \notin Over \cup {"load"}
Silent == /\ \A q \in Runs : Mute(q) /\ Still(q)
          /\ run'["cadence"].step = "send" => run["cadence"].step = "send"
          /\ UNCHANGED unwanted /\ faults <= faults'

LEMMA MuteOK ==
    ASSUME TypeOK, TypeOK', NEW q \in Runs, Mute(q), faults <= faults', OutOK(q)
    PROVE  OutOK(q)'
<1>1. faults \in Nat /\ faults' \in Nat /\ out[q] \in Nat /\ out'[q] \in Nat
    BY FollowUpAssumption DEF TypeOK
<1>2. run[q].touch \in Nat /\ run'[q].touch \in Nat
    BY FollowUpAssumption DEF TypeOK, RunRow
<1>3. Planned(q) \in Nat BY FollowUpAssumption DEF Planned
<1> QED BY <1>1, <1>2, <1>3 DEF OutOK, Mute, Planned

LEMMA StillOK ==
    ASSUME TypeOK, TypeOK', NEW q \in Runs, Still(q), faults <= faults', LateOK(q)
    PROVE  LateOK(q)'
<1>1. faults \in Nat /\ faults' \in Nat /\ late[q] \in Nat /\ late'[q] \in Nat
    BY FollowUpAssumption DEF TypeOK
<1> QED BY <1>1 DEF LateOK, Still, Over

\* A bound by a number holds for a greater one.
LEMMA Upward ==
    ASSUME NEW u \in Nat, NEW a \in Nat, NEW b \in Nat, a <= b
    PROVE  /\ u <= a => u <= b
           /\ u <= 1 + a => u <= 1 + b
OBVIOUS

LEMMA SilentOut ==
    ASSUME TypeOK, OutInv, LateInv, [Next]_vars, Silent PROVE OutInv' /\ LateInv'
<1>1. TypeOK' BY NextType
<1>2. OutInv' BY <1>1, MuteOK DEF OutInv, Silent
<1>3. \A q \in Runs : LateOK(q)' BY <1>1, StillOK DEF LateInv, Silent
<1>4. late'["cadence"] > 0 => Handled'
    BY RunsNamed, HandledStays DEF LateInv, Silent, Still
<1>5. unwanted' > 0 => optedOut' BY LeadStep DEF LateInv, Silent
<1>6. /\ unwanted' <= 1 + faults'
      /\ run'["cadence"].step = "send" => unwanted' <= faults'
    <2>1. faults \in Nat /\ faults' \in Nat /\ unwanted \in Nat /\ unwanted' \in Nat
        BY <1>1, FollowUpAssumption DEF TypeOK
    <2>2. /\ unwanted <= 1 + faults
          /\ run["cadence"].step = "send" => unwanted <= faults
        BY DEF LateInv
    <2>3. /\ run'["cadence"].step = "send" => run["cadence"].step = "send"
          /\ unwanted' = unwanted /\ faults <= faults'
        BY DEF Silent
    <2>4. /\ unwanted <= faults => unwanted <= faults'
          /\ unwanted <= 1 + faults => unwanted <= 1 + faults'
        BY <2>1, <2>3, Upward
    <2> QED BY <2>2, <2>3, <2>4
<1> QED BY <1>2, <1>3, <1>4, <1>5, <1>6 DEF LateInv

\* What a recorded or repeated step leaves of the count of faults.
LEMMA WentFaults ==
    ASSUME TypeOK, NEW p \in Runs, NEW r, NEW step, Went(p, r, step)
    PROVE  faults <= faults' /\ faults \in Nat
BY FollowUpAssumption DEF TypeOK, Went

\* A step of p other than those that count is silent.
LEMMA WentSilent ==
    ASSUME TypeOK, NEW p \in Runs, p # "cadence", NEW r, NEW step, Went(p, r, step),
           UNCHANGED <<out, late, unwanted>>,
           run[p].step \notin Over \cup {"load"},
           step \in BeforeOut => run[p].step \in BeforeOut
    PROVE  Silent
<1>1. faults <= faults' BY WentFaults
<1>2. \A q \in Runs \ {p} : run'[q] = run[q] BY DEF Went
<1>3. run'[p].step \in {step, run[p].step, "cancelled"} BY DEF Went
<1>4. \A q \in Runs \ {p} : Mute(q) /\ Still(q)
    <2>1. ASSUME NEW q \in Runs PROVE run[q].touch <= run[q].touch
        BY FollowUpAssumption DEF TypeOK, RunRow
    <2> QED BY <1>2, <2>1 DEF Mute, Still
<1>5. Mute(p) /\ Still(p) BY <1>3 DEF Mute, Still, BeforeOut
<1> QED BY <1>1, <1>2, <1>4, <1>5, RunsNamed DEF Silent

LEMMA SilentSteps ==
    ASSUME TypeOK, [Next]_vars
    PROVE  Silent \/ Ack \/ Alert \/ Reassign \/ Load \/ Send \/ \E v \in Voices : Place(v)
<1> USE RunsNamed
<1>0. \A q \in Runs : run[q].touch <= run[q].touch BY FollowUpAssumption DEF TypeOK, RunRow
<1>00. faults \in Nat BY FollowUpAssumption DEF TypeOK
<1>1. CASE Qualify
    BY <1>1, QualifyWent, WentSilent DEF Qualify, Begins, BeforeOut, Over
<1>2. CASE Assign
    <2>1. UNCHANGED <<out, late, unwanted>> /\ run["intake"].step = "assign"
        BY <1>2 DEF Assign, Begins
    <2>2. ASSUME NEW why \in Reason,
                 Went("intake", [run["intake"] EXCEPT !.memo = why], "bridgeAssigned")
          PROVE  Silent
        BY <2>1, <2>2, WentSilent DEF BeforeOut, Over
    <2>3. CASE /\ faults' = faults /\ \A q \in Runs \ {"intake"} : run'[q] = run[q]
               /\ run'["intake"].step = "assign"
        <3>1. \A q \in Runs : Mute(q) /\ Still(q)
            BY <1>0, <2>1, <2>3 DEF Mute, Still, BeforeOut, Over
        <3> QED BY <1>00, <2>1, <2>3, <3>1 DEF Silent
    <2> QED BY <1>2, <2>2, <2>3, AssignWent
<1>3. CASE SetPicked
    BY <1>3, SetPickedWent, WentSilent DEF SetPicked, BeforeOut, Over
<1>4. CASE CheckOverdue
    <2>1. PICK step \in {"emit", "done"} : Went("speed", run["speed"], step)
        BY <1>4, CheckOverdueWent
    <2> QED BY <1>4, <2>1, WentSilent DEF CheckOverdue, Begins, BeforeOut, Over
<1>5. CASE EmitOverdue
    BY <1>5, EmitOverdueWent, WentSilent DEF EmitOverdue, Begins, BeforeOut, Over
<1>6. CASE CheckEscalate
    <2>1. PICK step \in {"reassign", "done"} : \E r \in RunRow : Went("speed", r, step)
        BY <1>6, CheckEscalateWent
    <2>2. PICK r \in RunRow : Went("speed", r, step) BY <2>1
    <2>3. step \notin BeforeOut /\ run["speed"].step \notin Over \cup {"load"}
        BY <1>6 DEF CheckEscalate, Begins, BeforeOut, Over
    <2>4. UNCHANGED <<out, late, unwanted>> BY <1>6 DEF CheckEscalate
    <2> QED BY <2>2, <2>3, <2>4, WentSilent
<1>7. CASE People
    <2>1. UNCHANGED <<run, out, late, unwanted, faults>> BY <1>7, PeopleType
    <2>2. \A q \in Runs : Mute(q) /\ Still(q) BY <1>0, <2>1 DEF Mute, Still
    <2> QED BY <1>00, <2>1, <2>2 DEF Silent
<1>8. ASSUME NEW v \in Voices, Guard(v) PROVE Silent
    <2>1. PICK step \in {"place", "done"} : Went(v, run[v], step) BY <1>8, GuardWent
    <2> QED BY <1>8, <2>1, WentSilent DEF Guard, Begins, BeforeOut, Over
<1>9. ASSUME NEW p \in {"intake", "speed"}, Bridge(p) \/ Swallow(p) PROVE Silent
    <2>1. run[p].step \in Bridges /\ UNCHANGED <<out, late, unwanted>>
        BY <1>9 DEF Bridge, Publish, Escalate, QueueException, Swallow
    <2>2. /\ \A q \in Runs \ {p} : run'[q] = run[q]
          /\ run'[p].step \in {run[p].step, AfterBridge(p), "cancelled"}
          /\ faults <= faults'
        BY <1>00, <1>9, PublishWent, EscalateInto, QueueWent, SwallowWent, WentFaults
        DEF Bridge, Into, Went
    <2>3. run'[p].step \in BeforeOut => run[p].step \in BeforeOut
        BY <2>1, <2>2 DEF Bridges, AfterBridge, BeforeOut
    <2>4. run[p].step \notin Over \cup {"load"} BY <2>1 DEF Bridges, Over
    <2>5. \A q \in Runs \ {p} : Mute(q) /\ Still(q) BY <1>0, <2>1, <2>2 DEF Mute, Still
    <2>6. Mute(p) /\ Still(p) BY <2>1, <2>3, <2>4 DEF Mute, Still
    <2> QED BY <2>1, <2>2, <2>5, <2>6 DEF Silent
<1>10. ASSUME NEW p \in Runs, Start(p) PROVE Silent
    <2>1. run[p].step = "idle" /\ UNCHANGED <<out, late, unwanted>> BY <1>10 DEF Start
    <2>2. \A q \in Runs \ {p} : Mute(q) /\ Still(q) BY <1>0, <1>10, <2>1, StartWent DEF Mute, Still
    <2>3. Mute(p) /\ Still(p)
        BY <1>0, <1>10, <2>1, StartWent DEF Mute, Still, BeforeOut, Touching, Over
    <2>4. run'["cadence"].step = "send" => run["cadence"].step = "send" BY <1>10, StartWent
    <2> QED BY <1>00, <1>10, <2>1, <2>2, <2>3, <2>4, StartWent DEF Silent
<1>11. ASSUME NEW p \in Runs, Die(p) PROVE Silent
    <2>1. \A q \in Runs : Mute(q) /\ Still(q) BY <1>0, <1>11, DieWent DEF Die, Mute, Still
    <2> QED BY <1>00, <1>11, <2>1, DieWent DEF Die, Silent
<1>12. ASSUME NEW p \in Runs, GiveUp(p) PROVE Silent
    <2>1. \A q \in Runs \ {p} : Mute(q) /\ Still(q)
        BY <1>0, <1>12, GiveUpWent DEF GiveUp, Mute, Still
    <2>2. Mute(p) /\ Still(p)
        BY <1>12, GiveUpWent DEF GiveUp, Mute, Still, BeforeOut, Touching, Over
    <2> QED BY <1>00, <1>12, <2>1, <2>2, GiveUpWent DEF GiveUp, Silent
<1>13. ASSUME NEW e \in Events, Hear(e) PROVE Silent
    <2>1. UNCHANGED <<out, late, unwanted>> BY <1>13 DEF Hear
    <2>2. ASSUME NEW q \in Runs PROVE Mute(q) /\ Still(q)
        BY <1>0, <1>13, <2>1, HearWent DEF Mute, Still, BeforeOut, Touching, Over
    <2> QED BY <1>00, <1>13, <2>1, <2>2, HearWent DEF Silent
<1>14. CASE UNCHANGED vars
    <2>1. \A q \in Runs : Mute(q) /\ Still(q) BY <1>0, <1>14 DEF vars, Mute, Still
    <2> QED BY <1>00, <1>14, <2>1 DEF vars, Silent
<1> QED
    BY <1>1, <1>2, <1>3, <1>4, <1>5, <1>6, <1>7, <1>8, <1>9, <1>10, <1>11, <1>12, <1>13,
       <1>14
    DEF Next, Intake, Speed, Touch

\* The runs other than the one whose step counts.
LEMMA OthersOK ==
    ASSUME TypeOK, TypeOK', OutInv, LateInv, NEW p \in Runs, faults <= faults',
           \A q \in Runs \ {p} : run'[q] = run[q] /\ out'[q] = out[q] /\ late'[q] = late[q]
    PROVE  \A q \in Runs \ {p} : OutOK(q)' /\ LateOK(q)'
<1> SUFFICES ASSUME NEW q \in Runs \ {p} PROVE OutOK(q)' /\ LateOK(q)'
    OBVIOUS
<1>1. run[q].touch <= run[q].touch BY FollowUpAssumption DEF TypeOK, RunRow
<1>2. Mute(q) /\ Still(q) BY <1>1 DEF Mute, Still
<1>3. OutOK(q) /\ LateOK(q) BY DEF OutInv, LateInv
<1> QED BY <1>2, <1>3, MuteOK, StillOK

\* A run lets its one message out: it was before it, and is past it unless it died.
LEMMA LetsOut ==
    ASSUME TypeOK, TypeOK', OutInv, NEW p \in Runs, p # "cadence",
           run[p].step \in BeforeOut, NEW r, NEW step, Went(p, r, step), step \notin BeforeOut,
           out'[p] \in {out[p], out[p] + 1}
    PROVE  OutOK(p)'
<1>1. faults \in Nat /\ faults' \in Nat /\ out[p] \in Nat /\ Planned(p) = 1
    BY FollowUpAssumption DEF TypeOK, Planned
<1>2. out[p] <= faults BY DEF OutInv, OutOK
<1>3. \/ faults' = faults /\ run'[p].step \notin BeforeOut
      \/ faults' = faults + 1
    BY DEF Went, BeforeOut
<1> QED BY <1>1, <1>2, <1>3 DEF OutOK, Planned

\* A run takes its one step towards a person, then ends unless it died.
LEMMA TakesLate ==
    ASSUME TypeOK, TypeOK', LateInv, NEW p \in Runs, run[p].step \notin Over \cup {"load"},
           NEW r, NEW step \in Over \cup {"load"}, Went(p, r, step),
           late'[p] \in {late[p], late[p] + 1}
    PROVE  LateOK(p)'
<1>1. faults \in Nat /\ faults' \in Nat /\ late[p] \in Nat BY FollowUpAssumption DEF TypeOK
<1>2. late[p] <= faults BY DEF LateInv, LateOK
<1>3. \/ faults' = faults /\ run'[p].step \in Over \cup {"load"}
      \/ faults' = faults + 1
    BY DEF Went, Over
<1> QED BY <1>1, <1>2, <1>3 DEF LateOK, Over

LEMMA LateStepIs ==
    ASSUME TypeOK, NEW p \in Runs, LateStep(p)
    PROVE  /\ \A q \in Runs \ {p} : late'[q] = late[q]
           /\ late'[p] \in {late[p], late[p] + 1}
           /\ late'[p] # late[p] => Handled
BY DEF LateStep, TypeOK

LEMMA LetOutIs ==
    ASSUME TypeOK, NEW p \in Runs, LetOut(p)
    PROVE  (\A q \in Runs \ {p} : out'[q] = out[q]) /\ out'[p] = out[p] + 1
BY DEF LetOut, TypeOK

\* The part of LateInv about the opt-out and the cadence, for the steps of the other runs.
LEMMA CadenceKept ==
    ASSUME TypeOK, TypeOK', LateInv, [Next]_vars, faults <= faults',
           run'["cadence"] = run["cadence"], late'["cadence"] = late["cadence"],
           unwanted' = unwanted, \A q \in Runs : LateOK(q)'
    PROVE  LateInv'
<1>1. faults \in Nat /\ faults' \in Nat /\ unwanted \in Nat /\ unwanted' \in Nat
    BY FollowUpAssumption DEF TypeOK
<1>2. unwanted <= 1 + faults /\ (run["cadence"].step = "send" => unwanted <= faults)
      /\ (unwanted > 0 => optedOut) /\ (late["cadence"] > 0 => Handled)
    BY DEF LateInv
<1>3. Handled => Handled' BY HandledStays
<1>4. optedOut => optedOut' BY LeadStep
<1>5. /\ unwanted <= faults => unwanted' <= faults'
      /\ unwanted <= 1 + faults => unwanted' <= 1 + faults'
    BY <1>1, Upward
<1> QED BY <1>2, <1>3, <1>4, <1>5 DEF LateInv

LEMMA CountStep ==
    ASSUME TypeOK, OutInv, LateInv, [Next]_vars PROVE OutInv' /\ LateInv'
<1> USE RunsNamed
<1>1. TypeOK' BY NextType
<1>2. CASE Silent BY <1>2, SilentOut
<1>3. CASE Ack
    <2>1. PICK v \in Verdict, step \in {"done", "bridgeTouch"} :
              Went("intake", [run["intake"] EXCEPT !.memo = v], step)
        BY <1>3, AckWent
    <2>2. UNCHANGED <<late, unwanted>> /\ run["intake"].step = "ack"
        BY <1>3 DEF Ack, Begins
    <2>3. /\ \A q \in Runs \ {"intake"} : out'[q] = out[q]
          /\ out'["intake"] \in {out["intake"], out["intake"] + 1}
        BY <1>3, AckWent, LetOutIs DEF LetOut
    <2>4. faults <= faults' /\ \A q \in Runs \ {"intake"} : run'[q] = run[q]
        BY <2>1, WentFaults DEF Went
    <2>5. \A q \in Runs \ {"intake"} : OutOK(q)' /\ LateOK(q)'
        BY <1>1, <2>2, <2>3, <2>4, OthersOK
    <2>6. OutOK("intake")'
        BY <1>1, <2>1, <2>2, <2>3, LetsOut DEF BeforeOut
    <2>7. Still("intake") BY <2>1, <2>2 DEF Still, Went, Over
    <2>8. LateOK("intake")' BY <1>1, <2>4, <2>7, StillOK DEF LateInv
    <2> QED BY <1>1, <2>2, <2>4, <2>5, <2>6, <2>8, CadenceKept DEF OutInv
<1>4. CASE Alert
    <2>1. Went("speed", run["speed"], "checkOverdue") BY <1>4, AlertWent
    <2>2. UNCHANGED <<late, unwanted>> /\ run["speed"].step = "alert"
        BY <1>4 DEF Alert, Begins
    <2>3. /\ \A q \in Runs \ {"speed"} : out'[q] = out[q]
          /\ out'["speed"] \in {out["speed"], out["speed"] + 1}
        BY <1>4, AlertWent, LetOutIs DEF LetOut
    <2>4. faults <= faults' /\ \A q \in Runs \ {"speed"} : run'[q] = run[q]
        BY <2>1, WentFaults DEF Went
    <2>5. \A q \in Runs \ {"speed"} : OutOK(q)' /\ LateOK(q)'
        BY <1>1, <2>2, <2>3, <2>4, OthersOK
    <2>6. OutOK("speed")'
        BY <1>1, <2>1, <2>2, <2>3, LetsOut DEF BeforeOut
    <2>7. Still("speed") BY <2>1, <2>2 DEF Still, Went, Over
    <2>8. LateOK("speed")' BY <1>1, <2>4, <2>7, StillOK DEF LateInv
    <2> QED BY <1>1, <2>2, <2>4, <2>5, <2>6, <2>8, CadenceKept DEF OutInv
<1>5. CASE Reassign
    <2>1. Went("speed", run["speed"], "done") BY <1>5, ReassignWent
    <2>2. UNCHANGED <<out, unwanted>> /\ run["speed"].step = "reassign" /\ LateStep("speed")
        BY <1>5 DEF Reassign, Begins
    <2>3. /\ \A q \in Runs \ {"speed"} : late'[q] = late[q]
          /\ late'["speed"] \in {late["speed"], late["speed"] + 1}
        BY <2>2, LateStepIs
    <2>4. faults <= faults' /\ \A q \in Runs \ {"speed"} : run'[q] = run[q]
        BY <2>1, WentFaults DEF Went
    <2>5. \A q \in Runs \ {"speed"} : OutOK(q)' /\ LateOK(q)'
        BY <1>1, <2>2, <2>3, <2>4, OthersOK
    <2>6. LateOK("speed")'
        BY <1>1, <2>1, <2>2, <2>3, TakesLate DEF Over
    <2>7. Mute("speed") BY <2>1, <2>2 DEF Mute, Went, BeforeOut
    <2>8. OutOK("speed")' BY <1>1, <2>4, <2>7, MuteOK DEF OutInv
    <2> QED BY <1>1, <2>2, <2>3, <2>4, <2>5, <2>6, <2>8, CadenceKept DEF OutInv
<1>6. ASSUME NEW v \in Voices, Place(v) PROVE OutInv' /\ LateInv'
    <2>1. Went(v, run[v], "done") BY <1>6, PlaceWent
    <2>2. UNCHANGED unwanted /\ run[v].step = "place" /\ LateStep(v) /\ LetOut(v)
        BY <1>6 DEF Place, Begins
    <2>3. /\ \A q \in Runs \ {v} : late'[q] = late[q] /\ out'[q] = out[q]
          /\ late'[v] \in {late[v], late[v] + 1} /\ out'[v] = out[v] + 1
        BY <2>2, LateStepIs, LetOutIs
    <2>4. faults <= faults' /\ \A q \in Runs \ {v} : run'[q] = run[q]
        BY <2>1, WentFaults DEF Went
    <2>5. \A q \in Runs \ {v} : OutOK(q)' /\ LateOK(q)'
        BY <1>1, <2>3, <2>4, OthersOK
    <2>6. LateOK(v)' BY <1>1, <2>1, <2>2, <2>3, TakesLate DEF Over
    <2>7. OutOK(v)' BY <1>1, <2>1, <2>2, <2>3, LetsOut DEF BeforeOut
    <2> QED BY <1>1, <2>2, <2>3, <2>4, <2>5, <2>6, <2>7, CadenceKept DEF OutInv
<1>7. CASE Load
    <2>1. PICK r \in RunRow, step \in {"done", "load", "send"} :
              /\ Went("cadence", r, step)
              /\ step = "send" => ~Handled /\ ~optedOut /\ r.touch = run["cadence"].touch
              /\ step = "load" => r.touch = run["cadence"].touch + 1
        BY <1>7, LoadWent
    <2>2. UNCHANGED <<lead, optedOut, out, late, unwanted>> /\ run["cadence"].step = "load"
        BY <1>7 DEF Load, Begins
    <2>3. /\ faults <= faults' /\ faults \in Nat /\ faults' \in Nat
          /\ \A q \in Runs \ {"cadence"} : run'[q] = run[q]
        BY <1>1, <2>1, WentFaults, FollowUpAssumption DEF Went, TypeOK
    <2>4. \A q \in Runs \ {"cadence"} : OutOK(q)' /\ LateOK(q)'
        BY <1>1, <2>2, <2>3, OthersOK
    <2>5. run["cadence"].touch \in Nat BY FollowUpAssumption DEF TypeOK, RunRow
    <2>6. Mute("cadence") BY <2>1, <2>2, <2>5 DEF Mute, Went, Touching
    <2>7. OutOK("cadence")' BY <1>1, <2>3, <2>6, MuteOK DEF OutInv
    <2>8. late["cadence"] \in Nat /\ unwanted \in Nat BY DEF TypeOK
    <2>9. /\ late["cadence"] <= 1 + faults /\ (late["cadence"] > 0 => Handled)
          /\ unwanted <= 1 + faults /\ (unwanted > 0 => optedOut)
        BY DEF LateInv, LateOK
    <2>10. \/ run'["cadence"].step \in Over \cup {"load"}
           \/ run'["cadence"].step = "send" /\ ~Handled /\ ~optedOut
        BY <2>1, <2>2 DEF Went, Over
    <2>11. LateOK("cadence")' BY <2>2, <2>3, <2>8, <2>9, <2>10 DEF LateOK, Over
    <2>12. Handled' <=> Handled BY <2>2 DEF Handled, Open, Closed
    <2>13. run'["cadence"].step = "send" => unwanted' <= faults'
        <3>1. run'["cadence"].step = "send" => unwanted = 0 BY <2>8, <2>9, <2>10 DEF Over
        <3>2. 0 <= faults' BY <2>3
        <3> QED BY <2>2, <3>1, <3>2
    <2>14. unwanted' <= 1 + faults'
        <3>1. unwanted <= 1 + faults => unwanted <= 1 + faults' BY <2>3, <2>8, Upward
        <3> QED BY <2>2, <2>9, <3>1
    <2> QED BY <2>2, <2>4, <2>7, <2>9, <2>11, <2>12, <2>13, <2>14 DEF OutInv, LateInv
<1>8. CASE Send
    <2>1. PICK r \in RunRow, step \in {"done", "load"} :
              /\ Went("cadence", r, step)
              /\ step = "load" => r.touch = run["cadence"].touch + 1
        BY <1>8, SendWent
    <2>2. UNCHANGED <<lead, optedOut>> /\ run["cadence"].step = "send"
        BY <1>8 DEF Send, Begins
    <2>3. /\ \A q \in Runs \ {"cadence"} : late'[q] = late[q] /\ out'[q] = out[q]
          /\ late'["cadence"] \in {late["cadence"], late["cadence"] + 1}
          /\ out'["cadence"] \in {out["cadence"], out["cadence"] + 1}
          /\ late'["cadence"] # late["cadence"] => Handled
        <3>1. CASE LetOut("cadence") /\ LateStep("cadence") BY <3>1, LetOutIs, LateStepIs
        <3>2. CASE UNCHANGED <<out, late, unwanted>> BY <3>2
        <3> QED BY <1>8, <3>1, <3>2 DEF Send
    <2>4. /\ faults <= faults' /\ faults \in Nat /\ faults' \in Nat
          /\ \A q \in Runs \ {"cadence"} : run'[q] = run[q]
        BY <1>1, <2>1, WentFaults, FollowUpAssumption DEF Went, TypeOK
    <2>5. \A q \in Runs \ {"cadence"} : OutOK(q)' /\ LateOK(q)'
        BY <1>1, <2>3, <2>4, OthersOK
    <2>6. LateOK("cadence")' BY <1>1, <2>1, <2>2, <2>3, TakesLate DEF Over
    <2>7. OutOK("cadence")'
        <3>1. /\ run["cadence"].touch \in 1..NumTouches /\ NumTouches \in Nat
              /\ out["cadence"] \in Nat
            BY FollowUpAssumption DEF TypeOK, RunRow
        <3>2. out["cadence"] <= run["cadence"].touch - 1 + faults
            BY <2>2 DEF OutInv, OutOK, Touching
        <3>3. \/ /\ faults' = faults
                 /\ run'["cadence"].step = "load" =>
                      run'["cadence"].touch = run["cadence"].touch + 1
                 /\ run'["cadence"].step \notin {"idle", "send"}
              \/ faults' = faults + 1 /\ run'["cadence"].touch = run["cadence"].touch
            BY <2>1 DEF Went
        <3> QED BY <2>3, <2>4, <3>1, <3>2, <3>3 DEF OutOK, Planned, Touching
    <2>8. /\ unwanted \in Nat /\ unwanted <= faults /\ (unwanted > 0 => optedOut)
          /\ (late["cadence"] > 0 => Handled) /\ late["cadence"] \in Nat
        BY <2>2 DEF TypeOK, LateInv
    <2>9. \/ unwanted' = unwanted
          \/ unwanted' = unwanted + 1 /\ optedOut
        <3>1. CASE unwanted' = unwanted + IF optedOut THEN 1 ELSE 0
            <4>1. CASE optedOut BY <3>1, <4>1
            <4>2. CASE ~optedOut BY <2>8, <3>1, <4>2
            <4> QED BY <4>1, <4>2
        <3>2. CASE UNCHANGED unwanted BY <3>2
        <3> QED BY <1>8, <3>1, <3>2 DEF Send
    <2>10. /\ unwanted' <= 1 + faults'
           /\ unwanted' > 0 => optedOut'
        BY <2>2, <2>4, <2>8, <2>9
    <2>11. run'["cadence"].step = "send" => unwanted' <= faults'
        <3>1. run'["cadence"].step = "send" => faults' = faults + 1 BY <2>1 DEF Went
        <3> QED BY <2>4, <2>8, <2>9, <3>1
    <2>12. Handled' <=> Handled BY <2>2 DEF Handled, Open, Closed
    <2>13. late'["cadence"] > 0 => Handled' BY <2>3, <2>8, <2>12
    <2> QED BY <2>5, <2>6, <2>7, <2>10, <2>11, <2>13 DEF OutInv, LateInv
<1> QED BY <1>2, <1>3, <1>4, <1>5, <1>6, <1>7, <1>8, SilentSteps

-----------------------------------------------------------------------------
(* The inductive invariant, and what follows.                              *)

IInv == TypeOK /\ Lanes /\ RaiseInv /\ TalkInv /\ OutInv /\ LateInv

LEMMA InitInv == Init => IInv
<1> SUFFICES ASSUME Init PROVE IInv OBVIOUS
<1>1. TypeOK /\ Lanes /\ RaiseInv BY InitType, InitRaise
<1>2. TalkInv BY RunsNamed DEF Init, BoardInit, TalkInv, Assignment
<1>3. OutInv BY FollowUpAssumption DEF Init, OutInv, OutOK, Planned
<1>4. LateInv BY RunsNamed DEF Init, LateInv, LateOK
<1> QED BY <1>1, <1>2, <1>3, <1>4 DEF IInv

LEMMA NextInv == IInv /\ [Next]_vars => IInv'
BY NextType, LanesStep, RaiseStep, TalkStep, CountStep DEF IInv

LEMMA Invariant == Spec => []IInv
BY InitInv, NextInv, PTL DEF Spec

\* What a lead's runs leave behind agrees, for any schedule, deaths and acts of people: a
\* breach is published only of an overdue lead, an assignment not both ways, the queue shows
\* what was escalated, and nothing leaves more often than planned but for deaths
\* (lead-intake.ts:400, lead-speed-to-lead.ts:112, lead-cadence.ts:76, voice-fallback.ts:84).
THEOREM LeadsHold == Spec => []LeadsInv
<1>1. IInv => LeadsInv
    <2> SUFFICES ASSUME IInv PROVE LeadsInv OBVIOUS
    <2>1. BoardAgrees
        <3>1. exceptions \subseteq Keys BY DEF IInv, TypeOK, BoardTypeOK
        <3> QED BY <3>1 DEF IInv, TalkInv, RaiseInv, BoardAgrees, Assignment
    <2>2. OutIsBounded BY DEF IInv, OutInv, OutOK, OutIsBounded
    <2> QED BY <2>1, <2>2 DEF IInv, LeadsInv
<1> QED BY <1>1, Invariant, PTL

\* After the lead is handled a run takes at most the one step it had decided on, and after the
\* opt-out one text leaves, but for deaths, even when the cancelling event is lost
\* (lead-speed-to-lead.ts:149, lead-cadence.ts:61).
THEOREM LateTouchesBounded == Spec => []AtMostOneLateTouch
<1>1. IInv => AtMostOneLateTouch BY DEF IInv, LateInv, LateOK, AtMostOneLateTouch
<1> QED BY <1>1, Invariant, PTL
=============================================================================

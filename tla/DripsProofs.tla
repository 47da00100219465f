---------------------------- MODULE DripsProofs ----------------------------
(***************************************************************************)
(* What the rows of a dripped customer and the runs promise each other,    *)
(* for any number of drips, steps, runs, deaths and stops.                 *)
(*                                                                         *)
(* Progress, Stopped and OptedOut say of each run what its rows are at the *)
(* place it is at; Enrolled and Escalated relate the runs to each other.   *)
(***************************************************************************)
EXTENDS Drips, FiniteSetTheorems, TLAPS

Enrolling == {"enroll", "insert", "enrolled"}
Sending   == {"send", "guard", "log", "logged", "publish", "raise", "bridged"}
Reporting == {"logged", "publish", "raise", "bridged"}

\* The steps of which a run has a communication row.
LoggedSteps(r) == {row[1] : row \in run[r].rows}

\* A run has a drip from its start on and attempts left until its end; it logged every step
\* it is past; its enrollment is completed only when it is at its end, and closed then.
Progress(r) ==
    /\ run[r].pc # "idle" => run[r].drip \in Drips
    /\ run[r].pc \notin Over => run[r].tries < MaxAttempts
    /\ run[r].pc = "idle" => enrollment[r].status = "none"
    /\ 1..(run[r].step - 1) \subseteq LoggedSteps(r)
    /\ run[r].pc \in Reporting => run[r].step \in LoggedSteps(r)
    /\ run[r].pc \in {"complete", "done"} => LoggedSteps(r) = Steps
    /\ enrollment[r].status = "completed" => run[r].pc = "done"
    /\ run[r].pc \in {"done", "stopped"} => ~Active(r)

\* A message that left late was the step under way, and no other follows it.
Stopped(r) ==
    /\ run[r].pc \in Enrolling \cup {"idle"} => run[r].late = {}
    /\ (run[r].late # {} /\ ~enrollment[r].again) =>
         /\ ~Active(r)
         /\ \E k \in Steps : run[r].late = {k} /\ (run[r].pc \in Sending => run[r].step = k)

\* An unwanted message was read for before the opt-out, which stopped the enrollment.
OptedOut(r) ==
    /\ run[r].pc \in Enrolling \cup {"idle"} => run[r].unwanted = 0
    /\ (run[r].pc = "guard" /\ Channel[run[r].step] \in optedOut) =>
         ~Active(r) /\ run[r].unwanted = 0
    /\ run[r].unwanted # 0 =>
         /\ run[r].unwanted = 1 /\ ~Active(r) /\ run[r].pc # "guard"
         /\ run[r].pc \in Sending => Channel[run[r].step] \in optedOut

RunInv(r) == Progress(r) /\ Stopped(r) /\ OptedOut(r)

\* A stop's event follows its request.
RunsInv == stops <= requests /\ \A r \in Runs : RunInv(r)

\* The partial unique index: one active enrollment of a drip, by one run.
Enrolled ==
    \A q, r \in Runs : Active(q) /\ Active(r) /\ run[q].drip = run[r].drip => q = r

\* What was raised, or is about to be, has its key, and nobody else raises it.
Escalated ==
    /\ \A x \in raised : x[1] \in published
    /\ \A x, y \in raised : x[1] = y[1] => x = y
    /\ \A r \in Runs : run[r].pc = "raise" =>
         /\ run[r].step \in published
         /\ \A x \in raised : x[1] # run[r].step
         /\ \A q \in Runs : run[q].pc = "raise" /\ run[q].step = run[r].step => q = r

IInv == TypeOK /\ RunsInv /\ Enrolled /\ Escalated

-----------------------------------------------------------------------------
(* Types.                                                                  *)

Pcs == {"idle"} \cup Boundary \cup Inside \cup Over

\* A row with one field replaced by a value of its type is a row.
LEMMA FieldWrite ==
    ASSUME NEW row \in RunRow
    PROVE  /\ \A x \in Pcs : [row EXCEPT !.pc = x] \in RunRow
           /\ \A x \in Drips : [row EXCEPT !.drip = x] \in RunRow
           /\ \A x \in Steps : [row EXCEPT !.step = x] \in RunRow
           /\ \A x \in 0..MaxAttempts : [row EXCEPT !.tries = x] \in RunRow
           /\ \A x \in Outcome : [row EXCEPT !.outcome = x] \in RunRow
           /\ \A x \in SUBSET (Steps \X Outcome) : [row EXCEPT !.rows = x] \in RunRow
           /\ \A x \in SUBSET Steps : /\ [row EXCEPT !.blocks = x] \in RunRow
                                      /\ [row EXCEPT !.left = x] \in RunRow
                                      /\ [row EXCEPT !.late = x] \in RunRow
           /\ \A x \in Nat : [row EXCEPT !.unwanted = x] \in RunRow
           /\ \A x \in BOOLEAN : [row EXCEPT !.cancelling = x] \in RunRow
<1>1. \A x \in Pcs : [row EXCEPT !.pc = x] \in RunRow
  BY DEF RunRow, Pcs
<1>2. \A x \in Drips : [row EXCEPT !.drip = x] \in RunRow
  BY DEF RunRow
<1>3. \A x \in Steps : [row EXCEPT !.step = x] \in RunRow
  BY DEF RunRow
<1>4. \A x \in 0..MaxAttempts : [row EXCEPT !.tries = x] \in RunRow
  BY DEF RunRow
<1>5. \A x \in Outcome : [row EXCEPT !.outcome = x] \in RunRow
  BY DEF RunRow
<1>6. \A x \in SUBSET (Steps \X Outcome) : [row EXCEPT !.rows = x] \in RunRow
  BY DEF RunRow
<1>7. \A x \in SUBSET Steps : [row EXCEPT !.blocks = x] \in RunRow
  BY DEF RunRow
<1>8. \A x \in SUBSET Steps : [row EXCEPT !.left = x] \in RunRow
  BY DEF RunRow
<1>9. \A x \in SUBSET Steps : [row EXCEPT !.late = x] \in RunRow
  BY DEF RunRow
<1>10. \A x \in Nat : [row EXCEPT !.unwanted = x] \in RunRow
  BY DEF RunRow
<1>11. \A x \in BOOLEAN : [row EXCEPT !.cancelling = x] \in RunRow
  BY DEF RunRow
<1> QED  BY <1>1, <1>2, <1>3, <1>4, <1>5, <1>6, <1>7, <1>8, <1>9, <1>10, <1>11

\* What an action writes into the row of its run is a row.
LEMMA RowWrite ==
    ASSUME TypeOK, NEW r \in Runs, NEW row \in RunRow, run' = [run EXCEPT ![r] = row]
    PROVE  run' \in [Runs -> RunRow]
BY DEF TypeOK

\* Going somewhere keeps the rest of the row ...
LEMMA MoveWrites ==
    ASSUME TypeOK, NEW r \in Runs, NEW pc \in Pcs, Move(r, pc)
    PROVE  run' \in [Runs -> RunRow]
<1> DEFINE row == [run[r] EXCEPT !.pc = pc]
<1>1. row \in RunRow
  BY FieldWrite DEF TypeOK
<1>2. run' = [run EXCEPT ![r] = row]
  BY DEF Move
<1> QED  BY <1>1, <1>2, RowWrite

\* ... with another number of attempts, if need be.
LEMMA MemoWrites ==
    ASSUME TypeOK, NEW r \in Runs, NEW pc \in Pcs, NEW n \in 0..MaxAttempts,
           run' = [run EXCEPT ![r].pc = pc, ![r].tries = n]
    PROVE  run' \in [Runs -> RunRow]
<1> DEFINE row == [run[r] EXCEPT !.pc = pc]
           all == [row EXCEPT !.tries = n]
<1>1. row \in RunRow
  BY FieldWrite DEF TypeOK
<1>2. all \in RunRow
  BY <1>1, FieldWrite
<1>3. run' = [run EXCEPT ![r] = all]
  BY DEF TypeOK
<1> QED  BY <1>2, <1>3, RowWrite

LEMMA RetryWrites ==
    ASSUME TypeOK, NEW r \in Runs, Progress(r), run[r].pc \notin Over, NEW pc \in Pcs,
           run' = Retried(r, pc)
    PROVE  run' \in [Runs -> RunRow]
<1> DEFINE n == run[r].tries + 1
           p == IF n = MaxAttempts THEN "failed" ELSE pc
<1>1. n \in 0..MaxAttempts
  BY BoundsAssumption DEF Progress, TypeOK, RunRow
<1>2. p \in Pcs
  BY DEF Pcs, Over
<1>3. run' = [run EXCEPT ![r].pc = p, ![r].tries = n]
  BY DEF Retried, TypeOK
<1> QED  BY <1>1, <1>2, <1>3, MemoWrites

LEMMA NextWrites ==
    ASSUME TypeOK, NEW r \in Runs, run' = NextStep(r)
    PROVE  run' \in [Runs -> RunRow]
<1> DEFINE s == IF IsLast(run[r].step) THEN run[r].step ELSE run[r].step + 1
           p == IF IsLast(run[r].step) THEN "complete" ELSE "sleep"
           a == [run[r] EXCEPT !.pc = p]
           b == [a EXCEPT !.tries = 0]
           c == [b EXCEPT !.step = s]
           d == [c EXCEPT !.outcome = "none"]
<1>1. run[r] \in RunRow
  BY DEF TypeOK
<1>2. s \in Steps
  BY <1>1, StepsAssumption DEF IsLast, Steps, RunRow
<1>3. p \in Pcs /\ 0 \in 0..MaxAttempts /\ "none" \in Outcome
  BY BoundsAssumption DEF Pcs, Boundary, Outcome
<1>4. a \in RunRow
  BY <1>1, <1>3, FieldWrite
<1>5. b \in RunRow
  BY <1>3, <1>4, FieldWrite
<1>6. c \in RunRow
  BY <1>2, <1>5, FieldWrite
<1>7. d \in RunRow
  BY <1>3, <1>6, FieldWrite
<1>8. run' = [run EXCEPT ![r] = d]
  BY <1>1 DEF NextStep, RunRow, TypeOK
<1> QED  BY <1>7, <1>8, RowWrite

\* Every operation leaves rows of their types.
LEMMA TypeStep ==
    ASSUME TypeOK, RunsInv, [Next]_vars
    PROVE  TypeOK'
<1> USE StepsAssumption, BoundsAssumption
<1>1. ASSUME NEW c \in {{}, {"sms"}, {"email"}}, Stop(c) PROVE TypeOK'
  <2>1. enrollment' \in [Runs -> EnrollmentRow]
    BY <1>1 DEF Stop, TypeOK, EnrollmentRow
  <2>2. requests' \in 0..MaxStops /\ stops' \in 0..MaxStops
    BY <1>1 DEF Stop, TypeOK, RunsInv
  <2> QED  BY <1>1, <2>1, <2>2 DEF Stop, TypeOK
<1>2. CASE SendStop \/ Convert
  <2>1. ASSUME NEW r \in Runs
        PROVE  [run[r] EXCEPT !.cancelling = run[r].cancelling \/ Started(r)] \in RunRow
    <3>1. (run[r].cancelling \/ Started(r)) \in BOOLEAN
      OBVIOUS
    <3>2. run[r] \in RunRow
      BY DEF TypeOK
    <3> QED  BY <3>1, <3>2, FieldWrite
  <2>2. Announced \in [Runs -> RunRow]
    BY <2>1 DEF Announced
  <2>3. stops' \in 0..MaxStops /\ requests' \in 0..MaxStops
    BY <1>2 DEF SendStop, Convert, TypeOK
  <2> QED  BY <1>2, <2>2, <2>3 DEF SendStop, Convert, TypeOK
<1>3. ASSUME NEW r \in Runs, NEW d \in Drips, StartRun(r, d) PROVE TypeOK'
  <2> DEFINE a == [run[r] EXCEPT !.pc = "enroll"]
             b == [a EXCEPT !.drip = d]
  <2>1. a \in RunRow
    BY FieldWrite DEF TypeOK, Pcs, Boundary
  <2>2. b \in RunRow
    BY <2>1, FieldWrite
  <2>3. run' = [run EXCEPT ![r] = b]
    BY <1>3 DEF StartRun, TypeOK
  <2>4. run' \in [Runs -> RunRow]
    BY <2>2, <2>3, RowWrite
  <2> QED  BY <1>3, <2>4 DEF StartRun, TypeOK
<1>4. ASSUME NEW r \in Runs, Cancel(r) \/ LookEnrolled(r) PROVE TypeOK'
  <2>1. run' \in [Runs -> RunRow]
    BY <1>4, MoveWrites DEF Cancel, LookEnrolled, Pcs, Inside, Over
  <2> QED  BY <1>4, <2>1 DEF Cancel, LookEnrolled, TypeOK
<1>5. ASSUME NEW r \in Runs, RecordEnrolled(r) \/ Wake(r) \/ Check(r) PROVE TypeOK'
  <2>1. \E pc \in Pcs : Memo(r, pc)
    BY <1>5 DEF RecordEnrolled, Wake, Check, Pcs, Boundary, Over
  <2>2. run' \in [Runs -> RunRow]
    <3>1. PICK pc \in Pcs : run' = [run EXCEPT ![r].pc = pc, ![r].tries = 0]
      BY <2>1 DEF Memo
    <3>2. 0 \in 0..MaxAttempts
      OBVIOUS
    <3> QED  BY <3>1, <3>2, MemoWrites
  <2> QED  BY <1>5, <2>2 DEF RecordEnrolled, Wake, Check, TypeOK
<1>6. ASSUME NEW r \in Runs, InsertEnrollment(r) PROVE TypeOK'
  <2>1. "enroll" \in Pcs /\ "enrolled" \in Pcs /\ run[r].pc \notin Over
    BY <1>6 DEF InsertEnrollment, Pcs, Boundary, Inside, Over
  <2>2. run' \in [Runs -> RunRow]
    BY <1>6, <2>1, MoveWrites, RetryWrites DEF InsertEnrollment, RunsInv, RunInv
  <2>3. FreshRow(r) \in EnrollmentRow
    BY DEF FreshRow, EnrollmentRow
  <2>4. enrollment' \in [Runs -> EnrollmentRow]
    BY <1>6, <2>3 DEF InsertEnrollment, TypeOK
  <2> QED  BY <1>6, <2>2, <2>4 DEF InsertEnrollment, TypeOK
<1>7. ASSUME NEW r \in Runs, ReadCustomer(r) PROVE TypeOK'
  <2>1. PICK p \in Pcs, o \in Outcome : run' = [run EXCEPT ![r].pc = p, ![r].outcome = o]
    BY <1>7 DEF ReadCustomer, Pcs, Inside, Outcome
  <2> DEFINE a == [run[r] EXCEPT !.pc = p]
             b == [a EXCEPT !.outcome = o]
  <2>2. a \in RunRow
    BY FieldWrite DEF TypeOK
  <2>3. b \in RunRow
    BY <2>2, FieldWrite
  <2>4. run' = [run EXCEPT ![r] = b]
    BY <2>1 DEF TypeOK
  <2>5. run' \in [Runs -> RunRow]
    BY <2>3, <2>4, RowWrite
  <2> QED  BY <1>7, <2>5 DEF ReadCustomer, TypeOK
<1>8. ASSUME NEW r \in Runs, Transmit(r) PROVE TypeOK'
  <2> DEFINE k == run[r].step
  <2>1. run[r] \in RunRow
    BY DEF TypeOK
  <2>2. k \in Steps /\ run[r].left \subseteq Steps /\ run[r].late \subseteq Steps /\ run[r].unwanted \in Nat
    BY <2>1 DEF RunRow
  <2>3. PICK x \in Results(Channel[k]) :
          run' = [run EXCEPT
            ![r].pc = "log", ![r].outcome = x[1],
            ![r].left = IF x[2] THEN @ \cup {k} ELSE @,
            ![r].late = IF x[2] /\ (~Active(r) \/ enrollment[r].again) THEN @ \cup {k} ELSE @,
            ![r].unwanted = IF x[2] /\ Channel[k] \in optedOut THEN @ + 1 ELSE @]
    BY <1>8 DEF Transmit
  <2> DEFINE l == IF x[2] THEN run[r].left \cup {k} ELSE run[r].left
             m == IF x[2] /\ (~Active(r) \/ enrollment[r].again) THEN run[r].late \cup {k} ELSE run[r].late
             n == IF x[2] /\ Channel[k] \in optedOut THEN run[r].unwanted + 1 ELSE run[r].unwanted
             a == [run[r] EXCEPT !.pc = "log"]
             b == [a EXCEPT !.outcome = x[1]]
             c == [b EXCEPT !.left = l]
             d == [c EXCEPT !.late = m]
             e == [d EXCEPT !.unwanted = n]
  <2>4. "log" \in Pcs /\ x[1] \in Outcome
    <3>1. x \in {<<"sent", TRUE>>, <<"throttled", FALSE>>, <<"blocked", FALSE>>, <<"error", FALSE>>,
                 <<"error", TRUE>>, <<"sent", FALSE>>}
      BY <2>3 DEF Results
    <3>2. PICK o \in {"sent", "throttled", "blocked", "error"}, w \in BOOLEAN : x = <<o, w>>
      BY <3>1
    <3>3. x[1] = o
      BY <3>2
    <3> QED  BY <3>2, <3>3 DEF Outcome, Pcs, Inside
  <2>5. l \in SUBSET Steps /\ m \in SUBSET Steps /\ n \in Nat
    BY <2>2
  <2>6. a \in RunRow
    BY <2>1, <2>4, FieldWrite
  <2>7. b \in RunRow
    BY <2>4, <2>6, FieldWrite
  <2>8. c \in RunRow
    BY <2>5, <2>7, FieldWrite
  <2>9. d \in RunRow
    BY <2>5, <2>8, FieldWrite
  <2>10. e \in RunRow
    BY <2>5, <2>9, FieldWrite
  <2>11. run' = [run EXCEPT ![r] = e]
    BY <2>1, <2>3 DEF TypeOK, RunRow
  <2>12. run' \in [Runs -> RunRow]
    BY <2>10, <2>11, RowWrite
  <2> QED  BY <1>8, <2>12 DEF Transmit, TypeOK
<1>9. ASSUME NEW r \in Runs, Log(r) PROVE TypeOK'
  <2> DEFINE a == [run[r] EXCEPT !.pc = "logged"]
             b == [a EXCEPT !.rows = run[r].rows \cup Row(r)]
  <2>1. run[r] \in RunRow
    BY DEF TypeOK
  <2>2. run[r].step \in Steps /\ run[r].rows \cup Row(r) \in SUBSET (Steps \X Outcome)
    BY <2>1 DEF RunRow, Row
  <2>3. a \in RunRow
    BY <2>1, FieldWrite DEF Pcs, Inside
  <2>4. b \in RunRow
    BY <2>2, <2>3, FieldWrite
  <2>5. run' = [run EXCEPT ![r] = b]
    BY <1>9, <2>1 DEF Log, TypeOK, RunRow
  <2>6. run' \in [Runs -> RunRow]
    BY <2>4, <2>5, RowWrite
  <2>7. run[r].step \in 0..NumSteps
    BY <2>2 DEF Steps
  <2>8. enrollment' \in [Runs -> EnrollmentRow]
    BY <1>9, <2>7 DEF Log, TypeOK, EnrollmentRow
  <2> QED  BY <1>9, <2>6, <2>8 DEF Log, TypeOK
<1>10. ASSUME NEW r \in Runs, RecordSent(r) PROVE TypeOK'
  <2>1. CASE ~Verdict(r)
    <3>1. run' \in [Runs -> RunRow]
      BY <1>10, <2>1, NextWrites DEF RecordSent
    <3> QED  BY <1>10, <3>1 DEF RecordSent, TypeOK
  <2>2. CASE Verdict(r)
    <3> DEFINE l == IF run[r].outcome = "blocked" THEN run[r].blocks \cup {run[r].step}
                    ELSE run[r].blocks
               a == [run[r] EXCEPT !.pc = "publish"]
               b == [a EXCEPT !.tries = 0]
               c == [b EXCEPT !.blocks = l]
    <3>1. run[r] \in RunRow /\ 0 \in 0..MaxAttempts /\ "publish" \in Pcs
      BY DEF TypeOK, Pcs, Boundary
    <3>2. l \in SUBSET Steps
      BY <3>1 DEF RunRow
    <3>3. a \in RunRow
      BY <3>1, FieldWrite
    <3>4. b \in RunRow
      BY <3>1, <3>3, FieldWrite
    <3>5. c \in RunRow
      BY <3>2, <3>4, FieldWrite
    <3>6. run' = [run EXCEPT ![r] = c]
      BY <1>10, <2>2, <3>1 DEF RecordSent, TypeOK, RunRow
    <3>7. run' \in [Runs -> RunRow]
      BY <3>5, <3>6, RowWrite
    <3> QED  BY <1>10, <3>7 DEF RecordSent, TypeOK
  <2> QED  BY <2>1, <2>2
<1>11. ASSUME NEW r \in Runs, Publish(r) \/ Raise(r) \/ BridgeFails(r) PROVE TypeOK'
  <2>1. "raise" \in Pcs /\ "bridged" \in Pcs
    BY DEF Pcs, Inside
  <2>2. run' \in [Runs -> RunRow]
    BY <1>11, <2>1, MoveWrites DEF Publish, Raise, BridgeFails
  <2>3. run[r].step \in Steps
    BY DEF TypeOK, RunRow
  <2>4. deaths' \in 0..MaxDeaths
    BY <1>11 DEF Publish, Raise, BridgeFails, TypeOK
  <2>5. published' \subseteq Steps /\ raised' \subseteq Steps \X Runs
    BY <1>11, <2>3 DEF Publish, Raise, BridgeFails, TypeOK
  <2> QED  BY <1>11, <2>2, <2>4, <2>5 DEF Publish, Raise, BridgeFails, TypeOK
<1>12. ASSUME NEW r \in Runs, RecordBridged(r) PROVE TypeOK'
  <2>1. run' \in [Runs -> RunRow]
    BY <1>12, NextWrites DEF RecordBridged
  <2> QED  BY <1>12, <2>1 DEF RecordBridged, TypeOK
<1>13. ASSUME NEW r \in Runs, Complete(r) PROVE TypeOK'
  <2>1. run' \in [Runs -> RunRow]
    BY <1>13, MoveWrites DEF Complete, Pcs, Over
  <2>2. enrollment' \in [Runs -> EnrollmentRow]
    BY ZenonT(40), <1>13 DEF Complete, Completes, TypeOK, EnrollmentRow
  <2> QED  BY <1>13, <2>1, <2>2 DEF Complete, TypeOK
<1>14. ASSUME NEW r \in Runs, Die(r) PROVE TypeOK'
  <2>1. Restart(run[r].pc) \in Pcs /\ run[r].pc \notin Over
    BY <1>14 DEF Die, Restart, Pcs, Boundary, Inside, Over
  <2>2. run' \in [Runs -> RunRow]
    BY <1>14, <2>1, RetryWrites DEF Die, RunsInv, RunInv
  <2>3. deaths' \in 0..MaxDeaths
    BY <1>14 DEF Die, TypeOK
  <2> QED  BY <1>14, <2>2, <2>3 DEF Die, TypeOK
<1>15. CASE UNCHANGED vars
  BY <1>15 DEF vars, TypeOK
<1> QED
  BY <1>1, <1>2, <1>3, <1>4, <1>5, <1>6, <1>7, <1>8, <1>9, <1>10, <1>11, <1>12, <1>13, <1>14, <1>15
  DEF Next, RunStep

-----------------------------------------------------------------------------
(* What an operation does to the row of its run.                           *)

Kept(r) == /\ run'[r].step = run[r].step /\ LoggedSteps(r)' = LoggedSteps(r)
           /\ run'[r].late = run[r].late /\ run'[r].unwanted = run[r].unwanted

LEMMA MoveFields ==
    ASSUME TypeOK, NEW r \in Runs, NEW pc, Move(r, pc)
    PROVE  /\ run'[r].pc = pc /\ run'[r].tries = run[r].tries /\ run'[r].drip = run[r].drip
           /\ Kept(r)
<1>1. run'[r] = [run[r] EXCEPT !.pc = pc]
  BY DEF Move, TypeOK
<1>2. run[r] \in RunRow
  BY DEF TypeOK
<1>3. /\ run'[r].pc = pc /\ run'[r].tries = run[r].tries /\ run'[r].drip = run[r].drip
      /\ run'[r].step = run[r].step /\ run'[r].rows = run[r].rows
      /\ run'[r].late = run[r].late /\ run'[r].unwanted = run[r].unwanted
  BY <1>1, <1>2 DEF RunRow
<1> QED  BY <1>3 DEF Kept, LoggedSteps

LEMMA MemoFields ==
    ASSUME TypeOK, NEW r \in Runs, NEW pc, NEW n, run' = [run EXCEPT ![r].pc = pc, ![r].tries = n]
    PROVE  /\ run'[r].pc = pc /\ run'[r].tries = n /\ run'[r].drip = run[r].drip /\ Kept(r)
<1>1. run'[r] = [run[r] EXCEPT !.pc = pc, !.tries = n]
  BY DEF TypeOK
<1>2. run[r] \in RunRow
  BY DEF TypeOK
<1>3. run'[r].pc = pc /\ run'[r].tries = n
  BY <1>1, <1>2 DEF RunRow
<1>4. run'[r].step = run[r].step
  BY ZenonT(40), <1>1, <1>2 DEF RunRow
<1>6. run'[r].drip = run[r].drip
  BY ZenonT(40), <1>1, <1>2 DEF RunRow
<1>7. run'[r].rows = run[r].rows
  BY ZenonT(40), <1>1, <1>2 DEF RunRow
<1>5. run'[r].late = run[r].late /\ run'[r].unwanted = run[r].unwanted
  BY <1>1, <1>2 DEF RunRow
<1> QED  BY <1>3, <1>4, <1>5, <1>6, <1>7 DEF Kept, LoggedSteps

LEMMA RetryFields ==
    ASSUME TypeOK, NEW r \in Runs, NEW pc, run' = Retried(r, pc),
           Progress(r), run[r].pc \notin Over
    PROVE  /\ run'[r].pc \in {pc, "failed"} /\ Kept(r) /\ run'[r].drip = run[r].drip
           /\ run'[r].pc # "failed" => run'[r].tries < MaxAttempts
<1> DEFINE n == run[r].tries + 1
           p == IF n = MaxAttempts THEN "failed" ELSE pc
<1>1. run' = [run EXCEPT ![r].pc = p, ![r].tries = n]
  BY DEF Retried, TypeOK
<1>2. run[r].tries \in 0..MaxAttempts /\ run[r].tries < MaxAttempts
  BY DEF Progress, TypeOK, RunRow
<1>3. n < MaxAttempts \/ n = MaxAttempts
  BY <1>2, BoundsAssumption
<1>4. /\ run'[r].pc = p /\ run'[r].tries = n /\ run'[r].drip = run[r].drip /\ Kept(r)
  <2> HIDE DEF n, p
  <2> QED  BY <1>1, MemoFields
<1> QED  BY <1>3, <1>4

LEMMA NextFields ==
    ASSUME TypeOK, NEW r \in Runs, run' = NextStep(r)
    PROVE  /\ run'[r].tries = 0 /\ run'[r].drip = run[r].drip /\ LoggedSteps(r)' = LoggedSteps(r)
           /\ run'[r].late = run[r].late /\ run'[r].unwanted = run[r].unwanted
           /\ \/ run[r].step = NumSteps /\ run'[r].pc = "complete" /\ run'[r].step = run[r].step
              \/ run[r].step # NumSteps /\ run'[r].pc = "sleep" /\ run'[r].step = run[r].step + 1
<1>1. run[r] \in RunRow
  BY DEF TypeOK
<1>2. run'[r] = IF run[r].step = NumSteps
                THEN [run[r] EXCEPT !.pc = "complete", !.tries = 0, !.outcome = "none"]
                ELSE [run[r] EXCEPT !.pc = "sleep", !.tries = 0, !.step = run[r].step + 1, !.outcome = "none"]
  BY <1>1 DEF NextStep, IsLast, TypeOK
<1>3. /\ run'[r].tries = 0 /\ run'[r].drip = run[r].drip /\ run'[r].rows = run[r].rows
      /\ run'[r].late = run[r].late /\ run'[r].unwanted = run[r].unwanted
  BY <1>1, <1>2 DEF RunRow
<1>4. \/ run[r].step = NumSteps /\ run'[r].pc = "complete" /\ run'[r].step = run[r].step
      \/ run[r].step # NumSteps /\ run'[r].pc = "sleep" /\ run'[r].step = run[r].step + 1
  BY <1>1, <1>2 DEF RunRow
<1> QED  BY <1>3, <1>4 DEF LoggedSteps

LEMMA TransmitFields ==
    ASSUME TypeOK, NEW r \in Runs, Transmit(r)
    PROVE  /\ run'[r].pc = "log" /\ run'[r].tries = run[r].tries /\ run'[r].drip = run[r].drip
           /\ run'[r].step = run[r].step /\ LoggedSteps(r)' = LoggedSteps(r)
           /\ \/ run'[r].late = run[r].late
              \/ /\ run'[r].late = run[r].late \cup {run[r].step}
                 /\ ~Active(r) \/ enrollment[r].again
           /\ \/ run'[r].unwanted = run[r].unwanted
              \/ run'[r].unwanted = run[r].unwanted + 1 /\ Channel[run[r].step] \in optedOut
<1> DEFINE k == run[r].step
<1>1. run[r] \in RunRow
  BY DEF TypeOK
<1>2. PICK x \in Results(Channel[k]) :
        run' = [run EXCEPT
          ![r].pc = "log", ![r].outcome = x[1],
          ![r].left = IF x[2] THEN @ \cup {k} ELSE @,
          ![r].late = IF x[2] /\ (~Active(r) \/ enrollment[r].again) THEN @ \cup {k} ELSE @,
          ![r].unwanted = IF x[2] /\ Channel[k] \in optedOut THEN @ + 1 ELSE @]
  BY DEF Transmit
<1>3. run'[r] = [run[r] EXCEPT
          !.pc = "log", !.outcome = x[1],
          !.left = IF x[2] THEN run[r].left \cup {k} ELSE run[r].left,
          !.late = IF x[2] /\ (~Active(r) \/ enrollment[r].again) THEN run[r].late \cup {k} ELSE run[r].late,
          !.unwanted = IF x[2] /\ Channel[k] \in optedOut THEN run[r].unwanted + 1 ELSE run[r].unwanted]
  BY <1>1, <1>2 DEF TypeOK, RunRow
<1>4. /\ run'[r].pc = "log" /\ run'[r].tries = run[r].tries /\ run'[r].drip = run[r].drip
      /\ run'[r].step = run[r].step /\ run'[r].rows = run[r].rows
  BY <1>1, <1>3 DEF RunRow
<1>5. run'[r].late = IF x[2] /\ (~Active(r) \/ enrollment[r].again) THEN run[r].late \cup {k} ELSE run[r].late
  BY <1>1, <1>3 DEF RunRow
<1>6. run'[r].unwanted = IF x[2] /\ Channel[k] \in optedOut THEN run[r].unwanted + 1 ELSE run[r].unwanted
  BY <1>1, <1>3 DEF RunRow
<1>7. LoggedSteps(r)' = LoggedSteps(r)
  BY <1>4 DEF LoggedSteps
<1> QED  BY <1>4, <1>5, <1>6, <1>7

LEMMA LogFields ==
    ASSUME TypeOK, NEW r \in Runs, Log(r)
    PROVE  /\ run'[r].pc = "logged" /\ run'[r].tries = run[r].tries /\ run'[r].drip = run[r].drip
           /\ run'[r].step = run[r].step
           /\ LoggedSteps(r)' = LoggedSteps(r) \cup {run[r].step}
           /\ run'[r].late = run[r].late /\ run'[r].unwanted = run[r].unwanted
<1>1. run[r] \in RunRow
  BY DEF TypeOK
<1>2. run'[r] = [run[r] EXCEPT !.pc = "logged", !.rows = run[r].rows \cup Row(r)]
  BY <1>1 DEF Log, TypeOK, RunRow
<1>3. /\ run'[r].pc = "logged" /\ run'[r].tries = run[r].tries /\ run'[r].drip = run[r].drip
      /\ run'[r].step = run[r].step
      /\ run'[r].late = run[r].late /\ run'[r].unwanted = run[r].unwanted
  BY <1>1, <1>2 DEF RunRow
<1>4. run'[r].rows = run[r].rows \cup Row(r)
  BY <1>1, <1>2 DEF RunRow
<1>5. LoggedSteps(r)' = LoggedSteps(r) \cup {run[r].step}
  <2>1. LoggedSteps(r)' = {row[1] : row \in run[r].rows \cup {<<run[r].step, run[r].outcome>>}}
    BY <1>4 DEF LoggedSteps, Row
  <2>2. <<run[r].step, run[r].outcome>>[1] = run[r].step
    OBVIOUS
  <2> QED  BY <2>1, <2>2, Zenon DEF LoggedSteps
<1> QED  BY <1>3, <1>5

LEMMA ReadFields ==
    ASSUME TypeOK, NEW r \in Runs, ReadCustomer(r)
    PROVE  /\ run'[r].tries = run[r].tries /\ run'[r].drip = run[r].drip /\ Kept(r)
           /\ run'[r].pc = IF Suppressed(run[r].step) THEN "log" ELSE "guard"
<1>1. run[r] \in RunRow
  BY DEF TypeOK
<1>2. run'[r] = IF Suppressed(run[r].step)
                THEN [run[r] EXCEPT !.pc = "log", !.outcome = "suppressed"]
                ELSE [run[r] EXCEPT !.pc = "guard", !.outcome = "none"]
  BY DEF ReadCustomer, TypeOK
<1>3. /\ run'[r].tries = run[r].tries /\ run'[r].drip = run[r].drip
      /\ run'[r].step = run[r].step /\ run'[r].rows = run[r].rows
      /\ run'[r].late = run[r].late /\ run'[r].unwanted = run[r].unwanted
  BY <1>1, <1>2 DEF RunRow
<1>4. run'[r].pc = IF Suppressed(run[r].step) THEN "log" ELSE "guard"
  BY <1>1, <1>2 DEF RunRow
<1> QED  BY <1>3, <1>4 DEF Kept, LoggedSteps

LEMMA SentFields ==
    ASSUME TypeOK, NEW r \in Runs, RecordSent(r), Verdict(r)
    PROVE  run'[r].tries = 0 /\ run'[r].pc = "publish" /\ run'[r].drip = run[r].drip /\ Kept(r)
<1>1. run[r] \in RunRow
  BY DEF TypeOK
<1>2. run'[r] = [run[r] EXCEPT !.pc = "publish", !.tries = 0,
                   !.blocks = IF run[r].outcome = "blocked" THEN run[r].blocks \cup {run[r].step}
                              ELSE run[r].blocks]
  BY <1>1 DEF RecordSent, TypeOK, RunRow
<1>3. /\ run'[r].tries = 0 /\ run'[r].pc = "publish" /\ run'[r].drip = run[r].drip
      /\ run'[r].step = run[r].step /\ run'[r].rows = run[r].rows
      /\ run'[r].late = run[r].late /\ run'[r].unwanted = run[r].unwanted
  BY <1>1, <1>2 DEF RunRow
<1> QED  BY <1>3 DEF Kept, LoggedSteps

LEMMA AnnouncedFields ==
    ASSUME TypeOK, NEW r \in Runs, run' \in {run, Announced}
    PROVE  /\ run'[r].pc = run[r].pc /\ run'[r].tries = run[r].tries /\ run'[r].drip = run[r].drip
           /\ Kept(r)
<1>1. run[r] \in RunRow
  BY DEF TypeOK
<1>2. run'[r] \in {run[r], [run[r] EXCEPT !.cancelling = run[r].cancelling \/ Started(r)]}
  BY DEF Announced
<1>3. /\ run'[r].pc = run[r].pc /\ run'[r].tries = run[r].tries /\ run'[r].drip = run[r].drip
      /\ run'[r].step = run[r].step /\ run'[r].rows = run[r].rows
      /\ run'[r].late = run[r].late /\ run'[r].unwanted = run[r].unwanted
  BY <1>1, <1>2 DEF RunRow
<1> QED  BY <1>3 DEF Kept, LoggedSteps

-----------------------------------------------------------------------------
(* The runs, one by one.                                                   *)

\* An operation of a run leaves the rows of every other run, and the opt-outs, alone.
LEMMA OwnRowsOnly ==
    ASSUME TypeOK, NEW r \in Runs, NEW q \in Runs, q # r,
           RunStep(r) \/ Die(r) \/ BridgeFails(r) \/ \E d \in Drips : StartRun(r, d)
    PROVE  run'[q] = run[q] /\ enrollment'[q] = enrollment[q]
<1> USE DEF TypeOK
<1>1. CASE \E d \in Drips : StartRun(r, d)
  BY <1>1 DEF StartRun
<1>2. CASE Cancel(r) \/ LookEnrolled(r) \/ Publish(r) \/ Raise(r) \/ BridgeFails(r)
  BY <1>2 DEF Cancel, LookEnrolled, Publish, Raise, BridgeFails, Move
<1>3. CASE RecordEnrolled(r) \/ Wake(r) \/ Check(r)
  BY <1>3 DEF RecordEnrolled, Wake, Check, Memo
<1>4. CASE InsertEnrollment(r)
  BY <1>4 DEF InsertEnrollment, Move, Retried
<1>5. CASE ReadCustomer(r) \/ Transmit(r)
  BY <1>5 DEF ReadCustomer, Transmit
<1>6. CASE Log(r)
  BY <1>6 DEF Log
<1>7. CASE RecordSent(r) \/ RecordBridged(r)
  BY <1>7 DEF RecordSent, RecordBridged, NextStep
<1>8. CASE Complete(r)
  BY <1>8 DEF Complete, Move
<1>9. CASE Die(r)
  BY <1>9 DEF Die, Retried
<1> QED  BY <1>1, <1>2, <1>3, <1>4, <1>5, <1>6, <1>7, <1>8, <1>9 DEF RunStep

\* A stop, and its event, leave what is said of a run true.
LEMMA StopStep ==
    ASSUME TypeOK, NEW r \in Runs, RunInv(r),
           SendStop \/ Convert \/ \E c \in {{}, {"sms"}, {"email"}} : Stop(c)
    PROVE  RunInv(r)'
<1>1. run[r].unwanted \in Nat /\ run[r].late \subseteq Steps
  BY DEF TypeOK, RunRow
<1>2. CASE SendStop \/ Convert
  <2>1. run' \in {run, Announced} /\ UNCHANGED <<enrollment, optedOut>>
    BY <1>2 DEF SendStop, Convert
  <2>2. /\ run'[r].pc = run[r].pc /\ run'[r].tries = run[r].tries /\ run'[r].drip = run[r].drip
        /\ Kept(r)
    BY <2>1, AnnouncedFields
  <2>3. Progress(r)'
    BY <2>1, <2>2 DEF RunInv, Progress, Active, Kept
  <2>4. Stopped(r)'
    BY <2>1, <2>2 DEF RunInv, Stopped, Active, Kept
  <2>5. OptedOut(r)'
    BY <2>1, <2>2 DEF RunInv, OptedOut, Active, Kept
  <2> QED  BY <2>3, <2>4, <2>5 DEF RunInv
<1>3. ASSUME NEW c \in {{}, {"sms"}, {"email"}}, Stop(c) PROVE RunInv(r)'
  <2>1. run' = run /\ optedOut' = optedOut \cup c
    BY <1>3 DEF Stop
  <2>2. /\ enrollment'[r].again = enrollment[r].again
        /\ enrollment'[r].status = IF Active(r) THEN "stopped" ELSE enrollment[r].status
    BY <1>3 DEF Stop, TypeOK, EnrollmentRow
  <2>3. LoggedSteps(r)' = LoggedSteps(r)
    BY <2>1 DEF LoggedSteps
  <2>4. Progress(r)'
    BY <2>1, <2>2, <2>3 DEF RunInv, Progress, Active
  <2>5. Stopped(r)'
    BY <2>1, <2>2 DEF RunInv, Stopped, Active
  <2>6. OptedOut(r)'
    BY <2>1, <2>2 DEF RunInv, OptedOut, Active, Sending
  <2> QED  BY <2>4, <2>5, <2>6 DEF RunInv
<1> QED  BY <1>2, <1>3

\* A run stays true to its rows where its own enrollment and place change together.
LEMMA OwnStep ==
    ASSUME TypeOK, NEW r \in Runs, RunInv(r),
           RunStep(r) \/ Die(r) \/ BridgeFails(r) \/ \E d \in Drips : StartRun(r, d)
    PROVE  RunInv(r)'
<1> USE DEF RunInv
<1>0. /\ run[r].unwanted \in Nat /\ run[r].late \subseteq Steps /\ run[r].step \in 1..NumSteps
      /\ run[r].pc \in Pcs /\ enrollment[r] \in EnrollmentRow
  BY DEF TypeOK, RunRow, Pcs, Steps
<1>1. ASSUME NEW d \in Drips, StartRun(r, d) PROVE RunInv(r)'
  <2>1. run'[r] = [run[r] EXCEPT !.pc = "enroll", !.drip = d] /\ UNCHANGED <<enrollment, optedOut>>
    BY <1>1 DEF StartRun, TypeOK
  <2>2. run'[r].pc = "enroll" /\ run'[r].drip = d /\ run'[r].tries = run[r].tries
    BY <2>1 DEF TypeOK, RunRow
  <2>3. Kept(r)
    BY <2>1 DEF TypeOK, RunRow, Kept, LoggedSteps
  <2>4. run[r].pc = "idle"
    BY <1>1 DEF StartRun
  <2>5. Progress(r)'
    BY <2>1, <2>2, <2>3, <2>4 DEF Progress, Kept, Active, Over, Reporting
  <2>6. Stopped(r)' /\ OptedOut(r)'
    BY <2>1, <2>2, <2>3, <2>4 DEF Stopped, OptedOut, Kept, Enrolling, Sending
  <2> QED  BY <2>5, <2>6
<1>2. CASE Cancel(r)
  <2>1. Move(r, "cancelled") /\ run[r].pc \in Boundary /\ UNCHANGED <<enrollment, optedOut>>
    BY <1>2 DEF Cancel
  <2>2. run'[r].pc = "cancelled" /\ run'[r].drip = run[r].drip /\ Kept(r)
    BY <2>1, MoveFields
  <2>3. Progress(r)'
    BY <2>1, <2>2 DEF Progress, Kept, Active, Over, Reporting, Boundary
  <2>4. Stopped(r)' /\ OptedOut(r)'
    BY <2>1, <2>2 DEF Stopped, OptedOut, Kept, Enrolling, Sending, Active
  <2> QED  BY <2>3, <2>4
<1>3. CASE LookEnrolled(r)
  <2>1. /\ run[r].pc = "enroll" /\ UNCHANGED <<enrollment, optedOut>>
        /\ Move(r, "skipped") \/ Move(r, "insert")
    BY <1>3 DEF LookEnrolled
  <2>2. /\ run'[r].pc \in {"skipped", "insert"} /\ run'[r].tries = run[r].tries
        /\ run'[r].drip = run[r].drip /\ Kept(r)
    BY <2>1, MoveFields
  <2>3. Progress(r)'
    BY <2>1, <2>2 DEF Progress, Kept, Active, Over, Reporting
  <2>4. Stopped(r)' /\ OptedOut(r)'
    BY <2>1, <2>2 DEF Stopped, OptedOut, Kept, Enrolling, Sending, Active
  <2> QED  BY <2>3, <2>4
<1>4. CASE InsertEnrollment(r)
  <2>1. run[r].pc = "insert" /\ UNCHANGED optedOut
    BY <1>4 DEF InsertEnrollment
  <2>2. CASE enrollment' = [enrollment EXCEPT ![r] = FreshRow(r)] /\ Move(r, "enrolled")
    <3>1. enrollment'[r].status = "active"
      BY <2>2 DEF FreshRow, TypeOK
    <3>2. run'[r].pc = "enrolled" /\ run'[r].tries = run[r].tries /\ run'[r].drip = run[r].drip /\ Kept(r)
      BY <2>2, MoveFields
    <3>3. Progress(r)'
      BY <2>1, <3>1, <3>2 DEF Progress, Kept, Active, Over, Reporting
    <3>4. Stopped(r)' /\ OptedOut(r)'
      BY <2>1, <3>1, <3>2 DEF Stopped, OptedOut, Kept, Enrolling, Sending, Active
    <3> QED  BY <3>3, <3>4
  <2>3. CASE run' = Retried(r, "enroll") /\ UNCHANGED enrollment
    <3>1. /\ run'[r].pc \in {"enroll", "failed"} /\ Kept(r) /\ run'[r].drip = run[r].drip
          /\ run'[r].pc # "failed" => run'[r].tries < MaxAttempts
      BY <2>1, <2>3, RetryFields DEF Over
    <3>2. Progress(r)'
      BY <2>1, <2>3, <3>1 DEF Progress, Kept, Active, Over, Reporting
    <3>3. Stopped(r)' /\ OptedOut(r)'
      BY <2>1, <2>3, <3>1 DEF Stopped, OptedOut, Kept, Enrolling, Sending, Active
    <3> QED  BY <3>2, <3>3
  <2> QED  BY <1>4, <2>2, <2>3 DEF InsertEnrollment
<1>5. CASE RecordEnrolled(r) \/ Wake(r)
  <2>1. /\ UNCHANGED <<enrollment, optedOut>>
        /\ \/ run[r].pc = "enrolled" /\ Memo(r, "sleep")
           \/ run[r].pc = "sleep" /\ Memo(r, "check")
    BY <1>5 DEF RecordEnrolled, Wake
  <2>2. run'[r].pc \in {"sleep", "check"} /\ run'[r].tries = 0 /\ run'[r].drip = run[r].drip /\ Kept(r)
    BY <2>1, MemoFields DEF Memo
  <2>3. Progress(r)'
    BY <2>1, <2>2, BoundsAssumption DEF Progress, Kept, Active, Over, Reporting
  <2>4. Stopped(r)' /\ OptedOut(r)'
    BY <2>1, <2>2 DEF Stopped, OptedOut, Kept, Enrolling, Sending, Active
  <2> QED  BY <2>3, <2>4
<1>6. CASE Check(r)
  <2>1. /\ UNCHANGED <<enrollment, optedOut>> /\ run[r].pc = "check"
        /\ Memo(r, IF Active(r) THEN "send" ELSE "stopped")
    BY <1>6 DEF Check, StillActive
  <2>2. /\ run'[r].pc = IF Active(r) THEN "send" ELSE "stopped"
        /\ run'[r].tries = 0 /\ run'[r].drip = run[r].drip /\ Kept(r)
    <3> DEFINE p == IF Active(r) THEN "send" ELSE "stopped"
    <3>1. run' = [run EXCEPT ![r].pc = p, ![r].tries = 0]
      BY <2>1 DEF Memo
    <3> HIDE DEF p
    <3>2. run'[r].pc = p /\ run'[r].tries = 0 /\ run'[r].drip = run[r].drip /\ Kept(r)
      BY <3>1, MemoFields
    <3> QED  BY <3>2 DEF p
  <2>3. Progress(r)'
    BY <2>1, <2>2, BoundsAssumption DEF Progress, Kept, Active, Over, Reporting
  <2>4. Stopped(r)'
    BY <2>1, <2>2 DEF Stopped, Kept, Enrolling, Sending, Active
  <2>5. OptedOut(r)'
    BY <2>1, <2>2 DEF OptedOut, Kept, Enrolling, Sending, Active
  <2> QED  BY <2>3, <2>4, <2>5
<1>7. CASE ReadCustomer(r)
  <2>1. UNCHANGED <<enrollment, optedOut>> /\ run[r].pc = "send"
    BY <1>7 DEF ReadCustomer
  <2>2. /\ run'[r].tries = run[r].tries /\ run'[r].drip = run[r].drip /\ Kept(r)
        /\ run'[r].pc = IF Suppressed(run[r].step) THEN "log" ELSE "guard"
    BY <1>7, ReadFields
  <2>3. Progress(r)'
    BY <2>1, <2>2 DEF Progress, Kept, Active, Over, Reporting
  <2>4. Stopped(r)'
    BY <2>1, <2>2 DEF Stopped, Kept, Enrolling, Sending, Active
  <2>5. OptedOut(r)'
    BY <2>1, <2>2 DEF OptedOut, Kept, Enrolling, Sending, Active, Suppressed
  <2> QED  BY <2>3, <2>4, <2>5
<1>8. CASE Transmit(r)
  <2>1. UNCHANGED <<enrollment, optedOut>> /\ run[r].pc = "guard"
    BY <1>8 DEF Transmit
  <2>2. /\ run'[r].pc = "log" /\ run'[r].tries = run[r].tries /\ run'[r].drip = run[r].drip
        /\ run'[r].step = run[r].step /\ LoggedSteps(r)' = LoggedSteps(r)
        /\ \/ run'[r].late = run[r].late
           \/ /\ run'[r].late = run[r].late \cup {run[r].step}
              /\ ~Active(r) \/ enrollment[r].again
        /\ \/ run'[r].unwanted = run[r].unwanted
           \/ run'[r].unwanted = run[r].unwanted + 1 /\ Channel[run[r].step] \in optedOut
    BY <1>8, TransmitFields
  <2>3. Progress(r)'
    BY <2>1, <2>2 DEF Progress, Active, Over, Reporting
  <2>4. Stopped(r)'
    BY <1>0, <2>1, <2>2 DEF Stopped, Enrolling, Sending, Active, Steps
  <2>5. OptedOut(r)'
    BY <1>0, <2>1, <2>2 DEF OptedOut, Enrolling, Sending, Active
  <2> QED  BY <2>3, <2>4, <2>5
<1>9. CASE Log(r)
  <2>1. UNCHANGED optedOut /\ run[r].pc = "log"
    BY <1>9 DEF Log
  <2>2. enrollment'[r].status = enrollment[r].status /\ enrollment'[r].again = enrollment[r].again
    BY <1>9 DEF Log, TypeOK, EnrollmentRow
  <2>3. /\ run'[r].pc = "logged" /\ run'[r].tries = run[r].tries /\ run'[r].drip = run[r].drip
        /\ run'[r].step = run[r].step
        /\ LoggedSteps(r)' = LoggedSteps(r) \cup {run[r].step}
        /\ run'[r].late = run[r].late /\ run'[r].unwanted = run[r].unwanted
    BY <1>9, LogFields
  <2>4. Progress(r)'
    BY <2>1, <2>2, <2>3 DEF Progress, Active, Over, Reporting
  <2>5. Stopped(r)'
    BY <2>1, <2>2, <2>3 DEF Stopped, Enrolling, Sending, Active
  <2>6. OptedOut(r)'
    BY <2>1, <2>2, <2>3 DEF OptedOut, Enrolling, Sending, Active
  <2> QED  BY <2>4, <2>5, <2>6
<1>10. CASE RecordSent(r) /\ Verdict(r)
  <2>1. UNCHANGED <<enrollment, optedOut>> /\ run[r].pc = "logged"
    BY <1>10 DEF RecordSent
  <2>2. run'[r].tries = 0 /\ run'[r].pc = "publish" /\ run'[r].drip = run[r].drip /\ Kept(r)
    BY <1>10, SentFields
  <2>3. Progress(r)'
    BY <2>1, <2>2, BoundsAssumption DEF Progress, Kept, Active, Over, Reporting
  <2>4. Stopped(r)' /\ OptedOut(r)'
    BY <2>1, <2>2 DEF Stopped, OptedOut, Kept, Enrolling, Sending, Active
  <2> QED  BY <2>3, <2>4
<1>11. CASE RecordBridged(r) \/ (RecordSent(r) /\ ~Verdict(r))
  <2>1. /\ UNCHANGED <<enrollment, optedOut>> /\ run[r].pc \in {"logged", "bridged"}
        /\ run' = NextStep(r)
    BY <1>11 DEF RecordSent, RecordBridged
  <2>2. /\ run'[r].tries = 0 /\ run'[r].drip = run[r].drip /\ LoggedSteps(r)' = LoggedSteps(r)
        /\ run'[r].late = run[r].late /\ run'[r].unwanted = run[r].unwanted
        /\ \/ run[r].step = NumSteps /\ run'[r].pc = "complete" /\ run'[r].step = run[r].step
           \/ run[r].step # NumSteps /\ run'[r].pc = "sleep" /\ run'[r].step = run[r].step + 1
    BY <2>1, NextFields
  <2>3. Progress(r)'
    <3>1. 1..run[r].step \subseteq LoggedSteps(r)
      <4>1. 1..(run[r].step - 1) \subseteq LoggedSteps(r) /\ run[r].step \in LoggedSteps(r)
        BY <2>1 DEF Progress, Reporting
      <4>2. 1..run[r].step = 1..(run[r].step - 1) \cup {run[r].step}
        BY <1>0
      <4> QED  BY <4>1, <4>2
    <3>2. LoggedSteps(r) \subseteq Steps
      BY DEF LoggedSteps, TypeOK, RunRow
    <3>3. 1..(run'[r].step - 1) \subseteq LoggedSteps(r)'
      BY <1>0, <2>2, <3>1, StepsAssumption
    <3>4. run'[r].pc = "complete" => LoggedSteps(r)' = Steps
      BY <2>2, <3>1, <3>2 DEF Steps
    <3> QED  BY <2>1, <2>2, <3>3, <3>4, BoundsAssumption DEF Progress, Active, Over, Reporting
  <2>4. Stopped(r)'
    BY <2>1, <2>2 DEF Stopped, Enrolling, Sending, Active
  <2>5. OptedOut(r)'
    BY <2>1, <2>2 DEF OptedOut, Enrolling, Sending, Active
  <2> QED  BY <2>3, <2>4, <2>5
<1>12. CASE Publish(r) \/ Raise(r) \/ BridgeFails(r)
  <2>1. /\ UNCHANGED <<enrollment, optedOut>> /\ run[r].pc \in {"publish", "raise"}
        /\ Move(r, "raise") \/ Move(r, "bridged")
    BY <1>12 DEF Publish, Raise, BridgeFails
  <2>2. /\ run'[r].pc \in {"raise", "bridged"} /\ run'[r].tries = run[r].tries
        /\ run'[r].drip = run[r].drip /\ Kept(r)
    BY <2>1, MoveFields
  <2>3. Progress(r)'
    BY <2>1, <2>2 DEF Progress, Kept, Active, Over, Reporting
  <2>4. Stopped(r)' /\ OptedOut(r)'
    BY <2>1, <2>2 DEF Stopped, OptedOut, Kept, Enrolling, Sending, Active
  <2> QED  BY <2>3, <2>4
<1>13. CASE Complete(r)
  <2>1. UNCHANGED optedOut /\ run[r].pc = "complete" /\ Move(r, "done")
    BY <1>13 DEF Complete
  <2>2. /\ enrollment'[r].again = enrollment[r].again
        /\ enrollment'[r].status = IF Active(r) THEN "completed" ELSE enrollment[r].status
    BY <1>13 DEF Complete, Completes, Active, TypeOK, EnrollmentRow
  <2>3. run'[r].pc = "done" /\ run'[r].drip = run[r].drip /\ Kept(r)
    BY <2>1, MoveFields
  <2>4. Progress(r)'
    BY <2>1, <2>2, <2>3 DEF Progress, Kept, Active, Over, Reporting
  <2>5. Stopped(r)'
    BY <2>1, <2>2, <2>3 DEF Stopped, Kept, Enrolling, Sending, Active
  <2>6. OptedOut(r)'
    BY <2>1, <2>2, <2>3 DEF OptedOut, Kept, Enrolling, Sending, Active
  <2> QED  BY <2>4, <2>5, <2>6
<1>14. CASE Die(r)
  <2>1. /\ UNCHANGED <<enrollment, optedOut>> /\ run[r].pc \in Inside
        /\ run' = Retried(r, Restart(run[r].pc))
    BY <1>14 DEF Die
  <2>2. /\ run'[r].pc \in {Restart(run[r].pc), "failed"} /\ Kept(r) /\ run'[r].drip = run[r].drip
        /\ run'[r].pc # "failed" => run'[r].tries < MaxAttempts
    BY <2>1, RetryFields DEF Inside, Over
  <2>3. Progress(r)'
    BY <2>1, <2>2 DEF Progress, Kept, Active, Over, Reporting, Restart, Inside
  <2>4. Stopped(r)'
    BY <2>1, <2>2 DEF Stopped, Kept, Enrolling, Sending, Active, Restart, Inside
  <2>5. OptedOut(r)'
    BY <2>1, <2>2 DEF OptedOut, Kept, Enrolling, Sending, Active, Restart, Inside
  <2> QED  BY <2>3, <2>4, <2>5
<1> QED
  BY <1>1, <1>2, <1>3, <1>4, <1>5, <1>6, <1>7, <1>8, <1>9, <1>10, <1>11, <1>12, <1>13, <1>14
  DEF RunStep

\* Every operation leaves what is said of the runs true.
LEMMA RunsStep ==
    ASSUME TypeOK, RunsInv, [Next]_vars
    PROVE  RunsInv'
<1>1. (stops <= requests)'
  <2>0. stops \in Nat /\ requests \in Nat /\ stops <= requests
    BY BoundsAssumption DEF TypeOK, RunsInv
  <2>1. ASSUME NEW c \in {{}, {"sms"}, {"email"}}, Stop(c) PROVE (stops <= requests)'
    BY <2>0, <2>1 DEF Stop
  <2>2. CASE SendStop \/ Convert
    BY <2>0, <2>2 DEF SendStop, Convert
  <2>3. CASE UNCHANGED <<stops, requests>>
    BY <2>0, <2>3
  <2> QED  BY ZenonT(40), <2>1, <2>2, <2>3 DEF Next, RunStep, vars, Die, BridgeFails, StartRun, Cancel, LookEnrolled,
         InsertEnrollment, RecordEnrolled, Wake, Check, ReadCustomer, Transmit, Log, RecordSent, Publish,
         Raise, RecordBridged, Complete
<1>2. ASSUME NEW q \in Runs PROVE RunInv(q)'
  <2>0. RunInv(q)
    BY DEF RunsInv
  <2>1. CASE SendStop \/ Convert \/ \E c \in {{}, {"sms"}, {"email"}} : Stop(c)
    BY <2>0, <2>1, StopStep
  <2>2. ASSUME NEW r \in Runs,
               RunStep(r) \/ Die(r) \/ BridgeFails(r) \/ \E d \in Drips : StartRun(r, d)
        PROVE  RunInv(q)'
    <3>1. CASE q = r
      BY <2>0, <2>2, <3>1, OwnStep
    <3>2. CASE q # r
      <4>1. run'[q] = run[q] /\ enrollment'[q] = enrollment[q]
        BY <2>2, <3>2, OwnRowsOnly
      <4>2. optedOut' = optedOut
        BY <2>2 DEF RunStep, Die, BridgeFails, StartRun, Cancel, LookEnrolled, InsertEnrollment,
           RecordEnrolled, Wake, Check, ReadCustomer, Transmit, Log, RecordSent, Publish, Raise,
           RecordBridged, Complete
      <4> QED  BY <2>0, <4>1, <4>2 DEF RunInv, Progress, Stopped, OptedOut, LoggedSteps, Active
    <3> QED  BY <3>1, <3>2
  <2>3. CASE UNCHANGED vars
    BY <2>0, <2>3 DEF vars, RunInv, Progress, Stopped, OptedOut, LoggedSteps, Active
  <2> QED  BY <2>1, <2>2, <2>3 DEF Next
<1> QED  BY <1>1, <1>2 DEF RunsInv

-----------------------------------------------------------------------------
(* The runs and each other.                                                *)

\* An enrollment becomes active only by an insert, which the index lets through alone.
LEMMA EnrolledStep ==
    ASSUME TypeOK, RunsInv, Enrolled, [Next]_vars
    PROVE  Enrolled'
<1>1. CASE \A r \in Runs : Active(r)' => Active(r) /\ run'[r].drip = run[r].drip
  BY <1>1 DEF Enrolled
<1>2. CASE SendStop \/ Convert
  <2>1. run' \in {run, Announced} /\ UNCHANGED enrollment
    BY <1>2 DEF SendStop, Convert
  <2> QED  BY <1>1, <2>1, AnnouncedFields DEF Active
<1>3. ASSUME NEW c \in {{}, {"sms"}, {"email"}}, Stop(c) PROVE Enrolled'
  <2>1. \A r \in Runs : Active(r)' => Active(r)
    BY <1>3 DEF Stop, Active, TypeOK, EnrollmentRow
  <2> QED  BY <1>1, <1>3, <2>1 DEF Stop
<1>4. ASSUME NEW r \in Runs, InsertEnrollment(r) PROVE Enrolled'
  <2>1. \A q \in Runs : q # r => run'[q] = run[q] /\ enrollment'[q] = enrollment[q]
    BY <1>4, OwnRowsOnly DEF RunStep
  <2>2. run'[r].drip = run[r].drip
    <3>1. Progress(r) /\ run[r].pc \notin Over
      BY <1>4 DEF RunsInv, RunInv, InsertEnrollment, Over
    <3>2. Move(r, "enrolled") \/ run' = Retried(r, "enroll")
      BY <1>4 DEF InsertEnrollment
    <3> QED  BY <3>1, <3>2, MoveFields, RetryFields
  <2>3. CASE UNCHANGED enrollment
    BY <1>1, <2>1, <2>2, <2>3 DEF Active
  <2>4. CASE IndexFree(run[r].drip)
    BY <2>1, <2>2, <2>4 DEF IndexFree, Occupied, Enrolled, Active
  <2> QED  BY <1>4, <2>3, <2>4 DEF InsertEnrollment
<1>5. ASSUME NEW r \in Runs, NEW d \in Drips, StartRun(r, d) PROVE Enrolled'
  <2>1. \A q \in Runs : q # r => run'[q] = run[q]
    BY <1>5, OwnRowsOnly
  <2>2. ~Active(r) /\ UNCHANGED enrollment
    BY <1>5 DEF StartRun, RunsInv, RunInv, Progress, Active
  <2> QED  BY <1>1, <2>1, <2>2 DEF Active
<1>6. ASSUME NEW r \in Runs, Die(r) \/ BridgeFails(r) \/ (RunStep(r) /\ ~InsertEnrollment(r))
      PROVE  Enrolled'
  <2>1. \A q \in Runs : q # r => run'[q] = run[q] /\ enrollment'[q] = enrollment[q]
    BY <1>6, OwnRowsOnly
  <2>2. Active(r)' => Active(r)
    BY ZenonT(40), <1>6 DEF RunStep, Die, BridgeFails, Cancel, LookEnrolled, RecordEnrolled, Wake, Check,
       ReadCustomer, Transmit, Log, RecordSent, Publish, Raise, RecordBridged, Complete, Completes,
       Active, TypeOK, EnrollmentRow
  <2>3. run'[r].drip = run[r].drip
    <3>1. CASE \E pc \in Pcs : Move(r, pc)
      BY <3>1, MoveFields
    <3>2. CASE \E pc \in Pcs : run' = [run EXCEPT ![r].pc = pc, ![r].tries = 0]
      <4>1. PICK pc \in Pcs : run' = [run EXCEPT ![r].pc = pc, ![r].tries = 0]
        BY <3>2
      <4> QED  BY <4>1, MemoFields
    <3>3. CASE Cancel(r) \/ LookEnrolled(r) \/ Publish(r) \/ Raise(r) \/ BridgeFails(r) \/ Complete(r)
      BY <3>1, <3>3 DEF Cancel, LookEnrolled, Publish, Raise, BridgeFails, Complete, Pcs, Inside, Over
    <3>4. CASE RecordEnrolled(r) \/ Wake(r) \/ Check(r)
      BY <3>2, <3>4 DEF RecordEnrolled, Wake, Check, Memo, Pcs, Boundary, Over
    <3>5. CASE ReadCustomer(r) \/ Transmit(r) \/ Log(r)
      BY <3>5, ReadFields, TransmitFields, LogFields
    <3>6. CASE RecordSent(r) \/ RecordBridged(r)
      BY <3>6, NextFields, SentFields DEF RecordSent, RecordBridged
    <3>7. CASE Die(r)
      <4>1. Progress(r) /\ run[r].pc \notin Over /\ run' = Retried(r, Restart(run[r].pc))
        BY <3>7 DEF RunsInv, RunInv, Die, Inside, Over
      <4> QED  BY <4>1, RetryFields
    <3> QED  BY <1>6, <3>3, <3>4, <3>5, <3>6, <3>7 DEF RunStep
  <2> QED  BY <1>1, <2>1, <2>2, <2>3 DEF Active
<1>7. CASE UNCHANGED vars
  BY <1>1, <1>7 DEF vars, Active
<1> QED  BY <1>2, <1>3, <1>4, <1>5, <1>6, <1>7 DEF Next

\* Only a publication under a new key leads to an escalation.
LEMMA EscalatedStep ==
    ASSUME TypeOK, RunsInv, Escalated, [Next]_vars
    PROVE  Escalated'
<1>1. CASE /\ UNCHANGED <<published, raised>>
           /\ \A r \in Runs : run'[r].pc = "raise" => run[r].pc = "raise" /\ run'[r].step = run[r].step
  BY <1>1 DEF Escalated
<1>2. CASE SendStop \/ Convert
  <2>1. run' \in {run, Announced} /\ UNCHANGED <<published, raised>>
    BY <1>2 DEF SendStop, Convert
  <2> QED  BY <1>1, <2>1, AnnouncedFields DEF Kept
<1>3. ASSUME NEW r \in Runs, Publish(r) PROVE Escalated'
  <2>1. /\ published' = published \cup {run[r].step} /\ UNCHANGED raised
        /\ Move(r, IF NewKey(run[r].step) /\ run[r].outcome = "blocked" THEN "raise" ELSE "bridged")
    BY <1>3 DEF Publish
  <2>2. /\ run'[r].pc = "raise" => NewKey(run[r].step)
        /\ run'[r].step = run[r].step
    BY <2>1, MoveFields DEF Kept
  <2>3. \A q \in Runs : q # r => run'[q] = run[q]
    BY <1>3, OwnRowsOnly DEF RunStep
  <2>4. \A x \in raised : x[1] \in published'
    BY <2>1 DEF Escalated
  <2>5. CASE run'[r].pc # "raise"
    BY <2>1, <2>3, <2>4, <2>5 DEF Escalated
  <2>6. CASE run'[r].pc = "raise"
    <3>1. run[r].step \notin published
      BY <2>2, <2>6 DEF NewKey
    <3> QED  BY <2>1, <2>2, <2>3, <2>4, <3>1 DEF Escalated
  <2> QED  BY <2>5, <2>6
<1>4. ASSUME NEW r \in Runs, Raise(r) PROVE Escalated'
  <2>1. /\ run[r].pc = "raise" /\ UNCHANGED published /\ Move(r, "bridged")
        /\ raised' = raised \cup {<<run[r].step, r>>}
    BY <1>4 DEF Raise
  <2>2. run'[r].pc = "bridged"
    BY <2>1, MoveFields
  <2>3. \A q \in Runs : q # r => run'[q] = run[q]
    BY <1>4, OwnRowsOnly DEF RunStep
  <2>4. <<run[r].step, r>>[1] = run[r].step
    OBVIOUS
  <2>5. /\ \A x \in raised' : x[1] \in published'
        /\ \A x, y \in raised' : x[1] = y[1] => x = y
    BY <2>1, <2>4 DEF Escalated
  <2>6. ASSUME NEW q \in Runs, run'[q].pc = "raise"
        PROVE  /\ run'[q].step \in published'
               /\ \A x \in raised' : x[1] # run'[q].step
               /\ \A p \in Runs : run'[p].pc = "raise" /\ run'[p].step = run'[q].step => p = q
    <3>1. q # r /\ run'[q] = run[q]
      BY <2>2, <2>3, <2>6
    <3>2. run[q].step # run[r].step
      BY <2>1, <2>6, <3>1 DEF Escalated
    <3> QED  BY <2>1, <2>2, <2>3, <2>4, <2>6, <3>1, <3>2 DEF Escalated
  <2> QED  BY <2>5, <2>6 DEF Escalated
<1>5. ASSUME NEW r \in Runs,
             \/ Die(r) \/ BridgeFails(r) \/ \E d \in Drips : StartRun(r, d)
             \/ RunStep(r) /\ ~Publish(r) /\ ~Raise(r)
      PROVE  Escalated'
  <2>1. \A q \in Runs : q # r => run'[q] = run[q]
    BY <1>5, OwnRowsOnly
  <2>2. UNCHANGED <<published, raised>>
    BY <1>5 DEF RunStep, Die, BridgeFails, StartRun, Cancel, LookEnrolled, InsertEnrollment,
       RecordEnrolled, Wake, Check, ReadCustomer, Transmit, Log, RecordSent, RecordBridged, Complete
  <2>3. run'[r].pc # "raise"
    <3>1. CASE Cancel(r) \/ LookEnrolled(r) \/ BridgeFails(r) \/ Complete(r)
      BY <3>1, MoveFields DEF Cancel, LookEnrolled, BridgeFails, Complete
    <3>2. CASE RecordEnrolled(r) \/ Wake(r) \/ Check(r)
      <4>1. PICK pc \in {"sleep", "check", "send", "stopped"} : run' = [run EXCEPT ![r].pc = pc, ![r].tries = 0]
        BY <3>2 DEF RecordEnrolled, Wake, Check, Memo
      <4> QED  BY <4>1, MemoFields
    <3>3. CASE ReadCustomer(r) \/ Transmit(r) \/ Log(r)
      BY <3>3, ReadFields, TransmitFields, LogFields
    <3>4. CASE RecordSent(r) \/ RecordBridged(r)
      BY <3>4, NextFields, SentFields DEF RecordSent, RecordBridged
    <3>5. CASE Die(r) \/ InsertEnrollment(r)
      <4>1. Progress(r) /\ run[r].pc \notin Over
        BY <3>5 DEF RunsInv, RunInv, Die, InsertEnrollment, Inside, Over
      <4>2. run' = Retried(r, Restart(run[r].pc)) \/ run' = Retried(r, "enroll") \/ Move(r, "enrolled")
        BY <3>5 DEF Die, InsertEnrollment
      <4>3. Restart(run[r].pc) \in {"enroll", "send", "publish"}
        BY DEF Restart
      <4> QED  BY <4>1, <4>2, <4>3, RetryFields, MoveFields
    <3>6. ASSUME NEW d \in Drips, StartRun(r, d) PROVE run'[r].pc # "raise"
      BY <3>6 DEF StartRun, TypeOK, RunRow
    <3> QED  BY <1>5, <3>1, <3>2, <3>3, <3>4, <3>5, <3>6 DEF RunStep
  <2> QED  BY <1>1, <2>1, <2>2, <2>3
<1>6. CASE UNCHANGED <<published, raised, run>>
  BY <1>1, <1>6
<1> QED  BY <1>2, <1>3, <1>4, <1>5, <1>6 DEF Next, Stop, vars

\* The inductive invariant of the drips.
LEMMA Inductive == Spec => []IInv
<1>1. Init => IInv
  <2> SUFFICES ASSUME Init PROVE IInv
    OBVIOUS
  <2> USE StepsAssumption, BoundsAssumption
  <2>1. enrollment \in [Runs -> EnrollmentRow]
    BY DEF Init, EnrollmentRow
  <2>2. run \in [Runs -> RunRow]
    BY DEF Init, RunRow, Steps, Outcome
  <2>3. TypeOK
    <3>1. stops \in 0..MaxStops /\ requests \in 0..MaxStops /\ deaths \in 0..MaxDeaths
      BY DEF Init
    <3>2. optedOut \subseteq {"sms", "email"} /\ published \subseteq Steps /\ raised \subseteq Steps \X Runs
      BY DEF Init
    <3> QED  BY <2>1, <2>2, <3>1, <3>2 DEF TypeOK
  <2>4. ASSUME NEW r \in Runs PROVE RunInv(r)
    <3>1. /\ run[r].pc = "idle" /\ run[r].step = 1 /\ run[r].tries = 0
          /\ run[r].late = {} /\ run[r].unwanted = 0 /\ enrollment[r].status = "none"
      BY DEF Init
    <3>2. 1..(1 - 1) = {}
      OBVIOUS
    <3> QED  BY <3>1, <3>2 DEF RunInv, Progress, Stopped, OptedOut, Active, Reporting, Enrolling, Sending
  <2>5. Enrolled /\ Escalated /\ RunsInv
    BY <2>4 DEF Init, Enrolled, Escalated, RunsInv, Active
  <2> QED  BY <2>3, <2>5 DEF IInv
<1>2. IInv /\ [Next]_vars => IInv'
  BY TypeStep, RunsStep, EnrolledStep, EscalatedStep DEF IInv
<1> QED  BY <1>1, <1>2, PTL DEF Spec

-----------------------------------------------------------------------------
\* A set whose elements are all equal has one at most.
LEMMA AtMostOne ==
    ASSUME NEW S, \A x, y \in S : x = y
    PROVE  Cardinality(S) <= 1
<1>1. CASE S = {}
  BY <1>1, FS_EmptySet
<1>2. CASE S # {}
  <2>1. PICK x \in S : S = {x}
    BY <1>2
  <2>2. Cardinality({x}) = 1
    BY FS_Singleton
  <2> QED  BY <2>1, <2>2
<1> QED  BY <1>1, <1>2

\* However many enroll events, repeats and stops meet, a customer is in one active enrollment
\* of a drip, what ended is closed and fully logged, and a step is escalated once (dripRun,
\* its partial unique index and its publication keys).
THEOREM RowsAgree == Spec => []DripsInv
<1>1. IInv => DripsInv
  <2> SUFFICES ASSUME IInv PROVE DripsInv
    OBVIOUS
  <2> USE DEF IInv
  <2>1. OneActivePerDrip
    <3> SUFFICES ASSUME NEW d \in Drips
                 PROVE  Cardinality({r \in Runs : run[r].drip = d /\ Active(r)}) <= 1
      BY DEF OneActivePerDrip
    <3>1. \A q, r \in {p \in Runs : run[p].drip = d /\ Active(p)} : q = r
      BY DEF Enrolled
    <3> QED  BY <3>1, AtMostOne
  <2>2. WalkedIsLogged
    BY DEF WalkedIsLogged, RunsInv, RunInv, Progress, LoggedSteps
  <2>3. EndedIsClosed
    BY DEF EndedIsClosed, RunsInv, RunInv, Progress
  <2>4. RaisedOnce
    <3> SUFFICES ASSUME NEW k \in Steps PROVE Cardinality({x \in raised : x[1] = k}) <= 1
      BY DEF RaisedOnce
    <3>1. \A x, y \in {z \in raised : z[1] = k} : x = y
      BY DEF Escalated
    <3> QED  BY <3>1, AtMostOne
  <2> QED  BY <2>1, <2>2, <2>3, <2>4 DEF DripsInv
<1> QED  BY <1>1, Inductive, PTL

\* Whatever is repeated, a run whose enrollment was stopped and that does not enroll again
\* sends one step more at most, the one under way (the check before each step of dripRun).
THEOREM OneLateStep == Spec => []AtMostOneLateStep
<1>1. IInv => AtMostOneLateStep
  <2> SUFFICES ASSUME IInv, NEW r \in Runs, ~enrollment[r].again
               PROVE  Cardinality(run[r].late) <= 1
    BY DEF AtMostOneLateStep
  <2>1. \A x, y \in run[r].late : x = y
    BY DEF IInv, RunsInv, RunInv, Stopped
  <2> QED  BY <2>1, AtMostOne
<1> QED  BY <1>1, Inductive, PTL

\* One message at most leaves a run on a channel after the opt-out from it, however often its
\* attempts are repeated (sendDripStep reads the customer in every attempt).
THEOREM OneUnwanted == Spec => []AtMostOneUnwanted
<1>1. IInv => AtMostOneUnwanted
  BY DEF IInv, RunsInv, RunInv, OptedOut, AtMostOneUnwanted
<1> QED  BY <1>1, Inductive, PTL

\* Deaths, repeats and re-enrollments included, a stop or an opt-out is outlived by the step
\* under way alone (sendDripStep and the check before it).
THEOREM StopsAreSoon == Spec => []StoppedSoon
<1>1. AtMostOneLateStep /\ AtMostOneUnwanted => StoppedSoon
  BY DEF StoppedSoon
<1> QED  BY <1>1, OneLateStep, OneUnwanted, PTL

\* No operation makes a stopped enrollment active or completed: a run that comes late to its
\* end leaves it stopped (the conditional update of dripRun's last step).
THEOREM StopsStand == Spec => StopIsFinal
<1> DEFINE Final == \A r \in Runs : enrollment[r].status = "stopped" =>
                      enrollment'[r].status = "stopped" \/ run[r].pc = "insert"
<1>1. ASSUME TypeOK, [Next]_vars PROVE Final
  <2> SUFFICES ASSUME NEW q \in Runs, enrollment[q].status = "stopped", run[q].pc # "insert"
               PROVE  enrollment'[q].status = "stopped"
    OBVIOUS
  <2>0. enrollment[q] \in EnrollmentRow
    BY <1>1 DEF TypeOK
  <2>1. ASSUME NEW c \in {{}, {"sms"}, {"email"}}, Stop(c) PROVE enrollment'[q].status = "stopped"
    BY <2>1 DEF Stop, Active
  <2>2. ASSUME NEW r \in Runs,
               RunStep(r) \/ Die(r) \/ BridgeFails(r) \/ \E d \in Drips : StartRun(r, d)
        PROVE  enrollment'[q].status = "stopped"
    <3>1. CASE q # r
      BY <1>1, <2>2, <3>1, OwnRowsOnly
    <3>2. CASE UNCHANGED enrollment
      BY <3>2
    <3>3. CASE q = r /\ (Log(r) \/ Complete(r))
      BY <1>1, <2>0, <3>3 DEF Log, Complete, Completes, TypeOK, EnrollmentRow
    <3>4. CASE q = r /\ ~Log(r) /\ ~Complete(r)
      BY <2>2, <3>2, <3>4 DEF RunStep, Die, BridgeFails, StartRun, Cancel, LookEnrolled, InsertEnrollment,
         RecordEnrolled, Wake, Check, ReadCustomer, Transmit, RecordSent, Publish, Raise, RecordBridged
    <3> QED  BY <3>1, <3>3, <3>4
  <2>3. CASE UNCHANGED enrollment
    BY <2>3
  <2> QED  BY <1>1, <2>1, <2>2, <2>3 DEF Next, vars, SendStop, Convert
<1>2. IInv /\ [Next]_vars => [Final]_vars
  BY <1>1 DEF IInv
<1> QED  BY <1>2, Inductive, PTL DEF Spec, StopIsFinal
=============================================================================

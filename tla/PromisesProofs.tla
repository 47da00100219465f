--------------------------- MODULE PromisesProofs ---------------------------
(***************************************************************************)
(* What is promised to a referrer and to a customer.                       *)
(*                                                                         *)
(* Referral fees, for any number of jobs, runs and taps.  Payables and     *)
(* cards agree because one row of a job is there at most, committed or     *)
(* not: UniqueKey, which the unique index gives, is what the inductive     *)
(* invariant adds.                                                         *)
(*                                                                         *)
(* Repair credits and their check-ins, for any number of leads, estimates, *)
(* credits, handlers and faults.  A handler that read no line on its       *)
(* estimate may find one there when it writes, and the credit it picked    *)
(* may be spent by then: both only if another apply was under way.         *)
(***************************************************************************)
EXTENDS ReferralFees, CreditCheckins, FiniteSetTheorems, TLAPS

UniqueKey == \A p, q \in payable : p.job = q.job => p = q

\* A run under way holds an invoice, one about to insert asks for the approval of a fee over
\* the threshold it read, and a tap about to write holds a job.
ProcessesLinked ==
    /\ \A r \in Runs : run[r].pc # "idle" => run[r].invoice \in Invoices
    /\ \A r \in Runs : run[r].pc = "insert" /\ run[r].over => run[r].gate
    /\ \A a \in Approvals : approving[a].pc = "write" => approving[a].job \in Jobs

IInv == TypeOK /\ ProcessesLinked /\ UniqueKey /\ PendingHasCard

-----------------------------------------------------------------------------
\* What an insert adds is a row of its job, the only one, pending if it is over the threshold its
\* run read.
LEMMA InsertWrites ==
    ASSUME TypeOK, ProcessesLinked, NEW r \in Runs, Insert(r)
    PROVE  \/ payable' = payable
           \/ \E row \in PayableRow :
                /\ RowsOf(row.job) = {} /\ ~row.committed
                /\ row.gated => row.status = "pending"
                /\ payable' = payable \cup {row}
<1> DEFINE j == Job(r)
           row == [job |-> j, by |-> r, committed |-> FALSE, decided |-> FALSE,
                   gated |-> run[r].over,
                   status |-> IF run[r].gate THEN "pending" ELSE "approved"]
<1>1. j \in Jobs
  BY FeeAssumption DEF Insert, ProcessesLinked, Job
<1>2. row \in PayableRow
  <2>1. run[r].over \in BOOLEAN
    BY DEF TypeOK, RunRow
  <2>2. (IF run[r].gate THEN "pending" ELSE "approved") \in {"pending", "approved"}
    OBVIOUS
  <2> QED  BY <1>1, <2>1, <2>2 DEF PayableRow
<1>3. ~row.committed /\ row.job = j /\ (row.gated => row.status = "pending")
  BY DEF Insert, ProcessesLinked
<1>4. CASE KeyFree(j) /\ payable' = payable \cup {row}
  BY <1>2, <1>3, <1>4 DEF KeyFree
<1>5. CASE payable' = {IF p.job = j THEN OnConflict(r, p) ELSE p : p \in payable}
  <2>1. \A p \in payable : (IF p.job = j THEN OnConflict(r, p) ELSE p) = p
    BY DEF OnConflict
  <2>2. payable' = payable
    BY <1>5, <2>1
  <2> QED  BY <2>2
<1>6. \/ KeyFree(j) /\ payable' = payable \cup {row}
      \/ payable' = {IF p.job = j THEN OnConflict(r, p) ELSE p : p \in payable}
  BY Zenon DEF Insert
<1> QED  BY <1>4, <1>5, <1>6

\* A tap's update goes over the committed rows of its job and leaves the others.
Decided(p, j) ==
    IF p.job = j /\ p.committed THEN [p EXCEPT !.status = "approved", !.decided = TRUE] ELSE p

LEMMA ApprovalWrites ==
    ASSUME TypeOK, NEW a \in Approvals, WriteApproval(a)
    PROVE  /\ payable' = {Decided(p, approving[a].job) : p \in payable}
           /\ \A p \in payable : LET q == Decided(p, approving[a].job) IN
                /\ q \in PayableRow /\ q.job = p.job /\ q.committed = p.committed
                /\ q = p \/ (q.status = "approved" /\ q.decided)
                /\ p.status = "approved" => q.status = "approved"
<1> DEFINE j == approving[a].job
           Approved(p) == [p EXCEPT !.status = "approved", !.decided = TRUE]
<1>1. payable' = {p \in payable : p.job # j \/ ~p.committed}
                   \cup {Approved(p) : p \in {p \in payable : p.job = j /\ p.committed}}
  <2>1. Committed(j) = {p \in payable : p.job = j /\ p.committed}
    BY DEF Committed, RowsOf
  <2> QED  BY <2>1 DEF WriteApproval
<1>2. \A p \in payable : (p.job = j /\ p.committed) => Decided(p, j) = Approved(p)
  BY DEF Decided
<1>3. \A p \in payable : ~(p.job = j /\ p.committed) => Decided(p, j) = p
  BY DEF Decided
<1>4. payable' = {Decided(p, j) : p \in payable}
  <2> HIDE DEF Approved, j
  <2> QED  BY <1>1, <1>2, <1>3
<1>5. ASSUME NEW p \in payable
      PROVE  LET q == Decided(p, j) IN
                /\ q \in PayableRow /\ q.job = p.job /\ q.committed = p.committed
                /\ q = p \/ (q.status = "approved" /\ q.decided)
                /\ p.status = "approved" => q.status = "approved"
  <2>1. p \in PayableRow
    BY DEF TypeOK
  <2> QED  BY <2>1 DEF Decided, PayableRow
<1> QED  BY <1>4, <1>5

-----------------------------------------------------------------------------
\* The rows stay rows, and the processes hold what they started on.
LEMMA TypeStep ==
    ASSUME TypeOK, ProcessesLinked, [Next]_vars
    PROVE  TypeOK' /\ ProcessesLinked'
<1> USE FeeAssumption, ThresholdAssumption
<1>1. ASSUME NEW t \in Thresholds, SetThreshold(t) PROVE TypeOK' /\ ProcessesLinked'
  BY <1>1 DEF SetThreshold, TypeOK, ProcessesLinked
<1>2. ASSUME NEW i \in Invoices, Pay(i) PROVE TypeOK' /\ ProcessesLinked'
  BY <1>2 DEF Pay, TypeOK, ProcessesLinked
<1>3. ASSUME NEW r \in Runs, NEW i \in Invoices, StartRun(r, i) PROVE TypeOK' /\ ProcessesLinked'
  <2>1. run' \in [Runs -> RunRow]
    BY ZenonT(40), <1>3 DEF StartRun, TypeOK, RunRow
  <2> QED  BY <1>3, <2>1 DEF StartRun, TypeOK, ProcessesLinked, RunRow
<1>4. ASSUME NEW r \in Runs, Look(r) \/ Record(r) PROVE TypeOK' /\ ProcessesLinked'
  <2>1. run' \in [Runs -> RunRow]
    BY <1>4 DEF Look, Record, TypeOK, RunRow
  <2> QED  BY <1>4, <2>1 DEF Look, Record, TypeOK, ProcessesLinked, RunRow
<1>12. ASSUME NEW r \in Runs, ReadSetting(r) PROVE TypeOK' /\ ProcessesLinked'
  <2> DEFINE over == threshold # None /\ Fee[Job(r)] > threshold
             gate == RequiresApproval(Fee[Job(r)])
             row == [run[r] EXCEPT !.pc = "insert", !.gate = gate, !.over = over]
  <2>1. over \in BOOLEAN /\ gate \in BOOLEAN /\ (over => gate)
    BY DEF RequiresApproval
  <2> HIDE DEF over, gate
  <2>2. run[r] \in RunRow /\ run \in [Runs -> RunRow]
    BY DEF TypeOK
  <2>3. /\ row \in RunRow /\ row.invoice = run[r].invoice
        /\ row.gate = gate /\ row.over = over
    BY <2>1, <2>2 DEF RunRow
  <2>4. run' = [run EXCEPT ![r] = row]
    BY <1>12, <2>2 DEF ReadSetting, over, gate
  <2> HIDE DEF row
  <2>5. run' \in [Runs -> RunRow] /\ run'[r] = row /\ \A q \in Runs \ {r} : run'[q] = run[q]
    BY <2>2, <2>3, <2>4
  <2>6. ProcessesLinked'
    BY <1>12, <2>1, <2>3, <2>5 DEF ReadSetting, ProcessesLinked
  <2> QED  BY <1>12, <2>5, <2>6 DEF ReadSetting, TypeOK
<1>5. ASSUME NEW r \in Runs, Insert(r) PROVE TypeOK' /\ ProcessesLinked'
  <2>1. PICK pc \in {"card", "memo"} : run' = [run EXCEPT ![r].pc = pc]
    BY <1>5 DEF Insert
  <2>2. run' \in [Runs -> RunRow]
    BY <2>1 DEF TypeOK, RunRow
  <2>3. payable' \subseteq PayableRow
    BY <1>5, InsertWrites DEF TypeOK
  <2>4. ProcessesLinked'
    BY <1>5, <2>1 DEF Insert, TypeOK, ProcessesLinked, RunRow
  <2> QED  BY <1>5, <2>2, <2>3, <2>4 DEF Insert, TypeOK
<1>6. ASSUME NEW r \in Runs, InsertCard(r) PROVE TypeOK' /\ ProcessesLinked'
  <2>1. run' \in [Runs -> RunRow]
    BY <1>6 DEF InsertCard, TypeOK, RunRow
  <2>2. PICK p \in payable :
          /\ payable' = (payable \ {p}) \cup {[p EXCEPT !.committed = TRUE]}
          /\ card' = [card EXCEPT ![p.job] = CardFor(p, @)]
    BY <1>6 DEF InsertCard, RowsOf
  <2>3. payable' \subseteq PayableRow
    BY <2>2 DEF TypeOK, PayableRow
  <2>4. card' \in [Jobs -> {"none", "pending", "done"}]
    BY <2>2 DEF TypeOK, CardFor
  <2> QED  BY <1>6, <2>1, <2>3, <2>4 DEF InsertCard, TypeOK, ProcessesLinked, RunRow
<1>7. ASSUME NEW r \in Runs, AttemptFails(r) PROVE TypeOK' /\ ProcessesLinked'
  <2>1. run' \in [Runs -> RunRow]
    BY <1>7 DEF AttemptFails, Retries, TypeOK, RunRow
  <2> QED  BY <1>7, <2>1 DEF AttemptFails, TypeOK, ProcessesLinked, RunRow
<1>8. ASSUME NEW a \in Approvals, NEW j \in Jobs, ReadPayable(a, j) PROVE TypeOK' /\ ProcessesLinked'
  <2>1. approving' \in [Approvals -> ApproveRow]
    BY ZenonT(40), <1>8 DEF ReadPayable, TypeOK, ApproveRow
  <2> QED  BY <1>8, <2>1 DEF ReadPayable, TypeOK, ProcessesLinked, ApproveRow
<1>9. ASSUME NEW a \in Approvals, WriteApproval(a) PROVE TypeOK' /\ ProcessesLinked'
  <2>1. approving' \in [Approvals -> ApproveRow]
    BY <1>9 DEF WriteApproval, TypeOK, ApproveRow
  <2>2. payable' \subseteq PayableRow
    BY <1>9, ApprovalWrites
  <2>3. card' \in [Jobs -> {"none", "pending", "done"}]
    BY <1>9 DEF WriteApproval, TypeOK
  <2>4. TypeOK'
    BY <1>9, <2>1, <2>2, <2>3 DEF WriteApproval, TypeOK
  <2>5. ProcessesLinked'
    BY <1>9, <2>1 DEF WriteApproval, TypeOK, ProcessesLinked, ApproveRow
  <2> QED  BY <2>4, <2>5
<1>10. ASSUME NEW j \in Jobs, NEW s \in {"pending", "done"}, ToggleTask(j, s)
       PROVE  TypeOK' /\ ProcessesLinked'
  BY <1>10 DEF ToggleTask, TypeOK, ProcessesLinked
<1>11. CASE UNCHANGED vars
  BY <1>11 DEF vars, TypeOK, ProcessesLinked
<1> QED
  BY <1>1, <1>2, <1>3, <1>4, <1>5, <1>6, <1>7, <1>8, <1>9, <1>10, <1>11, <1>12 DEF Next, RunStep

-----------------------------------------------------------------------------
\* A job keeps one row: an insert finds none or waits, the other writes replace or drop.
LEMMA KeyStep ==
    ASSUME TypeOK, ProcessesLinked, UniqueKey, [Next]_vars
    PROVE  UniqueKey'
<1>1. CASE UNCHANGED payable
  BY <1>1 DEF UniqueKey
<1>2. ASSUME NEW r \in Runs, Insert(r) PROVE UniqueKey'
  BY <1>1, <1>2, InsertWrites DEF RowsOf, UniqueKey
<1>3. ASSUME NEW r \in Runs, InsertCard(r) PROVE UniqueKey'
  BY ZenonT(40), <1>3 DEF InsertCard, RowsOf, UniqueKey, TypeOK, PayableRow
<1>4. ASSUME NEW r \in Runs, AttemptFails(r) PROVE UniqueKey'
  BY <1>4 DEF AttemptFails, UniqueKey
<1>5. ASSUME NEW a \in Approvals, WriteApproval(a) PROVE UniqueKey'
  BY <1>5, ApprovalWrites DEF UniqueKey
<1> QED
  BY <1>1, <1>2, <1>3, <1>4, <1>5
  DEF Next, vars, RunStep, SetThreshold, Pay, StartRun, Look, ReadSetting, Record, ReadPayable, ToggleTask

\* A card appears with its payable and is never removed, only ticked.
LEMMA CardStep ==
    ASSUME IInv, [Next]_vars
    PROVE  PendingHasCard'
<1> USE DEF IInv
<1> SUFFICES ASSUME NEW j \in Jobs
             PROVE  /\ (\E p \in Committed(j)' : p.status = "pending") => card'[j] # "none"
                    /\ card'[j] # "none" => Committed(j)' # {}
  BY DEF PendingHasCard
<1> DEFINE Goal == /\ (\E p \in Committed(j)' : p.status = "pending") => card'[j] # "none"
                   /\ card'[j] # "none" => Committed(j)' # {}
<1>0. /\ (\E p \in Committed(j) : p.status = "pending") => card[j] # "none"
      /\ card[j] # "none" => Committed(j) # {}
  BY DEF PendingHasCard
<1>1. CASE Committed(j)' = Committed(j) /\ UNCHANGED card
  BY <1>0, <1>1
<1>2. ASSUME NEW r \in Runs, Insert(r) PROVE Goal
  <2>1. UNCHANGED card
    BY <1>2 DEF Insert
  <2>2. Committed(j)' = Committed(j)
    BY <1>2, InsertWrites DEF Committed, RowsOf
  <2> QED  BY <1>1, <2>1, <2>2
<1>3. ASSUME NEW r \in Runs, InsertCard(r) PROVE Goal
  <2>1. PICK p \in payable :
          /\ payable' = (payable \ {p}) \cup {[p EXCEPT !.committed = TRUE]}
          /\ card' = [card EXCEPT ![p.job] = CardFor(p, @)]
    BY <1>3 DEF InsertCard, RowsOf
  <2>2. p \in PayableRow /\ card \in [Jobs -> {"none", "pending", "done"}]
    BY DEF TypeOK
  <2> DEFINE q == [p EXCEPT !.committed = TRUE]
  <2>3. q.job = p.job /\ q.status = p.status /\ q.committed
    BY <2>2 DEF PayableRow
  <2>4. CASE j # p.job
    <3>1. Committed(j)' = Committed(j)
      BY <2>1, <2>3, <2>4 DEF Committed, RowsOf
    <3>2. card'[j] = card[j]
      BY <2>1, <2>2, <2>4
    <3> QED  BY <1>0, <3>1, <3>2
  <2>5. CASE j = p.job
    <3>1. Committed(j)' = {q}
      BY <2>1, <2>3, <2>5 DEF Committed, RowsOf, UniqueKey
    <3>2. card'[j] = CardFor(p, card[j])
      BY <2>1, <2>2, <2>5
    <3> QED  BY <2>2, <2>3, <3>1, <3>2 DEF CardFor
  <2> QED  BY <2>4, <2>5
<1>4. ASSUME NEW r \in Runs, AttemptFails(r) PROVE Goal
  <2>1. Committed(j)' = Committed(j) /\ UNCHANGED card
    BY <1>4 DEF AttemptFails, Committed, RowsOf
  <2> QED  BY <1>1, <2>1
<1>5. ASSUME NEW a \in Approvals, WriteApproval(a) PROVE Goal
  <2>1. (card'[j] = "none") <=> (card[j] = "none")
    BY <1>5 DEF WriteApproval, TypeOK
  <2>2. Committed(j) # {} => Committed(j)' # {}
    BY <1>5, ApprovalWrites DEF Committed, RowsOf
  <2>3. (\E p \in Committed(j)' : p.status = "pending") => \E p \in Committed(j) : p.status = "pending"
    BY <1>5, ApprovalWrites DEF Committed, RowsOf
  <2> QED  BY <1>0, <2>1, <2>2, <2>3
<1>6. ASSUME NEW k \in Jobs, NEW s \in {"pending", "done"}, ToggleTask(k, s) PROVE Goal
  <2>1. (card'[j] = "none") <=> (card[j] = "none")
    BY <1>6 DEF ToggleTask, TypeOK
  <2>2. Committed(j)' = Committed(j)
    BY <1>6 DEF ToggleTask, Committed, RowsOf
  <2> QED  BY <1>0, <2>1, <2>2
<1>7. CASE UNCHANGED <<payable, card>>
  BY <1>1, <1>7 DEF Committed, RowsOf
<1> QED
  BY <1>2, <1>3, <1>4, <1>5, <1>6, <1>7
  DEF Next, vars, RunStep, SetThreshold, Pay, StartRun, Look, ReadSetting, Record, ReadPayable

\* The inductive invariant of the payables.
LEMMA Inductive == Spec => []IInv
<1>1. Init => IInv
  <2> SUFFICES ASSUME Init PROVE IInv
    OBVIOUS
  <2>1. TypeOK
    BY ThresholdAssumption DEF Init, TypeOK, RunRow, ApproveRow
  <2>2. ProcessesLinked /\ UniqueKey /\ PendingHasCard
    BY DEF Init, ProcessesLinked, UniqueKey, PendingHasCard, Committed, RowsOf
  <2> QED  BY <2>1, <2>2 DEF IInv
<1>2. IInv /\ [Next]_vars => IInv'
  BY TypeStep, KeyStep, CardStep DEF IInv
<1> QED  BY <1>1, <1>2, PTL DEF Spec

-----------------------------------------------------------------------------
\* However often the setting changes, a fee over the threshold that its run read is
\* approved by a tap of the button only (approveReferralPayment).
THEOREM OverThresholdDecided == Spec => []OverThresholdIsDecided
<1>1. Init => OverThresholdIsDecided
  BY DEF Init, OverThresholdIsDecided
<1>2. IInv /\ OverThresholdIsDecided /\ [Next]_vars => OverThresholdIsDecided'
  <2> SUFFICES ASSUME IInv, OverThresholdIsDecided, [Next]_vars PROVE OverThresholdIsDecided'
    OBVIOUS
  <2> USE DEF IInv
  <2>1. CASE UNCHANGED payable
    BY <2>1 DEF OverThresholdIsDecided
  <2>2. ASSUME NEW r \in Runs, Insert(r) PROVE OverThresholdIsDecided'
    BY <2>1, <2>2, InsertWrites DEF OverThresholdIsDecided
  <2>3. ASSUME NEW r \in Runs, InsertCard(r) PROVE OverThresholdIsDecided'
    BY <2>3 DEF InsertCard, RowsOf, OverThresholdIsDecided, TypeOK, PayableRow
  <2>4. ASSUME NEW r \in Runs, AttemptFails(r) PROVE OverThresholdIsDecided'
    BY <2>4 DEF AttemptFails, OverThresholdIsDecided
  <2>5. ASSUME NEW a \in Approvals, WriteApproval(a) PROVE OverThresholdIsDecided'
    BY <2>5, ApprovalWrites DEF OverThresholdIsDecided
  <2> QED
    BY <2>1, <2>2, <2>3, <2>4, <2>5
    DEF Next, vars, RunStep, SetThreshold, Pay, StartRun, Look, ReadSetting, Record, ReadPayable, ToggleTask
<1> QED  BY <1>1, <1>2, Inductive, PTL DEF Spec

\* For any number of runs, redeliveries and retries, a job has one payable at most, a
\* card exactly as long as a payable stands behind it, and an approval over the threshold
\* that was read only behind a tap (recordReferralPayment, approveReferralPayment).
THEOREM PayablesAgree == Spec => []PayablesInv
<1>1. IInv => OnePayablePerJob
  <2> SUFFICES ASSUME IInv, NEW j \in Jobs PROVE Cardinality(RowsOf(j)) <= 1
    BY DEF OnePayablePerJob
  <2>1. CASE RowsOf(j) = {}
    BY <2>1, FS_EmptySet
  <2>2. CASE RowsOf(j) # {}
    <3>1. PICK p \in RowsOf(j) : TRUE
      BY <2>2
    <3>2. RowsOf(j) = {p}
      BY <3>1 DEF RowsOf, IInv, UniqueKey
    <3>3. Cardinality({p}) = 1
      BY FS_Singleton
    <3> QED  BY <3>2, <3>3
  <2> QED  BY <2>1, <2>2
<1>2. IInv /\ OverThresholdIsDecided => PayablesInv
  BY <1>1 DEF IInv, PayablesInv
<1> QED  BY <1>2, Inductive, OverThresholdDecided, PTL

\* No retry, redelivery or second tap takes an approval back or forgets it
\* (the ON CONFLICT DO NOTHING of recordReferralPayment).
THEOREM ApprovalsStand == Spec => ApprovalStands
<1> DEFINE Kept == \A j \in Jobs : (\E p \in Committed(j) : p.status = "approved") =>
                      \E p \in Committed(j)' : p.status = "approved"
<1>1. ASSUME IInv, [Next]_vars PROVE Kept
  <2> SUFFICES ASSUME NEW j \in Jobs, NEW p \in payable, p.job = j, p.committed, p.status = "approved"
               PROVE  \E q \in payable' : q.job = j /\ q.committed /\ q.status = "approved"
    BY DEF Committed, RowsOf
  <2> USE <1>1 DEF IInv
  <2>1. CASE p \in payable'
    BY <2>1
  <2>2. ASSUME NEW r \in Runs, Insert(r) PROVE p \in payable'
    BY <2>2, InsertWrites
  <2>3. ASSUME NEW r \in Runs, InsertCard(r) PROVE p \in payable'
    <3>1. PICK q \in payable : payable' = (payable \ {q}) \cup {[q EXCEPT !.committed = TRUE]}
      BY <2>3 DEF InsertCard, RowsOf
    <3>2. q = p => [q EXCEPT !.committed = TRUE] = p
      BY DEF TypeOK, PayableRow
    <3> QED  BY <3>1, <3>2
  <2>4. ASSUME NEW r \in Runs, AttemptFails(r) PROVE p \in payable'
    BY <2>4 DEF AttemptFails
  <2>5. ASSUME NEW a \in Approvals, WriteApproval(a)
        PROVE  \E q \in payable' : q.job = j /\ q.committed /\ q.status = "approved"
    BY <2>5, ApprovalWrites
  <2>6. CASE UNCHANGED payable
    BY <2>6
  <2> QED
    BY <2>1, <2>2, <2>3, <2>4, <2>5, <2>6
    DEF Next, vars, RunStep, SetThreshold, Pay, StartRun, Look, ReadSetting, Record, ReadPayable, ToggleTask
<1>2. IInv /\ [Next]_vars => [Kept]_vars
  BY <1>1
<1> QED  BY <1>2, Inductive, PTL DEF Spec, ApprovalStands

-----------------------------------------------------------------------------
(* Credits and check-ins.                                                    *)

\* What other writes than an apply alone on its estimate may have taken away.
Taken == raced \cup repriced \cup edited

\* A handler at work holds an estimate and has an attempt left; one in the apply read no
\* line, and whatever its estimate shows since was written beside it, or put back by an editor
\* once it was taken; the credit it picked is spent only if another apply under way spent it.
HandlerLinked(h) ==
    /\ handler[h].pc \notin {"done", "failed"} => handler[h].tries < MaxTries
    /\ handler[h].pc \in {"reprice", "drafted", "lines", "pick", "write"} => handler[h].est \in Estimates
    /\ InApply(h) => handler[h].seen = {} /\ estimate[handler[h].est].lines \subseteq Taken
    /\ handler[h].pc = "write" =>
          /\ handler[h].credit \in Credits
          /\ credit[handler[h].credit].status # "absent"
          /\ credit[handler[h].credit].status = "applied" => handler[h].credit \in raced

HandlersAreLinked == \A h \in Handlers : HandlerLinked(h)

\* A line is of the estimate its credit names, and so is the one a page or an upsell read,
\* which may have been taken from there since.
EditsAreLinked ==
    /\ \A e \in Estimates : \A c \in estimate[e].lines \ raced : credit[c].on = e
    /\ \A x \in Editors : \A c \in editor[x].lines :
          /\ \A d \in editor[x].lines : c = d
          /\ credit[c].status = "applied"
          /\ c \notin raced => credit[c].on = editor[x].est

CreditsInductive == CreditsInv /\ HandlersAreLinked /\ EditsAreLinked

\* The check-ins the sweep has still to send.
Asked == {"schedule", "customer", "send"}
Held == sweep.due \cup IF sweep.pc \in Asked THEN {sweep.at} ELSE {}

\* The sweep holds one check-in of a credit at most, of a credit that was issued, and none
\* that is logged.
SweepIsLinked ==
    /\ sweep.pc \in Asked \cup {"mark", "record", "refuse"} =>
          sweep.at \in Checkins /\ \A x \in sweep.due : x[1] # sweep.at[1]
    /\ \A x, y \in sweep.due : x[1] = y[1] => x = y
    /\ \A x \in Held : x[2] \notin log[x[1]] /\ credit[x[1]].status # "absent"

\* A text beyond the faults is of a check-in logged, or about to be.
TextsArePaidFor ==
    \A x \in Checkins :
        x[2] \notin log[x[1]] /\ ~(sweep.at = x /\ sweep.pc \in {"mark", "record"}) => texts[x] <= faults

\* A credit written about too late is one no longer to be had, and the sweep has let go of it.
StaleIsOver ==
    \A c \in Credits : stale[c] > 0 =>
        /\ credit[c].status \in {"applied", "expired"}
        /\ \A x \in Held : x[1] # c

CheckinsInductive ==
    PromisesInv /\ HandlersAreLinked /\ EditsAreLinked /\ SweepIsLinked /\ TextsArePaidFor /\ StaleIsOver

-----------------------------------------------------------------------------
LEMMA OneTry == MaxTries \in Nat /\ 0 \in 0..MaxTries /\ 0 < MaxTries
BY CreditAssumption

LEMMA CreditInitHolds == CreditInit => CreditsInductive
<1> SUFFICES ASSUME CreditInit PROVE CreditsInductive
  OBVIOUS
<1>1. estimate \in [Estimates -> EstimateRow] /\ credit \in [Credits -> CreditRow]
      /\ handler \in [Handlers -> HandlerRow] /\ editor \in [Editors -> EditorRow]
  BY CreditAssumption DEF CreditInit, EstimateRow, CreditRow, HandlerRow, EditorRow, NoPage
<1>2. CreditTypeOK
  BY <1>1 DEF CreditInit, CreditTypeOK
<1>3. QED
  BY <1>2, OneTry DEF CreditInit, CreditsInductive, CreditsInv, LinesAreSpent, OneLine, OnOneEstimate,
              OnItsEstimate, HandlersAreLinked, HandlerLinked, AtRest, InApply, EditsAreLinked, NoPage

(* Writing any record of a handler keeps the table of handlers one.          *)
LEMMA AnyHandler ==
  ASSUME NEW f \in [Handlers -> HandlerRow], NEW h \in Handlers, NEW row \in HandlerRow
  PROVE  /\ [f EXCEPT ![h] = row] \in [Handlers -> HandlerRow]
         /\ [f EXCEPT ![h] = row][h] = row
         /\ \A g \in Handlers \ {h} : [f EXCEPT ![h] = row][g] = f[g]
OBVIOUS

(* The parts of a handler's record, each of its type.                        *)
LEMMA HandlerFields ==
  ASSUME CreditTypeOK, NEW h \in Handlers
  PROVE  /\ handler[h] \in HandlerRow
         /\ handler[h] = [kind |-> handler[h].kind, pc |-> handler[h].pc, lead |-> handler[h].lead,
                          est |-> handler[h].est, seen |-> handler[h].seen,
                          credit |-> handler[h].credit, tries |-> handler[h].tries]
         /\ handler[h].kind \in {"media", "final", "draft"}
         /\ handler[h].lead \in Leads \cup {Nil} /\ handler[h].est \in Estimates \cup {Nil}
         /\ handler[h].seen \in SUBSET Credits /\ handler[h].credit \in Credits \cup {Nil}
         /\ handler[h].tries \in 0..MaxTries
<1>1. handler[h] \in HandlerRow
  BY DEF CreditTypeOK
<1>2. QED BY <1>1 DEF HandlerRow

(* A step of one handler that changes its record alone.                      *)
LEMMA HandlerAlone ==
  ASSUME CreditsInductive, NEW h \in Handlers, NEW row \in HandlerRow,
         handler' = [handler EXCEPT ![h] = row],
         UNCHANGED <<live, estimate, credit, raced, repriced, editor, edited>>,
         row.pc \notin {"done", "failed"} => row.tries < MaxTries,
         row.pc \in {"reprice", "drafted", "lines", "pick", "write"} => row.est \in Estimates,
         row.pc \in {"pick", "write"} => row.seen = {} /\ estimate[row.est].lines \subseteq Taken,
         row.pc = "write" => /\ row.credit \in Credits
                             /\ credit[row.credit].status # "absent"
                             /\ credit[row.credit].status = "applied" => row.credit \in raced
  PROVE  CreditsInductive'
<1>1. handler' \in [Handlers -> HandlerRow] /\ handler'[h] = row
      /\ \A g \in Handlers \ {h} : handler'[g] = handler[g]
  BY AnyHandler DEF CreditsInductive, CreditsInv, CreditTypeOK
<1>2. CreditsInv'
  BY <1>1 DEF CreditsInductive, CreditsInv, CreditTypeOK, LinesAreSpent, OneLine, OnOneEstimate, OnItsEstimate
<1>3. HandlerLinked(h)'
  BY <1>1 DEF HandlerLinked, AtRest, InApply, Taken
<1>4. \A g \in Handlers \ {h} : HandlerLinked(g)'
  BY <1>1 DEF CreditsInductive, HandlersAreLinked, HandlerLinked, AtRest, InApply, Taken
<1>5. EditsAreLinked'
  BY DEF CreditsInductive, EditsAreLinked
<1>6. QED BY <1>2, <1>3, <1>4, <1>5 DEF CreditsInductive, HandlersAreLinked

(* A handler is under way with attempts left while it is not at rest.        *)
LEMMA HandlerReads ==
  ASSUME CreditsInductive, NEW h \in Handlers,
         ReadRefresh(h) \/ ReadDraft(h) \/ Drafted(h) \/ ReadLines(h) \/ Pick(h) \/ Ack(h)
  PROVE  CreditsInductive'
<1> DEFINE r == handler[h]
<1>0. CreditTypeOK /\ HandlerLinked(h) /\ r \in HandlerRow /\ MaxTries \in Nat \ {0}
  BY HandlerFields, CreditAssumption DEF CreditsInductive, CreditsInv, HandlersAreLinked
<1>f. /\ r.kind \in {"media", "final", "draft"}
      /\ r.lead \in Leads \cup {Nil} /\ r.est \in Estimates \cup {Nil}
      /\ r.seen \in SUBSET Credits /\ r.credit \in Credits \cup {Nil}
      /\ r.tries \in 0..MaxTries
  BY <1>0, HandlerFields
<1>t. handler \in [Handlers -> HandlerRow]
  BY <1>0 DEF CreditTypeOK
<1>1. ASSUME r.pc \notin {"idle", "done", "failed"}, NEW pc \in {"ack", "create", "drafted"} \cup {"lines"},
             pc = "lines" => r.est \in Estimates, pc # "drafted",
             handler' = [handler EXCEPT ![h].pc = pc], UNCHANGED <<live, estimate, credit, raced, repriced, editor, edited>>
      PROVE  CreditsInductive'
  <2> DEFINE row == [r EXCEPT !.pc = pc]
  <2>1. row \in HandlerRow
    BY <1>0 DEF HandlerRow
  <2>2. handler' = [handler EXCEPT ![h] = row]
    BY <1>1, <1>t
  <2>3. r.tries < MaxTries
    BY <1>0, <1>1 DEF HandlerLinked, AtRest
  <2>4. row.tries = r.tries /\ row.pc = pc /\ row.est = r.est
    BY <1>0 DEF HandlerRow
  <2> HIDE DEF row
  <2>5. QED BY <1>1, <2>1, <2>2, <2>3, <2>4, HandlerAlone
<1>2. CASE ReadRefresh(h)
  <2>1. CASE Goto(h, "ack") \/ Goto(h, "create")
    BY <1>1, <1>2, <2>1 DEF ReadRefresh, Goto
  <2>2. ASSUME NEW e \in Estimates,
               handler' = [handler EXCEPT ![h].est = e,
                               ![h].pc = IF estimate[e].status = "draft" THEN "reprice" ELSE "ack"]
        PROVE  CreditsInductive'
    <3> DEFINE row == [r EXCEPT !.est = e, !.pc = IF estimate[e].status = "draft" THEN "reprice" ELSE "ack"]
    <3>1. row \in HandlerRow
      BY <1>0 DEF HandlerRow
    <3>2. handler' = [handler EXCEPT ![h] = row]
      BY <2>2, <1>t
    <3>3. r.tries < MaxTries
      BY <1>0, <1>2 DEF HandlerLinked, AtRest, ReadRefresh
    <3>4. row.tries = r.tries /\ row.pc \in {"reprice", "ack"} /\ row.est = e
      BY <1>0 DEF HandlerRow
    <3> HIDE DEF row
    <3>5. QED BY <1>2, <3>1, <3>2, <3>3, <3>4, HandlerAlone DEF ReadRefresh
  <2>3. QED BY <1>2, <2>1, <2>2 DEF ReadRefresh, Of
<1>3. CASE ReadDraft(h)
  <2>1. CASE Of(r.lead) = {}
    BY <1>1, <1>3, <2>1 DEF ReadDraft, Goto
  <2>2. CASE Of(r.lead) # {}
    BY <1>1, <1>3, <2>2 DEF ReadDraft, Goto
  <2>3. QED BY <2>1, <2>2
<1>4. CASE Drafted(h)
  <2> DEFINE row == [r EXCEPT !.pc = "lines", !.tries = 0]
  <2>1. row \in HandlerRow
    BY <1>0, OneTry DEF HandlerRow
  <2>2. handler' = [handler EXCEPT ![h] = row]
    BY <1>4, <1>t DEF Drafted
  <2>3. row.tries < MaxTries /\ row.pc = "lines" /\ row.est = r.est
    BY <1>0, OneTry DEF HandlerRow
  <2>4. r.est \in Estimates
    BY <1>0, <1>4 DEF Drafted, HandlerLinked
  <2> HIDE DEF row
  <2>5. QED BY <1>0, <1>4, <2>1, <2>2, <2>3, <2>4, HandlerAlone DEF Drafted
<1>5. CASE ReadLines(h)
  <2>1. r.est \in Estimates
    BY <1>0, <1>5 DEF ReadLines, HandlerLinked
  <2>2. CASE TakesCredit(r.est)
    <3> DEFINE row == [r EXCEPT !.pc = "pick", !.seen = estimate[r.est].lines]
    <3>1. estimate[r.est].lines = {}
      BY <2>2 DEF TakesCredit
    <3>2. row \in HandlerRow
      BY <1>0, <3>1 DEF HandlerRow
    <3>3. handler' = [handler EXCEPT ![h] = row]
      BY <1>5, <2>2, <1>t DEF ReadLines
    <3>4. r.tries < MaxTries
      BY <1>0, <1>5 DEF HandlerLinked, AtRest, ReadLines
    <3>5. row.tries = r.tries /\ row.pc = "pick" /\ row.est = r.est /\ row.seen = {}
      BY <1>0, <3>1 DEF HandlerRow
    <3> HIDE DEF row
    <3>6. QED BY <1>5, <2>1, <3>1, <3>2, <3>3, <3>4, <3>5, HandlerAlone DEF ReadLines
  <2>3. CASE ~TakesCredit(r.est)
    BY <1>1, <1>5, <2>3 DEF ReadLines, Goto
  <2>4. QED BY <2>2, <2>3
<1>6. CASE Pick(h)
  <2>1. CASE Goto(h, "ack")
    BY <1>1, <1>6, <2>1 DEF Pick, Goto
  <2>2. ASSUME NEW c \in Active, handler' = [handler EXCEPT ![h].pc = "write", ![h].credit = c]
        PROVE  CreditsInductive'
    <3> DEFINE row == [r EXCEPT !.pc = "write", !.credit = c]
    <3>1. c \in Credits /\ credit[c].status = "active"
      BY <2>2 DEF Active
    <3>2. row \in HandlerRow
      BY <1>0, <3>1 DEF HandlerRow
    <3>3. handler' = [handler EXCEPT ![h] = row]
      BY <2>2, <1>t
    <3>4. /\ r.tries < MaxTries /\ r.est \in Estimates
          /\ r.seen = {} /\ estimate[r.est].lines \subseteq Taken
      BY <1>0, <1>6 DEF HandlerLinked, AtRest, InApply, Pick
    <3>5. row.tries = r.tries /\ row.pc = "write" /\ row.est = r.est /\ row.seen = r.seen /\ row.credit = c
      BY <1>0 DEF HandlerRow
    <3> HIDE DEF row
    <3>6. QED BY <1>6, <3>1, <3>2, <3>3, <3>4, <3>5, HandlerAlone DEF Pick
  <2>3. QED BY <1>6, <2>1, <2>2 DEF Pick
<1>7. CASE Ack(h)
  <2> DEFINE row == [kind |-> r.kind, pc |-> "done", lead |-> r.lead, est |-> Nil,
                     seen |-> {}, credit |-> Nil, tries |-> 0]
  <2>1. row \in HandlerRow
    BY <1>0, <1>f DEF HandlerRow
  <2>2. handler' = [handler EXCEPT ![h] = row]
    BY <1>7 DEF Ack, Ends
  <2>3. row.pc = "done"
    OBVIOUS
  <2> HIDE DEF row
  <2>4. QED BY <1>7, <2>1, <2>2, <2>3, HandlerAlone DEF Ack
<1>8. QED BY <1>2, <1>3, <1>4, <1>5, <1>6, <1>7

LEMMA HandlerStarts ==
  ASSUME CreditsInductive, NEW h \in Handlers, NEW kind \in {"media", "final", "draft"}, NEW l \in Leads,
         Start(h, kind, l)
  PROVE  CreditsInductive'
<1> DEFINE r == handler[h]
           row == [r EXCEPT !.kind = kind, !.lead = l, !.pc = IF kind = "draft" THEN "draft" ELSE "refresh"]
<1>0. CreditTypeOK /\ HandlerLinked(h) /\ r \in HandlerRow /\ MaxTries \in Nat \ {0}
  BY HandlerFields, CreditAssumption DEF CreditsInductive, CreditsInv, HandlersAreLinked
<1>1. row \in HandlerRow
  BY <1>0 DEF HandlerRow
<1>2. handler' = [handler EXCEPT ![h] = row]
  BY <1>0 DEF Start, CreditTypeOK
<1>3. row.tries = r.tries /\ row.pc \in {"draft", "refresh"}
  BY <1>0 DEF HandlerRow
<1>4. r.tries < MaxTries
  BY <1>0 DEF Start, HandlerLinked
<1> HIDE DEF row
<1>5. QED BY <1>1, <1>2, <1>3, <1>4, HandlerAlone DEF Start

LEMMA HandlerFails ==
  ASSUME CreditsInductive, NEW h \in Handlers, Fails(h)
  PROVE  CreditsInductive'
<1> DEFINE r == handler[h]
<1>0. CreditTypeOK /\ HandlerLinked(h) /\ r \in HandlerRow
  BY HandlerFields DEF CreditsInductive, CreditsInv, HandlersAreLinked
<1>f. /\ r.kind \in {"media", "final", "draft"}
      /\ r.lead \in Leads \cup {Nil} /\ r.est \in Estimates \cup {Nil}
      /\ r.tries \in 0..MaxTries
  BY <1>0, HandlerFields
<1>1. r.tries < MaxTries
  BY <1>0 DEF Fails, AtRest, HandlerLinked
<1>2. CASE r.tries + 1 = MaxTries
  <2> DEFINE row == [kind |-> r.kind, pc |-> "failed", lead |-> r.lead, est |-> Nil,
                     seen |-> {}, credit |-> Nil, tries |-> 0]
  <2>1. row \in HandlerRow
    BY <1>f, OneTry DEF HandlerRow
  <2>2. handler' = [handler EXCEPT ![h] = row]
    BY <1>2 DEF Fails, Ends
  <2>3. row.pc = "failed"
    OBVIOUS
  <2> HIDE DEF row
  <2>4. QED BY <2>1, <2>2, <2>3, HandlerAlone DEF Fails
<1>3. CASE r.tries + 1 # MaxTries
  <2>1. Again(h) \in {"refresh", "draft", "lines"} /\ (Again(h) = "lines" => r.est \in Estimates)
    BY <1>f DEF Again
  <2>2. r.tries + 1 \in 0..MaxTries /\ r.tries + 1 < MaxTries
    BY <1>f, <1>1, <1>3, OneTry
  <2>3. PICK q \in HandlerRow, n \in 0..MaxTries, pc \in {"refresh", "draft", "lines"} :
            q = r /\ n = r.tries + 1 /\ pc = Again(h)
    BY <1>0, <2>1, <2>2
  <2> DEFINE half == [q EXCEPT !.tries = n, !.seen = {}]
             row == [half EXCEPT !.credit = Nil, !.pc = pc]
  <2>4. handler' = [handler EXCEPT ![h] = row]
    BY <1>0, <1>3, <2>3 DEF Fails, CreditTypeOK
  <2>5. half \in HandlerRow /\ half.est = q.est /\ half.tries = n
    BY DEF HandlerRow
  <2> HIDE DEF half
  <2>6. row \in HandlerRow /\ row.pc = pc /\ row.est = half.est /\ row.tries = half.tries
    BY <2>5 DEF HandlerRow
  <2> HIDE DEF row
  <2>7. /\ row.pc \in {"refresh", "draft", "lines"} /\ row.tries < MaxTries
        /\ row.pc = "lines" => row.est \in Estimates
    BY <2>1, <2>2, <2>3, <2>5, <2>6
  <2>8. QED BY <2>4, <2>6, <2>7, HandlerAlone DEF Fails
<1>4. QED BY <1>2, <1>3

(* The steps that write an estimate.                                         *)
LEMMA RepriceKeeps == ASSUME CreditsInductive, NEW h \in Handlers, Reprice(h) PROVE CreditsInductive'
<1> DEFINE r == handler[h]
           e == r.est
           row == [r EXCEPT !.pc = "lines"]
<1>0. CreditTypeOK /\ HandlerLinked(h) /\ r \in HandlerRow
  BY HandlerFields DEF CreditsInductive, CreditsInv, HandlersAreLinked
<1>1. row \in HandlerRow /\ row.pc = "lines" /\ row.est = e /\ row.tries = r.tries
  BY <1>0 DEF HandlerRow
<1>2. handler' = [handler EXCEPT ![h] = row]
  BY <1>0 DEF Reprice, Goto, CreditTypeOK
<1>3. e \in Estimates /\ r.tries < MaxTries
  BY <1>0 DEF Reprice, HandlerLinked
<1> HIDE DEF row
<1>4. handler' \in [Handlers -> HandlerRow] /\ handler'[h] = row
      /\ \A g \in Handlers \ {h} : handler'[g] = handler[g]
  BY <1>0, <1>1, <1>2, AnyHandler DEF CreditTypeOK
<1>5. /\ estimate' \in [Estimates -> EstimateRow] /\ estimate'[e].lines = {}
      /\ \A f \in Estimates \ {e} : estimate'[f] = estimate[f]
  BY <1>0, <1>3 DEF Reprice, CreditTypeOK, EstimateRow
<1>6. repriced' \subseteq Credits /\ repriced' = repriced \cup estimate[e].lines
  BY <1>0, <1>3 DEF Reprice, CreditTypeOK, EstimateRow
<1>7. CreditTypeOK'
  BY <1>0, <1>4, <1>5, <1>6 DEF Reprice, CreditTypeOK
<1>8. LinesAreSpent' /\ OneLine' /\ OnOneEstimate'
  BY <1>3, <1>5 DEF Reprice, CreditsInductive, CreditsInv, LinesAreSpent, OneLine, OnOneEstimate
<1>9. OnItsEstimate'
  BY <1>3, <1>5, <1>6 DEF Reprice, CreditsInductive, CreditsInv, OnItsEstimate
<1>10. HandlerLinked(h)'
  BY <1>1, <1>3, <1>4 DEF HandlerLinked, InApply
<1>11. \A g \in Handlers \ {h} : HandlerLinked(g)'
  BY <1>4, <1>5, <1>6 DEF Reprice, CreditsInductive, HandlersAreLinked, HandlerLinked, InApply, Taken
<1>12. EditsAreLinked'
  BY <1>5 DEF Reprice, CreditsInductive, EditsAreLinked
<1>13. QED BY <1>7, <1>8, <1>9, <1>10, <1>11, <1>12 DEF CreditsInductive, CreditsInv, HandlersAreLinked

LEMMA CreateKeeps == ASSUME CreditsInductive, NEW h \in Handlers, Create(h) PROVE CreditsInductive'
<1> DEFINE r == handler[h]
<1>1. PICK e \in Of(Nil) :
          /\ estimate' = [estimate EXCEPT ![e].lead = r.lead]
          /\ handler' = [handler EXCEPT ![h].est = e,
                            ![h].pc = IF r.kind = "draft" THEN "drafted" ELSE "lines"]
  BY DEF Create
<1> DEFINE row == [r EXCEPT !.est = e, !.pc = IF r.kind = "draft" THEN "drafted" ELSE "lines"]
<1>0. CreditTypeOK /\ HandlerLinked(h) /\ r \in HandlerRow /\ e \in Estimates
  BY <1>1, HandlerFields DEF CreditsInductive, CreditsInv, HandlersAreLinked, Of
<1>2. row \in HandlerRow /\ row.pc \in {"drafted", "lines"} /\ row.est = e /\ row.tries = r.tries
  BY <1>0 DEF HandlerRow
<1>3. handler' = [handler EXCEPT ![h] = row] /\ r.tries < MaxTries
  BY <1>0, <1>1 DEF Create, CreditTypeOK, HandlerLinked
<1> HIDE DEF row
<1>4. handler' \in [Handlers -> HandlerRow] /\ handler'[h] = row
      /\ \A g \in Handlers \ {h} : handler'[g] = handler[g]
  BY <1>0, <1>2, <1>3, AnyHandler DEF CreditTypeOK
<1>5. /\ estimate' \in [Estimates -> EstimateRow]
      /\ \A f \in Estimates : estimate'[f].lines = estimate[f].lines
  BY SMTT(30), <1>0, <1>1, HandlerFields DEF CreditTypeOK, EstimateRow
<1>6. CreditTypeOK'
  BY <1>0, <1>4, <1>5 DEF Create, CreditTypeOK
<1>7. LinesAreSpent' /\ OneLine' /\ OnOneEstimate' /\ OnItsEstimate'
  BY <1>5 DEF Create, CreditsInductive, CreditsInv, LinesAreSpent, OneLine, OnOneEstimate, OnItsEstimate
<1>8. HandlerLinked(h)'
  BY <1>0, <1>2, <1>3, <1>4 DEF HandlerLinked, InApply
<1>9. \A g \in Handlers \ {h} : HandlerLinked(g)'
  BY <1>4, <1>5 DEF Create, CreditsInductive, HandlersAreLinked, HandlerLinked, InApply, Taken
<1>10. EditsAreLinked'
  BY <1>5 DEF Create, CreditsInductive, EditsAreLinked
<1>11. QED BY <1>6, <1>7, <1>8, <1>9, <1>10 DEF CreditsInductive, CreditsInv, HandlersAreLinked

LEMMA WriteKeeps == ASSUME CreditsInductive, NEW h \in Handlers, WriteApply(h) PROVE CreditsInductive'
<1> DEFINE r == handler[h]
           e == r.est
           c == r.credit
           row == [r EXCEPT !.pc = "ack"]
<1>0. CreditTypeOK /\ HandlerLinked(h) /\ r \in HandlerRow
  BY HandlerFields DEF CreditsInductive, CreditsInv, HandlersAreLinked
<1>1. row \in HandlerRow /\ row.pc = "ack" /\ row.tries = r.tries
  BY <1>0 DEF HandlerRow
<1>2. handler' = [handler EXCEPT ![h] = row]
  BY <1>0 DEF WriteApply, Goto, CreditTypeOK
<1>3. /\ e \in Estimates /\ r.tries < MaxTries /\ r.seen = {} /\ estimate[e].lines \subseteq Taken
      /\ c \in Credits /\ credit[c].status # "absent" /\ (credit[c].status = "applied" => c \in raced)
  BY <1>0 DEF WriteApply, HandlerLinked, InApply
<1> HIDE DEF row
<1>4. handler' \in [Handlers -> HandlerRow] /\ handler'[h] = row
      /\ \A g \in Handlers \ {h} : handler'[g] = handler[g]
  BY <1>0, <1>1, <1>2, AnyHandler DEF CreditTypeOK
<1>5. /\ estimate' \in [Estimates -> EstimateRow] /\ estimate'[e].lines = {c}
      /\ \A f \in Estimates \ {e} : estimate'[f] = estimate[f]
  BY <1>0, <1>3 DEF WriteApply, CreditTypeOK, EstimateRow
<1>6. /\ credit' \in [Credits -> CreditRow] /\ credit'[c].status = "applied" /\ credit'[c].on = e
      /\ \A d \in Credits \ {c} : credit'[d] = credit[d]
  BY <1>0, <1>3 DEF WriteApply, CreditTypeOK, CreditRow
<1>7. /\ raced' \subseteq Credits /\ raced \subseteq raced' /\ Taken \subseteq Taken'
      /\ (\E g \in Handlers \ {h} : InApply(g)) => c \in raced'
  BY <1>0, <1>3 DEF WriteApply, CreditTypeOK, Taken
<1>8. CreditTypeOK'
  BY <1>0, <1>4, <1>5, <1>6, <1>7 DEF WriteApply, CreditTypeOK
<1>9. LinesAreSpent' /\ OneLine'
  <2>1. \A f \in Estimates : estimate[f].lines \subseteq Credits
    BY <1>0 DEF CreditTypeOK, EstimateRow
  <2>2. LinesAreSpent /\ OneLine
    BY DEF CreditsInductive, CreditsInv
  <2>3. LinesAreSpent'
    BY <1>3, <1>5, <1>6, <2>1, <2>2 DEF LinesAreSpent
  <2>4. OneLine'
    BY <1>5, <2>2 DEF OneLine
  <2>5. QED BY <2>3, <2>4
<1>10. OnOneEstimate'
  <2> SUFFICES ASSUME NEW d \in Credits \ raced', NEW f1 \in Estimates, NEW f2 \in Estimates,
                      d \in estimate'[f1].lines, d \in estimate'[f2].lines
               PROVE  f1 = f2
    BY DEF OnOneEstimate
  <2>1. CASE d = c
    <3>1. credit[c].status # "applied"
      BY <1>3, <1>7, <2>1
    <3>2. \A f \in Estimates : c \notin estimate[f].lines
      BY <3>1 DEF CreditsInductive, CreditsInv, LinesAreSpent
    <3>3. QED BY <1>5, <2>1, <3>2
  <2>2. CASE d # c
    BY <1>5, <1>7, <2>2 DEF CreditsInductive, CreditsInv, OnOneEstimate
  <2>3. QED BY <2>1, <2>2
<1>11. OnItsEstimate'
  <2> SUFFICES ASSUME NEW d \in Credits \ (raced' \cup repriced' \cup edited'), credit'[d].status = "applied"
               PROVE  credit'[d].on \in Estimates /\ d \in estimate'[credit'[d].on].lines
    BY DEF OnItsEstimate
  <2>1. CASE d = c
    BY <1>3, <1>5, <1>6, <2>1
  <2>2. CASE d # c
    <3>1. credit[d].on \in Estimates /\ d \in estimate[credit[d].on].lines
      BY <1>6, <1>7, <2>2 DEF WriteApply, CreditsInductive, CreditsInv, OnItsEstimate
    <3>2. credit[d].on # e
      BY <1>3, <1>7, <3>1 DEF Taken
    <3>3. QED BY <1>5, <1>6, <2>2, <3>1, <3>2
  <2>3. QED BY <2>1, <2>2
<1>12. HandlerLinked(h)'
  BY <1>1, <1>3, <1>4 DEF HandlerLinked, InApply
<1>13. ASSUME NEW g \in Handlers \ {h} PROVE HandlerLinked(g)'
  <2>1. HandlerLinked(g) /\ handler'[g] = handler[g] /\ (InApply(g) => c \in raced')
    BY <1>4, <1>7, <1>13 DEF CreditsInductive, HandlersAreLinked
  <2>2. InApply(g) => handler[g].est \in Estimates /\ estimate'[handler[g].est].lines \subseteq Taken'
    BY <1>5, <1>7, <2>1 DEF HandlerLinked, InApply, Taken
  <2>3. handler[g].pc = "write" =>
          /\ handler[g].credit \in Credits
          /\ credit'[handler[g].credit].status # "absent"
          /\ credit'[handler[g].credit].status = "applied" => handler[g].credit \in raced'
    BY <1>6, <1>7, <2>1 DEF HandlerLinked, InApply
  <2>4. QED BY <2>1, <2>2, <2>3 DEF HandlerLinked, InApply
<1>14. EditsAreLinked'
  <2>1. \A d \in Credits \ raced' : d = c => credit[d].status # "applied"
    BY <1>3, <1>7
  <2>2. ASSUME NEW f \in Estimates, NEW d \in estimate'[f].lines \ raced' PROVE credit'[d].on = f
    <3>1. CASE f = e
      BY <1>5, <1>6, <2>2, <3>1
    <3>2. CASE f # e
      <4>1. d \in Credits /\ d \in estimate[f].lines /\ credit[d].status = "applied" /\ d \notin raced
        BY <1>0, <1>5, <1>7, <2>2, <3>2 DEF CreditsInductive, CreditsInv, LinesAreSpent, CreditTypeOK, EstimateRow
      <4>2. QED BY <1>6, <2>1, <2>2, <4>1 DEF CreditsInductive, EditsAreLinked
    <3>3. QED BY <3>1, <3>2
  <2>3. ASSUME NEW x \in Editors, NEW d \in editor[x].lines
        PROVE  /\ \A q \in editor[x].lines : d = q
               /\ credit'[d].status = "applied"
               /\ d \notin raced' => credit'[d].on = editor[x].est
    <3>1. d \in Credits
      BY <1>0, <2>3 DEF CreditTypeOK, EditorRow
    <3>2. QED BY <1>6, <1>7, <2>1, <2>3, <3>1 DEF CreditsInductive, EditsAreLinked
  <2>4. QED BY <2>2, <2>3 DEF WriteApply, EditsAreLinked
<1>15. QED BY <1>8, <1>9, <1>10, <1>11, <1>12, <1>13, <1>14 DEF CreditsInductive, CreditsInv, HandlersAreLinked

(* The editor: what it writes was a line of the estimate, and is still spent.*)
LEMMA EditorKeeps ==
  ASSUME CreditsInductive, NEW x \in Editors,
         (\E kind \in {"page", "upsell"}, e \in Estimates : Open(x, kind, e)) \/ Save(x)
  PROVE  CreditsInductive'
<1>0. CreditTypeOK /\ editor[x] \in EditorRow
  BY DEF CreditsInductive, CreditsInv, CreditTypeOK
<1>1. ASSUME NEW kind \in {"page", "upsell"}, NEW e \in Estimates, Open(x, kind, e) PROVE CreditsInductive'
  <2> DEFINE row == [kind |-> kind, est |-> e, lines |-> estimate[e].lines]
  <2>1. row \in EditorRow
    BY <1>0 DEF EditorRow, CreditTypeOK, EstimateRow
  <2>2. /\ editor' \in [Editors -> EditorRow] /\ editor'[x] = row
        /\ \A y \in Editors \ {x} : editor'[y] = editor[y]
    BY <1>0, <1>1, <2>1 DEF Open, CreditTypeOK
  <2>3. CreditsInv'
    BY <1>1, <2>2 DEF Open, CreditsInductive, CreditsInv, CreditTypeOK, LinesAreSpent, OneLine, OnOneEstimate,
                      OnItsEstimate
  <2>4. HandlersAreLinked'
    BY <1>1 DEF Open, CreditsInductive, HandlersAreLinked, HandlerLinked, InApply, Taken
  <2>5. EditsAreLinked'
    <3>1. /\ \A c \in row.lines : \A d \in row.lines : c = d
          /\ \A c \in row.lines : credit[c].status = "applied" /\ (c \notin raced => credit[c].on = row.est)
      BY DEF CreditsInductive, CreditsInv, LinesAreSpent, OneLine, EditsAreLinked
    <3> HIDE DEF row
    <3>2. QED BY <1>1, <2>2, <3>1 DEF Open, CreditsInductive, EditsAreLinked
  <2>6. QED BY <2>3, <2>4, <2>5 DEF CreditsInductive
<1>2. CASE Save(x)
  <2> DEFINE e == editor[x].est
  <2>1. e \in Estimates
    BY <1>0, <1>2 DEF Save, EditorRow
  <2>2. PICK kept \in Keeps(x) :
          /\ estimate' = [estimate EXCEPT ![e].lines = kept]
          /\ edited' = edited \cup (estimate[e].lines \ kept)
          /\ editor' = [editor EXCEPT ![x] = IF editor[x].kind = "page"
                                             THEN [editor[x] EXCEPT !.lines = kept] ELSE NoPage]
    BY <1>2 DEF Save
  <2>3. kept \subseteq editor[x].lines /\ kept \subseteq Credits
    BY <1>0 DEF Keeps, EditorRow
  <2>4. /\ estimate' \in [Estimates -> EstimateRow] /\ estimate'[e].lines = kept
        /\ \A f \in Estimates \ {e} : estimate'[f] = estimate[f]
    BY <1>0, <2>1, <2>2, <2>3 DEF CreditTypeOK, EstimateRow
  <2>5. PICK row \in EditorRow :
          /\ editor' = [editor EXCEPT ![x] = row]
          /\ row.lines \subseteq kept /\ (row.est = e \/ row.lines = {})
    <3>1. NoPage \in EditorRow /\ NoPage.lines = {}
      BY DEF NoPage, EditorRow
    <3>2. /\ [editor[x] EXCEPT !.lines = kept] \in EditorRow
          /\ [editor[x] EXCEPT !.lines = kept].lines = kept
          /\ [editor[x] EXCEPT !.lines = kept].est = e
      BY <1>0, <2>3 DEF EditorRow
    <3>3. QED BY <2>2, <3>1, <3>2
  <2>6. /\ editor' \in [Editors -> EditorRow] /\ editor'[x] = row
        /\ \A y \in Editors \ {x} : editor'[y] = editor[y]
    BY <1>0, <2>5 DEF CreditTypeOK
  <2>7. /\ UNCHANGED <<live, credit, handler, raced, repriced>>
        /\ edited' \subseteq Credits /\ Taken \subseteq Taken'
        /\ \A c \in estimate[e].lines \ kept : c \in edited'
    BY <1>0, <1>2, <2>1, <2>2 DEF Save, CreditTypeOK, EstimateRow, Taken
  <2>8. /\ \A c, d \in kept : c = d
        /\ \A c \in kept : credit[c].status = "applied" /\ (c \notin raced => credit[c].on = e)
    BY <2>3 DEF CreditsInductive, EditsAreLinked
  <2>9. kept \subseteq estimate[e].lines \cup Taken
    BY <2>1, <2>3, <2>8 DEF CreditsInductive, CreditsInv, OnItsEstimate, Taken
  <2> HIDE DEF e
  <2>10. CreditTypeOK'
    BY <1>0, <2>4, <2>6, <2>7 DEF CreditTypeOK
  <2>11. LinesAreSpent' /\ OneLine'
    BY <2>4, <2>7, <2>8 DEF CreditsInductive, CreditsInv, LinesAreSpent, OneLine
  <2>12. EditsAreLinked'
    BY <2>4, <2>5, <2>6, <2>7, <2>8 DEF CreditsInductive, EditsAreLinked
  <2>13. OnOneEstimate'
    BY <2>12 DEF EditsAreLinked, OnOneEstimate
  <2>14. OnItsEstimate'
    <3> SUFFICES ASSUME NEW c \in Credits \ Taken', credit[c].status = "applied"
                 PROVE  credit[c].on \in Estimates /\ c \in estimate'[credit[c].on].lines
      BY <2>7 DEF OnItsEstimate, Taken
    <3>1. credit[c].on \in Estimates /\ c \in estimate[credit[c].on].lines
      BY <2>7 DEF CreditsInductive, CreditsInv, OnItsEstimate, Taken
    <3>2. QED BY <2>4, <2>7, <3>1 DEF Taken
  <2>15. ASSUME NEW h \in Handlers PROVE HandlerLinked(h)'
    <3>1. HandlerLinked(h) /\ handler'[h] = handler[h]
      BY <2>7, <2>15 DEF CreditsInductive, HandlersAreLinked
    <3>2. InApply(h) => estimate'[handler[h].est].lines \subseteq Taken'
      BY <2>4, <2>7, <2>9, <3>1 DEF HandlerLinked, InApply
    <3>3. QED BY <2>7, <3>1, <3>2 DEF HandlerLinked, InApply
  <2>16. QED BY <2>10, <2>11, <2>12, <2>13, <2>14, <2>15 DEF CreditsInductive, CreditsInv, HandlersAreLinked
<1>3. QED BY <1>1, <1>2

(* Time, the office and the expiry: no credit is spent or comes back.        *)
LEMMA CreditMoves ==
  ASSUME CreditsInductive, credit' \in [Credits -> CreditRow],
         \A c \in Credits : \/ credit'[c].status = credit[c].status
                            \/ credit[c].status # "applied" /\ credit'[c].status \in {"active", "expired"},
         \A c \in Credits : credit'[c].on = credit[c].on,
         UNCHANGED <<live, estimate, handler, raced, repriced, editor, edited>>
  PROVE  CreditsInductive'
<1>1. CreditTypeOK'
  BY DEF CreditsInductive, CreditsInv, CreditTypeOK
<1>2. \A c \in Credits : /\ credit'[c].status = "applied" <=> credit[c].status = "applied"
                         /\ credit'[c].status = "absent" => credit[c].status = "absent"
  OBVIOUS
<1>3. LinesAreSpent' /\ OneLine' /\ OnOneEstimate' /\ OnItsEstimate'
  BY <1>1, <1>2 DEF CreditsInductive, CreditsInv, LinesAreSpent, OneLine, OnOneEstimate, OnItsEstimate,
                    CreditTypeOK, EstimateRow
<1>4. HandlersAreLinked'
  BY <1>2 DEF CreditsInductive, HandlersAreLinked, HandlerLinked, InApply, Taken
<1>5. EditsAreLinked'
  BY <1>2 DEF CreditsInductive, CreditsInv, EditsAreLinked, CreditTypeOK, EditorRow, EstimateRow
<1>6. QED BY <1>1, <1>3, <1>4, <1>5 DEF CreditsInductive, CreditsInv

LEMMA OtherCreditSteps ==
  ASSUME CreditsInductive,
         \/ \E c \in Credits : Issue(c) \/ Age(c)
         \/ Expire
         \/ \E l \in Leads : Approve(l)
         \/ \E e \in Estimates : SetEstimateStatus(e)
  PROVE  CreditsInductive'
<1>0. CreditTypeOK
  BY DEF CreditsInductive, CreditsInv
<1>1. CASE \E c \in Credits : Issue(c)
  BY <1>0, <1>1, CreditMoves DEF Issue, CreditTypeOK, CreditRow
<1>2. ASSUME NEW c \in Credits, Age(c) PROVE CreditsInductive'
  <2>1. PICK a \in (credit[c].age + 1)..Lapse : credit' = [credit EXCEPT ![c].age = a]
    BY <1>2 DEF Age
  <2>2. a \in 0..Lapse
    BY <1>0, CreditAssumption DEF CreditTypeOK, CreditRow
  <2>3. credit' \in [Credits -> CreditRow]
    BY <1>0, <2>1, <2>2 DEF CreditTypeOK, CreditRow
  <2>4. \A d \in Credits : credit'[d].status = credit[d].status /\ credit'[d].on = credit[d].on
    BY <1>0, <2>1 DEF CreditTypeOK, CreditRow
  <2>5. QED BY <1>2, <2>3, <2>4, CreditMoves DEF Age
<1>3. CASE Expire
  BY <1>0, <1>3, CreditMoves DEF Expire, Expires, CreditTypeOK, CreditRow
<1>4. CASE \E l \in Leads : Approve(l)
  BY <1>4 DEF Approve, CreditsInductive, CreditsInv, CreditTypeOK, LinesAreSpent, OneLine, OnOneEstimate,
              OnItsEstimate, HandlersAreLinked, HandlerLinked, InApply, EditsAreLinked, Taken
<1>5. ASSUME NEW e \in Estimates, SetEstimateStatus(e) PROVE CreditsInductive'
  <2>1. /\ estimate' \in [Estimates -> EstimateRow]
        /\ \A f \in Estimates : estimate'[f].lines = estimate[f].lines
    BY <1>0, <1>5 DEF SetEstimateStatus, CreditTypeOK, EstimateRow
  <2>2. CreditTypeOK'
    BY <1>0, <1>5, <2>1 DEF SetEstimateStatus, CreditTypeOK
  <2>3. LinesAreSpent' /\ OneLine' /\ OnOneEstimate' /\ OnItsEstimate'
    BY <1>5, <2>1 DEF SetEstimateStatus, CreditsInductive, CreditsInv, LinesAreSpent, OneLine,
                      OnOneEstimate, OnItsEstimate
  <2>4. HandlersAreLinked'
    BY <1>5, <2>1 DEF SetEstimateStatus, CreditsInductive, HandlersAreLinked, HandlerLinked, InApply, Taken
  <2>5. EditsAreLinked'
    BY <1>5, <2>1 DEF SetEstimateStatus, CreditsInductive, EditsAreLinked
  <2>6. QED BY <2>2, <2>3, <2>4, <2>5 DEF CreditsInductive, CreditsInv
<1>6. QED BY <1>1, <1>2, <1>3, <1>4, <1>5

LEMMA CreditsKept == CreditsInductive /\ [CreditNext]_creditVars => CreditsInductive'
<1> SUFFICES ASSUME CreditsInductive, [CreditNext]_creditVars PROVE CreditsInductive'
  OBVIOUS
<1>1. CASE UNCHANGED creditVars
  BY <1>1 DEF creditVars, CreditsInductive, CreditsInv, CreditTypeOK, LinesAreSpent, OneLine,
              OnOneEstimate, OnItsEstimate, HandlersAreLinked, HandlerLinked, InApply, EditsAreLinked, Taken
<1>2. CASE CreditNext
  BY <1>2, HandlerReads, HandlerStarts, HandlerFails, RepriceKeeps, CreateKeeps, WriteKeeps, EditorKeeps,
     OtherCreditSteps
  DEF CreditNext, CreditStep, HandlerStep
<1>3. QED BY <1>1, <1>2

\* For any number of leads, estimates, credits and handlers a credit comes off one estimate,
\* once, and only when it was there to be had, but for applies that overlapped and for lines
\* that a re-price replaced or the editor or an upsell wrote away (db/src/lifecycle/repair-credit.ts).
THEOREM CreditsHold == CreditSpec => []CreditsInv
<1>1. CreditsInductive => CreditsInv
  BY DEF CreditsInductive
<1>2. QED BY <1>1, CreditInitHolds, CreditsKept, PTL DEF CreditSpec

-----------------------------------------------------------------------------
(* The sweep beside them.                                                    *)

\* What happens to the credits while the sweep holds some: none comes back, none is unissued.
LEMMA CreditsLast ==
  ASSUME CreditsInductive, [CreditNext]_creditVars, NEW c \in Credits
  PROVE  /\ credit[c].status # "absent" => credit'[c].status # "absent"
         /\ credit[c].status \in {"applied", "expired"} => credit'[c].status \in {"applied", "expired"}
<1>0. CreditTypeOK /\ credit \in [Credits -> CreditRow]
  BY DEF CreditsInductive, CreditsInv, CreditTypeOK
<1>1. CASE UNCHANGED credit
  BY <1>1
<1>2. CASE \E d \in Credits : Issue(d) \/ Age(d)
  BY <1>0, <1>2 DEF Issue, Age, CreditRow
<1>3. CASE Expire
  BY <1>0, <1>3 DEF Expire, Expires, CreditRow
<1>4. ASSUME NEW h \in Handlers, WriteApply(h)
      PROVE  /\ credit[c].status # "absent" => credit'[c].status # "absent"
             /\ credit[c].status \in {"applied", "expired"} => credit'[c].status \in {"applied", "expired"}
  BY <1>0, <1>4 DEF WriteApply, CreditRow
<1>5. QED
  BY ZenonT(40), <1>1, <1>2, <1>3, <1>4
  DEF CreditNext, CreditStep, HandlerStep, creditVars, Approve, SetEstimateStatus, Start, ReadRefresh,
      Reprice, ReadDraft, Create, Drafted, ReadLines, Pick, Ack, Fails, Open, Save

LEMMA KindsKnown ==
  /\ Nobody \notin Checkins
  /\ \A x \in Checkins : x[1] \in Credits /\ x[2] \in Kinds
  /\ Kinds \subseteq Nat
BY CreditAssumption DEF Checkins, Kinds, Nobody

LEMMA CheckinInitHolds == CheckinInit => CheckinsInductive
<1> SUFFICES ASSUME CheckinInit PROVE CheckinsInductive
  OBVIOUS
<1>1. CreditsInductive
  BY CreditInitHolds DEF CheckinInit
<1>2. CheckinTypeOK
  <2>1. 0 \in 0..MaxFaults
    BY CheckinAssumption
  <2>2. sweep \in SweepRow
    BY DEF CheckinInit, SweepRow
  <2>3. QED BY <2>1, <2>2 DEF CheckinInit, CheckinTypeOK
<1>3. QED
  BY <1>1, <1>2, CheckinAssumption
  DEF CheckinInit, CheckinsInductive, CreditsInductive, PromisesInv, OncePerKind, StaleOnce, SweepIsLinked,
      TextsArePaidFor, StaleIsOver, Held, Asked

(* A step of the handlers or the office beside the sweep.                    *)
LEMMA BesideTheSweep ==
  ASSUME CheckinsInductive, [CreditNext]_creditVars, UNCHANGED sweepVars
  PROVE  CheckinsInductive'
<1>1. CreditsInductive
  BY DEF CheckinsInductive, CreditsInductive, PromisesInv
<1>2. CreditsInductive'
  BY <1>1, CreditsKept
<1>3. CheckinTypeOK'
  BY DEF CheckinsInductive, PromisesInv, CheckinTypeOK, sweepVars
<1>4. Held' = Held /\ Held \subseteq Checkins
  BY DEF CheckinsInductive, PromisesInv, CheckinTypeOK, SweepRow, SweepIsLinked, Held, Asked, sweepVars
<1>5. \A x \in Held : credit'[x[1]].status # "absent"
  BY <1>1, <1>4, CreditsLast, KindsKnown DEF CheckinsInductive, SweepIsLinked
<1>6. SweepIsLinked'
  BY <1>4, <1>5 DEF CheckinsInductive, SweepIsLinked, sweepVars
<1>7. StaleIsOver'
  BY <1>1, <1>4, CreditsLast DEF CheckinsInductive, StaleIsOver, sweepVars
<1>8. OncePerKind' /\ StaleOnce' /\ TextsArePaidFor'
  BY DEF CheckinsInductive, PromisesInv, OncePerKind, StaleOnce, TextsArePaidFor, sweepVars
<1>9. QED BY <1>2, <1>3, <1>6, <1>7, <1>8 DEF CheckinsInductive, CreditsInductive, PromisesInv

(* A step of the sweep that texts nobody and logs nothing: it holds no more  *)
(* than it did, but for the check-ins due it has just read.                  *)
LEMMA SweepMoves ==
  ASSUME CheckinsInductive, CreditsInductive', NEW s \in SweepRow, sweep' = s,
         touch' \in [Checkins -> {"none", "open", "sent"}],
         UNCHANGED <<log, optOut, hold, texts, stale>>,
         \A c \in Credits : credit'[c].status = credit[c].status
                            \/ (credit[c].status # "absent" /\ credit'[c].status = "expired"),
         faults' \in 0..MaxFaults,
         s.pc \in Asked \cup {"mark", "record", "refuse"} =>
            s.at \in Checkins /\ \A x \in s.due : x[1] # s.at[1],
         \A x, y \in s.due : x[1] = y[1] => x = y,
         \A x \in s.due \cup (IF s.pc \in Asked THEN {s.at} ELSE {}) :
            x \in Held \/ (x[2] \notin log[x[1]] /\ credit[x[1]].status = "active"),
         \/ faults' = faults + 1
         \/ /\ faults' = faults
            /\ sweep.pc \in {"mark", "record"} => s.at = sweep.at /\ s.pc \in {"mark", "record"}
  PROVE  CheckinsInductive'
<1>0. CheckinTypeOK /\ CreditTypeOK /\ CreditTypeOK' /\ Held \subseteq Checkins /\ s.due \subseteq Checkins
  BY DEF CheckinsInductive, CreditsInductive, CreditsInv, PromisesInv, CheckinTypeOK, SweepRow, SweepIsLinked,
         Held, Asked
<1>1. CheckinTypeOK'
  BY <1>0 DEF CheckinTypeOK
<1>2. Held' = s.due \cup IF s.pc \in Asked THEN {s.at} ELSE {}
  BY DEF Held, Asked
<1>3. Held' \subseteq Checkins
  BY <1>0, <1>2
<1>4. ASSUME NEW x \in Held'
      PROVE  x[1] \in Credits /\ x[2] \notin log[x[1]] /\ credit[x[1]].status # "absent"
             /\ credit'[x[1]].status # "absent" /\ stale[x[1]] = 0
  <2>1. x[1] \in Credits /\ stale[x[1]] \in Nat
    BY <1>0, <1>3, <1>4, KindsKnown DEF CheckinTypeOK
  <2>2. x \in Held \/ (x[2] \notin log[x[1]] /\ credit[x[1]].status = "active")
    BY <1>2, <1>4
  <2>3. x[2] \notin log[x[1]] /\ credit[x[1]].status # "absent"
    BY <2>2 DEF CheckinsInductive, SweepIsLinked
  <2>4. stale[x[1]] = 0
    BY <2>1, <2>2 DEF CheckinsInductive, StaleIsOver
  <2>5. QED BY <2>1, <2>3, <2>4
<1>5. SweepIsLinked'
  BY <1>4 DEF SweepIsLinked, Asked
<1>6. StaleIsOver'
  <2>1. \A c \in Credits : stale[c] > 0 => credit'[c].status \in {"applied", "expired"}
    BY DEF CheckinsInductive, StaleIsOver
  <2>2. \A c \in Credits : stale[c] > 0 => \A x \in Held' : x[1] # c
    BY <1>4
  <2>3. QED BY <2>1, <2>2 DEF StaleIsOver
<1>7. faults \in Nat /\ texts \in [Checkins -> Nat]
  BY <1>0, CheckinAssumption DEF CheckinTypeOK
<1>8. OncePerKind' /\ TextsArePaidFor'
  BY <1>7 DEF CheckinsInductive, PromisesInv, OncePerKind, TextsArePaidFor
<1>9. StaleOnce'
  BY DEF CheckinsInductive, PromisesInv, StaleOnce
<1>10. QED
  BY <1>1, <1>5, <1>6, <1>8, <1>9 DEF CheckinsInductive, CreditsInductive, PromisesInv

LEMMA CreditsStill ==
  ASSUME CheckinsInductive, UNCHANGED creditVars
  PROVE  CreditsInductive' /\ \A c \in Credits : credit'[c].status = credit[c].status
BY CreditsKept DEF CheckinsInductive, CreditsInductive, PromisesInv, creditVars

LEMMA SweepLooks ==
  ASSUME CheckinsInductive,
         \/ Cron \/ SweepExpires \/ ReadDue \/ NextDue \/ Schedule \/ ReadCustomer \/ MarkSent \/ Dies
         \/ OptOut \/ Dispute \/ \E x \in Checkins : Displace(x)
  PROVE  CheckinsInductive'
<1>0. CheckinTypeOK /\ SweepIsLinked
  BY DEF CheckinsInductive, PromisesInv
<1>t. /\ sweep \in SweepRow /\ touch \in [Checkins -> {"none", "open", "sent"}]
      /\ faults \in 0..MaxFaults /\ MaxFaults \in Nat
  BY <1>0, CheckinAssumption DEF CheckinTypeOK
<1>f. sweep = [pc |-> sweep.pc, due |-> sweep.due, at |-> sweep.at] /\ sweep.due \subseteq Checkins
      /\ sweep.at \in Checkins \cup {Nobody}
  BY <1>t DEF SweepRow
<1> DEFINE Moved(s) ==
      /\ s \in SweepRow
      /\ s.pc \in Asked \cup {"mark", "record", "refuse"} =>
            s.at \in Checkins /\ \A x \in s.due : x[1] # s.at[1]
      /\ \A x, y \in s.due : x[1] = y[1] => x = y
      /\ \A x \in s.due \cup (IF s.pc \in Asked THEN {s.at} ELSE {}) :
            x \in Held \/ (x[2] \notin log[x[1]] /\ credit[x[1]].status = "active")
<1>1. ASSUME NEW pc, Pc(pc), UNCHANGED creditVars, UNCHANGED <<log, optOut, hold, faults, texts, stale>>,
             touch' \in [Checkins -> {"none", "open", "sent"}],
             pc \in {"idle", "expire", "due", "next", "schedule", "customer", "send", "mark", "record", "refuse"},
             pc \in Asked => sweep.pc \in Asked,
             pc \in {"mark", "record", "refuse"} => sweep.pc \in Asked \cup {"mark", "record", "refuse"},
             sweep.pc \in {"mark", "record"} => pc \in {"mark", "record"}
      PROVE  CheckinsInductive'
  <2>1. PICK s : s = [sweep EXCEPT !.pc = pc]
    OBVIOUS
  <2>2. s.pc = pc /\ s.due = sweep.due /\ s.at = sweep.at /\ s \in SweepRow
    BY <1>1, <1>t, <2>1 DEF SweepRow
  <2>3. Moved(s)
    BY <1>0, <1>1, <2>2 DEF SweepIsLinked, Held, Asked
  <2>4. QED BY <1>1, <1>t, <2>1, <2>2, <2>3, SweepMoves, CreditsStill DEF Pc
<1>2. CASE Cron
  BY <1>1, <1>2, <1>t DEF Cron, Asked
<1>3. CASE SweepExpires
  <2>1. PICK s : s = [sweep EXCEPT !.pc = IF QuietAtTen THEN "idle" ELSE "due"]
    OBVIOUS
  <2>2. s.pc \in {"idle", "due"} /\ s.due = sweep.due /\ s.at = sweep.at /\ s \in SweepRow
    BY <1>t, <2>1 DEF SweepRow
  <2>3. Moved(s) /\ sweep.pc \notin {"mark", "record"}
    BY <1>0, <1>3, <2>2 DEF SweepIsLinked, Held, Asked, SweepExpires
  <2>4. CreditsInductive'
    BY <1>3, CreditsKept DEF SweepExpires, CreditNext, CheckinsInductive, CreditsInductive, PromisesInv
  <2>5. \A c \in Credits : credit'[c].status = credit[c].status
                         \/ (credit[c].status # "absent" /\ credit'[c].status = "expired")
    BY <1>3 DEF SweepExpires, Expire, Expires, CheckinsInductive, PromisesInv, CreditsInv, CreditTypeOK, CreditRow
  <2>6. QED BY <1>3, <1>t, <2>1, <2>2, <2>3, <2>4, <2>5, SweepMoves DEF SweepExpires, Pc
<1>4. CASE ReadDue
  <2> DEFINE due == {x \in Checkins : /\ IsDue(x[1], x[2])
                                     /\ \A k \in Kinds : IsDue(x[1], k) => k <= x[2]}
  <2>1. PICK s : s = [sweep EXCEPT !.pc = "next", !.due = due]
    OBVIOUS
  <2>2. s.pc = "next" /\ s.due = due /\ s \in SweepRow
    BY <1>t, <2>1 DEF SweepRow
  <2>3. ASSUME NEW x \in due, NEW y \in due, x[1] = y[1] PROVE x = y
    <3>1. PICK c \in Credits, k \in Kinds : x = <<c, k>>
      BY <2>3 DEF Checkins
    <3>2. PICK d \in Credits, l \in Kinds : y = <<d, l>>
      BY <2>3 DEF Checkins
    <3>3. k <= l /\ l <= k
      BY <2>3, <3>1, <3>2
    <3>4. k = l
      BY <3>3, KindsKnown
    <3>5. QED BY <2>3, <3>1, <3>2, <3>4
  <2>4. \A x \in due : x[2] \notin log[x[1]] /\ credit[x[1]].status = "active"
    BY DEF IsDue, Active
  <2> HIDE DEF due
  <2>5. Moved(s)
    BY <2>2, <2>3, <2>4 DEF Asked
  <2>6. sweep' = s /\ sweep.pc = "due"
    BY <1>4, <2>1 DEF ReadDue, due
  <2>7. QED BY <1>4, <1>t, <2>2, <2>5, <2>6, SweepMoves, CreditsStill DEF ReadDue
<1>5. CASE NextDue
  <2>1. CASE sweep.due = {} /\ sweep' = [pc |-> "idle", due |-> {}, at |-> Nobody]
    <3>1. PICK s : s = [pc |-> "idle", due |-> {}, at |-> Nobody]
      OBVIOUS
    <3>2. s \in SweepRow /\ s.pc = "idle" /\ s.due = {}
      BY <3>1 DEF SweepRow
    <3>3. Moved(s)
      BY <3>2 DEF Asked
    <3>4. QED BY <1>5, <1>t, <2>1, <3>1, <3>3, SweepMoves, CreditsStill DEF NextDue
  <2>2. ASSUME NEW y \in sweep.due, sweep' = [pc |-> "schedule", due |-> sweep.due \ {y}, at |-> y]
        PROVE  CheckinsInductive'
    <3>1. PICK s : s = [pc |-> "schedule", due |-> sweep.due \ {y}, at |-> y]
      OBVIOUS
    <3>2. s \in SweepRow /\ s.pc = "schedule" /\ s.due = sweep.due \ {y} /\ s.at = y
      BY <1>f, <3>1 DEF SweepRow
    <3>3. Moved(s)
      BY <1>0, <1>f, <3>2 DEF Asked, Held, SweepIsLinked
    <3>4. QED BY <1>5, <1>t, <2>2, <3>1, <3>3, SweepMoves, CreditsStill DEF NextDue
  <2>3. QED BY <1>5, <2>1, <2>2 DEF NextDue
<1>6. CASE Schedule
  <2>1. touch' \in [Checkins -> {"none", "open", "sent"}]
    BY <1>6, <1>t DEF Schedule
  <2>2. CASE Pc("refuse")
    BY <1>1, <1>6, <2>1, <2>2 DEF Schedule, Asked
  <2>3. CASE Pc("customer")
    BY <1>1, <1>6, <2>1, <2>3 DEF Schedule, Asked
  <2>4. QED BY <1>6, <2>2, <2>3 DEF Schedule
<1>7. CASE ReadCustomer
  BY <1>1, <1>7, <1>t DEF ReadCustomer, Asked
<1>8. CASE MarkSent
  <2>1. touch' \in [Checkins -> {"none", "open", "sent"}]
    BY <1>8, <1>t DEF MarkSent
  <2>2. QED BY <1>1, <1>8, <2>1 DEF MarkSent, Asked
<1>9. CASE Dies
  <2>1. PICK s : s = [pc |-> "expire", due |-> {}, at |-> Nobody]
    OBVIOUS
  <2>2. s \in SweepRow /\ s.pc = "expire" /\ s.due = {}
    BY <2>1 DEF SweepRow
  <2>3. Moved(s)
    BY <2>2 DEF Asked
  <2>4. faults' = faults + 1 /\ faults' \in 0..MaxFaults
    BY <1>9, <1>t DEF Dies
  <2>5. QED BY <1>9, <1>t, <2>1, <2>3, <2>4, SweepMoves, CreditsStill DEF Dies
<1>10. CASE OptOut \/ Dispute \/ \E x \in Checkins : Displace(x)
  <2>1. CheckinTypeOK'
    BY <1>0, <1>10 DEF CheckinTypeOK, OptOut, Dispute, Displace
  <2>2. CreditsInductive' /\ \A c \in Credits : credit'[c].status = credit[c].status
    BY <1>10, CreditsStill DEF OptOut, Dispute, Displace
  <2>3. UNCHANGED <<creditVars, log, sweep, faults, texts, stale>>
    BY <1>10 DEF OptOut, Dispute, Displace
  <2>4. Held' = Held
    BY <2>3 DEF Held
  <2>5. SweepIsLinked'
    BY <2>3, <2>4 DEF CheckinsInductive, SweepIsLinked, creditVars
  <2>6. StaleIsOver' /\ TextsArePaidFor' /\ OncePerKind' /\ StaleOnce'
    BY <2>3, <2>4 DEF CheckinsInductive, PromisesInv, StaleIsOver, TextsArePaidFor, OncePerKind, StaleOnce, creditVars
  <2>7. QED BY <2>1, <2>2, <2>5, <2>6 DEF CheckinsInductive, CreditsInductive, PromisesInv
<1>11. QED BY <1>2, <1>3, <1>4, <1>5, <1>6, <1>7, <1>8, <1>9, <1>10

(* The text of the check-in at hand leaves: the sweep is past it, or a fault *)
(* is counted.                                                               *)
LEMMA TextLeaves ==
  ASSUME CheckinsInductive, sweep.pc = "send", Texted, NEW pc \in {"mark", "next"}, Pc(pc),
         UNCHANGED <<creditVars, log, touch, optOut, hold>>, faults' \in 0..MaxFaults,
         \/ pc = "mark" /\ faults' = faults
         \/ pc = "next" /\ faults' = faults + 1
  PROVE  CheckinsInductive'
<1> DEFINE x == sweep.at
           c == x[1]
<1>0. CheckinTypeOK /\ SweepIsLinked /\ CreditsInductive' /\ \A d \in Credits : credit'[d].status = credit[d].status
  BY CreditsStill DEF CheckinsInductive, PromisesInv
<1>t. /\ sweep \in SweepRow /\ faults \in Nat /\ texts \in [Checkins -> Nat] /\ stale \in [Credits -> Nat]
  BY <1>0, CheckinAssumption DEF CheckinTypeOK
<1>1. /\ x \in Checkins /\ c \in Credits /\ x \in Held /\ x[2] \notin log[c]
      /\ credit[c].status # "absent" /\ \A y \in sweep.due : y[1] # c
  BY <1>0, KindsKnown DEF SweepIsLinked, Held, Asked
<1>2. sweep' \in SweepRow /\ sweep'.pc = pc /\ sweep'.due = sweep.due /\ sweep'.at = sweep.at
  BY <1>t DEF Pc, SweepRow
<1>3. texts' \in [Checkins -> Nat] /\ texts'[x] = texts[x] + 1
      /\ \A y \in Checkins \ {x} : texts'[y] = texts[y]
  BY <1>1, <1>t DEF Texted
<1>4. stale' \in [Credits -> Nat] /\ (\A d \in Credits \ {c} : stale'[d] = stale[d])
      /\ (c \in Active => stale'[c] = stale[c]) /\ (c \notin Active => stale'[c] = stale[c] + 1)
  BY <1>1, <1>t DEF Texted
<1>5. CheckinTypeOK'
  BY <1>0, <1>2, <1>3, <1>4 DEF CheckinTypeOK
<1>6. Held' = sweep.due
  BY <1>2 DEF Held, Asked
<1>7. SweepIsLinked'
  <2>1. \A y \in sweep.due : y \in Held /\ y \in Checkins
    BY <1>t DEF Held, SweepRow
  <2>2. QED BY <1>0, <1>1, <1>2, <1>6, <2>1, KindsKnown DEF SweepIsLinked, Asked
<1>8. texts[x] <= faults
  BY <1>1 DEF CheckinsInductive, TextsArePaidFor
<1>9. OncePerKind' /\ TextsArePaidFor'
  <2>1. faults' \in Nat /\ faults <= faults' /\ (pc = "next" => faults' = faults + 1)
    BY <1>t
  <2>2. OncePerKind'
    BY <1>3, <1>8, <1>t, <2>1 DEF CheckinsInductive, PromisesInv, OncePerKind
  <2>3. ASSUME NEW y \in Checkins, y[2] \notin log'[y[1]], ~(sweep'.at = y /\ sweep'.pc \in {"mark", "record"})
        PROVE  texts'[y] <= faults'
    <3>1. CASE y = x
      BY <1>2, <1>3, <1>8, <1>t, <2>1, <2>3, <3>1
    <3>2. CASE y # x
      BY <1>3, <1>t, <2>1, <2>3, <3>2 DEF CheckinsInductive, TextsArePaidFor
    <3>3. QED BY <3>1, <3>2
  <2>4. QED BY <2>2, <2>3 DEF TextsArePaidFor
<1>10. stale[c] = 0
  BY <1>1, <1>t DEF CheckinsInductive, StaleIsOver
<1>11. StaleOnce'
  BY <1>4, <1>10, <1>t DEF CheckinsInductive, PromisesInv, StaleOnce
<1>12. StaleIsOver'
  <2>1. credit \in [Credits -> CreditRow]
    BY DEF CheckinsInductive, PromisesInv, CreditsInv, CreditTypeOK
  <2>2. stale'[c] > 0 => credit[c].status \in {"applied", "expired"}
    BY <1>1, <1>4, <1>10, <2>1 DEF Active, CreditRow
  <2>3. \A d \in Credits \ {c} : stale'[d] > 0 =>
            credit[d].status \in {"applied", "expired"} /\ \A y \in Held : y[1] # d
    BY <1>4 DEF CheckinsInductive, StaleIsOver
  <2>4. \A y \in Held' : y \in Held /\ y[1] # c
    BY <1>1, <1>6 DEF Held
  <2>5. QED BY <1>0, <2>2, <2>3, <2>4 DEF StaleIsOver
<1>13. QED BY <1>0, <1>5, <1>7, <1>9, <1>11, <1>12 DEF CheckinsInductive, CreditsInductive, PromisesInv

(* The sweep goes on without a text.                                         *)
LEMMA SweepPasses ==
  ASSUME CheckinsInductive, NEW pc \in {"record", "next"}, Pc(pc),
         UNCHANGED <<creditVars, log, touch, optOut, hold, texts, stale>>, faults' \in 0..MaxFaults,
         sweep.pc \in {"send", "mark", "record"},
         \/ faults' = faults + 1
         \/ pc = "record" /\ faults' = faults
  PROVE  CheckinsInductive'
<1>0. CheckinTypeOK /\ SweepIsLinked
  BY DEF CheckinsInductive, PromisesInv
<1>1. sweep \in SweepRow /\ touch' \in [Checkins -> {"none", "open", "sent"}]
  BY <1>0 DEF CheckinTypeOK
<1>2. PICK s : s = [sweep EXCEPT !.pc = pc]
  OBVIOUS
<1>3. s.pc = pc /\ s.due = sweep.due /\ s.at = sweep.at /\ s \in SweepRow
  BY <1>1, <1>2 DEF SweepRow
<1>4. s.due \subseteq Held /\ s.at \in Checkins /\ (\A x \in s.due : x[1] # s.at[1])
      /\ \A x, y \in s.due : x[1] = y[1] => x = y
  BY <1>0, <1>3 DEF SweepIsLinked, Held, Asked
<1>5. QED BY <1>1, <1>2, <1>3, <1>4, SweepMoves, CreditsStill DEF Pc, Asked

LEMMA CheckinLogged == ASSUME CheckinsInductive, LogCheckin PROVE CheckinsInductive'
<1> DEFINE x == sweep.at
<1>0. CheckinTypeOK /\ SweepIsLinked /\ CreditsInductive' /\ \A d \in Credits : credit'[d].status = credit[d].status
  BY CreditsStill DEF CheckinsInductive, PromisesInv, LogCheckin
<1>1. sweep \in SweepRow /\ log \in [Credits -> SUBSET Kinds] /\ faults \in Nat /\ texts \in [Checkins -> Nat]
  BY <1>0, CheckinAssumption DEF CheckinTypeOK
<1>2. x \in Checkins /\ x[1] \in Credits /\ x[2] \in Kinds /\ \A y \in sweep.due : y[1] # x[1]
  BY <1>0, KindsKnown DEF SweepIsLinked, LogCheckin, Asked
<1>3. sweep' \in SweepRow /\ sweep'.pc = "next" /\ sweep'.due = sweep.due
  BY <1>1 DEF LogCheckin, Pc, SweepRow
<1>4. /\ log' \in [Credits -> SUBSET Kinds] /\ log'[x[1]] = log[x[1]] \cup {x[2]}
      /\ \A d \in Credits \ {x[1]} : log'[d] = log[d]
  BY <1>1, <1>2 DEF LogCheckin, Logs
<1>5. CheckinTypeOK'
  BY <1>0, <1>3, <1>4 DEF LogCheckin, CheckinTypeOK
<1>6. Held' = sweep.due /\ Held = sweep.due /\ sweep.due \subseteq Checkins
  BY <1>1, <1>3 DEF Held, Asked, LogCheckin, SweepRow
<1>7. SweepIsLinked'
  BY <1>0, <1>2, <1>3, <1>4, <1>6, KindsKnown DEF SweepIsLinked, Asked
<1>8. StaleIsOver' /\ StaleOnce' /\ OncePerKind'
  BY <1>0, <1>6 DEF LogCheckin, CheckinsInductive, PromisesInv, StaleIsOver, StaleOnce, OncePerKind
<1>9. TextsArePaidFor'
  <2> SUFFICES ASSUME NEW y \in Checkins, y[2] \notin log'[y[1]] PROVE texts[y] <= faults
    BY DEF LogCheckin, TextsArePaidFor
  <2>1. y # x /\ y[2] \notin log[y[1]]
    BY <1>2, <1>4, KindsKnown
  <2>2. QED BY <2>1 DEF CheckinsInductive, TextsArePaidFor
<1>10. QED BY <1>0, <1>5, <1>7, <1>8, <1>9 DEF CheckinsInductive, CreditsInductive, PromisesInv

LEMMA CheckinsKept == CheckinsInductive /\ [CheckinNext]_checkinVars => CheckinsInductive'
<1> SUFFICES ASSUME CheckinsInductive, [CheckinNext]_checkinVars PROVE CheckinsInductive'
  OBVIOUS
<1>0. faults \in 0..MaxFaults /\ MaxFaults \in Nat
  BY CheckinAssumption DEF CheckinsInductive, PromisesInv, CheckinTypeOK
<1>1. CASE UNCHANGED checkinVars
  BY <1>1, BesideTheSweep DEF checkinVars
<1>2. CASE CreditStep /\ UNCHANGED sweepVars
  BY <1>2, BesideTheSweep DEF CreditNext
<1>3. CASE Send
  <2>1. CASE Texted /\ Pc("mark")
    BY <1>0, <1>3, <2>1, TextLeaves DEF Send
  <2>2. CASE Pc("record") /\ UNCHANGED <<texts, stale>>
    BY <1>0, <1>3, <2>2, SweepPasses DEF Send
  <2>3. QED BY <1>3, <2>1, <2>2 DEF Send
<1>4. CASE Throws
  <2>1. faults' = faults + 1 /\ faults' \in 0..MaxFaults
    BY <1>0, <1>4 DEF Throws
  <2>2. CASE sweep.pc = "send" /\ Texted
    BY <1>4, <2>1, <2>2, TextLeaves DEF Throws
  <2>3. CASE UNCHANGED <<texts, stale>>
    BY <1>4, <2>1, <2>3, SweepPasses DEF Throws
  <2>4. QED BY <1>4, <2>2, <2>3 DEF Throws
<1>5. QED BY <1>1, <1>2, <1>3, <1>4, SweepLooks, CheckinLogged DEF CheckinNext, SweepStep

\* For any number of credits, estimates, handlers and faults, and any lapse of a credit: what
\* CreditsHold says of the credits, and the cadence texts each check-in once but for deaths and
\* errors, and a spent or expired credit once at most (repair-credit-sweep.ts).
THEOREM PromisesHold == CheckinSpec => []PromisesInv
<1>1. CheckinsInductive => PromisesInv
  BY DEF CheckinsInductive
<1>2. QED BY <1>1, CheckinInitHolds, CheckinsKept, PTL DEF CheckinSpec
=============================================================================

------------------------------ MODULE JobProofs ------------------------------
(***************************************************************************)
(* A job from its estimate to its last task, for any number of actors:     *)
(* the estimate is accepted and converted once and for a reason, stages    *)
(* are earned, the ledger always waits on somebody, and the nightly score  *)
(* agrees with the page about it.                                          *)
(***************************************************************************)
EXTENDS EstimateConversion, JobStages, TaskLedger, TaskHealth, TLAPS

-----------------------------------------------------------------------------
(* A job's stage is earned, for any number of movers and of commission     *)
(* recorders.  The invariant needs two facts beside it: what is on file now *)
(* was on file at some time, and what a transaction is about to write was  *)
(* earned when it read the stage.                                          *)

OnFileWasHeld == \A k \in Gates : evidence[k] => held[k]

Earned == StagesTypeOK /\ OnFileWasHeld /\ StageIsEarned /\ PlansAreEarned

-----------------------------------------------------------------------------
\* A job opens as a lead, with nothing on file but a photo checklist that asks nothing.
LEMMA InitEarned == Init => Earned
<1> SUFFICES ASSUME Init PROVE Earned
  OBVIOUS
<1>1. StagesTypeOK
  <2>1. PICK none \in BOOLEAN : evidence = [k \in Gates |-> k = Closeout /\ none]
    BY DEF Init
  <2>2. evidence \in [Gates -> BOOLEAN]
    BY <2>1
  <2>3. stage \in Stages
    BY DEF Init, Stages, Lost
  <2>4. mover \in [Movers -> MoverRow]
    BY DEF Init, MoverRow, Kinds, Stages, Lost
  <2> QED
    BY <2>2, <2>3, <2>4 DEF Init, StagesTypeOK
<1>2. OnFileWasHeld
  BY DEF Init, OnFileWasHeld
<1>3. StageIsEarned
  BY DEF Init, StageIsEarned
<1>4. PlansAreEarned
  BY DEF Init, PlansAreEarned
<1> QED
  BY <1>1, <1>2, <1>3, <1>4 DEF Earned

-----------------------------------------------------------------------------
\* Every operation keeps the rows well formed: no status, stage or program counter
\* outside its enum.
LEMMA TypeStep == StagesTypeOK /\ [Next]_vars => StagesTypeOK'
<1> SUFFICES ASSUME StagesTypeOK, [Next]_vars PROVE StagesTypeOK'
  OBVIOUS
<1> USE DEF StagesTypeOK, MoverRow
<1>1. ASSUME NEW k \in Gates, Appears(k) PROVE StagesTypeOK'
  BY <1>1 DEF Appears
<1>2. ASSUME NEW k \in Gates, Vanishes(k) PROVE StagesTypeOK'
  BY <1>2 DEF Vanishes
<1>3. ASSUME NEW m \in Movers, StartMove(m) PROVE StagesTypeOK'
  <2>0. PICK kind \in Kinds : \E to \in Target(kind) :
          mover' = [mover EXCEPT ![m].pc = IF kind = "board" THEN "gate" ELSE "read",
                                 ![m].kind = kind, ![m].to = to]
    BY <1>3 DEF StartMove
  <2>1. PICK to \in Target(kind) :
          mover' = [mover EXCEPT ![m].pc = IF kind = "board" THEN "gate" ELSE "read",
                                 ![m].kind = kind, ![m].to = to]
    BY <2>0
  <2>2. to \in Stages
    BY <2>1 DEF Target, Stages, Lost, Approved, Production, Closeout, Billing, Complete
  <2>3. PICK pc \in {"gate", "read"} :
          mover' = [mover EXCEPT ![m].pc = pc, ![m].kind = kind, ![m].to = to]
    BY <2>1
  <2>4. mover' = [mover EXCEPT ![m] = [mover[m] EXCEPT !.pc = pc, !.kind = kind, !.to = to]]
    BY <2>3
  <2>5. [mover[m] EXCEPT !.pc = pc, !.kind = kind, !.to = to] \in MoverRow
    BY <2>2
  <2>6. mover' \in [Movers -> MoverRow]
    BY <2>4, <2>5
  <2> QED
    BY <1>3, <2>6 DEF StartMove
<1>4. ASSUME NEW m \in Movers, ReadFirst(m) PROVE StagesTypeOK'
  BY <1>4 DEF ReadFirst, MoverTo
<1>5. ASSUME NEW m \in Movers, ReadAndGate(m) PROVE StagesTypeOK'
  BY <1>5 DEF ReadAndGate
<1>6. ASSUME NEW m \in Movers, Write(m) PROVE StagesTypeOK'
  <2>1. mover' \in [Movers -> MoverRow] /\ stage' \in Stages
    BY <1>6 DEF Write, MoverTo
  <2>2. commission' \in {"none", "pending", "approved", "paid", "charged_back"} /\ reopened' \in BOOLEAN
    BY <1>6 DEF Write, ChargedBack
  <2> QED
    BY <1>6, <2>1, <2>2 DEF Write
<1>7. ASSUME NEW m \in Movers, Fails(m) PROVE StagesTypeOK'
  <2>1. PICK pc \in {"done", "read"} : mover' = [mover EXCEPT ![m].pc = pc]
    BY <1>7 DEF Fails, MoverTo
  <2> QED
    BY <1>7, <2>1 DEF Fails
<1>8. ASSUME NEW r \in Recorders, FindCommission(r) PROVE StagesTypeOK'
  BY <1>8 DEF FindCommission
<1>9. ASSUME NEW r \in Recorders, InsertCommission(r) PROVE StagesTypeOK'
  BY <1>9 DEF InsertCommission, Keeps
<1>10. CASE Payout
  BY <1>10 DEF Payout
<1>11. CASE UNCHANGED vars
  BY <1>11 DEF vars
<1> QED
  BY <1>1, <1>2, <1>3, <1>4, <1>5, <1>6, <1>7, <1>8, <1>9, <1>10, <1>11 DEF Next

-----------------------------------------------------------------------------
\* Evidence only ever adds to the history, so what was earned stays earned; the three
\* other conjuncts hang on the stage, the history and the transactions under way.
LEMMA HistoryGrows ==
  ASSUME StagesTypeOK, OnFileWasHeld, [Next]_vars
  PROVE  OnFileWasHeld' /\ \A k \in Gates : held[k] => held'[k]
<1>1. ASSUME NEW k \in Gates, Appears(k) PROVE OnFileWasHeld' /\ \A j \in Gates : held[j] => held'[j]
  BY <1>1 DEF Appears, StagesTypeOK, OnFileWasHeld
<1>2. ASSUME NEW k \in Gates, Vanishes(k) PROVE OnFileWasHeld' /\ \A j \in Gates : held[j] => held'[j]
  BY <1>2 DEF Vanishes, StagesTypeOK, OnFileWasHeld
<1>3. CASE UNCHANGED <<evidence, held>>
  BY <1>3 DEF OnFileWasHeld
<1> QED
  BY <1>1, <1>2, <1>3 DEF Next, vars, StartMove, ReadFirst, ReadAndGate, Write, Fails,
     FindCommission, InsertCommission, Payout

\* Passing the gate earns the target: forward by the chain on file, backward because
\* less is asked than the stage held already.
LEMMA GateEarns ==
  ASSUME Earned, NEW m \in Movers, ReadAndGate(m), ~reopened,
         mover[m].to # Lost, stage # Lost, NEW k \in 1..mover[m].to
  PROVE  held[k]
<1>1. mover[m].to \in Stages /\ stage \in Stages
  BY DEF Earned, StagesTypeOK, MoverRow
<1>2. k \in Gates
  BY <1>1 DEF Stages, Gates, Lost, Complete
<1>3. CASE mover[m].to > stage
  BY <1>2, <1>3 DEF Earned, ReadAndGate, MayEnter, Chain, OnFileWasHeld
<1>4. CASE mover[m].to <= stage
  <2>1. k \in 1..stage
    BY <1>1, <1>4 DEF Stages, Lost
  <2> QED
    BY <2>1 DEF Earned, StageIsEarned
<1> QED
  BY <1>1, <1>3, <1>4 DEF Stages, Lost

\* Every transaction's plan stays earned until it is written.
LEMMA PlansStep == Earned /\ [Next]_vars => PlansAreEarned'
<1> SUFFICES ASSUME Earned, [Next]_vars,
                    NEW n \in Movers, mover'[n].pc = "write", mover'[n].to # Lost, ~reopened',
                    mover'[n].from # Lost, NEW k \in 1..mover'[n].to
             PROVE  held'[k]
  BY DEF PlansAreEarned
<1>0. StagesTypeOK /\ StagesTypeOK' /\ OnFileWasHeld
  BY TypeStep DEF Earned
<1>1. mover'[n].to \in Stages /\ mover[n] \in MoverRow
  BY <1>0 DEF StagesTypeOK, MoverRow
<1>2. k \in Gates
  BY <1>1 DEF Stages, Gates, Lost, Complete
<1>3. \A j \in Gates : held[j] => held'[j]
  BY <1>0, HistoryGrows
<1>4. CASE mover'[n] = mover[n]
  <2>1. ~reopened
    BY DEF Next, vars, Appears, Vanishes, StartMove, ReadFirst, ReadAndGate, Write, Fails,
       FindCommission, InsertCommission, Payout
  <2> QED
    BY <1>2, <1>3, <1>4, <2>1 DEF Earned, PlansAreEarned
<1>5. ASSUME ReadAndGate(n) PROVE held'[k]
  <2>1. mover'[n].to = mover[n].to /\ mover'[n].from = stage /\ ~reopened
    BY <1>0, <1>5 DEF ReadAndGate, StagesTypeOK, MoverRow
  <2> QED
    BY <1>2, <1>3, <1>5, <2>1, GateEarns
<1>6. ASSUME mover'[n] # mover[n], ~ReadAndGate(n) PROVE FALSE
  <2>1. ASSUME NEW m \in Movers, StartMove(m) PROVE mover'[n].pc # "write" \/ mover'[n] = mover[n]
    BY <2>1, <1>0 DEF StartMove, StagesTypeOK, MoverRow
  <2>2. ASSUME NEW m \in Movers, ReadFirst(m) PROVE mover'[n].pc # "write" \/ mover'[n] = mover[n]
    BY <2>2, <1>0 DEF ReadFirst, MoverTo, StagesTypeOK, MoverRow
  <2>3. ASSUME NEW m \in Movers, ReadAndGate(m) PROVE m = n \/ mover'[n] = mover[n]
    BY <2>3, <1>0 DEF ReadAndGate, StagesTypeOK, MoverRow
  <2>4. ASSUME NEW m \in Movers, Write(m) PROVE mover'[n].pc # "write" \/ mover'[n] = mover[n]
    BY <2>4, <1>0 DEF Write, MoverTo, StagesTypeOK, MoverRow
  <2>5. ASSUME NEW m \in Movers, Fails(m) PROVE mover'[n].pc # "write" \/ mover'[n] = mover[n]
    BY <2>5, <1>0 DEF Fails, MoverTo, StagesTypeOK, MoverRow
  <2> QED
    BY <1>6, <2>1, <2>2, <2>3, <2>4, <2>5
    DEF Next, vars, Appears, Vanishes, FindCommission, InsertCommission, Payout
<1> QED
  BY <1>4, <1>5, <1>6

\* A stage that is written was earned by its plan; any other step leaves it alone.
LEMMA StageStep == Earned /\ [Next]_vars => StageIsEarned'
<1> SUFFICES ASSUME Earned, [Next]_vars, stage' # Lost, ~reopened', NEW k \in 1..stage'
             PROVE  held'[k]
  BY DEF StageIsEarned
<1>0. StagesTypeOK /\ StagesTypeOK' /\ OnFileWasHeld
  BY TypeStep DEF Earned
<1>1. k \in Gates
  BY <1>0 DEF StagesTypeOK, Stages, Gates, Lost, Complete
<1>2. \A j \in Gates : held[j] => held'[j]
  BY <1>0, HistoryGrows
<1>3. ASSUME NEW m \in Movers, Write(m) PROVE held'[k]
  <2>1. stage' = mover[m].to /\ ~reopened /\ mover[m].from # Lost /\ mover[m].pc = "write"
    BY <1>3 DEF Write
  <2>2. held[k]
    BY <2>1 DEF Earned, PlansAreEarned
  <2> QED
    BY <1>1, <1>2, <2>2
<1>4. CASE stage' = stage /\ reopened' = reopened
  BY <1>1, <1>2, <1>4 DEF Earned, StageIsEarned
<1> QED
  BY <1>3, <1>4 DEF Next, vars, Appears, Vanishes, StartMove, ReadFirst, ReadAndGate, Fails,
     FindCommission, InsertCommission, Payout

-----------------------------------------------------------------------------
\* For any number of movers and recorders: the rows are well formed, and unless staff
\* reopened a lost job every gate up to its stage was met at some time.
THEOREM StageEarned == Spec => [](StagesTypeOK /\ StageIsEarned)
<1>1. Init => Earned
  BY InitEarned
<1>2. Earned /\ [Next]_vars => Earned'
  BY TypeStep, HistoryGrows, PlansStep, StageStep DEF Earned
<1>3. Earned => StagesTypeOK /\ StageIsEarned
  BY DEF Earned
<1> QED
  BY <1>1, <1>2, <1>3, PTL DEF Spec

\* For any number of movers and recorders: a commission paid out stays paid, and one
\* charged back is never owed again.
THEOREM PayoutsFinal == Spec => PayoutsAreFinal
<1> DEFINE Final == /\ commission = "paid" => commission' = "paid"
                    /\ commission = "charged_back" => commission' = "charged_back"
<1>1. [Next]_vars => [Final]_vars
  <2> SUFFICES ASSUME Next PROVE Final
    OBVIOUS
  <2>1. ASSUME NEW m \in Movers, Write(m) PROVE Final
    BY <2>1 DEF Write, ChargedBack
  <2>2. ASSUME NEW r \in Recorders, InsertCommission(r) PROVE Final
    BY <2>2 DEF InsertCommission, Keeps
  <2>3. CASE Payout
    BY <2>3 DEF Payout
  <2>4. CASE UNCHANGED commission
    BY <2>4
  <2> QED
    BY <2>1, <2>2, <2>3, <2>4 DEF Next, Appears, Vanishes, StartMove, ReadFirst, ReadAndGate, Fails,
       FindCommission
<1> QED
  BY <1>1, PTL DEF Spec, PayoutsAreFinal

-----------------------------------------------------------------------------
(* What the job ledger promises for every registry without cycles.  The    *)
(* strengthening of SomebodyIsWaitedOn is Blocking: only pending dependencies *)
(* block; of the open rows one then has no blocker.                        *)

\* Until a box is ticked by hand or a backfill adds a row, what blocks a row is a
\* dependency that nobody has done yet.
Blocking == disturbed = {} =>
    \A t \in Tasks : \A d \in blockedBy[t] : d \in DependsOn[t] /\ status[d] = "pending"

-----------------------------------------------------------------------------
\* Every step keeps the types: the whole next-state relation writes rows of the table.
LEMMA LedgerTypes == LedgerSpec => []LedgerTypeOK
<1>1. LedgerInit => LedgerTypeOK
  BY DEF LedgerInit, LedgerTypeOK
<1>2. ASSUME LedgerTypeOK, [LedgerNext]_ledgerVars
      PROVE  LedgerTypeOK'
  <2>1. CASE Configure
    BY <1>2, <2>1 DEF Configure, LedgerTypeOK
  <2>2. CASE Instantiate
    <3>2. status' \in [Tasks -> {"absent"} \cup Incomplete \cup Terminal]
      BY <1>2, <2>2 DEF Instantiate, LedgerTypeOK, Incomplete
    <3>3. blockedBy' \in [Tasks -> SUBSET Tasks]
      BY <1>2, <2>2 DEF Instantiate, LedgerTypeOK, Blockers
    <3>4. /\ peers' \in [Tasks -> SUBSET Tasks] /\ enabled' \subseteq Tasks
          /\ disturbed' \subseteq {"tick", "backfill"}
      BY <1>2, <2>2 DEF Instantiate, LedgerTypeOK
    <3> QED  BY <3>2, <3>3, <3>4 DEF LedgerTypeOK
  <2>3. ASSUME NEW d \in Tasks, MarkDone(d) PROVE LedgerTypeOK'
    BY <1>2, <2>3 DEF MarkDone, Unblocked, LedgerTypeOK, Terminal
  <2>4. ASSUME NEW d \in Tasks, Judge(d) PROVE LedgerTypeOK'
    BY <1>2, <2>4 DEF Judge, LedgerTypeOK, Terminal, Incomplete
  <2>5. ASSUME NEW d \in Tasks, NEW done \in BOOLEAN, Tick(d, done) PROVE LedgerTypeOK'
    BY <1>2, <2>5 DEF Tick, Ticked, LedgerTypeOK, Terminal, Incomplete
  <2>6. CASE UNCHANGED ledgerVars
    BY <1>2, <2>6 DEF ledgerVars, LedgerTypeOK
  <2> QED  BY <1>2, <2>1, <2>2, <2>3, <2>4, <2>5, <2>6 DEF LedgerNext
<1> QED  BY <1>1, <1>2, PTL DEF LedgerSpec

-----------------------------------------------------------------------------
\* Until a box is ticked or a row backfilled, every step leaves only pending rows blocking.
LEMMA BlockingKept ==
    ASSUME LedgerTypeOK, Blocking, [LedgerNext]_ledgerVars
    PROVE  Blocking'
<1> SUFFICES ASSUME disturbed' = {}, NEW t \in Tasks, NEW d \in blockedBy'[t]
             PROVE  d \in DependsOn[t] /\ status'[d] = "pending"
  BY DEF Blocking
<1> USE LedgerAssumption
<1> DEFINE Before == /\ d \in DependsOn[t] /\ d \in Tasks
                     /\ status[d] = "pending"
<1>1. (disturbed = {} /\ d \in blockedBy[t]) => Before
  BY DEF Blocking, LedgerTypeOK
<1>2. CASE Configure
  BY <1>1, <1>2 DEF Configure
<1>3. CASE Instantiate
  <2>1. Present = {} /\ disturbed = {}
    BY <1>3 DEF Instantiate
  <2>2. CASE t \in enabled
    <3>1. d \in DependsOn[t] \cap enabled
      BY <1>3, <2>1, <2>2 DEF Instantiate, Blockers
    <3>2. d \in Tasks
      BY <3>1
    <3> QED  BY <1>3, <2>1, <3>1, <3>2 DEF Instantiate
  <2>3. CASE t \notin enabled
    <3>1. d \in blockedBy[t]
      BY <1>3, <2>3 DEF Instantiate
    <3>2. d \in Present
      BY <1>1, <2>1, <3>1 DEF Present
    <3> QED  BY <2>1, <3>2
  <2> QED  BY <2>2, <2>3
<1>4. ASSUME NEW k \in Tasks, MarkDone(k) PROVE d \in DependsOn[t] /\ status'[d] = "pending"
  <2>1. disturbed = {} /\ d \in blockedBy[t] /\ d # k
    BY <1>4 DEF MarkDone, Unblocked
  <2> QED  BY <1>1, <1>4, <2>1 DEF MarkDone, LedgerTypeOK
<1>5. ASSUME NEW k \in Tasks, Judge(k) PROVE d \in DependsOn[t] /\ status'[d] = "pending"
  <2>1. disturbed = {} /\ d \in blockedBy[t]
    BY <1>5 DEF Judge
  <2>2. Before /\ d # k
    BY <1>1, <1>5, <2>1 DEF Judge
  <2> QED  BY <1>5, <2>2 DEF Judge, LedgerTypeOK
<1>6. ASSUME NEW k \in Tasks, NEW done \in BOOLEAN, Tick(k, done) PROVE FALSE
  BY <1>6 DEF Tick
<1>7. CASE UNCHANGED ledgerVars
  BY <1>1, <1>7 DEF ledgerVars
<1> QED  BY <1>2, <1>3, <1>4, <1>5, <1>6, <1>7 DEF LedgerNext

\* Of the open rows one depends on no other open one, so nothing blocks it.
LEMMA LeastOpenWaits ==
    ASSUME LedgerTypeOK, Blocking
    PROVE  SomebodyIsWaitedOn
<1> SUFFICES ASSUME disturbed = {}, NEW u \in Tasks, IsOpen(u) PROVE Waiting # {}
  BY DEF SomebodyIsWaitedOn
<1> DEFINE Open == {t \in Tasks : IsOpen(t)}
<1>1. PICK t \in Open : DependsOn[t] \cap Open = {}
  BY LedgerAssumption
<1>2. blockedBy[t] = {}
  <2> SUFFICES ASSUME NEW d \in blockedBy[t] PROVE FALSE
    OBVIOUS
  <2>1. d \in Tasks /\ d \in DependsOn[t] /\ status[d] = "pending"
    BY <1>1 DEF Blocking, LedgerTypeOK
  <2>2. d \in Open
    BY <2>1 DEF IsOpen, Incomplete
  <2> QED  BY <1>1, <2>1, <2>2
<1> QED  BY <1>1, <1>2 DEF Waiting

\* As long as agents do the work, a job is always waiting on an open task of its ledger,
\* for every registry without cycles: the board never shows nothing to do while work is
\* open.
THEOREM AgentsNeverStall == LedgerSpec => []SomebodyIsWaitedOn
<1>1. LedgerInit => Blocking
  BY DEF LedgerInit, Blocking
<1>2. LedgerTypeOK /\ Blocking /\ [LedgerNext]_ledgerVars => Blocking'
  BY BlockingKept
<1>3. LedgerTypeOK /\ Blocking => SomebodyIsWaitedOn
  BY LeastOpenWaits
<1> QED  BY <1>1, <1>2, <1>3, LedgerTypes, PTL DEF LedgerSpec

-----------------------------------------------------------------------------
\* No row ever waits on a task the job has no row of, with backfills, configuration and
\* hand-ticked tasks alike: a blocker can always be done.
THEOREM BlockersAlwaysExist == LedgerSpec => []BlockersExist
<1>1. LedgerInit => BlockersExist
  BY DEF LedgerInit, BlockersExist
<1>2. ASSUME LedgerTypeOK, BlockersExist, [LedgerNext]_ledgerVars
      PROVE  BlockersExist'
  <2>1. CASE Configure
    BY <1>2, <2>1 DEF Configure, BlockersExist, Present
  <2>2. CASE Instantiate
    <3>1. enabled \cup Present \subseteq Present'
      BY <1>2, <2>2 DEF Instantiate, Present, LedgerTypeOK
    <3>2. \A t \in Tasks : blockedBy'[t] \subseteq enabled \cup Present
      BY <1>2, <2>2 DEF Instantiate, Blockers, BlockersExist
    <3> QED  BY <3>1, <3>2 DEF BlockersExist
  <2>3. ASSUME NEW d \in Tasks, MarkDone(d) PROVE BlockersExist'
    <3>1. Present \subseteq Present'
      BY <1>2, <2>3 DEF MarkDone, Present, LedgerTypeOK
    <3>2. \A t \in Tasks : blockedBy'[t] \subseteq blockedBy[t]
      BY <2>3 DEF MarkDone, Unblocked
    <3> QED  BY <1>2, <3>1, <3>2 DEF BlockersExist
  <2>4. ASSUME NEW d \in Tasks, Judge(d) PROVE BlockersExist'
    <3>1. Present \subseteq Present'
      BY <1>2, <2>4 DEF Judge, Present, LedgerTypeOK
    <3> QED  BY <1>2, <2>4, <3>1 DEF BlockersExist, Judge
  <2>5. ASSUME NEW d \in Tasks, NEW done \in BOOLEAN, Tick(d, done) PROVE BlockersExist'
    <3>1. Present \subseteq Present'
      BY <1>2, <2>5 DEF Tick, Ticked, Present, LedgerTypeOK
    <3> QED  BY <1>2, <2>5, <3>1 DEF BlockersExist, Tick
  <2>6. CASE UNCHANGED ledgerVars
    BY <1>2, <2>6 DEF ledgerVars, BlockersExist, Present
  <2> QED  BY <1>2, <2>1, <2>2, <2>3, <2>4, <2>5, <2>6 DEF LedgerNext
<1> QED  BY <1>1, <1>2, LedgerTypes, PTL DEF LedgerSpec
-----------------------------------------------------------------------------
\* The rows laid out by one call are all there once one of them is.
PeersPresent == \A t \in Present : peers[t] \subseteq Present

LEMMA PresentGrows ==
    ASSUME LedgerTypeOK, [LedgerNext]_ledgerVars
    PROVE  Present \subseteq Present'
<1>1. CASE Configure
  BY <1>1 DEF Configure, Present
<1>2. CASE Instantiate
  BY <1>2 DEF Instantiate, Present, LedgerTypeOK
<1>3. ASSUME NEW d \in Tasks, MarkDone(d) PROVE Present \subseteq Present'
  BY <1>3 DEF MarkDone, Present, LedgerTypeOK
<1>4. ASSUME NEW d \in Tasks, Judge(d) PROVE Present \subseteq Present'
  BY <1>4 DEF Judge, Present, LedgerTypeOK
<1>5. ASSUME NEW d \in Tasks, NEW done \in BOOLEAN, Tick(d, done) PROVE Present \subseteq Present'
  BY <1>5 DEF Tick, Ticked, Present, LedgerTypeOK
<1>6. CASE UNCHANGED ledgerVars
  BY <1>6 DEF ledgerVars, Present
<1> QED  BY <1>1, <1>2, <1>3, <1>4, <1>5, <1>6 DEF LedgerNext

LEMMA PeersKept ==
    ASSUME LedgerTypeOK, PeersPresent, [LedgerNext]_ledgerVars
    PROVE  PeersPresent'
<1>1. CASE Instantiate
  <2>1. enabled \subseteq Present'
    BY <1>1 DEF Instantiate, Present, LedgerTypeOK
  <2>2. ASSUME NEW t \in Present' PROVE peers'[t] \subseteq Present'
    <3>1. CASE t \in enabled \ Present
      BY <1>1, <2>1, <3>1 DEF Instantiate, LedgerTypeOK
    <3>2. CASE t \notin enabled \ Present
      <4>1. t \in Present /\ peers'[t] = peers[t]
        BY <1>1, <2>2, <3>2 DEF Instantiate, Present
      <4> QED  BY <4>1, PresentGrows DEF PeersPresent
    <3> QED  BY <3>1, <3>2
  <2> QED  BY <2>2 DEF PeersPresent
<1>2. CASE ~Instantiate
  <2>1. peers' = peers /\ Present' = Present
    <3>1. CASE Configure
      BY <3>1 DEF Configure, Present
    <3>2. ASSUME NEW d \in Tasks, MarkDone(d) PROVE peers' = peers /\ Present' = Present
      BY <3>2 DEF MarkDone, Present, LedgerTypeOK
    <3>3. ASSUME NEW d \in Tasks, Judge(d) PROVE peers' = peers /\ Present' = Present
      BY <3>3 DEF Judge, Present, LedgerTypeOK
    <3>4. ASSUME NEW d \in Tasks, NEW done \in BOOLEAN, Tick(d, done)
          PROVE  peers' = peers /\ Present' = Present
      BY <3>4 DEF Tick, Ticked, Present, LedgerTypeOK
    <3>5. CASE UNCHANGED ledgerVars
      BY <3>5 DEF ledgerVars, Present
    <3> QED  BY <1>2, <3>1, <3>2, <3>3, <3>4, <3>5 DEF LedgerNext
  <2> QED  BY <2>1 DEF PeersPresent
<1> QED  BY <1>1, <1>2

LEMMA ReleaseKept ==
    ASSUME LedgerTypeOK, PeersPresent, ReleasedByItsOwn, [LedgerNext]_ledgerVars
    PROVE  ReleasedByItsOwn'
<1> SUFFICES ASSUME "tick" \notin disturbed', NEW t \in Present',
                    NEW d \in DependsOn[t] \cap peers'[t], status'[d] = "pending"
             PROVE  d \in blockedBy'[t]
  BY DEF ReleasedByItsOwn
<1>1. t \in Tasks /\ d \in Tasks
  BY LedgerAssumption DEF Present
\* A row there was before, with a dependency that was pending before.
<1>2. ASSUME "tick" \notin disturbed, t \in Present, peers'[t] = peers[t], status[d] = "pending"
      PROVE  d \in blockedBy[t]
  BY <1>2 DEF ReleasedByItsOwn
<1>3. CASE Configure
  BY <1>2, <1>3 DEF Configure, Present
<1>4. CASE Instantiate
  <2>1. "tick" \notin disturbed
    BY <1>4 DEF Instantiate
  <2>2. CASE t \in enabled \ Present
    BY <1>1, <1>4, <2>2 DEF Instantiate, Blockers
  <2>3. CASE t \notin enabled \ Present
    <3>1. t \in Present /\ peers'[t] = peers[t] /\ blockedBy'[t] = blockedBy[t]
      BY <1>1, <1>4, <2>3 DEF Instantiate, Present
    <3>2. d \in Present
      BY <3>1 DEF PeersPresent
    <3>3. status[d] = "pending"
      BY <1>1, <1>4, <3>2 DEF Instantiate
    <3> QED  BY <1>2, <2>1, <3>1, <3>3
  <2> QED  BY <2>2, <2>3
<1>5. ASSUME NEW k \in Tasks, MarkDone(k) PROVE d \in blockedBy'[t]
  <2>1. status[d] = "pending" /\ d # k
    BY <1>1, <1>5 DEF MarkDone, LedgerTypeOK
  <2>2. t \in Present /\ peers' = peers /\ disturbed' = disturbed
    BY <1>1, <1>5 DEF MarkDone, Present, LedgerTypeOK
  <2>3. d \in blockedBy[t]
    BY <1>2, <2>1, <2>2
  <2> QED  BY <1>1, <1>5, <2>1, <2>3 DEF MarkDone, Unblocked
<1>6. ASSUME NEW k \in Tasks, Judge(k) PROVE d \in blockedBy'[t]
  <2>1. status[d] = "pending"
    BY <1>1, <1>6 DEF Judge, LedgerTypeOK
  <2>2. t \in Present /\ peers' = peers /\ disturbed' = disturbed /\ blockedBy' = blockedBy
    BY <1>1, <1>6 DEF Judge, Present, LedgerTypeOK
  <2> QED  BY <1>2, <2>1, <2>2
<1>7. ASSUME NEW k \in Tasks, NEW done \in BOOLEAN, Tick(k, done) PROVE FALSE
  BY <1>7 DEF Tick
<1>8. CASE UNCHANGED ledgerVars
  BY <1>2, <1>8 DEF ledgerVars, Present
<1> QED  BY <1>3, <1>4, <1>5, <1>6, <1>7, <1>8 DEF LedgerNext

\* For every registry and configuration a row is released by its dependencies only: one
\* laid out with it and still pending blocks it until a box is ticked by hand
\* (db/src/lifecycle/job-tasks.ts:102 removes the done task alone).
THEOREM RowsReleased == LedgerSpec => []ReleasedByItsOwn
<1>1. LedgerInit => PeersPresent /\ ReleasedByItsOwn
  BY DEF LedgerInit, PeersPresent, ReleasedByItsOwn, Present
<1>2. LedgerTypeOK /\ PeersPresent /\ ReleasedByItsOwn /\ [LedgerNext]_ledgerVars
        => PeersPresent' /\ ReleasedByItsOwn'
  BY PeersKept, ReleaseKept
<1> QED  BY <1>1, <1>2, LedgerTypes, PTL DEF LedgerSpec

-----------------------------------------------------------------------------
\* Together, for every registry without cycles: open tasks are waited on, rows are released
\* by their own dependencies, and nothing waits on a task the job has no row of.
THEOREM TasksAgree == LedgerSpec => []TasksInv
<1>1. LedgerTypeOK /\ SomebodyIsWaitedOn /\ ReleasedByItsOwn /\ BlockersExist => TasksInv
  BY DEF TasksInv
<1> QED  BY <1>1, LedgerTypes, AgentsNeverStall, RowsReleased, BlockersAlwaysExist, PTL

-----------------------------------------------------------------------------
(* The acceptance of an estimate, for any number of pages, sends, webhook   *)
(* deliveries, runs and manual conversions.                                 *)

SomeSignature == \E u \in Submissions : submission[u] = "signed"
SomePayment   == \E c \in Sessions : checkout[c] = "paid"

\* What a delivery goes by: the signature or payment it reports, and its own stamp.
HooksAreBacked ==
    \A h \in Hooks :
      /\ hook[h] \in {"stampSigned", "gateSigned"} => SomeSignature
      /\ hook[h] \in {"readPaid", "stampPaid", "gatePaid"} => SomePayment
      /\ hook[h] = "gateSigned" => estimate.signed
      /\ hook[h] = "gatePaid" => estimate.paid

\* An estimate that can be signed through the page asks for the deposit that is due.
DepositAsked ==
    /\ estimate.deposit => CollectsDeposit
    /\ FromThePage /\ (\/ estimate.submission # None \/ estimate.signed
                       \/ \E h \in Hooks : hook[h] = "stampSigned")
         => estimate.deposit = CollectsDeposit

\* While a complete gate has not been announced some delivery still looks at it, or one
\* failed or lost its event.
GateIsWatched ==
    Ready /\ accepted = {} => \E h \in Hooks : hook[h] \in {"gateSigned", "gatePaid", "lost", "failed"}

GateInductive ==
    /\ GateTypeOK /\ StampsAreBacked /\ HooksAreBacked
    /\ DepositAsked /\ GateRespected /\ GateIsWatched

LEMMA GateInitHolds == GateInit => GateInductive
<1> SUFFICES ASSUME GateInit PROVE GateInductive
  OBVIOUS
<1>1. GateTypeOK
  BY DEF GateInit, GateTypeOK, EstimateRow, BeginRow, SendRow, HookPc
<1>2. QED
  BY <1>1 DEF GateInit, GateInductive, StampsAreBacked, HooksAreBacked, DepositAsked, GateRespected,
              GateIsWatched, Ready

(* Storing what the page minted keeps its row one.                           *)
LEMMA BeginRowWrite ==
  ASSUME NEW f \in [Begins -> BeginRow], NEW b \in Begins, NEW u \in Submissions
  PROVE  [f EXCEPT ![b].pc = "deposit", ![b].submission = u, ![b].url = u] \in [Begins -> BeginRow]
<1> DEFINE after == [f[b] EXCEPT !.pc = "deposit", !.submission = u, !.url = u]
<1>1. after \in BeginRow
  BY DEF BeginRow
<1>2. [f EXCEPT ![b].pc = "deposit", ![b].submission = u, ![b].url = u] = [f EXCEPT ![b] = after]
  OBVIOUS
<1> HIDE DEF after
<1>3. QED BY <1>1, <1>2

(* A step of the page, the rep, the homeowner or a webhook keeps the rows    *)
(* well formed.                                                              *)
LEMMA GateTypeStep == ASSUME GateTypeOK, GateNext PROVE GateTypeOK'
<1> USE DEF GateTypeOK, mintVars, outsideVars
<1>1. CASE Expire
  BY <1>1 DEF Expire
<1>2. ASSUME NEW b \in Begins, BeginRead(b) PROVE GateTypeOK'
  BY <1>2 DEF BeginRead, BeginRow, EstimateRow
<1>3. ASSUME NEW b \in Begins, MintSubmission(b) PROVE GateTypeOK'
  <2>1. PICK u \in Submissions :
          /\ submission' = [submission EXCEPT ![u] = "minted"]
          /\ begin' = [begin EXCEPT ![b].pc = "deposit", ![b].submission = u, ![b].url = u]
    BY <1>3 DEF MintSubmission
  <2>2. begin' \in [Begins -> BeginRow] /\ submission' \in [Submissions -> {"unused", "minted", "signed"}]
    BY <2>1, BeginRowWrite
  <2>3. QED BY <1>3, <2>2 DEF MintSubmission
<1>4. ASSUME NEW b \in Begins, MintSession(b) PROVE GateTypeOK'
  <2>1. PICK c \in Sessions :
          /\ checkout' = [checkout EXCEPT ![c] = "minted"]
          /\ begin' = [begin EXCEPT ![b].pc = "store", ![b].session = c]
    BY <1>4 DEF MintSession
  <2>2. [begin[b] EXCEPT !.pc = "store", !.session = c] \in BeginRow
    BY DEF BeginRow
  <2>3. begin' \in [Begins -> BeginRow]
    BY <2>1, <2>2
  <2>4. checkout' \in [Sessions -> {"unused", "minted", "paid"}]
    BY <2>1
  <2>5. QED BY <1>4, <2>3, <2>4 DEF MintSession
<1>5. ASSUME NEW b \in Begins, NoSession(b) PROVE GateTypeOK'
  BY <1>5 DEF NoSession, BeginRow
<1>6. ASSUME NEW b \in Begins, StoreArtifacts(b) PROVE GateTypeOK'
  <2>1. begin' \in [Begins -> BeginRow]
    <3>1. begin' = [begin EXCEPT ![b].pc = "done"]
      BY <1>6 DEF StoreArtifacts
    <3>2. QED BY <3>1 DEF BeginRow
  <2>2. estimate' \in EstimateRow
    <3> DEFINE after == [estimate EXCEPT !.submission = begin[b].submission, !.url = begin[b].url,
                                         !.session = begin[b].session, !.deposit = CollectsDeposit]
    <3>1. /\ begin[b].submission \in Submissions \cup {None}
          /\ begin[b].url \in Submissions \cup {None}
          /\ begin[b].session \in Sessions \cup {None} /\ CollectsDeposit \in BOOLEAN
      BY CollectsDepositAssumption DEF BeginRow
    <3>2. after \in EstimateRow
      BY <3>1 DEF EstimateRow
    <3>3. QED BY <1>6, <3>2 DEF StoreArtifacts, DepositDue
  <2>3. QED BY <1>6, <2>1, <2>2 DEF StoreArtifacts
<1>7. ASSUME NEW b \in Begins, BeginFails(b) PROVE GateTypeOK'
  BY <1>7 DEF BeginFails, BeginRow
<1>8. ASSUME NEW s \in Sends, SendRead(s) PROVE GateTypeOK'
  BY <1>8 DEF SendRead, SendRow
<1>9. ASSUME NEW s \in Sends, SendMint(s) PROVE GateTypeOK'
  BY <1>9 DEF SendMint, SendRow
<1>10. ASSUME NEW s \in Sends, SendStore(s) PROVE GateTypeOK'
  BY <1>10 DEF SendStore, SendRow, EstimateRow
<1>11. ASSUME NEW s \in Sends, SendFails(s) PROVE GateTypeOK'
  BY <1>11 DEF SendFails, SendRow
<1>12. ASSUME NEW u \in Submissions, Sign(u) PROVE GateTypeOK'
  BY <1>12 DEF Sign
<1>13. ASSUME NEW c \in Sessions, PayDeposit(c) PROVE GateTypeOK'
  BY <1>13 DEF PayDeposit
<1>14. ASSUME NEW h \in Hooks,
              \/ \E u \in Submissions : DeliverSigned(h, u)
              \/ \E c \in Sessions : DeliverPaid(h, c)
              \/ ReadPaid(h) \/ HookFails(h)
       PROVE GateTypeOK'
  BY <1>14 DEF DeliverSigned, DeliverPaid, ReadPaid, HookFails, HookPc
<1>15. ASSUME NEW h \in Hooks, StampSigned(h) \/ StampPaid(h) PROVE GateTypeOK'
  BY <1>15 DEF StampSigned, StampPaid, HookPc, EstimateRow
<1>16. ASSUME NEW h \in Hooks, GateSigned(h) \/ GatePaid(h) PROVE GateTypeOK'
  BY <1>16 DEF GateSigned, GatePaid, Announce, HookPc
<1>17. QED
  BY <1>1, <1>2, <1>3, <1>4, <1>5, <1>6, <1>7, <1>8, <1>9, <1>10, <1>11, <1>12, <1>13, <1>14, <1>15,
     <1>16 DEF GateNext, BeginStep, SendStep, HookStep

(* What is signed, paid, sent or accepted stays so.                          *)
LEMMA StampsStay ==
  ASSUME GateTypeOK, GateNext
  PROVE  /\ SomeSignature => SomeSignature'
         /\ SomePayment => SomePayment'
         /\ estimate.signed => estimate'.signed
         /\ estimate.paid => estimate'.paid
         /\ accepted \subseteq accepted'
         /\ FromThePage' => FromThePage
<1> USE DEF GateTypeOK, mintVars, outsideVars
<1>1. SomeSignature => SomeSignature'
  <2>1. \A u \in Submissions : submission[u] = "signed" => submission'[u] = "signed"
    BY DEF GateNext, Expire, BeginStep, BeginRead, MintSubmission, MintSession, NoSession, StoreArtifacts,
           BeginFails, SendStep, SendRead, SendMint, SendStore, SendFails, Sign, PayDeposit, DeliverSigned,
           DeliverPaid, HookStep, StampSigned, GateSigned, ReadPaid, StampPaid, GatePaid, HookFails
  <2>2. QED BY <2>1 DEF SomeSignature
<1>2. SomePayment => SomePayment'
  <2>1. \A c \in Sessions : checkout[c] = "paid" => checkout'[c] = "paid"
    BY DEF GateNext, Expire, BeginStep, BeginRead, MintSubmission, MintSession, NoSession, StoreArtifacts,
           BeginFails, SendStep, SendRead, SendMint, SendStore, SendFails, Sign, PayDeposit, DeliverSigned,
           DeliverPaid, HookStep, StampSigned, GateSigned, ReadPaid, StampPaid, GatePaid, HookFails
  <2>2. QED BY <2>1 DEF SomePayment
<1>3. (estimate.signed => estimate'.signed) /\ (estimate.paid => estimate'.paid)
  BY DEF EstimateRow, GateNext, Expire, BeginStep, BeginRead, MintSubmission, MintSession, NoSession,
         StoreArtifacts, BeginFails, SendStep, SendRead, SendMint, SendStore, SendFails, Sign, PayDeposit,
         DeliverSigned, DeliverPaid, HookStep, StampSigned, GateSigned, ReadPaid, StampPaid, GatePaid,
         HookFails
<1>4. accepted \subseteq accepted'
  BY DEF GateNext, Expire, BeginStep, BeginRead, MintSubmission, MintSession, NoSession, StoreArtifacts,
         BeginFails, SendStep, SendRead, SendMint, SendStore, SendFails, Sign, PayDeposit, DeliverSigned,
         DeliverPaid, HookStep, StampSigned, GateSigned, ReadPaid, StampPaid, GatePaid, HookFails, Announce
<1>5. FromThePage' => FromThePage
  <2>1. \A s \in Sends : send[s].pc = "done" => send'[s].pc = "done"
    BY DEF SendRow, GateNext, Expire, BeginStep, BeginRead, MintSubmission, MintSession, NoSession,
           StoreArtifacts, BeginFails, SendStep, SendRead, SendMint, SendStore, SendFails, Sign, PayDeposit,
           DeliverSigned, DeliverPaid, HookStep, StampSigned, GateSigned, ReadPaid, StampPaid, GatePaid,
           HookFails
  <2>2. QED BY <2>1 DEF FromThePage
<1>6. QED BY <1>1, <1>2, <1>3, <1>4, <1>5

(* A step leaves the gate's rows alone, stores a page's or the rep's         *)
(* artifacts, or is a webhook's: what each does to them.                     *)
LEMMA GateMoves ==
  ASSUME GateNext
  PROVE  \/ UNCHANGED <<estimate, hook, accepted>>
         \/ \E b \in Begins : StoreArtifacts(b)
         \/ \E s \in Sends : SendStore(s)
         \/ \E h \in Hooks, u \in Submissions : DeliverSigned(h, u)
         \/ \E h \in Hooks, c \in Sessions : DeliverPaid(h, c)
         \/ \E h \in Hooks : ReadPaid(h) \/ HookFails(h)
         \/ \E h \in Hooks : StampSigned(h) \/ StampPaid(h)
         \/ \E h \in Hooks : GateSigned(h) \/ GatePaid(h)
BY DEF GateNext, Expire, BeginStep, BeginRead, MintSubmission, MintSession, NoSession, BeginFails, SendStep,
       SendRead, SendMint, SendFails, Sign, PayDeposit, HookStep

LEMMA BackedStep ==
  ASSUME GateTypeOK, StampsAreBacked, HooksAreBacked, GateNext
  PROVE  StampsAreBacked' /\ HooksAreBacked'
<1> USE DEF GateTypeOK, mintVars, outsideVars, EstimateRow
<1>1. /\ SomeSignature => SomeSignature' 
      /\ SomePayment => SomePayment'
      /\ estimate.signed => estimate'.signed
      /\ estimate.paid => estimate'.paid
  BY StampsStay
<1>2. HooksAreBacked'
  <2> SUFFICES ASSUME NEW g \in Hooks
               PROVE  /\ hook'[g] \in {"stampSigned", "gateSigned"} => SomeSignature'
                      /\ hook'[g] \in {"readPaid", "stampPaid", "gatePaid"} => SomePayment'
                      /\ hook'[g] = "gateSigned" => estimate'.signed
                      /\ hook'[g] = "gatePaid" => estimate'.paid
    BY DEF HooksAreBacked
  <2>0. /\ hook[g] \in {"stampSigned", "gateSigned"} => SomeSignature
        /\ hook[g] \in {"readPaid", "stampPaid", "gatePaid"} => SomePayment
        /\ hook[g] = "gateSigned" => estimate.signed
        /\ hook[g] = "gatePaid" => estimate.paid
    BY DEF HooksAreBacked
  <2>1. CASE hook'[g] = hook[g]
    BY <1>1, <2>0, <2>1
  <2>2. ASSUME NEW h \in Hooks, NEW u \in Submissions, DeliverSigned(h, u), g = h
        PROVE  hook'[g] \in {"stampSigned", "done"} /\ SomeSignature
    BY <2>2 DEF DeliverSigned, SomeSignature
  <2>3. ASSUME NEW h \in Hooks, NEW c \in Sessions, DeliverPaid(h, c), g = h
        PROVE  hook'[g] = "readPaid" /\ SomePayment
    BY <2>3 DEF DeliverPaid, Settled, SomePayment
  <2>4. ASSUME NEW h \in Hooks, ReadPaid(h) \/ HookFails(h), g = h
        PROVE  hook'[g] \in {"done", "failed"} \/ (hook'[g] = "stampPaid" /\ hook[g] = "readPaid")
    BY <2>4 DEF ReadPaid, HookFails
  <2>5. ASSUME NEW h \in Hooks, StampSigned(h) \/ StampPaid(h), g = h
        PROVE  \/ hook[g] = "stampSigned" /\ hook'[g] = "gateSigned" /\ estimate'.signed
               \/ hook[g] = "stampPaid" /\ hook'[g] = "gatePaid" /\ estimate'.paid
    BY <2>5 DEF StampSigned, StampPaid
  <2>6. ASSUME NEW h \in Hooks, GateSigned(h) \/ GatePaid(h), g = h
        PROVE  hook'[g] \in {"done", "lost"}
    BY <2>6 DEF GateSigned, GatePaid, Announce
  <2>7. CASE hook'[g] # hook[g]
    <3>1. PICK h \in Hooks :
            \/ \E u \in Submissions : DeliverSigned(h, u)
            \/ \E c \in Sessions : DeliverPaid(h, c)
            \/ ReadPaid(h) \/ HookFails(h)
            \/ StampSigned(h) \/ StampPaid(h)
            \/ GateSigned(h) \/ GatePaid(h)
      BY <2>7, GateMoves DEF StoreArtifacts, SendStore
    <3>2. h = g
      BY <2>7, <3>1 DEF DeliverSigned, DeliverPaid, ReadPaid, HookFails, StampSigned, StampPaid,
                        GateSigned, GatePaid, Announce
    <3>3. QED BY <1>1, <2>0, <2>2, <2>3, <2>4, <2>5, <2>6, <3>1, <3>2
  <2>8. QED BY <2>1, <2>7
<1>3. StampsAreBacked'
  <2>1. StampsAreBacked <=> (estimate.signed => SomeSignature) /\ (estimate.paid => SomePayment)
    BY DEF StampsAreBacked, SomeSignature, SomePayment
  <2>2. StampsAreBacked' <=> (estimate'.signed => SomeSignature') /\ (estimate'.paid => SomePayment')
    BY DEF StampsAreBacked, SomeSignature, SomePayment
  <2>3. \/ estimate'.signed = estimate.signed /\ estimate'.paid = estimate.paid
        \/ \E h \in Hooks : StampSigned(h) \/ StampPaid(h)
    BY GateMoves DEF StoreArtifacts, SendStore, DeliverSigned, DeliverPaid, ReadPaid, HookFails,
                     GateSigned, GatePaid
  <2>4. ASSUME NEW h \in Hooks, StampSigned(h) \/ StampPaid(h)
        PROVE  \/ SomeSignature /\ estimate'.paid = estimate.paid
               \/ SomePayment /\ estimate'.signed = estimate.signed
    BY <2>4 DEF StampSigned, StampPaid, HooksAreBacked
  <2>5. QED BY <1>1, <2>1, <2>2, <2>3, <2>4
<1>4. QED BY <1>2, <1>3

LEMMA DepositStep ==
  ASSUME GateTypeOK, DepositAsked, GateNext
  PROVE  DepositAsked'
<1> USE DEF GateTypeOK, mintVars, outsideVars, EstimateRow
<1> DEFINE Asks == estimate.deposit = CollectsDeposit
           Signable == \/ estimate.submission # None \/ estimate.signed
                       \/ \E h \in Hooks : hook[h] = "stampSigned"
<1>1. (estimate.deposit => CollectsDeposit) /\ (FromThePage /\ Signable => Asks)
  BY DEF DepositAsked
<1>2. FromThePage' => FromThePage
  BY StampsStay
<1>3. SUFFICES (estimate'.deposit => CollectsDeposit) /\ (FromThePage' /\ Signable' => Asks')
  BY DEF DepositAsked
<1>4. CASE UNCHANGED <<estimate, hook, accepted>>
  BY <1>1, <1>2, <1>4
<1>5. ASSUME NEW b \in Begins, StoreArtifacts(b)
      PROVE  (estimate'.deposit => CollectsDeposit) /\ Asks'
  BY <1>5 DEF StoreArtifacts, DepositDue
<1>6. ASSUME NEW s \in Sends, SendStore(s) PROVE estimate'.deposit = estimate.deposit /\ ~FromThePage'
  BY <1>6 DEF SendStore, FromThePage, SendRow
<1>7. ASSUME NEW h \in Hooks, NEW u \in Submissions, DeliverSigned(h, u)
      PROVE  estimate' = estimate /\ (Signable' => Signable)
  <2>1. u # None
    BY NoneAssumption
  <2>2. QED BY <1>7, <2>1 DEF DeliverSigned
<1>8. ASSUME NEW h \in Hooks, NEW c \in Sessions, DeliverPaid(h, c)
      PROVE  estimate' = estimate /\ (Signable' => Signable)
  BY <1>8 DEF DeliverPaid
<1>9. ASSUME NEW h \in Hooks, ReadPaid(h) \/ HookFails(h)
      PROVE  estimate' = estimate /\ (Signable' => Signable)
  BY <1>9 DEF ReadPaid, HookFails
<1>10. ASSUME NEW h \in Hooks, StampSigned(h) \/ StampPaid(h)
       PROVE  estimate'.deposit = estimate.deposit /\ (Signable' => Signable)
  BY <1>10 DEF StampSigned, StampPaid
<1>11. ASSUME NEW h \in Hooks, GateSigned(h) \/ GatePaid(h)
       PROVE  estimate' = estimate /\ (Signable' => Signable)
  BY <1>11 DEF GateSigned, GatePaid, Announce
<1> HIDE DEF Asks, Signable
<1>12. Asks' <=> estimate'.deposit = CollectsDeposit
  BY DEF Asks
<1>13. Asks <=> estimate.deposit = CollectsDeposit
  BY DEF Asks
<1>14. QED
  BY <1>1, <1>2, <1>4, <1>5, <1>6, <1>7, <1>8, <1>9, <1>10, <1>11, <1>12, <1>13, GateMoves

LEMMA RespectedStep ==
  ASSUME GateTypeOK, DepositAsked, GateRespected, GateNext
  PROVE  GateRespected'
<1>1. /\ estimate.signed => estimate'.signed
      /\ estimate.paid => estimate'.paid
      /\ FromThePage' => FromThePage
  BY StampsStay
<1>2. CASE accepted' = {} \/ accepted # {}
  BY <1>1, <1>2 DEF GateRespected
<1>3. CASE accepted' # {} /\ accepted = {}
  <2>1. PICK h \in Hooks : GateSigned(h) \/ GatePaid(h)
    BY <1>3, GateMoves DEF StoreArtifacts, SendStore, DeliverSigned, DeliverPaid, ReadPaid, HookFails,
                           StampSigned, StampPaid, mintVars, outsideVars
  <2>2. Ready /\ estimate' = estimate
    BY <1>3, <2>1 DEF GateSigned, GatePaid, Announce
  <2>3. FromThePage => estimate.deposit = CollectsDeposit
    BY <2>2 DEF Ready, DepositAsked
  <2>4. QED BY <1>1, <2>2, <2>3 DEF Ready, GateRespected
<1>4. QED BY <1>2, <1>3

LEMMA WatchedStep ==
  ASSUME GateTypeOK, DepositAsked, GateIsWatched, GateNext
  PROVE  GateIsWatched'
<1> USE DEF GateTypeOK, EstimateRow, mintVars, outsideVars
<1> DEFINE Watches(h) == hook[h] \in {"gateSigned", "gatePaid", "lost", "failed"}
<1>1. SUFFICES ASSUME Ready', accepted' = {} PROVE \E h \in Hooks : Watches(h)'
  BY DEF GateIsWatched
<1>2. accepted = {}
  BY <1>1, StampsStay
<1>3. ASSUME NEW h \in Hooks, StampSigned(h) \/ StampPaid(h) PROVE Watches(h)'
  BY <1>3 DEF StampSigned, StampPaid
<1>4. CASE ~ \E h \in Hooks : StampSigned(h) \/ StampPaid(h)
  <2>1. estimate'.signed = estimate.signed /\ estimate'.paid = estimate.paid
    BY <1>4, GateMoves DEF StoreArtifacts, SendStore, DeliverSigned, DeliverPaid, ReadPaid, HookFails,
                           GateSigned, GatePaid
  <2>2. estimate.deposit => estimate'.deposit
    BY <1>4, GateMoves, CollectsDepositAssumption
    DEF StoreArtifacts, SendStore, DeliverSigned, DeliverPaid, ReadPaid, HookFails, GateSigned, GatePaid,
        DepositDue, DepositAsked
  <2>3. Ready
    BY <1>1, <2>1, <2>2 DEF Ready
  <2>4. PICK h \in Hooks : Watches(h)
    BY <1>2, <2>3 DEF GateIsWatched
  <2>5. Watches(h)'
    <3>1. CASE hook'[h] = hook[h]
      BY <2>4, <3>1
    <3>2. CASE hook'[h] # hook[h]
      <4>1. GateSigned(h) \/ GatePaid(h) \/ HookFails(h)
        BY <1>4, <2>4, <3>2, GateMoves
        DEF StoreArtifacts, SendStore, DeliverSigned, DeliverPaid, ReadPaid, HookFails, GateSigned, GatePaid,
            Announce
      <4>2. QED BY <1>1, <2>3, <4>1 DEF GateSigned, GatePaid, HookFails, Announce
    <3>3. QED BY <3>1, <3>2
  <2>6. QED BY <2>5
<1>5. QED BY <1>3, <1>4

LEMMA GateStep == ASSUME GateInductive, GateNext PROVE GateInductive'
BY GateTypeStep, BackedStep, DepositStep, RespectedStep, WatchedStep DEF GateInductive

LEMMA GateFollows == GateInductive => GateInv
<1> SUFFICES ASSUME GateInductive PROVE GateInv
  OBVIOUS
<1>1. GateNotMissed
  BY DEF GateInductive, GateIsWatched, GateNotMissed, Ready
<1>2. QED BY <1>1 DEF GateInductive, GateInv

-----------------------------------------------------------------------------
(* From the announcement to the job.                                         *)

\* What a run goes by: an announcement, an attempt left, a lead with no open task, a job
\* that exists.
RunsAreBacked ==
    \A r \in Runs :
      /\ advance[r].pc # "idle" => accepted # {}
      /\ advance[r].pc # "failed" => advance[r].tries < MaxAttempts
      /\ job[r] # "absent" => accepted # {}
      /\ advance[r].pc = "insert" => ~openTask
      /\ advance[r].pc \in {"backfill", "stage", "write"} => advance[r].job \in Converted
      /\ advance[r].pc \in {"stage", "write", "customer"} => estimateJob # None

ConversionInductive ==
    /\ GateInductive /\ ConversionTypeOK
    /\ RunsAreBacked /\ WonMeansJob /\ PointersAreLive

LEMMA ConversionInitHolds == ConversionInit => ConversionInductive
<1> SUFFICES ASSUME ConversionInit PROVE ConversionInductive
  OBVIOUS
<1>1. GateInductive
  BY GateInitHolds DEF ConversionInit
<1>2. ConversionTypeOK
  <2>1. job \in [Jobs -> Stage]
    BY DEF ConversionInit, Stage
  <2>2. advance \in [Runs -> AdvanceRow]
    BY AttemptsAssumption DEF ConversionInit, AdvanceRow
  <2>3. manual \in [Manuals -> {"idle", "insert", "done"}]
    BY DEF ConversionInit
  <2>4. QED
    BY <1>1, <2>1, <2>2, <2>3 DEF ConversionInit, ConversionTypeOK, GateInductive
<1>3. Converted = {}
  BY DEF ConversionInit, Converted
<1>4. RunsAreBacked
  BY AttemptsAssumption DEF ConversionInit, RunsAreBacked, Jobs
<1>5. QED
  BY <1>1, <1>2, <1>3, <1>4 DEF ConversionInit, ConversionInductive, WonMeansJob, PointersAreLive

(* Marking the estimate accepted leaves the gate as it was.                  *)
LEMMA MarkKeepsGate ==
  ASSUME GateInductive, NEW r \in Runs, MarkAccepted(r)
  PROVE  GateInductive'
<1> USE DEF GateInductive, GateTypeOK, mintVars, outsideVars
<1>1. /\ estimate' = [estimate EXCEPT !.status = "accepted"]
      /\ UNCHANGED <<expired, begin, send, submission, checkout, hook, accepted>>
  BY DEF MarkAccepted
<1>2. /\ estimate' \in EstimateRow
      /\ estimate'.submission = estimate.submission
      /\ estimate'.signed = estimate.signed
      /\ estimate'.paid = estimate.paid
      /\ estimate'.deposit = estimate.deposit
  BY <1>1 DEF EstimateRow
<1>3. QED
  BY <1>1, <1>2 DEF StampsAreBacked, HooksAreBacked, SomeSignature, SomePayment, DepositAsked, FromThePage,
                    GateRespected, GateIsWatched, Ready

(* The office and the runs leave the gate alone, but for that mark.          *)
LEMMA ConversionKeepsGate ==
  ASSUME GateInductive, [ConversionNext]_allVars
  PROVE  GateInductive' /\ accepted \subseteq accepted'
<1>1. CASE GateNext
  BY <1>1, GateStep, StampsStay DEF GateInductive
<1>2. CASE UNCHANGED gateVars
  BY <1>2 DEF GateInductive, gateVars, mintVars, outsideVars, GateTypeOK, StampsAreBacked, HooksAreBacked,
              SomeSignature, SomePayment, DepositAsked, FromThePage, GateRespected, GateIsWatched, Ready
<1>3. ASSUME NEW r \in Runs, MarkAccepted(r) PROVE GateInductive' /\ accepted' = accepted
  BY <1>3, MarkKeepsGate DEF MarkAccepted
<1>4. QED
  BY <1>1, <1>2, <1>3
  DEF ConversionNext, allVars, Inspect, ResolveTask, StartProduction, ManualFind, ManualInsert, Start, RunStep,
      FindJob, Insert, Backfill, ReadStage, WriteStage, StopFollowups, ConversionFails

(* Writing where a run is, with its job, or counting an attempt keeps its    *)
(* row one.                                                                  *)
LEMMA AdvanceRowWrite ==
  ASSUME NEW f \in [Runs -> AdvanceRow], NEW r \in Runs, NEW j \in Jobs \cup {None},
         NEW pc \in {"accept", "find", "insert", "backfill", "stage", "write", "customer",
                     "done", "blocked", "failed"}
  PROVE  [f EXCEPT ![r].pc = pc, ![r].job = j] \in [Runs -> AdvanceRow]
<1> DEFINE after == [f[r] EXCEPT !.pc = pc, !.job = j]
<1>1. after \in AdvanceRow
  BY DEF AdvanceRow
<1>2. [f EXCEPT ![r].pc = pc, ![r].job = j] = [f EXCEPT ![r] = after]
  OBVIOUS
<1> HIDE DEF after
<1>3. QED BY <1>1, <1>2

LEMMA AdvanceRowFails ==
  ASSUME NEW f \in [Runs -> AdvanceRow], NEW r \in Runs, NEW pc \in {"accept", "failed"},
         NEW tries \in 0..MaxAttempts, NEW refused \in BOOLEAN
  PROVE  [f EXCEPT ![r].pc = pc, ![r].tries = tries, ![r].refused = refused] \in [Runs -> AdvanceRow]
<1> DEFINE after == [f[r] EXCEPT !.pc = pc, !.tries = tries, !.refused = refused]
<1>1. after \in AdvanceRow
  BY DEF AdvanceRow
<1>2. [f EXCEPT ![r].pc = pc, ![r].tries = tries, ![r].refused = refused] = [f EXCEPT ![r] = after]
  OBVIOUS
<1> HIDE DEF after
<1>3. QED BY <1>1, <1>2

(* A step of the office or of a run keeps the rows well formed.              *)
LEMMA ConversionTypeStep ==
  ASSUME ConversionInductive, [ConversionNext]_allVars
  PROVE  ConversionTypeOK'
<1> DEFINE Kept == /\ job' \in [Jobs -> Stage] /\ estimateJob' \in Jobs \cup {None}
                   /\ won' \in BOOLEAN /\ openTask' \in BOOLEAN /\ inspected' \in BOOLEAN
                   /\ advance' \in [Runs -> AdvanceRow]
                   /\ manual' \in [Manuals -> {"idle", "insert", "done"}]
                   /\ stopped' \subseteq Runs
<1>1. /\ job \in [Jobs -> Stage] /\ estimateJob \in Jobs \cup {None}
      /\ won \in BOOLEAN /\ openTask \in BOOLEAN /\ inspected \in BOOLEAN
      /\ advance \in [Runs -> AdvanceRow]
      /\ manual \in [Manuals -> {"idle", "insert", "done"}]
      /\ stopped \subseteq Runs
  BY DEF ConversionInductive, ConversionTypeOK
<1>2. SUFFICES Kept
  BY ConversionKeepsGate DEF ConversionInductive, GateInductive, ConversionTypeOK
<1>3. Derived \in Stage
  BY DEF Derived, Stage
<1> USE <1>1
<1>4. CASE UNCHANGED conversionVars
  BY <1>4 DEF conversionVars
<1>5. CASE Inspect \/ ResolveTask
  BY <1>5 DEF Inspect, ResolveTask
<1>6. ASSUME NEW j \in Jobs, StartProduction(j) PROVE Kept
  BY <1>6 DEF StartProduction, Stage
<1>7. ASSUME NEW m \in Manuals, ManualFind(m) PROVE Kept
  BY <1>7 DEF ManualFind
<1>8. ASSUME NEW m \in Manuals, ManualInsert(m) PROVE Kept
  BY <1>3, <1>8 DEF ManualInsert, InsertJob, Jobs
<1>9. ASSUME NEW r \in Runs, NEW h \in Hooks, Start(r, h) PROVE Kept
  <2>1. advance' \in [Runs -> AdvanceRow]
    BY <1>9 DEF Start, AdvanceRow
  <2>2. QED BY <1>9, <2>1 DEF Start
<1>10. ASSUME NEW r \in Runs, MarkAccepted(r) PROVE Kept
  <2>1. advance' \in [Runs -> AdvanceRow]
    <3> DEFINE pc == IF estimateJob # None THEN "stage" ELSE "find"
    <3>1. pc \in {"stage", "find"} /\ advance' = [advance EXCEPT ![r].pc = pc, ![r].job = estimateJob]
      BY <1>10 DEF MarkAccepted
    <3> HIDE DEF pc
    <3>2. QED BY <3>1, AdvanceRowWrite
  <2>2. QED BY <1>10, <2>1 DEF MarkAccepted
<1>11. ASSUME NEW r \in Runs, FindJob(r) PROVE Kept
  <2>1. advance' \in [Runs -> AdvanceRow]
    <3>1. CASE Converted # {}
      <4>1. PICK j \in Converted : advance' = [advance EXCEPT ![r].pc = "backfill", ![r].job = j]
        BY <1>11, <3>1 DEF FindJob
      <4>2. j \in Jobs
        BY DEF Converted
      <4>3. QED BY <4>1, <4>2, AdvanceRowWrite
    <3>2. CASE Converted = {}
      BY <1>11, <3>2 DEF FindJob, Goto, OnBlock, AdvanceRow
    <3>3. QED BY <3>1, <3>2
  <2>2. won' \in BOOLEAN
    BY <1>11 DEF FindJob
  <2>3. QED BY <1>11, <2>1, <2>2 DEF FindJob
<1>12. ASSUME NEW r \in Runs, Insert(r) PROVE Kept
  <2>1. advance' \in [Runs -> AdvanceRow]
    BY <1>12, AdvanceRowWrite DEF Insert, Jobs
  <2>2. job' \in [Jobs -> Stage] /\ estimateJob' \in Jobs \cup {None} /\ won' \in BOOLEAN
    BY <1>3, <1>12 DEF Insert, RunInserts, InsertJob, Jobs
  <2>3. QED BY <1>12, <2>1, <2>2 DEF Insert
<1>13. ASSUME NEW r \in Runs, Backfill(r) PROVE Kept
  BY <1>13 DEF Backfill, Goto, AdvanceRow
<1>14. ASSUME NEW r \in Runs, ReadStage(r) PROVE Kept
  BY <1>14 DEF ReadStage, Goto, AdvanceRow
<1>15. ASSUME NEW r \in Runs, WriteStage(r) PROVE Kept
  BY <1>15 DEF WriteStage, Goto, AdvanceRow, Stage
<1>16. ASSUME NEW r \in Runs, StopFollowups(r) PROVE Kept
  BY <1>16 DEF StopFollowups, Goto, AdvanceRow
<1>17. ASSUME NEW r \in Runs, ConversionFails(r) PROVE Kept
  <2> DEFINE pc == IF Tries(r) < MaxAttempts THEN "accept" ELSE "failed"
             refused == advance[r].refused \/ (advance[r].pc = "stage" /\ job[advance[r].job] = "production")
  <2>1. pc \in {"accept", "failed"} /\ refused \in BOOLEAN
    BY DEF AdvanceRow
  <2>2. Tries(r) \in 0..MaxAttempts
    <3>1. advance[r].pc # "failed"
      BY <1>17 DEF ConversionFails
    <3>2. advance[r].tries < MaxAttempts /\ advance[r].tries \in Nat
      BY <3>1 DEF ConversionInductive, RunsAreBacked, AdvanceRow
    <3>3. QED BY <3>2, AttemptsAssumption DEF Tries
  <2>3. advance' = [advance EXCEPT ![r].pc = pc, ![r].tries = Tries(r), ![r].refused = refused]
    BY <1>17 DEF ConversionFails
  <2> HIDE DEF pc, refused
  <2>4. advance' \in [Runs -> AdvanceRow]
    BY <2>1, <2>2, <2>3, AdvanceRowFails
  <2>5. QED BY <1>17, <2>4 DEF ConversionFails
<1>18. QED
  BY <1>4, <1>5, <1>6, <1>7, <1>8, <1>9, <1>10, <1>11, <1>12, <1>13, <1>14, <1>15, <1>16, <1>17
  DEF ConversionNext, RunStep, allVars

(* What exists now exists afterwards, and the insert comes with the rest of  *)
(* its transaction.                                                          *)
LEMMA InsertConverts ==
  ASSUME ConversionTypeOK, NEW j \in Jobs, InsertJob(j)
  PROVE  /\ j \in Converted' /\ Converted' = Converted \cup {j}
         /\ won' = TRUE /\ estimateJob' \in {estimateJob, j}
<1>1. Derived # "absent"
  BY DEF Derived
<1>2. QED BY <1>1 DEF InsertJob, Converted, ConversionTypeOK

(* A step other than an insert adds no job.                                  *)
LEMMA JobsKept ==
  ASSUME ConversionTypeOK, RunsAreBacked, [ConversionNext]_allVars,
         \A m \in Manuals : ~ManualInsert(m), \A r \in Runs : ~Insert(r)
  PROVE  Converted' = Converted
<1> USE DEF ConversionTypeOK, Converted
<1>1. CASE UNCHANGED job
  BY <1>1
<1>2. ASSUME NEW j \in Jobs, StartProduction(j) PROVE Converted' = Converted
  BY <1>2 DEF StartProduction
<1>3. ASSUME NEW r \in Runs, WriteStage(r) PROVE Converted' = Converted
  BY <1>3 DEF WriteStage, RunsAreBacked
<1>4. QED
  BY <1>1, <1>2, <1>3
  DEF ConversionNext, allVars, conversionVars, Inspect, ResolveTask, ManualFind, Start, RunStep, MarkAccepted,
      FindJob, Backfill, ReadStage, StopFollowups, ConversionFails

(* Every step keeps what the runs go by.                                     *)
LEMMA RunsBackedStep ==
  ASSUME ConversionInductive, [ConversionNext]_allVars
  PROVE  RunsAreBacked' /\ PointersAreLive' /\ WonMeansJob'
<1> DEFINE Backed(r) ==
             /\ advance[r].pc # "idle" => accepted # {}
             /\ advance[r].pc # "failed" => advance[r].tries < MaxAttempts
             /\ job[r] # "absent" => accepted # {}
             /\ advance[r].pc = "insert" => ~openTask
             /\ advance[r].pc \in {"backfill", "stage", "write"} => advance[r].job \in Converted
             /\ advance[r].pc \in {"stage", "write", "customer"} => estimateJob # None
           Good == (\A r \in Runs : Backed(r)) /\ PointersAreLive /\ WonMeansJob
<1>1. /\ job \in [Jobs -> Stage] /\ estimateJob \in Jobs \cup {None} /\ None \notin Jobs
      /\ advance \in [Runs -> AdvanceRow] /\ Runs \subseteq Jobs /\ Manuals \subseteq Jobs
      /\ Runs \cap Manuals = {} /\ openTask \in BOOLEAN /\ won \in BOOLEAN
  BY ConvertersAssumption DEF ConversionInductive, ConversionTypeOK, Jobs
<1>2. Good /\ accepted \subseteq accepted'
  BY ConversionKeepsGate DEF ConversionInductive, RunsAreBacked
<1>3. SUFFICES Good'
  BY DEF RunsAreBacked
<1>4. CASE UNCHANGED conversionVars
  BY <1>2, <1>4 DEF conversionVars, PointersAreLive, WonMeansJob, Converted
<1>5. CASE Inspect \/ ResolveTask
  BY <1>2, <1>5 DEF Inspect, ResolveTask, PointersAreLive, WonMeansJob, Converted, gateVars
<1>6. ASSUME NEW j \in Jobs, StartProduction(j) PROVE Good'
  <2>1. Converted' = Converted /\ \A r \in Runs : (job'[r] = "absent") <=> (job[r] = "absent")
    BY <1>1, <1>6 DEF StartProduction, Converted
  <2>2. QED BY <1>2, <1>6, <2>1 DEF StartProduction, PointersAreLive, WonMeansJob, gateVars
<1>7. ASSUME NEW m \in Manuals, ManualFind(m) PROVE Good'
  BY <1>1, <1>2, <1>7 DEF ManualFind, PointersAreLive, WonMeansJob, gateVars, Converted
<1>8. ASSUME NEW m \in Manuals, ManualInsert(m) PROVE Good'
  <2>1. /\ Converted' = Converted \cup {m} /\ won' = TRUE /\ estimateJob' \in {estimateJob, m}
    BY <1>1, <1>8, InsertConverts DEF ManualInsert, ConversionInductive
  <2>2. \A r \in Runs : job'[r] = job[r]
    BY <1>1, <1>8 DEF ManualInsert, InsertJob
  <2>3. UNCHANGED <<accepted, advance, stopped>> /\ openTask' = FALSE
    BY <1>8 DEF ManualInsert, gateVars
  <2>4. QED BY <1>1, <1>2, <2>1, <2>2, <2>3 DEF PointersAreLive, WonMeansJob
<1>9. ASSUME NEW r \in Runs, Insert(r) PROVE Good'
  <2>1. /\ Converted' = Converted \cup {r} /\ won' = TRUE /\ estimateJob' \in {estimateJob, r}
    BY <1>1, <1>9, InsertConverts DEF Insert, RunInserts, ConversionInductive
  <2>2. /\ \A q \in Runs \ {r} : job'[q] = job[q] /\ advance'[q] = advance[q]
        /\ advance'[r] = [advance[r] EXCEPT !.pc = "backfill", !.job = r]
    BY <1>1, <1>9 DEF Insert, RunInserts, InsertJob
  <2>3. /\ advance'[r].pc = "backfill" /\ advance'[r].job = r /\ advance'[r].tries = advance[r].tries
        /\ advance[r].pc = "insert"
    BY <1>1, <1>9, <2>2 DEF Insert, AdvanceRow
  <2>4. UNCHANGED <<accepted, stopped, openTask>>
    BY <1>9 DEF Insert, gateVars
  <2>5. Backed(r)'
    BY <1>1, <1>2, <2>1, <2>3, <2>4
  <2>6. ASSUME NEW q \in Runs \ {r} PROVE Backed(q)'
    BY <1>1, <1>2, <2>1, <2>2, <2>4
  <2>7. PointersAreLive' /\ WonMeansJob'
    BY <1>1, <1>2, <2>1, <2>4 DEF PointersAreLive, WonMeansJob
  <2>8. QED BY <2>5, <2>6, <2>7
<1>10. ASSUME NEW r \in Runs, NEW h \in Hooks, Start(r, h) PROVE Good'
  <2>1. UNCHANGED <<accepted, job, estimateJob, won, openTask, stopped>> /\ accepted # {}
    BY <1>10 DEF Start, gateVars
  <2>2. /\ \A q \in Runs \ {r} : advance'[q] = advance[q]
        /\ advance'[r].pc = "accept" /\ advance[r].pc = "idle" /\ advance'[r].tries = advance[r].tries
    BY <1>1, <1>10 DEF Start, AdvanceRow
  <2>3. Converted' = Converted
    BY <2>1 DEF Converted
  <2>4. QED BY <1>1, <1>2, <2>1, <2>2, <2>3 DEF PointersAreLive, WonMeansJob
<1>11. ASSUME NEW r \in Runs, MarkAccepted(r) PROVE Good'
  <2>1. UNCHANGED <<accepted, job, estimateJob, won, openTask, stopped>> /\ Converted' = Converted
    BY <1>11 DEF MarkAccepted, Converted
  <2>2. /\ \A q \in Runs \ {r} : advance'[q] = advance[q]
        /\ advance[r].pc = "accept" /\ advance'[r].tries = advance[r].tries
        /\ advance'[r].job = estimateJob
        /\ advance'[r].pc = IF estimateJob # None THEN "stage" ELSE "find"
    BY <1>1, <1>11 DEF MarkAccepted, AdvanceRow
  <2>3. Backed(r)'
    BY <1>2, <2>1, <2>2 DEF PointersAreLive
  <2>4. QED BY <1>2, <2>1, <2>2, <2>3 DEF PointersAreLive, WonMeansJob
<1>12. ASSUME NEW r \in Runs, FindJob(r) PROVE Good'
  <2>1. UNCHANGED <<accepted, job, estimateJob, openTask, stopped>> /\ Converted' = Converted
    BY <1>12 DEF FindJob, Converted, gateVars
  <2>2. CASE Converted # {}
    <3>1. PICK j \in Converted : advance' = [advance EXCEPT ![r].pc = "backfill", ![r].job = j]
      BY <1>12, <2>2 DEF FindJob
    <3>2. won' = TRUE /\ advance[r].pc = "find"
      BY <1>12, <2>2 DEF FindJob
    <3>3. /\ \A q \in Runs \ {r} : advance'[q] = advance[q]
          /\ advance'[r].pc = "backfill" /\ advance'[r].job = j /\ advance'[r].tries = advance[r].tries
      BY <1>1, <3>1 DEF AdvanceRow
    <3>4. QED BY <1>1, <1>2, <2>1, <2>2, <3>2, <3>3 DEF PointersAreLive, WonMeansJob
  <2>3. CASE Converted = {}
    <3>1. advance' = [advance EXCEPT ![r].pc = IF openTask THEN "blocked" ELSE "insert"]
      BY <1>12, <2>3 DEF FindJob, Goto, TaskBlocks, OnBlock
    <3>2. UNCHANGED won /\ advance[r].pc = "find"
      BY <1>12, <2>3 DEF FindJob
    <3>3. /\ \A q \in Runs \ {r} : advance'[q] = advance[q]
          /\ advance'[r].pc = IF openTask THEN "blocked" ELSE "insert"
          /\ advance'[r].tries = advance[r].tries
      BY <1>1, <3>1 DEF AdvanceRow
    <3>4. Backed(r)'
      BY <1>1, <1>2, <2>1, <3>2, <3>3
    <3>5. QED BY <1>2, <2>1, <3>2, <3>3, <3>4 DEF PointersAreLive, WonMeansJob
  <2>4. QED BY <2>2, <2>3
<1>13. ASSUME NEW r \in Runs, Backfill(r) PROVE Good'
  <2>1. /\ UNCHANGED <<accepted, job, won, openTask, stopped>> /\ Converted' = Converted
        /\ estimateJob' = advance[r].job /\ advance[r].pc = "backfill"
    BY <1>13 DEF Backfill, Converted, gateVars
  <2>2. /\ \A q \in Runs \ {r} : advance'[q] = advance[q]
        /\ advance'[r].pc = "stage" /\ advance'[r].tries = advance[r].tries
        /\ advance'[r].job = advance[r].job
    BY <1>1, <1>13 DEF Backfill, Goto, AdvanceRow
  <2>3. advance[r].job \in Converted /\ advance[r].job # None
    BY <1>1, <1>2, <2>1 DEF Converted
  <2>4. QED BY <1>2, <2>1, <2>2, <2>3 DEF PointersAreLive, WonMeansJob
<1>14. ASSUME NEW r \in Runs, ReadStage(r) PROVE Good'
  <2>1. UNCHANGED <<accepted, job, estimateJob, won, openTask, stopped>> /\ Converted' = Converted
    BY <1>14 DEF ReadStage, Converted, gateVars
  <2>2. /\ \A q \in Runs \ {r} : advance'[q] = advance[q]
        /\ advance[r].pc = "stage" /\ advance'[r].pc \in {"write", "customer"}
        /\ advance'[r].tries = advance[r].tries /\ advance'[r].job = advance[r].job
    BY <1>1, <1>14 DEF ReadStage, Goto, AdvanceRow
  <2>3. QED BY <1>2, <2>1, <2>2 DEF PointersAreLive, WonMeansJob
<1>15. ASSUME NEW r \in Runs, WriteStage(r) PROVE Good'
  <2>1. /\ UNCHANGED <<accepted, estimateJob, won, openTask, stopped>>
        /\ advance[r].pc = "write" /\ advance[r].job \in Converted
    BY <1>2, <1>15 DEF WriteStage, gateVars
  <2>2. Converted' = Converted /\ \A q \in Runs : (job'[q] = "absent") <=> (job[q] = "absent")
    BY <1>1, <1>15, <2>1 DEF WriteStage, Converted
  <2>3. /\ \A q \in Runs \ {r} : advance'[q] = advance[q]
        /\ advance'[r].pc = "customer" /\ advance'[r].tries = advance[r].tries
    BY <1>1, <1>15 DEF WriteStage, Goto, AdvanceRow
  <2>4. QED BY <1>2, <2>1, <2>2, <2>3 DEF PointersAreLive, WonMeansJob
<1>16. ASSUME NEW r \in Runs, StopFollowups(r) PROVE Good'
  <2>1. /\ UNCHANGED <<accepted, job, estimateJob, won, openTask>> /\ Converted' = Converted
        /\ advance[r].pc = "customer" /\ stopped' = stopped \cup {r}
    BY <1>16 DEF StopFollowups, Converted, gateVars
  <2>2. /\ \A q \in Runs \ {r} : advance'[q] = advance[q]
        /\ advance'[r].pc = "done" /\ advance'[r].tries = advance[r].tries
    BY <1>1, <1>16 DEF StopFollowups, Goto, AdvanceRow
  <2>3. QED BY <1>2, <2>1, <2>2 DEF PointersAreLive, WonMeansJob
<1>17. ASSUME NEW r \in Runs, ConversionFails(r) PROVE Good'
  <2>1. UNCHANGED <<accepted, job, estimateJob, won, openTask, stopped>> /\ Converted' = Converted
    BY <1>17 DEF ConversionFails, Converted, gateVars
  <2> DEFINE pc == IF Tries(r) < MaxAttempts THEN "accept" ELSE "failed"
             refused == advance[r].refused \/ (advance[r].pc = "stage" /\ job[advance[r].job] = "production")
  <2>2. /\ advance' = [advance EXCEPT ![r].pc = pc, ![r].tries = Tries(r), ![r].refused = refused]
        /\ advance[r].pc # "idle"
    BY <1>17 DEF ConversionFails
  <2> HIDE DEF refused
  <2>3. /\ \A q \in Runs \ {r} : advance'[q] = advance[q]
        /\ advance'[r].pc = pc /\ advance'[r].tries = Tries(r)
    BY <1>1, <2>2 DEF AdvanceRow
  <2>4. Backed(r)'
    BY <1>2, <2>1, <2>2, <2>3
  <2>5. QED BY <1>2, <2>1, <2>3, <2>4 DEF PointersAreLive, WonMeansJob
<1>18. QED
  BY <1>4, <1>5, <1>6, <1>7, <1>8, <1>9, <1>10, <1>11, <1>12, <1>13, <1>14, <1>15, <1>16, <1>17
  DEF ConversionNext, RunStep, allVars

LEMMA ConversionKept == ConversionSpec => []ConversionInductive
<1>1. ConversionInit => ConversionInductive
  BY ConversionInitHolds
<1>2. ConversionInductive /\ [ConversionNext]_allVars => ConversionInductive'
  BY ConversionKeepsGate, ConversionTypeStep, RunsBackedStep DEF ConversionInductive
<1>3. QED BY <1>1, <1>2, PTL DEF ConversionSpec

(* For any number of pages, sends, deliveries, runs and manual conversions,  *)
(* in any order: the gate opens only on both halves and is not missed, and   *)
(* from the stamps to the job each link stands on the one before.            *)
THEOREM AcceptanceHolds == ConversionSpec => []AcceptanceInv
<1>1. ConversionInductive => AcceptanceInv
  <2> SUFFICES ASSUME ConversionInductive PROVE AcceptanceInv
    OBVIOUS
  <2>1. GateInv
    BY GateFollows DEF ConversionInductive
  <2>2. JobIsSignedAndPaid
    BY DEF ConversionInductive, GateInductive, RunsAreBacked, GateRespected, JobIsSignedAndPaid
  <2>3. QED BY <2>1, <2>2 DEF AcceptanceInv, ConversionInv, ConversionInductive, GateInductive
<1>2. QED BY <1>1, ConversionKept, PTL

(* No acceptance converts a lead over an open manual task: the run inserts   *)
(* only after a look at the tasks, and none opens afterwards.                *)
THEOREM TasksGate == ConversionSpec => TasksGateConversion
<1> DEFINE Gated == \A r \in Runs : job[r] = "absent" /\ job'[r] # "absent" => ~openTask
<1>1. ConversionInductive /\ [ConversionNext]_allVars => [Gated]_allVars
  <2> SUFFICES ASSUME ConversionInductive, [ConversionNext]_allVars,
                      NEW r \in Runs, job[r] = "absent", job'[r] # "absent"
               PROVE  ~openTask
    OBVIOUS
  <2>1. job \in [Jobs -> Stage] /\ r \in Jobs /\ r \notin Manuals
    BY ConvertersAssumption DEF ConversionInductive, ConversionTypeOK, Jobs
  <2>2. r \notin Converted /\ (job' \in [Jobs -> Stage] => r \in Converted')
    BY <2>1 DEF Converted
  <2>3. job' \in [Jobs -> Stage]
    BY ConversionTypeStep DEF ConversionTypeOK
  <2>4. CASE \E m \in Manuals : ManualInsert(m)
    BY <2>1, <2>4 DEF ManualInsert, InsertJob
  <2>5. ASSUME NEW q \in Runs, Insert(q) PROVE q = r /\ ~openTask
    <3>1. q = r
      BY <2>1, <2>5 DEF Insert, RunInserts, InsertJob
    <3>2. QED BY <2>5, <3>1 DEF Insert, ConversionInductive, RunsAreBacked
  <2>6. CASE (\A m \in Manuals : ~ManualInsert(m)) /\ (\A q \in Runs : ~Insert(q))
    BY <2>2, <2>3, <2>6, JobsKept DEF ConversionInductive
  <2>7. QED BY <2>4, <2>5, <2>6
<1>2. QED BY <1>1, ConversionKept, PTL DEF ConversionSpec, TasksGateConversion

-----------------------------------------------------------------------------
(* The nightly score, for any number of rows, attempts and failures.        *)

\* The streak counts nights, and green counts the streak.
StreakIsNights ==
    /\ ~nights.again => health.streak <= nights.clean
    /\ health.status = "green" => health.streak = GreenStreak

\* A page to be marked is about the exception that is open, and was tried; a night is lost
\* only to failures.
MarkFollowsPage ==
    /\ sweep.pc = "mark" => exc.open /\ pages # "none"
    /\ sweep.pc = "failed" => failures # 0

HealthInductive ==
    /\ HealthTypeOK /\ StreakIsNights /\ WrongWorkIsRed
    /\ ExceptionFollowsHealth /\ NotifiedMeansTried /\ MarkFollowsPage

SweepRow == [pc: Busy \cup {"idle", "failed"}, result: Results, bad: SUBSET Rows, refs: SUBSET Rows,
             seen: SUBSET Rows, todo: SUBSET Rows, try: 0..MaxTries]

(* A sweep asleep, or at the start of an attempt, remembers nothing.         *)
LEMMA AsleepRow ==
  ASSUME NEW pc \in Busy \cup {"idle", "failed"}, NEW n \in 0..MaxTries
  PROVE  [Asleep(pc) EXCEPT !.try = n] \in SweepRow /\ Asleep(pc) \in SweepRow
BY HealthAssumption DEF Asleep, SweepRow, Results

(* The statuses, the streak and the exception stay in their enums.           *)
LEMMA ComputeRow ==
  ASSUME HealthTypeOK
  PROVE  Compute \in [status: {"gray", "green"} \cup Unhealthy, streak: 0..GreenStreak, counted: BOOLEAN]
<1> DEFINE counted == Having("exception") # {}
           streak == IF Clean THEN Capped(health.streak + 1, GreenStreak) ELSE 0
<1>1. counted \in BOOLEAN
  OBVIOUS
<1>2. streak \in 0..GreenStreak
  BY HealthAssumption DEF HealthTypeOK, Capped
<1>3. StatusFor(streak) \in {"gray", "green"} \cup Unhealthy
  BY DEF StatusFor, Unhealthy
<1>4. Compute = IF mode # "auto" THEN [status |-> "gray", streak |-> health.streak, counted |-> counted]
                ELSE IF Neutral THEN [health EXCEPT !.counted = counted]
                ELSE [status |-> StatusFor(streak), streak |-> streak, counted |-> counted]
  BY DEF Compute
<1> HIDE DEF counted, streak
<1>5. QED BY <1>1, <1>2, <1>3, <1>4 DEF HealthTypeOK

LEMMA ReconciledRow ==
  ASSUME HealthTypeOK
  PROVE  /\ Reconciled \in [open: BOOLEAN, glass: BOOLEAN, notified: BOOLEAN]
         /\ Reconciled.open \/ Reconciled = NoException
         /\ Reconciled.open <=> health.status \in Unhealthy
         /\ Reconciled.notified => exc.notified /\ Reconciled.open
<1>1. BreaksGlass \in BOOLEAN
  BY DEF BreaksGlass, DollarsReached, HealthTypeOK
<1>2. NoException \in [open: BOOLEAN, glass: BOOLEAN, notified: BOOLEAN]
      /\ ~NoException.open /\ ~NoException.notified
  BY DEF NoException
<1>3. exc.notified \in BOOLEAN
  BY DEF HealthTypeOK
<1> DEFINE kept == [open |-> TRUE, glass |-> BreaksGlass, notified |-> exc.notified]
<1>4. kept \in [open: BOOLEAN, glass: BOOLEAN, notified: BOOLEAN] /\ kept.open /\ kept.notified = exc.notified
  BY <1>1, <1>3
<1>5. Reconciled = IF health.status \in Unhealthy THEN kept ELSE NoException
  BY DEF Reconciled
<1> HIDE DEF kept
<1>6. QED BY <1>2, <1>4, <1>5

LEMMA HealthInitHolds == HealthInit => HealthInductive
<1> SUFFICES ASSUME HealthInit PROVE HealthInductive
  OBVIOUS
<1>1. sweep \in SweepRow
  <2>1. 0 \in 0..MaxTries
    BY HealthAssumption
  <2>2. QED BY <2>1, AsleepRow DEF HealthInit
<1>2. exc \in [open: BOOLEAN, glass: BOOLEAN, notified: BOOLEAN] /\ exc = NoException
  BY DEF HealthInit, NoException
<1>3. HealthTypeOK
  BY <1>1, <1>2, HealthAssumption DEF HealthInit, HealthTypeOK, SweepRow, Unhealthy, Results
<1>4. StreakIsNights /\ NotifiedMeansTried /\ ExceptionFollowsHealth
  BY HealthAssumption DEF HealthInit, StreakIsNights, NotifiedMeansTried, ExceptionFollowsHealth, NoException,
                          Unhealthy
<1>5. WrongWorkIsRed /\ MarkFollowsPage
  BY DEF HealthInit, WrongWorkIsRed, MarkFollowsPage, Asleep
<1>6. QED BY <1>3, <1>4, <1>5 DEF HealthInductive

(* The doers, the staff and the world: a row is never made an exception and  *)
(* the sweep stays where it is.                                              *)
LEMMA WorldKeeps ==
  ASSUME HealthInductive,
         \/ \E r \in Rows : DoerDone(r) \/ Turn(r) \/ \E done \in BOOLEAN : StaffTick(r, done)
         \/ SetMode
  PROVE  HealthInductive'
<1> DEFINE Still == /\ UNCHANGED <<forced, hist, health, exc, failures, nights, pages>>
                    /\ sweep' \in SweepRow /\ sweep'.pc = sweep.pc /\ sweep'.todo = sweep.todo
                    /\ row' \in [Rows -> {"pending", "done", "verified", "exception"}]
                    /\ \A r \in Rows : row'[r] = "exception" => row[r] = "exception"
                    /\ mode' \in {"auto", "manual", "off"} /\ wrong' \subseteq Rows
<1> USE DEF HealthInductive, HealthTypeOK
<1>0. sweep \in SweepRow
  BY DEF SweepRow
<1>1. ASSUME NEW r \in Rows, DoerDone(r) PROVE Still
  <2>1. CASE UNCHANGED <<wrong, sweep>>
    BY <1>0, <1>1, <2>1 DEF DoerDone
  <2>2. CASE wrong' \in {wrong \ {r}, wrong \cup {r}} /\
             sweep' = [sweep EXCEPT !.seen = @ \ {r}, !.bad = @ \ {r},
                                    !.refs = IF sweep.pc = "update" THEN @ ELSE @ \ {r}]
    <3> DEFINE seen == sweep.seen \ {r}
               bad == sweep.bad \ {r}
               refs == IF sweep.pc = "update" THEN sweep.refs ELSE sweep.refs \ {r}
    <3>1. seen \in SUBSET Rows /\ bad \in SUBSET Rows /\ refs \in SUBSET Rows
      BY <1>0 DEF SweepRow
    <3>2. sweep' = [sweep EXCEPT !.seen = seen, !.bad = bad, !.refs = refs]
      BY <2>2
    <3> HIDE DEF seen, bad, refs
    <3>3. sweep' \in SweepRow /\ sweep'.pc = sweep.pc /\ sweep'.todo = sweep.todo
      BY <1>0, <3>1, <3>2 DEF SweepRow
    <3>4. QED BY <1>1, <2>2, <3>3 DEF DoerDone
  <2>3. QED BY <1>1, <2>1, <2>2 DEF DoerDone
<1>2. ASSUME NEW r \in Rows, Turn(r) PROVE Still
  BY <1>0, <1>2 DEF Turn
<1>3. ASSUME NEW r \in Rows, NEW done \in BOOLEAN, StaffTick(r, done) PROVE Still
  BY <1>0, <1>3 DEF StaffTick
<1>4. ASSUME SetMode PROVE Still
  <2>1. mode' \in {"auto", "manual", "off"}
    BY <1>4 DEF SetMode
  <2>2. UNCHANGED <<forced, row, wrong, hist, health, exc, sweep, failures, nights, pages>>
    BY <1>4 DEF SetMode
  <2>3. sweep' = sweep /\ row' = row /\ wrong' = wrong
    BY <2>2
  <2>4. QED BY <1>0, <2>1, <2>2, <2>3
<1> HIDE DEF Still
<1>5. Still
  BY <1>1, <1>2, <1>3, <1>4
<1> USE DEF Still
<1>6. HealthTypeOK'
  <2>1. UNCHANGED <<forced, hist, health, exc, failures, nights, pages>> /\ sweep' \in SweepRow
    BY <1>5
  <2>2. /\ row' \in [Rows -> {"pending", "done", "verified", "exception"}]
        /\ mode' \in {"auto", "manual", "off"} /\ wrong' \subseteq Rows
    BY <1>5
  <2>3. QED BY <2>1, <2>2 DEF SweepRow
<1>7. WrongWorkIsRed'
  BY <1>5 DEF WrongWorkIsRed
<1>8. StreakIsNights' /\ ExceptionFollowsHealth' /\ NotifiedMeansTried' /\ MarkFollowsPage'
  BY <1>5 DEF StreakIsNights, ExceptionFollowsHealth, NotifiedMeansTried, MarkFollowsPage
<1>9. QED BY <1>6, <1>7, <1>8

(* Up to the recompute the sweep changes neither the score nor the ledger.   *)
LEMMA BeginKeeps == ASSUME HealthInductive, Begin PROVE HealthInductive'
<1> USE DEF HealthInductive, HealthTypeOK
<1> DEFINE pc == IF mode = "off" THEN "reconcile" ELSE "check"
<1>1. /\ sweep' = [Asleep(pc) EXCEPT !.try = 1] /\ sweep.pc \in {"idle", "failed"}
      /\ nights' = [nights EXCEPT !.tonight = FALSE]
      /\ UNCHANGED <<forced, mode, row, wrong, hist, health, exc, failures, pages>>
  BY DEF Begin
<1>2. pc \in {"reconcile", "check"} /\ pc \in Busy
  BY DEF Busy
<1> HIDE DEF pc
<1>3. sweep' \in SweepRow /\ sweep'.pc = pc /\ sweep'.todo = {}
  BY <1>1, <1>2, AsleepRow, HealthAssumption DEF Asleep
<1>4. nights' \in [clean: 0..GreenStreak, tonight: BOOLEAN, again: BOOLEAN]
      /\ nights'.clean = nights.clean /\ nights'.again = nights.again
  BY <1>1
<1>5. HealthTypeOK'
  BY <1>1, <1>3, <1>4 DEF SweepRow
<1>6. WrongWorkIsRed' /\ MarkFollowsPage'
  BY <1>2, <1>3 DEF WrongWorkIsRed, MarkFollowsPage
<1>7. StreakIsNights' /\ NotifiedMeansTried'
  BY <1>1, <1>4 DEF StreakIsNights, NotifiedMeansTried
<1>8. ExceptionFollowsHealth'
  <2>1. CASE failures = 0 /\ pc = "check"
    <3>1. sweep.pc = "idle"
      BY <1>1, <2>1 DEF MarkFollowsPage
    <3>2. QED BY <1>1, <1>3, <2>1, <3>1 DEF ExceptionFollowsHealth
  <2>2. CASE failures # 0 \/ pc = "reconcile"
    BY <1>1, <1>3, <2>2 DEF ExceptionFollowsHealth
  <2>3. QED BY <1>2, <2>1, <2>2
<1>9. QED BY <1>5, <1>6, <1>7, <1>8

(* What of the invariant reads the score, the ledger and the pages: a step   *)
(* that touches none of these keeps it, but for where the sweep goes.        *)
LEMMA ScoreUntouched ==
  ASSUME HealthInductive, UNCHANGED <<forced, mode, wrong, health, exc, failures, nights, pages>>,
         row' \in [Rows -> {"pending", "done", "verified", "exception"}],
         hist' \in [latest: Results \cup {"none"}, fails: 0..2],
         sweep' \in SweepRow,
         sweep.pc \in {"check", "record", "select", "update"},
         sweep'.pc \in {"record", "select", "update", "recompute"}
  PROVE  HealthInductive'
<1> USE DEF HealthInductive
<1>1. HealthTypeOK'
  BY DEF HealthTypeOK, SweepRow
<1>2. WrongWorkIsRed' /\ MarkFollowsPage'
  BY DEF WrongWorkIsRed, MarkFollowsPage
<1>3. StreakIsNights' /\ NotifiedMeansTried'
  BY DEF StreakIsNights, NotifiedMeansTried
<1>4. ExceptionFollowsHealth'
  BY DEF ExceptionFollowsHealth
<1>5. QED BY <1>1, <1>2, <1>3, <1>4

LEMMA CheckKeeps == ASSUME HealthInductive, Check PROVE HealthInductive'
<1>1. /\ sweep \in SweepRow /\ sweep.pc = "check" /\ wrong \subseteq Rows
      /\ row \in [Rows -> {"pending", "done", "verified", "exception"}]
      /\ hist \in [latest: Results \cup {"none"}, fails: 0..2]
  BY DEF Check, HealthInductive, HealthTypeOK, SweepRow
<1>2. UNCHANGED <<forced, mode, row, wrong, hist, health, exc, failures, nights, pages>>
  BY DEF Check
<1>3. PICK others \in 0..MaxRefs :
        \E result \in {"stale", "skip", IF others > 0 \/ wrong # {} THEN "fail" ELSE "pass"} :
        \E refs \in IF result = "fail" THEN Reported(others) ELSE {{}} :
          sweep' = [sweep EXCEPT !.pc = "record", !.result = result, !.refs = refs,
                                 !.bad = IF result = "fail" THEN wrong ELSE {}, !.seen = Having("done")]
  BY DEF Check
<1>4. PICK result \in {"stale", "skip", IF others > 0 \/ wrong # {} THEN "fail" ELSE "pass"} :
        \E refs \in IF result = "fail" THEN Reported(others) ELSE {{}} :
          sweep' = [sweep EXCEPT !.pc = "record", !.result = result, !.refs = refs,
                                 !.bad = IF result = "fail" THEN wrong ELSE {}, !.seen = Having("done")]
  BY <1>3
<1>5. PICK refs \in IF result = "fail" THEN Reported(others) ELSE {{}} :
          sweep' = [sweep EXCEPT !.pc = "record", !.result = result, !.refs = refs,
                                 !.bad = IF result = "fail" THEN wrong ELSE {}, !.seen = Having("done")]
  BY <1>4
<1> DEFINE bad == IF result = "fail" THEN wrong ELSE {}
           seen == Having("done")
<1>6. result \in Results
  BY DEF Results
<1>7. refs \in SUBSET Rows
  BY <1>1 DEF Reported
<1>8. bad \in SUBSET Rows /\ seen \in SUBSET Rows
  BY <1>1 DEF Having
<1>9. sweep' = [sweep EXCEPT !.pc = "record", !.result = result, !.refs = refs, !.bad = bad, !.seen = seen]
  BY <1>5
<1> HIDE DEF bad, seen
<1>10. sweep' \in SweepRow /\ sweep'.pc = "record"
  BY <1>1, <1>6, <1>7, <1>8, <1>9 DEF SweepRow, Busy
<1>11. QED BY <1>1, <1>2, <1>10, ScoreUntouched

LEMMA RecordKeeps == ASSUME HealthInductive, Record PROVE HealthInductive'
<1>1. /\ sweep \in SweepRow /\ sweep.pc = "record"
      /\ row \in [Rows -> {"pending", "done", "verified", "exception"}]
      /\ hist \in [latest: Results \cup {"none"}, fails: 0..2]
  BY DEF Record, HealthInductive, HealthTypeOK, SweepRow
<1>2. UNCHANGED <<forced, mode, row, wrong, health, exc, failures, nights, pages>>
  BY DEF Record
<1>3. hist' \in [latest: Results \cup {"none"}, fails: 0..2]
  <2> DEFINE fails == IF sweep.result = "fail" THEN Capped(hist.fails + 1, 2) ELSE 0
  <2>1. fails \in 0..2 /\ sweep.result \in Results
    BY <1>1 DEF Capped, SweepRow
  <2>2. hist' = [latest |-> sweep.result, fails |-> fails]
    BY DEF Record
  <2> HIDE DEF fails
  <2>3. QED BY <2>1, <2>2
<1>4. sweep' \in SweepRow /\ sweep'.pc \in {"select", "recompute"}
  <2>1. PICK pc \in {"select", "recompute"} : sweep' = [sweep EXCEPT !.pc = pc]
    BY DEF Record, SweepTo
  <2>2. QED BY <1>1, <2>1 DEF SweepRow, Busy
<1>5. QED BY <1>1, <1>2, <1>3, <1>4, ScoreUntouched

LEMMA SelectKeeps == ASSUME HealthInductive, SelectDone PROVE HealthInductive'
<1>1. /\ sweep \in SweepRow /\ sweep.pc = "select"
      /\ row \in [Rows -> {"pending", "done", "verified", "exception"}]
      /\ hist \in [latest: Results \cup {"none"}, fails: 0..2]
  BY DEF SelectDone, HealthInductive, HealthTypeOK, SweepRow
<1>2. UNCHANGED <<forced, mode, row, wrong, hist, health, exc, failures, nights, pages>>
  BY DEF SelectDone
<1>3. sweep' \in SweepRow /\ sweep'.pc = "update"
  BY <1>1 DEF SelectDone, SweepRow, Busy, Having
<1>4. QED BY <1>1, <1>2, <1>3, ScoreUntouched

LEMMA UpdateKeeps == ASSUME HealthInductive, UpdateRows PROVE HealthInductive'
<1>1. /\ sweep \in SweepRow /\ sweep.pc = "update"
      /\ row \in [Rows -> {"pending", "done", "verified", "exception"}]
      /\ hist \in [latest: Results \cup {"none"}, fails: 0..2]
  BY DEF UpdateRows, HealthInductive, HealthTypeOK, SweepRow
<1>2. UNCHANGED <<forced, mode, wrong, hist, health, exc, failures, nights, pages>>
  BY DEF UpdateRows
<1>3. row' \in [Rows -> {"pending", "done", "verified", "exception"}]
  BY <1>1 DEF UpdateRows, Judged
<1>4. sweep' \in SweepRow /\ sweep'.pc = "recompute"
  BY <1>1 DEF UpdateRows, SweepTo, SweepRow, Busy
<1>5. QED BY <1>1, <1>2, <1>3, <1>4, ScoreUntouched

(* The score: green needs the streak, a streak needs its nights, and an      *)
(* exception row in an automatic task means red.                             *)
LEMMA RecomputeKeeps == ASSUME HealthInductive, Recompute PROVE HealthInductive'
<1> USE DEF HealthInductive
<1>1. /\ sweep \in SweepRow /\ sweep.pc = "recompute"
      /\ health \in [status: {"gray", "green"} \cup Unhealthy, streak: 0..GreenStreak, counted: BOOLEAN]
      /\ nights \in [clean: 0..GreenStreak, tonight: BOOLEAN, again: BOOLEAN]
  BY DEF Recompute, HealthTypeOK, SweepRow
<1>2. UNCHANGED <<forced, mode, row, wrong, hist, exc, failures, pages>> /\ health' = Compute
  BY DEF Recompute
<1>3. sweep' \in SweepRow /\ sweep'.pc = "reconcile" /\ sweep'.todo = sweep.todo
  BY <1>1 DEF Recompute, SweepTo, SweepRow, Busy
<1>4. /\ nights' \in [clean: 0..GreenStreak, tonight: BOOLEAN, again: BOOLEAN]
      /\ StreakIsNights'
  <2> DEFINE counted == Having("exception") # {}
             streak == IF Clean THEN Capped(health.streak + 1, GreenStreak) ELSE 0
  <2>0. StreakIsNights
    OBVIOUS
  <2>1. CASE mode # "auto" \/ Neutral
    <3>1. nights' = nights
      BY <2>1 DEF Recompute
    <3>2. health'.streak = health.streak /\ health'.status \in {"gray", health.status}
      BY <1>1, <1>2, <2>1 DEF Compute
    <3>3. QED BY <1>1, <2>0, <3>1, <3>2 DEF StreakIsNights
  <2>2. CASE mode = "auto" /\ ~Neutral
    <3>1. health' = [status |-> StatusFor(streak), streak |-> streak, counted |-> counted]
      BY <1>2, <2>2 DEF Compute
    <3>0. streak \in 0..GreenStreak
      BY <1>1, HealthAssumption DEF Capped
    <3>2. health'.streak = streak /\ (health'.status = "green" => streak = GreenStreak)
      <4>1. StatusFor(streak) = "green" => streak >= GreenStreak
        BY DEF StatusFor
      <4>2. QED BY <3>0, <3>1, <4>1, HealthAssumption
    <3>3. CASE ~Clean
      <4>1. nights' = [clean |-> 0, tonight |-> FALSE, again |-> FALSE]
        BY <2>2, <3>3 DEF Recompute
      <4>2. QED BY <3>2, <3>3, <4>1, HealthAssumption DEF StreakIsNights
    <3>4. CASE Clean /\ nights.tonight
      <4>1. nights' = [nights EXCEPT !.again = TRUE]
        BY <2>2, <3>4 DEF Recompute
      <4>2. /\ nights' \in [clean: 0..GreenStreak, tonight: BOOLEAN, again: BOOLEAN]
            /\ nights'.again = TRUE
        BY <1>1, <4>1
      <4>3. QED BY <3>2, <4>2 DEF StreakIsNights
    <3>5. CASE Clean /\ ~nights.tonight
      <4>1. nights' = [nights EXCEPT !.clean = Capped(nights.clean + 1, GreenStreak), !.tonight = TRUE]
        BY <2>2, <3>5 DEF Recompute
      <4>2. Capped(nights.clean + 1, GreenStreak) \in 0..GreenStreak
        BY <1>1, HealthAssumption DEF Capped
      <4>3. /\ nights' \in [clean: 0..GreenStreak, tonight: BOOLEAN, again: BOOLEAN]
            /\ nights'.clean = Capped(nights.clean + 1, GreenStreak) /\ nights'.again = nights.again
        BY <1>1, <4>1, <4>2
      <4>4. QED BY <1>1, <2>0, <3>2, <3>5, <4>3, HealthAssumption DEF StreakIsNights, Capped
    <3>6. QED BY <3>3, <3>4, <3>5
  <2>3. QED BY <2>1, <2>2
<1>5. HealthTypeOK'
  <2>1. health' \in [status: {"gray", "green"} \cup Unhealthy, streak: 0..GreenStreak, counted: BOOLEAN]
    BY <1>2, ComputeRow
  <2>2. QED BY <1>2, <1>3, <1>4, <2>1 DEF HealthTypeOK, SweepRow
<1>6. WrongWorkIsRed'
  <2> SUFFICES ASSUME NEW r \in Rows, row[r] = "exception" PROVE health'.status \in {"red", "gray"}
    BY <1>1, <1>2, <1>3 DEF WrongWorkIsRed, SweepRow
  <2>1. r \in Having("exception")
    BY DEF Having
  <2>2. ~Clean /\ ~Neutral /\ \A n : StatusFor(n) = "red"
    BY <2>1 DEF Clean, Neutral, StatusFor
  <2>3. QED BY <1>2, <2>2 DEF Compute
<1>7. ExceptionFollowsHealth' /\ NotifiedMeansTried' /\ MarkFollowsPage'
  BY <1>2, <1>3 DEF ExceptionFollowsHealth, NotifiedMeansTried, MarkFollowsPage
<1>8. QED BY <1>4, <1>5, <1>6, <1>7

(* The exception ledger after the score: a new exception starts unpaged.     *)
LEMMA ReconcileKeeps == ASSUME HealthInductive, Reconcile PROVE HealthInductive'
<1> USE DEF HealthInductive
<1>1. /\ sweep \in SweepRow /\ sweep.pc = "reconcile" /\ pages \in {"none", "unheard"} \cup Heard
      /\ exc.open \/ exc = NoException
  BY DEF Reconcile, HealthTypeOK, SweepRow
<1>2. /\ UNCHANGED <<forced, mode, row, wrong, hist, health, failures, nights>> /\ exc' = Reconciled
      /\ pages' = IF exc.open /\ exc'.open THEN pages ELSE "none"
  BY DEF Reconcile
<1>3. sweep' \in SweepRow /\ sweep'.pc = "page" /\ sweep'.todo = sweep.todo
  BY <1>1 DEF Reconcile, SweepTo, SweepRow, Busy
<1>4. HealthTypeOK'
  BY <1>1, <1>2, <1>3, ReconciledRow DEF HealthTypeOK, SweepRow
<1>5. WrongWorkIsRed' /\ StreakIsNights'
  BY <1>1, <1>2, <1>3 DEF WrongWorkIsRed, StreakIsNights
<1>6. ExceptionFollowsHealth' /\ MarkFollowsPage'
  BY <1>2, <1>3, ReconciledRow DEF ExceptionFollowsHealth, MarkFollowsPage
<1>7. NotifiedMeansTried'
  <2> SUFFICES ASSUME exc'.notified PROVE pages' # "none"
    BY DEF NotifiedMeansTried
  <2>1. exc.notified /\ exc'.open
    BY <1>2, ReconciledRow
  <2>2. exc.open
    BY <1>1, <2>1 DEF NoException
  <2>3. QED BY <1>1, <1>2, <2>1, <2>2 DEF NotifiedMeansTried
<1>8. QED BY <1>4, <1>5, <1>6, <1>7

LEMMA PageKeeps == ASSUME HealthInductive, Page PROVE HealthInductive'
<1> USE DEF HealthInductive
<1>1. sweep \in SweepRow /\ sweep.pc = "page" /\ pages \in {"none", "unheard"} \cup Heard
  BY DEF Page, HealthTypeOK, SweepRow
<1>2. UNCHANGED <<forced, mode, row, wrong, hist, health, exc, failures, nights>>
  BY DEF Page
<1>3. CASE Due /\ Paged /\ SweepTo("mark")
  <2>1. sweep' \in SweepRow /\ sweep'.pc = "mark" /\ sweep'.todo = sweep.todo
    BY <1>1, <1>3 DEF SweepTo, SweepRow, Busy
  <2>2. pages' \in {"none", "unheard"} \cup Heard /\ pages' # "none"
    BY <1>1, <1>3 DEF Paged, Heard
  <2>3. HealthTypeOK'
    BY <1>2, <2>1, <2>2 DEF HealthTypeOK, SweepRow
  <2>4. WrongWorkIsRed' /\ StreakIsNights' /\ ExceptionFollowsHealth'
    BY <1>1, <1>2, <2>1 DEF WrongWorkIsRed, StreakIsNights, ExceptionFollowsHealth
  <2>5. NotifiedMeansTried' /\ MarkFollowsPage'
    BY <1>2, <1>3, <2>1, <2>2 DEF NotifiedMeansTried, MarkFollowsPage, Due
  <2>6. QED BY <2>3, <2>4, <2>5
<1>4. CASE sweep' = Asleep("idle") /\ UNCHANGED pages
  <2>1. 0 \in 0..MaxTries
    BY HealthAssumption
  <2>2. sweep' \in SweepRow /\ sweep'.pc = "idle" /\ sweep'.todo = {}
    BY <1>4, <2>1, AsleepRow DEF Asleep
  <2>3. HealthTypeOK'
    BY <1>2, <1>4, <2>2 DEF HealthTypeOK, SweepRow
  <2>4. WrongWorkIsRed' /\ StreakIsNights' /\ ExceptionFollowsHealth'
    BY <1>1, <1>2, <2>2 DEF WrongWorkIsRed, StreakIsNights, ExceptionFollowsHealth
  <2>5. NotifiedMeansTried' /\ MarkFollowsPage'
    BY <1>2, <1>4, <2>2 DEF NotifiedMeansTried, MarkFollowsPage
  <2>6. QED BY <2>3, <2>4, <2>5
<1>5. QED BY <1>3, <1>4 DEF Page

LEMMA MarkKeeps == ASSUME HealthInductive, Mark PROVE HealthInductive'
<1> USE DEF HealthInductive
<1>1. /\ sweep.pc = "mark" /\ exc.open /\ pages # "none"
      /\ exc \in [open: BOOLEAN, glass: BOOLEAN, notified: BOOLEAN]
  BY DEF Mark, HealthTypeOK, MarkFollowsPage
<1>2. /\ UNCHANGED <<forced, mode, row, wrong, hist, health, failures, nights, pages>>
      /\ exc' = [exc EXCEPT !.notified = TRUE] /\ sweep' = Asleep("idle")
  BY DEF Mark
<1>3. 0 \in 0..MaxTries
  BY HealthAssumption
<1>4. sweep' \in SweepRow /\ sweep'.pc = "idle" /\ sweep'.todo = {}
  BY <1>2, <1>3, AsleepRow DEF Asleep
<1>5. /\ exc' \in [open: BOOLEAN, glass: BOOLEAN, notified: BOOLEAN] /\ exc'.open = exc.open
  BY <1>1, <1>2
<1>6. HealthTypeOK'
  BY <1>1, <1>2, <1>4, <1>5 DEF HealthTypeOK, SweepRow
<1>7. WrongWorkIsRed' /\ StreakIsNights' /\ ExceptionFollowsHealth'
  BY <1>1, <1>2, <1>4, <1>5 DEF WrongWorkIsRed, StreakIsNights, ExceptionFollowsHealth
<1>8. NotifiedMeansTried' /\ MarkFollowsPage'
  BY <1>1, <1>2, <1>4 DEF NotifiedMeansTried, MarkFollowsPage
<1>9. QED BY <1>6, <1>7, <1>8

LEMMA FailureKeeps == ASSUME HealthInductive, SweepFails PROVE HealthInductive'
<1> USE DEF HealthInductive
<1>1. sweep \in SweepRow /\ failures \in 0..MaxFailures /\ failures < MaxFailures
  BY DEF SweepFails, HealthTypeOK, SweepRow
<1>2. /\ UNCHANGED <<forced, mode, row, wrong, hist, health, exc, nights, pages>>
      /\ failures' = failures + 1
  BY DEF SweepFails
<1>3. failures' \in 0..MaxFailures /\ failures' # 0
  BY <1>1, <1>2, HealthAssumption
<1>4. /\ sweep' \in SweepRow /\ sweep'.pc \in {"reconcile", "check", "failed"} /\ sweep'.todo = {}
  <2> DEFINE pc == IF mode = "off" THEN "reconcile" ELSE "check"
             n == sweep.try + 1
  <2>1. sweep' = IF sweep.try < MaxTries THEN [Asleep(pc) EXCEPT !.try = n] ELSE Asleep("failed")
    BY DEF SweepFails
  <2>2. pc \in {"reconcile", "check"} /\ pc \in Busy
    BY DEF Busy
  <2>3. CASE sweep.try < MaxTries
    <3>1. n \in 0..MaxTries
      BY <1>1, <2>3, HealthAssumption DEF SweepRow
    <3> HIDE DEF pc, n
    <3>2. sweep' \in SweepRow
      BY <2>1, <2>2, <2>3, <3>1, AsleepRow
    <3>3. QED BY <2>1, <2>2, <2>3, <3>2 DEF Asleep
  <2>4. CASE ~(sweep.try < MaxTries)
    <3>1. 0 \in 0..MaxTries
      BY HealthAssumption
    <3>2. QED BY <2>1, <2>4, <3>1, AsleepRow DEF Asleep
  <2>5. QED BY <2>3, <2>4
<1>5. HealthTypeOK'
  BY <1>2, <1>3, <1>4 DEF HealthTypeOK, SweepRow
<1>6. WrongWorkIsRed' /\ StreakIsNights' /\ ExceptionFollowsHealth'
  BY <1>2, <1>3, <1>4 DEF WrongWorkIsRed, StreakIsNights, ExceptionFollowsHealth
<1>7. NotifiedMeansTried' /\ MarkFollowsPage'
  BY <1>2, <1>3, <1>4 DEF NotifiedMeansTried, MarkFollowsPage
<1>8. QED BY <1>5, <1>6, <1>7

(* Whatever doers, staff, modes and the world do under the nightly sweep,    *)
(* however often it is retried: green is earned, wrong work is red, the      *)
(* exception follows the score and is marked only after a page was tried.    *)
THEOREM HealthHolds == HealthSpec => []HealthInv
<1>1. HealthInit => HealthInductive
  BY HealthInitHolds
<1>2. HealthInductive /\ [HealthNext]_healthVars => HealthInductive'
  <2> SUFFICES ASSUME HealthInductive, [HealthNext]_healthVars PROVE HealthInductive'
    OBVIOUS
  <2>1. CASE UNCHANGED healthVars
    BY <2>1 DEF healthVars, HealthInductive, HealthTypeOK, StreakIsNights, WrongWorkIsRed,
                ExceptionFollowsHealth, NotifiedMeansTried, MarkFollowsPage
  <2>2. CASE HealthNext
    BY <2>2, WorldKeeps, BeginKeeps, CheckKeeps, RecordKeeps, SelectKeeps, UpdateKeeps, RecomputeKeeps,
       ReconcileKeeps, PageKeeps, MarkKeeps, FailureKeeps DEF HealthNext, SweepStep
  <2>3. QED BY <2>1, <2>2
<1>3. HealthInductive => HealthInv
  <2> SUFFICES ASSUME HealthInductive PROVE HealthInv
    OBVIOUS
  <2>1. EarnedGreen
    BY DEF HealthInductive, StreakIsNights, EarnedGreen
  <2>2. QED BY <2>1 DEF HealthInductive, HealthInv
<1>4. QED BY <1>1, <1>2, <1>3, PTL DEF HealthSpec

=============================================================================

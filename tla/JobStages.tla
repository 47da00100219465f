----------------------------- MODULE JobStages -----------------------------
(***************************************************************************)
(* The pipeline stage of one job.  Board drags and signals (an accepted    *)
(* estimate, a crew check-in, a delivery, the completion photos, an        *)
(* invoice sent or paid) all write it through recordStageChange, which     *)
(* reads the stage, checks the evidence and updates, in one READ COMMITTED *)
(* transaction without a lock.  Losing the job charges its commission back *)
(* while invoice/paid may still be recording it.                           *)
(***************************************************************************)
EXTENDS Naturals

CONSTANTS
    Movers,     \* transactions that move the job (bound: one each)
    Recorders,  \* runs of recordCommission (bound: one each)
    Reasons     \* the move action is called with a reason

ASSUME ReasonsAssumption == Reasons \in BOOLEAN

\* JOB_STAGE by index: lead, inspected, estimate, approved, production, closeout, billing,
\* complete, lost.  Gate k is the evidence stage k needs.
Inspected  == 1
Approved   == 3
Production == 4
Closeout   == 5
Billing    == 6
Complete   == 7
Lost       == 8
Stages     == 0..Lost
Gates      == 1..Complete
Invoiced   == 6
Paid       == 7

VARIABLES
    stage,       \* job.stage
    evidence,    \* gatherStageEvidence, by gate
    held,        \* the evidence the job ever had (history)
    mover,       \* transactions under way
    commission,  \* the commission row of the job's invoice, "none" before it
    recorder,    \* runs of recordCommission
    reopened     \* a reason took the job out of lost (history)

vars == <<stage, evidence, held, mover, commission, recorder, reopened>>

-----------------------------------------------------------------------------
Kinds == {"board", "accepted", "checkin", "delivered", "photos", "sent", "paid"}
MoverRow == [pc: {"idle", "read", "gate", "write", "done"}, kind: Kinds, to: Stages, from: Stages]

StagesTypeOK ==
    /\ stage \in Stages
    /\ evidence \in [Gates -> BOOLEAN] /\ held \in [Gates -> BOOLEAN]
    /\ mover \in [Movers -> MoverRow]
    /\ commission \in {"none", "pending", "approved", "paid", "charged_back"}
    /\ recorder \in [Recorders -> {"idle", "insert", "done"}]
    /\ reopened \in BOOLEAN

Init ==
    /\ stage = 0
    /\ \E none \in BOOLEAN : evidence = [k \in Gates |-> k = Closeout /\ none]   \* no photo required
    /\ held = evidence
    /\ mover = [m \in Movers |-> [pc |-> "idle", kind |-> "board", to |-> 0, from |-> 0]]
    /\ commission = "none"
    /\ recorder = [r \in Recorders |-> "idle"]
    /\ reopened = FALSE

MoverTo(m, pc) == mover' = [mover EXCEPT ![m].pc = pc]

-----------------------------------------------------------------------------
(* The evidence: rows of other tables.  An invoice is paid only once there *)
(* is one; an inspection may be undone, a crew unscheduled, and the photo  *)
(* checklist lengthened.                                                   *)

Appears(k) ==
    /\ ~evidence[k]
    /\ k = Paid => evidence[Invoiced]
    /\ evidence' = [evidence EXCEPT ![k] = TRUE]
    /\ held' = [held EXCEPT ![k] = TRUE]
    /\ UNCHANGED <<stage, mover, commission, recorder, reopened>>

Vanishes(k) ==
    /\ evidence[k]
    /\ k \in {Inspected, Production, Closeout}
    /\ evidence' = [evidence EXCEPT ![k] = FALSE]
    /\ UNCHANGED <<stage, held, mover, commission, recorder, reopened>>

-----------------------------------------------------------------------------
(* Moves.                                                                  *)

Target(kind) ==
    CASE kind = "accepted" -> {Approved}
      [] kind \in {"checkin", "delivered"} -> {Production}
      [] kind = "photos" -> {Closeout}
      [] kind = "sent" -> {Billing}
      [] kind = "paid" -> {Complete}
      [] OTHER -> Stages

\* What must have happened for the event to be sent, or for its function to go on.
Signalled(kind) ==
    CASE kind = "accepted" -> evidence[Approved]
      [] kind = "delivered" -> evidence[Production]
      [] kind = "photos" -> evidence[Closeout]
      [] kind = "sent" -> evidence[Invoiced]
      [] kind = "paid" -> evidence[Paid]
      [] OTHER -> TRUE

StartMove(m) ==
    /\ mover[m].pc = "idle"
    /\ \E kind \in Kinds : \E to \in Target(kind) :
         /\ Signalled(kind)
         /\ mover' = [mover EXCEPT ![m].pc = IF kind = "board" THEN "gate" ELSE "read",
                                   ![m].kind = kind, ![m].to = to]
    /\ UNCHANGED <<stage, evidence, held, commission, recorder, reopened>>

\* advanceJobStageForward and syncInvoiceStage skip what is not ahead; an accepted
\* estimate skips only a job that is approved already.
Skips(m) ==
    IF mover[m].kind = "accepted" THEN stage = Approved ELSE mover[m].to <= stage

ReadFirst(m) ==
    /\ mover[m].pc = "read"
    /\ MoverTo(m, IF Skips(m) THEN "done" ELSE "gate")
    /\ UNCHANGED <<stage, evidence, held, commission, recorder, reopened>>

\* The contiguous chain from "inspected" up; lost is above every gate.
ChainBug(to) == evidence[to]              \* mutant: only the target's own gate
Chain(to) == \A k \in 1..to : evidence[k]

\* recordStageChange's own read: forward needs the chain, backward a reason, lost
\* nothing; complete needs its photos whatever it comes from.
MayEnter(m) ==
    LET to == mover[m].to IN
    /\ (to # Lost /\ to > stage) => Chain(to)
    /\ (to # Lost /\ to < stage) => (mover[m].kind = "board" /\ Reasons)
    /\ to = Complete => evidence[Closeout]

ReadAndGate(m) ==
    /\ mover[m].pc = "gate"
    /\ MayEnter(m)
    /\ mover' = [mover EXCEPT ![m].pc = "write", ![m].from = stage]
    /\ UNCHANGED <<stage, evidence, held, commission, recorder, reopened>>

\* chargebackCommissionsForJob: the rows not paid out yet.
ChargedBackBug(row) == IF row = "none" THEN row ELSE "charged_back"   \* mutant: the paid ones too
ChargedBack(row) == IF row \in {"pending", "approved"} THEN "charged_back" ELSE row

\* The UPDATE names the job alone; entering lost charges back in the same transaction.
Write(m) ==
    /\ mover[m].pc = "write"
    /\ stage' = mover[m].to
    /\ commission' = IF mover[m].to = Lost THEN ChargedBack(commission) ELSE commission
    /\ reopened' = (reopened \/ (mover[m].from = Lost /\ mover[m].to # Lost))
    /\ MoverTo(m, "done")
    /\ UNCHANGED <<evidence, held, recorder>>

\* A gate refuses, a required document is missing, or the transaction fails: it rolls
\* back, and an event's function starts over.
Fails(m) ==
    /\ mover[m].pc \in {"gate", "write"}
    /\ \E pc \in {"done"} \cup (IF mover[m].kind = "board" THEN {} ELSE {"read"}) : MoverTo(m, pc)
    /\ UNCHANGED <<stage, evidence, held, commission, recorder, reopened>>

-----------------------------------------------------------------------------
(* recordCommission, on invoice/paid; the payout is the owner's.           *)

FindCommission(r) ==
    /\ recorder[r] = "idle"
    /\ evidence[Paid]
    /\ recorder' = [recorder EXCEPT ![r] = IF commission = "none" THEN "insert" ELSE "done"]
    /\ UNCHANGED <<stage, evidence, held, mover, commission, reopened>>

\* The unique index on (tenant, invoice) with ON CONFLICT DO NOTHING.
Keeps(row) == IF row = "none" THEN "pending" ELSE row

InsertCommission(r) ==
    /\ recorder[r] = "insert"
    /\ commission' = Keeps(commission)
    /\ recorder' = [recorder EXCEPT ![r] = "done"]
    /\ UNCHANGED <<stage, evidence, held, mover, reopened>>

Payout ==
    /\ commission \in {"pending", "approved"}
    /\ commission' = IF commission = "pending" THEN "approved" ELSE "paid"
    /\ UNCHANGED <<stage, evidence, held, mover, recorder, reopened>>

-----------------------------------------------------------------------------
Next ==
    \/ \E k \in Gates : Appears(k) \/ Vanishes(k)
    \/ \E m \in Movers : StartMove(m) \/ ReadFirst(m) \/ ReadAndGate(m) \/ Write(m) \/ Fails(m)
    \/ \E r \in Recorders : FindCommission(r) \/ InsertCommission(r)
    \/ Payout

Spec == Init /\ [][Next]_vars

-----------------------------------------------------------------------------
(* Safety.                                                                 *)

\* A stage is earned: unless staff reopened a lost job, every gate up to the stage was
\* met at some time, however the movers interleave and whatever evidence came and went.
StageIsEarned ==
    (stage # Lost /\ ~reopened) => \A k \in 1..stage : held[k]

\* What makes it inductive: a stage above the gate is never written on evidence the job never had: also what a
\* transaction is about to write.
PlansAreEarned ==
    \A m \in Movers : (mover[m].pc = "write" /\ mover[m].to # Lost /\ ~reopened /\ mover[m].from # Lost)
        => \A k \in 1..mover[m].to : held[k]

\* Money that left is never charged back, and a charged back commission is final,
\* whoever records it again: no double pay.
PayoutsAreFinal ==
    [][/\ commission = "paid" => commission' = "paid"
       /\ commission = "charged_back" => commission' = "charged_back"]_vars

-----------------------------------------------------------------------------
(* What the repository says and the code does not do.                      *)

\* "a signal can never regress a job": a move to a stage ahead, while the signal was
\* between its read and its update, is overwritten.
SignalsNeverRegress ==
    [][\A m \in Movers :
         (mover[m].pc = "write" /\ mover'[m].pc = "done" /\ mover[m].kind \notin {"board", "accepted"})
            => stage' >= stage]_vars

\* "a job's stage is a consequence of evidence": out of lost every stage is a step back,
\* which takes a reason and no evidence.
StageFollowsEvidence == stage # Lost => \A k \in 1..stage : held[k]

\* "a job cancelled / called back (to lost) auto-charges-back any commission not yet paid
\* out": one recorded after the job was lost is not.
LostOwesNothing == stage = Lost => commission \notin {"pending", "approved"}
=============================================================================

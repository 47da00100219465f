--------------------------- MODULE EstimateAccept ---------------------------
(***************************************************************************)
(* The acceptance gate of one estimate: the accept page mints the signing  *)
(* and deposit artifacts, DocuSeal and Stripe report the two halves in any *)
(* order, and whichever webhook finds the gate complete announces          *)
(* estimate/accepted.  The rep's own "send for signature" mints a          *)
(* submission beside the page.                                             *)
(*                                                                         *)
(* Every read and every update is a transaction of its own.                *)
(***************************************************************************)
EXTENDS Naturals, FiniteSets

CONSTANTS
    Begins,           \* calls of beginEstimateAcceptance (bound: one each)
    Sends,            \* runs of createEstimateSubmission (bound: one each)
    Submissions,      \* DocuSeal submissions
    Sessions,         \* Stripe Checkout sessions of the deposit
    Hooks,            \* webhook deliveries (bound: one each)
    CollectsDeposit,  \* Stripe is connected and deposit_percentage_bps > 0
    None

ASSUME CollectsDepositAssumption == CollectsDeposit \in BOOLEAN
ASSUME NoneAssumption == None \notin Begins \cup Sends \cup Submissions \cup Sessions \cup Hooks

VARIABLES
    estimate,     \* the estimate row
    expired,      \* validityDays have passed since it was sent
    begin,        \* accept page calls
    send,         \* send-for-signature runs
    submission,   \* DocuSeal's submissions: "unused", "minted" or "signed"
    checkout,     \* Stripe's sessions: "unused", "minted" or "paid"
    hook,         \* webhook deliveries
    accepted      \* hooks whose estimate/accepted reached the bus

mintVars == <<begin, send>>
outsideVars == <<submission, checkout>>
gateVars == <<estimate, expired, mintVars, outsideVars, hook, accepted>>

-----------------------------------------------------------------------------
EstimateRow == [status: {"draft", "sent", "accepted"}, submission: Submissions \cup {None},
                url: Submissions \cup {None},   \* the submission signing_url leads to
                session: Sessions \cup {None}, deposit: BOOLEAN, signed: BOOLEAN, paid: BOOLEAN]
BeginRow == [pc: {"idle", "sign", "deposit", "store", "done"},
             submission: Submissions \cup {None}, url: Submissions \cup {None},
             session: Sessions \cup {None}]
SendRow  == [pc: {"idle", "mint", "store", "done"}, submission: Submissions \cup {None}]
HookPc   == {"idle", "stampSigned", "gateSigned", "readPaid", "stampPaid", "gatePaid",
             "done", "lost", "failed"}

GateTypeOK ==
    /\ estimate \in EstimateRow
    /\ expired \in BOOLEAN
    /\ begin \in [Begins -> BeginRow]
    /\ send \in [Sends -> SendRow]
    /\ submission \in [Submissions -> {"unused", "minted", "signed"}]
    /\ checkout \in [Sessions -> {"unused", "minted", "paid"}]
    /\ hook \in [Hooks -> HookPc]
    /\ accepted \subseteq Hooks

GateInit ==
    /\ estimate = [status |-> "draft", submission |-> None, url |-> None, session |-> None,
                   deposit |-> FALSE, signed |-> FALSE, paid |-> FALSE]
    /\ expired = FALSE
    /\ begin = [b \in Begins |-> [pc |-> "idle", submission |-> None, url |-> None, session |-> None]]
    /\ send = [s \in Sends |-> [pc |-> "idle", submission |-> None]]
    /\ submission = [u \in Submissions |-> "unused"]
    /\ checkout = [c \in Sessions |-> "unused"]
    /\ hook = [h \in Hooks |-> "idle"]
    /\ accepted = {}

-----------------------------------------------------------------------------
(* beginEstimateAcceptance, from the public estimate page.                 *)

Expire ==
    /\ ~expired
    /\ expired' = TRUE
    /\ UNCHANGED <<estimate, mintVars, outsideVars, hook, accepted>>

\* An artifact stored already is reused, as far as this read can tell.
Reuses(artifact) == artifact # None

BeginRead(b) ==
    /\ begin[b].pc = "idle"
    /\ estimate.status # "accepted"
    /\ ~expired
    /\ begin' = [begin EXCEPT ![b] =
          [pc |-> IF Reuses(estimate.url) /\ Reuses(estimate.submission) THEN "deposit" ELSE "sign",
           submission |-> estimate.submission, url |-> estimate.url, session |-> estimate.session]]
    /\ UNCHANGED <<estimate, expired, send, outsideVars, hook, accepted>>

MintSubmission(b) ==
    /\ begin[b].pc = "sign"
    /\ \E u \in Submissions :
         /\ submission[u] = "unused"
         /\ submission' = [submission EXCEPT ![u] = "minted"]
         /\ begin' = [begin EXCEPT ![b].pc = "deposit", ![b].submission = u, ![b].url = u]
    /\ UNCHANGED <<estimate, expired, send, checkout, hook, accepted>>

MintSession(b) ==
    /\ begin[b].pc = "deposit"
    /\ CollectsDeposit /\ ~Reuses(begin[b].session)
    /\ \E c \in Sessions :
         /\ checkout[c] = "unused"
         /\ checkout' = [checkout EXCEPT ![c] = "minted"]
         /\ begin' = [begin EXCEPT ![b].pc = "store", ![b].session = c]
    /\ UNCHANGED <<estimate, expired, send, submission, hook, accepted>>

NoSession(b) ==
    /\ begin[b].pc = "deposit"
    /\ ~CollectsDeposit \/ Reuses(begin[b].session)
    /\ begin' = [begin EXCEPT ![b].pc = "store"]
    /\ UNCHANGED <<estimate, expired, send, outsideVars, hook, accepted>>

\* One UPDATE stores the artifacts and the deposit; the links are shown after it.
DepositDue == CollectsDeposit

StoreArtifacts(b) ==
    /\ begin[b].pc = "store"
    /\ estimate' = [estimate EXCEPT !.submission = begin[b].submission, !.url = begin[b].url,
                                    !.session = begin[b].session, !.deposit = DepositDue]
    /\ begin' = [begin EXCEPT ![b].pc = "done"]
    /\ UNCHANGED <<expired, send, outsideVars, hook, accepted>>

BeginFails(b) ==
    /\ begin[b].pc \in {"sign", "deposit", "store"}
    /\ begin' = [begin EXCEPT ![b].pc = "done"]
    /\ UNCHANGED <<estimate, expired, send, outsideVars, hook, accepted>>

-----------------------------------------------------------------------------
(* createEstimateSubmission: read, DocuSeal, update, in one transaction    *)
(* that locks nothing until its update.                                    *)

SendRead(s) ==
    /\ send[s].pc = "idle"
    /\ estimate.status # "accepted"
    /\ send' = [send EXCEPT ![s].pc = "mint"]
    /\ UNCHANGED <<estimate, expired, begin, outsideVars, hook, accepted>>

SendMint(s) ==
    /\ send[s].pc = "mint"
    /\ \E u \in Submissions :
         /\ submission[u] = "unused"
         /\ submission' = [submission EXCEPT ![u] = "minted"]
         /\ send' = [send EXCEPT ![s] = [pc |-> "store", submission |-> u]]
    /\ UNCHANGED <<estimate, expired, begin, checkout, hook, accepted>>

\* The id is replaced; a signing link the page stored stays.
SendStore(s) ==
    /\ send[s].pc = "store"
    /\ estimate' = [estimate EXCEPT !.status = "sent", !.submission = send[s].submission]
    /\ expired' = FALSE
    /\ send' = [send EXCEPT ![s].pc = "done"]
    /\ UNCHANGED <<begin, outsideVars, hook, accepted>>

\* A failed attempt is retried by Inngest: from the read, with another submission.
SendFails(s) ==
    /\ send[s].pc \in {"mint", "store"}
    /\ send' = [send EXCEPT ![s] = [pc |-> "idle", submission |-> None]]
    /\ UNCHANGED <<estimate, expired, begin, outsideVars, hook, accepted>>

-----------------------------------------------------------------------------
(* The homeowner.  DocuSeal mails its link when it mints; Stripe's link is *)
(* only on the page.                                                       *)

Sign(u) ==
    /\ submission[u] = "minted"
    /\ submission' = [submission EXCEPT ![u] = "signed"]
    /\ UNCHANGED <<estimate, expired, mintVars, checkout, hook, accepted>>

PayDeposit(c) ==
    /\ checkout[c] = "minted"
    /\ \E b \in Begins : begin[b].pc = "done" /\ begin[b].session = c
    /\ checkout' = [checkout EXCEPT ![c] = "paid"]
    /\ UNCHANGED <<estimate, expired, mintVars, submission, hook, accepted>>

-----------------------------------------------------------------------------
(* The two webhooks.                                                       *)

\* DocuSeal: the estimate is found by the submission id it stores; an accepted one,
\* and an id nobody stores, are ignored.
DeliverSigned(h, u) ==
    /\ hook[h] = "idle"
    /\ submission[u] = "signed"
    /\ hook' = [hook EXCEPT ![h] =
          IF estimate.submission = u /\ estimate.status # "accepted" THEN "stampSigned" ELSE "done"]
    /\ UNCHANGED <<estimate, expired, mintVars, outsideVars, accepted>>

\* acceptanceReady, on a row read after the hook's own stamp.
ReadyBug == estimate.signed               \* mutant: the deposit half forgotten
Ready == estimate.signed /\ (estimate.deposit => estimate.paid)

\* Whoever finds the gate complete announces it; the emit may be lost.
Announce(h) ==
    \/ ~Ready /\ hook' = [hook EXCEPT ![h] = "done"] /\ UNCHANGED accepted
    \/  Ready /\ hook' = [hook EXCEPT ![h] = "done"] /\ accepted' = accepted \cup {h}
    \/  Ready /\ hook' = [hook EXCEPT ![h] = "lost"] /\ UNCHANGED accepted

StampSigned(h) ==
    /\ hook[h] = "stampSigned"
    /\ estimate' = [estimate EXCEPT !.signed = TRUE]
    /\ hook' = [hook EXCEPT ![h] = "gateSigned"]
    /\ UNCHANGED <<expired, mintVars, outsideVars, accepted>>

GateSigned(h) ==
    /\ hook[h] = "gateSigned"
    /\ Announce(h)
    /\ UNCHANGED <<estimate, expired, mintVars, outsideVars>>

\* Stripe: the estimate is named by the session's metadata; only a settled session
\* gets this far.
Settled(c) == checkout[c] = "paid"

DeliverPaid(h, c) ==
    /\ hook[h] = "idle"
    /\ Settled(c)
    /\ hook' = [hook EXCEPT ![h] = "readPaid"]
    /\ UNCHANGED <<estimate, expired, mintVars, outsideVars, accepted>>

\* A deposit recorded already announces nothing.
ReadPaid(h) ==
    /\ hook[h] = "readPaid"
    /\ hook' = [hook EXCEPT ![h] = IF estimate.paid THEN "done" ELSE "stampPaid"]
    /\ UNCHANGED <<estimate, expired, mintVars, outsideVars, accepted>>

StampPaid(h) ==
    /\ hook[h] = "stampPaid"
    /\ estimate' = [estimate EXCEPT !.paid = TRUE]
    /\ hook' = [hook EXCEPT ![h] = "gatePaid"]
    /\ UNCHANGED <<expired, mintVars, outsideVars, accepted>>

GatePaidBug(h) ==                         \* mutant: only the signature may complete the gate
    /\ hook[h] = "gatePaid"
    /\ hook' = [hook EXCEPT ![h] = "done"]
    /\ UNCHANGED <<estimate, expired, mintVars, outsideVars, accepted>>

GatePaid(h) ==
    /\ hook[h] = "gatePaid"
    /\ Announce(h)
    /\ UNCHANGED <<estimate, expired, mintVars, outsideVars>>

\* An error is logged and answered with 200: the sender does not come back for it.
HookFails(h) ==
    /\ hook[h] \notin {"idle", "done", "lost", "failed"}
    /\ hook' = [hook EXCEPT ![h] = "failed"]
    /\ UNCHANGED <<estimate, expired, mintVars, outsideVars, accepted>>

-----------------------------------------------------------------------------
BeginStep(b) == BeginRead(b) \/ MintSubmission(b) \/ MintSession(b) \/ NoSession(b) \/ StoreArtifacts(b)
SendStep(s)  == SendRead(s) \/ SendMint(s) \/ SendStore(s)
HookStep(h)  == StampSigned(h) \/ GateSigned(h) \/ ReadPaid(h) \/ StampPaid(h) \/ GatePaid(h)

GateNext ==
    \/ Expire
    \/ \E b \in Begins : BeginStep(b) \/ BeginFails(b)
    \/ \E s \in Sends : SendStep(s) \/ SendFails(s)
    \/ \E u \in Submissions : Sign(u)
    \/ \E c \in Sessions : PayDeposit(c)
    \/ \E h \in Hooks, u \in Submissions : DeliverSigned(h, u)
    \/ \E h \in Hooks, c \in Sessions : DeliverPaid(h, c)
    \/ \E h \in Hooks : HookStep(h) \/ HookFails(h)

GateSpec == GateInit /\ [][GateNext]_gateVars

-----------------------------------------------------------------------------
(* Safety.                                                                 *)

\* No rep sent the estimate for signature: all its artifacts come from the accept page.
FromThePage == \A s \in Sends : send[s].pc # "done"

\* An estimate whose artifacts all come from the accept page is announced accepted
\* only when it is signed and, where a deposit is due, the deposit settled: in any
\* order, delivered twice, with two pages open.
GateRespected ==
    (accepted # {} /\ FromThePage) => estimate.signed /\ (CollectsDeposit => estimate.paid)

\* The two halves never miss each other: each webhook looks at the gate after its
\* own stamp, so when both are in and nothing failed, one of them has announced it.
GateNotMissed ==
    (/\ estimate.signed /\ (estimate.deposit => estimate.paid)
     /\ \A h \in Hooks : hook[h] \in {"idle", "done"})
        => accepted # {}

\* The gate, whichever half comes last and however often it is delivered: it opens only on
\* both halves, and once both are in it has opened, unless a delivery failed.
GateInv == GateRespected /\ GateNotMissed

\* A stamp is backed by the outside world: no signature or deposit is recorded that
\* DocuSeal or Stripe does not know of.
StampsAreBacked ==
    /\ estimate.signed => \E u \in Submissions : submission[u] = "signed"
    /\ estimate.paid => \E c \in Sessions : checkout[c] = "paid"

-----------------------------------------------------------------------------
(* What the repository says and the code does not do.                      *)

\* beginEstimateAcceptance: "Idempotent artifact minting: reuse what a prior accept
\* already created"; two open pages mint two deposit sessions.
MintedOnce == Cardinality({c \in Sessions : checkout[c] # "unused"}) <= 1

\* estimate-accept.ts: the gate is "signed AND deposited-when-required"; the rep's own
\* submission carries no deposit, so signing it opens the gate alone.
DepositBeforeAcceptance == (accepted # {} /\ CollectsDeposit) => estimate.paid

\* "RED PATH: no acceptance at stale prices": only the start of an acceptance checks.
NeverSignedStale == [][(~estimate.signed /\ estimate'.signed) => ~expired]_gateVars
=============================================================================

--------------------------- MODULE RepairCredits ---------------------------
(***************************************************************************)
(* RepairCredits: what a customer paid for a repair comes off the roof     *)
(* that is sold to them later.  The pre-draft of the replacement estimate  *)
(* is re-priced by every photo of a live inspection and once more at its   *)
(* completion, each time followed by the credit that is still active; the  *)
(* draft at the end of the appointment does the second half only.  The     *)
(* editor of an estimate and an upsell accepted there write its lines too. *)
(*                                                                         *)
(* Statements of a READ COMMITTED transaction read what is committed then; *)
(* its writes, by row id alone, appear together at its end.                *)
(***************************************************************************)
EXTENDS Naturals

CONSTANTS
    Leads,       \* leads of one customer, each measured and with one inspection
    Estimates,   \* rows of table estimate (bound: their number)
    Credits,     \* rows of table repair_credit, one per repair invoice, by order of issue
    Lapse,       \* age at which a credit is past expires_at; a check-in falls due before
    Handlers,    \* runs of the three functions (bound: one each)
    MaxTries,    \* attempts of an Inngest step (3 in the code)
    Editors,     \* open pages of the editor, and upsells being accepted
    Nil

ASSUME CreditAssumption ==
    /\ Credits \subseteq Nat /\ Lapse \in Nat \ {0} /\ MaxTries \in Nat \ {0}
    /\ Nil \notin Leads \cup Estimates \cup Credits

VARIABLES
    live,       \* leads whose inspection is in progress or awaits its approval
    estimate,   \* table estimate
    credit,     \* table repair_credit
    handler,    \* runs of the live build, the finalizer and the drafting function
    raced,      \* credits applied while another apply was under way (history)
    repriced,   \* credits whose line a re-price replaced (history)
    editor,     \* what a page or an upsell read of an estimate
    edited      \* credits whose line a save of a page or an upsell took (history)

creditVars == <<live, estimate, credit, handler, raced, repriced, editor, edited>>

-----------------------------------------------------------------------------
EstimateRow == [lead : Leads \cup {Nil}, status : {"draft", "sent", "accepted"},
                lines : SUBSET Credits]    \* the credit lines among line_items
CreditRow == [status : {"absent", "active", "applied", "expired"}, age : 0..Lapse,
              on : Estimates \cup {Nil}]   \* applied_estimate_id
HandlerRow ==
    [kind : {"media", "final", "draft"},
     pc : {"idle", "refresh", "reprice", "draft", "create", "drafted", "lines", "pick", "write",
           "ack", "done", "failed"},
     lead : Leads \cup {Nil}, est : Estimates \cup {Nil}, seen : SUBSET Credits,
     credit : Credits \cup {Nil}, tries : 0..MaxTries]
EditorRow == [kind : {"page", "upsell"}, est : Estimates \cup {Nil}, lines : SUBSET Credits]
NoPage == [kind |-> "page", est |-> Nil, lines |-> {}]

CreditInit ==
    /\ live = Leads
    /\ estimate = [e \in Estimates |-> [lead |-> Nil, status |-> "draft", lines |-> {}]]
    /\ credit = [c \in Credits |-> [status |-> "absent", age |-> 0, on |-> Nil]]
    /\ handler = [h \in Handlers |-> [kind |-> "media", pc |-> "idle", lead |-> Nil, est |-> Nil,
                                      seen |-> {}, credit |-> Nil, tries |-> 0]]
    /\ raced = {} /\ repriced = {}
    /\ editor = [x \in Editors |-> NoPage] /\ edited = {}

Of(l) == {e \in Estimates : estimate[e].lead = l}
Active == {c \in Credits : credit[c].status = "active"}
Lapsed(c) == credit[c].age = Lapse
AtRest(h) == handler[h].pc \in {"idle", "done", "failed"}
InApply(h) == handler[h].pc \in {"pick", "write"}
Goto(h, pc) == handler' = [handler EXCEPT ![h].pc = pc]

-----------------------------------------------------------------------------
(* Credits and what else happens to estimates.                             *)

\* The caller is not in the repository.
Issue(c) ==
    /\ credit[c].status = "absent" /\ \A d \in Credits : d < c => credit[d].status # "absent"
    /\ credit' = [credit EXCEPT ![c].status = "active"]
    /\ UNCHANGED <<live, estimate, handler, raced, repriced, editor, edited>>

\* Time passes for a credit; one issued earlier is no younger.
Age(c) ==
    /\ credit[c].status # "absent"
    /\ \E a \in (credit[c].age + 1)..Lapse :
          /\ \A d \in Credits : d < c => credit[d].age >= a
          /\ credit' = [credit EXCEPT ![c].age = a]
    /\ UNCHANGED <<live, estimate, handler, raced, repriced, editor, edited>>

Expires(c) == credit[c].status = "active" /\ Lapsed(c)
Expire ==
    /\ credit' = [c \in Credits |-> IF Expires(c) THEN [credit[c] EXCEPT !.status = "expired"]
                                                  ELSE credit[c]]
    /\ UNCHANGED <<live, estimate, handler, raced, repriced, editor, edited>>

Approve(l) ==
    /\ l \in live /\ live' = live \ {l}
    /\ UNCHANGED <<estimate, credit, handler, raced, repriced, editor, edited>>

SetEstimateStatus(e) ==
    /\ estimate[e].lead # Nil /\ estimate[e].status # "accepted"
    /\ estimate' = [estimate EXCEPT ![e].status = IF @ = "draft" THEN "sent" ELSE "accepted"]
    /\ UNCHANGED <<live, credit, handler, raced, repriced, editor, edited>>

-----------------------------------------------------------------------------
(* The editor.  Neither of its writes asks for the status or the lines the *)
(* estimate has by then.                                                   *)

\* A page keeps the lines it was opened with; an upsell reads them in its transaction.
Open(x, kind, e) ==
    /\ estimate[e].lead # Nil
    /\ editor' = [editor EXCEPT ![x] = [kind |-> kind, est |-> e, lines |-> estimate[e].lines]]
    /\ UNCHANGED <<live, estimate, credit, handler, raced, repriced, edited>>

\* A row may have been removed from the page.  An upsell puts back what it read.
Keeps(x) == IF editor[x].kind = "page" THEN SUBSET editor[x].lines ELSE {editor[x].lines}

Save(x) ==
    LET e == editor[x].est IN
    /\ e # Nil
    /\ \E kept \in Keeps(x) :
          /\ estimate' = [estimate EXCEPT ![e].lines = kept]
          /\ edited' = edited \cup (estimate[e].lines \ kept)
          /\ editor' = [editor EXCEPT ![x] = IF editor[x].kind = "page"
                                             THEN [editor[x] EXCEPT !.lines = kept] ELSE NoPage]
    /\ UNCHANGED <<live, credit, handler, raced, repriced>>

-----------------------------------------------------------------------------
(* Handlers.  Media events of one inspection are handled one by one.       *)

Start(h, kind, l) ==
    /\ handler[h].pc = "idle"
    /\ kind = "media" => \A g \in Handlers :
          handler[g].kind = "media" /\ handler[g].lead = l => AtRest(g)
    /\ handler' = [handler EXCEPT ![h].kind = kind, ![h].lead = l,
                                  ![h].pc = IF kind = "draft" THEN "draft" ELSE "refresh"]
    /\ UNCHANGED <<live, estimate, credit, raced, repriced, editor, edited>>

ReadRefresh(h) ==
    /\ handler[h].pc = "refresh"
    /\ \/ handler[h].lead \notin live /\ Goto(h, "ack")
       \/ handler[h].lead \in live /\ Of(handler[h].lead) = {} /\ Goto(h, "create")
       \/ /\ handler[h].lead \in live
          /\ \E e \in Of(handler[h].lead) :
                handler' = [handler EXCEPT ![h].est = e,
                               ![h].pc = IF estimate[e].status = "draft" THEN "reprice" ELSE "ack"]
    /\ UNCHANGED <<live, estimate, credit, raced, repriced, editor, edited>>

Reprice(h) ==
    /\ handler[h].pc = "reprice"
    /\ repriced' = repriced \cup estimate[handler[h].est].lines
    /\ estimate' = [estimate EXCEPT ![handler[h].est].lines = {}]
    /\ Goto(h, "lines")
    /\ UNCHANGED <<live, credit, raced, editor, edited>>

ReadDraft(h) ==
    /\ handler[h].pc = "draft"
    /\ Goto(h, IF Of(handler[h].lead) = {} THEN "create" ELSE "ack")
    /\ UNCHANGED <<live, estimate, credit, raced, repriced, editor, edited>>

Create(h) ==
    /\ handler[h].pc = "create"
    /\ \E e \in Of(Nil) :
          /\ estimate' = [estimate EXCEPT ![e].lead = handler[h].lead]
          /\ handler' = [handler EXCEPT ![h].est = e,
                            ![h].pc = IF handler[h].kind = "draft" THEN "drafted" ELSE "lines"]
    /\ UNCHANGED <<live, credit, raced, repriced, editor, edited>>

\* The result of the step "draft" is kept; the credit is a step of its own.
Drafted(h) ==
    /\ handler[h].pc = "drafted"
    /\ handler' = [handler EXCEPT ![h].pc = "lines", ![h].tries = 0]
    /\ UNCHANGED <<live, estimate, credit, raced, repriced, editor, edited>>

TakesCreditBug(e) == estimate[e].status \in {"draft", "sent"}     \* mutant: no look at the lines
TakesCredit(e) == estimate[e].status \in {"draft", "sent"} /\ estimate[e].lines = {}
ReadLines(h) ==
    /\ handler[h].pc = "lines"
    /\ IF TakesCredit(handler[h].est)
          THEN handler' = [handler EXCEPT ![h].pc = "pick", ![h].seen = estimate[handler[h].est].lines]
          ELSE Goto(h, "ack")
    /\ UNCHANGED <<live, estimate, credit, raced, repriced, editor, edited>>

\* The newest active credit, if it has not lapsed unswept.
Pick(h) ==
    /\ handler[h].pc = "pick"
    /\ \/ /\ \A c \in Active : Lapsed(c) \/ \E d \in Active : c < d
          /\ Goto(h, "ack")
       \/ \E c \in Active :
            /\ ~Lapsed(c) /\ \A d \in Active : d <= c
            /\ handler' = [handler EXCEPT ![h].pc = "write", ![h].credit = c]
    /\ UNCHANGED <<live, estimate, credit, raced, repriced, editor, edited>>

WriteApply(h) ==
    LET e == handler[h].est
        c == handler[h].credit
    IN  /\ handler[h].pc = "write"
        /\ estimate' = [estimate EXCEPT ![e].lines = handler[h].seen \cup {c}]
        /\ credit' = [credit EXCEPT ![c].status = "applied", ![c].on = e]
        /\ raced' = IF \E g \in Handlers \ {h} : InApply(g) THEN raced \cup {c} ELSE raced
        /\ Goto(h, "ack")
        /\ UNCHANGED <<live, repriced, editor, edited>>

Ends(h, pc) ==
    handler' = [handler EXCEPT ![h] =
        [kind |-> handler[h].kind, pc |-> pc, lead |-> handler[h].lead, est |-> Nil,
         seen |-> {}, credit |-> Nil, tries |-> 0]]

Ack(h) ==
    /\ handler[h].pc = "ack" /\ Ends(h, "done")
    /\ UNCHANGED <<live, estimate, credit, raced, repriced, editor, edited>>

\* A failed attempt runs its step again: refresh and apply are one step for the inspection,
\* two for the appointment.
Again(h) == CASE handler[h].kind # "draft" -> "refresh"
              [] handler[h].pc \in {"draft", "create", "drafted"} -> "draft"
              [] OTHER -> IF handler[h].est = Nil THEN "draft" ELSE "lines"
Fails(h) ==
    /\ ~AtRest(h)
    /\ IF handler[h].tries + 1 = MaxTries
          THEN Ends(h, "failed")
          ELSE handler' = [handler EXCEPT ![h].tries = @ + 1, ![h].seen = {}, ![h].credit = Nil,
                                          ![h].pc = Again(h)]
    /\ UNCHANGED <<live, estimate, credit, raced, repriced, editor, edited>>

HandlerStep(h) ==
    \/ ReadRefresh(h) \/ Reprice(h) \/ ReadDraft(h) \/ Create(h) \/ Drafted(h)
    \/ ReadLines(h) \/ Pick(h) \/ WriteApply(h) \/ Ack(h)

CreditStep ==
    \/ \E c \in Credits : Issue(c) \/ Age(c)
    \/ \E l \in Leads : Approve(l)
    \/ \E e \in Estimates : SetEstimateStatus(e)
    \/ \E h \in Handlers :
          \/ \E kind \in {"media", "final", "draft"}, l \in Leads : Start(h, kind, l)
          \/ HandlerStep(h) \/ Fails(h)
    \/ \E x \in Editors :
          \/ \E kind \in {"page", "upsell"}, e \in Estimates : Open(x, kind, e)
          \/ Save(x)

CreditNext == CreditStep \/ Expire

CreditSpec == CreditInit /\ [][CreditNext]_creditVars

-----------------------------------------------------------------------------
(* Safety.                                                                 *)

CreditTypeOK ==
    /\ live \subseteq Leads
    /\ estimate \in [Estimates -> EstimateRow]
    /\ credit \in [Credits -> CreditRow]
    /\ handler \in [Handlers -> HandlerRow]
    /\ raced \subseteq Credits /\ repriced \subseteq Credits
    /\ editor \in [Editors -> EditorRow] /\ edited \subseteq Credits

\* No estimate is discounted by a credit that is still to be had or that expired,
\* whichever of the expiry sweep and an apply under way comes last.
LinesAreSpent == \A e \in Estimates : \A c \in estimate[e].lines : credit[c].status = "applied"

\* Retries, replays and overlapping runs never stack two credit lines on one estimate.
OneLine == \A e \in Estimates : \A c, d \in estimate[e].lines : c = d

\* One credit discounts two estimates of its customer only if two applies overlapped.
OnOneEstimate ==
    \A c \in Credits \ raced : \A e, f \in Estimates :
        c \in estimate[e].lines /\ c \in estimate[f].lines => e = f

\* A spent credit is missing from the estimate it names only if a re-price replaced its line,
\* a save of the editor or an upsell wrote lines without it, or two applies overlapped.
OnItsEstimate ==
    \A c \in Credits \ (raced \cup repriced \cup edited) :
        credit[c].status = "applied" =>
            credit[c].on \in Estimates /\ c \in estimate[credit[c].on].lines

\* A credit is money once: what repair-credit.ts promises of it, where the code keeps it.
CreditsInv == CreditTypeOK /\ LinesAreSpent /\ OneLine /\ OnOneEstimate /\ OnItsEstimate

-----------------------------------------------------------------------------
(* What the repository says and the code does not do.                      *)

\* "the active repair credit re-applies after every refresh (...): no replacement estimate
\* omits an active credit": the second refresh takes the line away, and the credit is no
\* longer active.  Once no run is under way and none has failed:
AppliedIsShown ==
    (\A h \in Handlers : handler[h].pc \in {"idle", "done"}) =>
        \A c \in Credits : credit[c].status = "applied" =>
            \E e \in Estimates : c \in estimate[e].lines
=============================================================================

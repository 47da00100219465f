----------------------------- MODULE MCPromises -----------------------------
(***************************************************************************)
(* Instances of what is promised to a referrer and to a customer, one cast *)
(* of actors for each behaviour:                                           *)
(*   fees      the referral fees of one job of two invoices;               *)
(*   leads     one credit, two leads, two handlers;                        *)
(*   credits   two credits, one lead, two handlers;                        *)
(*   edits     the same without failures, and one page or upsell;          *)
(*   locks     one credit, an estimate that is sent and accepted;          *)
(*   record    one handler, and everything that can happen to its lead;    *)
(*   checkins  the sweep over one credit, and one handler.                 *)
(* Rows and runs of a kind are alike, so they start in a fixed order.      *)
(***************************************************************************)
EXTENDS ReferralFees, CreditCheckins, Sequences

CONSTANTS j1, l1, l2, e1, e2, h1, h2

VARIABLE cast

MCVars == <<vars, checkinVars, cast>>
MCFee == [j \in Jobs |-> 2]
MCJobOf == [i \in Invoices |-> j1]

PrefixOf(seq, Used(_)) == \A i \in 2..Len(seq) : Used(seq[i]) => Used(seq[i - 1])
InOrder ==
    /\ PrefixOf(<<e1, e2>>, LAMBDA e : estimate[e].lead # Nil)
    /\ PrefixOf(<<h1, h2>>, LAMBDA h : handler[h].pc # "idle")

OneCredit  == credit[2].status = "absent"
OneLead    == \A h \in Handlers : handler[h].lead # l2
OneHandler == handler[h2].pc = "idle"
Unlocked   == \A e \in Estimates : estimate[e].status = "draft"
AllLive    == live = Leads
NoTime     == \A c \in Credits : credit[c].age = 0
NoFault    == \A h \in Handlers : handler[h].tries = 0 /\ handler[h].pc # "failed"
NoEditor   == \A x \in Editors : editor[x] = NoPage
NoGap      == \A c \in Credits : credit[c].age \in {0, Lapse}

Plays ==
    /\ cast # "edits" => NoEditor
    /\ CASE cast = "leads"    -> OneCredit /\ Unlocked /\ AllLive /\ NoGap /\ NoFault
         [] cast = "credits"  -> OneLead /\ Unlocked /\ AllLive /\ NoTime
         [] cast = "edits"    -> OneLead /\ Unlocked /\ AllLive /\ NoTime /\ NoFault
         [] cast = "locks"    -> OneLead /\ OneCredit /\ AllLive /\ NoTime /\ NoFault
         [] cast = "record"   -> OneLead /\ OneHandler /\ NoGap
         [] cast = "checkins" -> /\ OneLead /\ OneCredit /\ OneHandler /\ Unlocked /\ AllLive /\ NoFault
                                 /\ handler[h1].kind = "media"

MCInit ==
    /\ Init /\ CheckinInit
    /\ cast \in {"fees", "leads", "credits", "edits", "locks", "record", "checkins"}

CastNext ==
    CASE cast = "fees"     -> Next /\ UNCHANGED checkinVars
      [] cast = "checkins" -> UNCHANGED vars /\ CheckinNext /\ Plays'
      [] OTHER             -> UNCHANGED <<vars, sweepVars>> /\ CreditNext /\ Plays'

MCNext ==
    /\ UNCHANGED cast
    /\ CastNext
    /\ InOrder'

\* The fairness of FairSpec and of CheckinFairSpec; the sweep comes only in its own cast.
MCSpec ==
    /\ MCInit /\ [][MCNext]_MCVars
    /\ \A r \in Runs : WF_vars(Look(r) \/ ReadSetting(r) \/ Insert(r) \/ InsertCard(r) \/ Record(r))
    /\ WF_MCVars(cast = "checkins" /\ SweepStep /\ UNCHANGED <<vars, cast>>)
=============================================================================

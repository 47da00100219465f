--------------------------- MODULE CreditCheckins ---------------------------
(***************************************************************************)
(* CreditCheckins: the daily sweep beside RepairCredits.  It expires the   *)
(* credits past their date, then texts the customer about each one still   *)
(* active at the ages 1 to Lapse - 1 (12, 24 and 33 months), through the   *)
(* touch calendar and the guarded sender, and logs what it did.            *)
(*                                                                         *)
(* Of the governor the customer's own reasons to be left alone are kept:   *)
(* a check-in never bounces off the yearly cap.  Its open touch may be     *)
(* displaced by a storm check while it waits.                              *)
(***************************************************************************)
EXTENDS RepairCredits

CONSTANTS
    QuietAtTen,  \* the tenant's quiet hours cover the hour of the sweep
    MaxFaults    \* deaths of the sweep and errors of the sender (bound)

ASSUME CheckinAssumption == QuietAtTen \in BOOLEAN /\ MaxFaults \in Nat

VARIABLES
    log,     \* repair_credit.checkin_log, by kind
    touch,   \* the live relationship_touch of each check-in
    optOut,  \* customer.sms_opt_out
    hold,    \* customer.claim_dispute_hold
    sweep,   \* the sweep of this tenant
    faults,
    texts,   \* texts handed to the carrier (history)
    stale    \* those about a credit no longer active (history)

sweepVars == <<log, touch, optOut, hold, sweep, faults, texts, stale>>
checkinVars == <<creditVars, sweepVars>>

Kinds == 1..(Lapse - 1)
Checkins == Credits \X Kinds
Nobody == <<0, 0>>
SweepRow == [pc : {"idle", "expire", "due", "next", "schedule", "customer", "send", "mark", "record", "refuse"},
             due : SUBSET Checkins, at : Checkins \cup {Nobody}]

CheckinInit ==
    /\ CreditInit
    /\ log = [c \in Credits |-> {}]
    /\ touch = [x \in Checkins |-> "none"]
    /\ optOut = FALSE /\ hold = FALSE
    /\ sweep = [pc |-> "idle", due |-> {}, at |-> Nobody]
    /\ faults = 0
    /\ texts = [x \in Checkins |-> 0] /\ stale = [c \in Credits |-> 0]

Pc(pc) == sweep' = [sweep EXCEPT !.pc = pc]

-----------------------------------------------------------------------------
(* The sweep.                                                              *)

Cron ==
    /\ sweep.pc = "idle" /\ Pc("expire")
    /\ UNCHANGED <<creditVars, log, touch, optOut, hold, faults, texts, stale>>

SweepExpires ==
    /\ sweep.pc = "expire" /\ Expire
    /\ Pc(IF QuietAtTen THEN "idle" ELSE "due")
    /\ UNCHANGED <<log, touch, optOut, hold, faults, texts, stale>>

\* The latest kind that is due and not logged.
IsDueBug(c, k) == c \in Active /\ k <= credit[c].age /\ ~Lapsed(c)   \* mutant: no look at the log
IsDue(c, k) == c \in Active /\ k <= credit[c].age /\ k \notin log[c] /\ ~Lapsed(c)
ReadDue ==
    /\ sweep.pc = "due"
    /\ sweep' = [sweep EXCEPT !.pc = "next",
          !.due = {x \in Checkins : /\ IsDue(x[1], x[2])
                                    /\ \A k \in Kinds : IsDue(x[1], k) => k <= x[2]}]
    /\ UNCHANGED <<creditVars, log, touch, optOut, hold, faults, texts, stale>>

NextDue ==
    /\ sweep.pc = "next"
    /\ \/ sweep.due = {} /\ sweep' = [pc |-> "idle", due |-> {}, at |-> Nobody]
       \/ \E x \in sweep.due :
             sweep' = [pc |-> "schedule", due |-> sweep.due \ {x}, at |-> x]
    /\ UNCHANGED <<creditVars, log, touch, optOut, hold, faults, texts, stale>>

\* scheduleRelationshipTouch: a dispute refuses, a touch of this check-in serves again, an
\* opt-out refuses, anything else is admitted.
Schedule ==
    /\ sweep.pc = "schedule"
    /\ \/ hold /\ Pc("refuse") /\ UNCHANGED touch
       \/ ~hold /\ touch[sweep.at] # "none" /\ Pc("customer") /\ UNCHANGED touch
       \/ ~hold /\ touch[sweep.at] = "none" /\ optOut /\ Pc("refuse") /\ UNCHANGED touch
       \/ /\ ~hold /\ touch[sweep.at] = "none" /\ ~optOut
          /\ touch' = [touch EXCEPT ![sweep.at] = "open"] /\ Pc("customer")
    /\ UNCHANGED <<creditVars, log, optOut, hold, faults, texts, stale>>

ReadCustomer ==
    /\ sweep.pc = "customer"
    /\ Pc(IF optOut THEN "refuse" ELSE "send")
    /\ UNCHANGED <<creditVars, log, touch, optOut, hold, faults, texts, stale>>

Texted ==
    /\ texts' = [texts EXCEPT ![sweep.at] = @ + 1]
    /\ stale' = [stale EXCEPT ![sweep.at[1]] =
                    IF sweep.at[1] \in Active THEN @ ELSE @ + 1]

\* guardedSms: sent, or blocked by what it looks up itself.
Send ==
    /\ sweep.pc = "send"
    /\ \/ Texted /\ Pc("mark")
       \/ Pc("record") /\ UNCHANGED <<texts, stale>>
    /\ UNCHANGED <<creditVars, log, touch, optOut, hold, faults>>

\* An error from the sender on, the text gone or not: caught, and the check-in stays due.
Throws ==
    /\ sweep.pc \in {"send", "mark", "record"} /\ faults < MaxFaults
    /\ (sweep.pc = "send" /\ Texted) \/ UNCHANGED <<texts, stale>>
    /\ Pc("next") /\ faults' = faults + 1
    /\ UNCHANGED <<creditVars, log, touch, optOut, hold>>

MarkSent ==
    /\ sweep.pc = "mark" /\ Pc("record")
    /\ touch' = [touch EXCEPT ![sweep.at] = IF @ = "open" THEN "sent" ELSE @]
    /\ UNCHANGED <<creditVars, log, optOut, hold, faults, texts, stale>>

LogsBug(x) == IF touch[x] = "sent" THEN {x[2]} ELSE {}   \* mutant: only a touch sent is logged
Logs(x) == {x[2]}
LogCheckin ==
    /\ sweep.pc \in {"record", "refuse"} /\ Pc("next")
    /\ log' = [log EXCEPT ![sweep.at[1]] = @ \cup Logs(sweep.at)]
    /\ UNCHANGED <<creditVars, touch, optOut, hold, faults, texts, stale>>

\* The step of this tenant starts over.
Dies ==
    /\ sweep.pc # "idle" /\ faults < MaxFaults
    /\ faults' = faults + 1
    /\ sweep' = [pc |-> "expire", due |-> {}, at |-> Nobody]
    /\ UNCHANGED <<creditVars, log, touch, optOut, hold, texts, stale>>

SweepStep ==
    \/ Cron \/ SweepExpires \/ ReadDue \/ NextDue \/ Schedule \/ ReadCustomer \/ Send \/ MarkSent
    \/ LogCheckin

-----------------------------------------------------------------------------
(* The customer and the rest of the calendar.                              *)

\* A text STOP; nothing takes it back.
OptOut ==
    /\ ~optOut /\ optOut' = TRUE
    /\ UNCHANGED <<creditVars, log, touch, hold, sweep, faults, texts, stale>>

\* The office opens or closes a claim dispute.
Dispute ==
    /\ hold' = ~hold
    /\ UNCHANGED <<creditVars, log, touch, optOut, sweep, faults, texts, stale>>

Displace(x) ==
    /\ touch[x] = "open" /\ touch' = [touch EXCEPT ![x] = "none"]
    /\ UNCHANGED <<creditVars, log, optOut, hold, sweep, faults, texts, stale>>

CheckinNext ==
    \/ CreditStep /\ UNCHANGED sweepVars
    \/ SweepStep \/ Throws \/ Dies
    \/ OptOut \/ Dispute
    \/ \E x \in Checkins : Displace(x)

CheckinSpec == CheckinInit /\ [][CheckinNext]_checkinVars

\* The cron comes every day, and a sweep begun is carried on.
CheckinFairSpec == CheckinSpec /\ WF_checkinVars(SweepStep)

-----------------------------------------------------------------------------
CheckinTypeOK ==
    /\ log \in [Credits -> SUBSET Kinds]
    /\ touch \in [Checkins -> {"none", "open", "sent"}]
    /\ optOut \in BOOLEAN /\ hold \in BOOLEAN
    /\ sweep \in SweepRow /\ faults \in 0..MaxFaults
    /\ texts \in [Checkins -> Nat] /\ stale \in [Credits -> Nat]

\* A check-in is texted once, and once more for each death or caught error: no displaced
\* touch, reused touch or dispute that comes and goes has it sent again.
OncePerKind == \A x \in Checkins : texts[x] <= 1 + faults

\* A credit applied or expired is written about at most once more, by the sweep that had it
\* on its list.
StaleOnce == \A c \in Credits : stale[c] <= 1

\* What a credit is worth and where it is shown, under the handlers of its estimates and the
\* sweep; and the cadence runs as service, never pressure (repair-credit-sweep.ts:2).
PromisesInv == CreditsInv /\ CheckinTypeOK /\ OncePerKind /\ StaleOnce

\* From a sweep that lists the due check-ins on, all of them come to be logged, sent or
\* refused, while the credit is active: errors, deaths, displacements and disputes only
\* delay it.
CheckinsRun ==
    \A c \in Credits :
        (sweep.pc = "due" /\ c \in Active) ~> (c \notin Active \/ \A k \in Kinds : ~IsDue(c, k))
=============================================================================

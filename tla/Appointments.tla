---------------------------- MODULE Appointments ----------------------------
(***************************************************************************)
(* Appointments: those of one crew (installs) or of one assignee           *)
(* (inspections), in slots of a day.  People book, move, cancel and close  *)
(* them; every such act commits first and sends appointment/booked or      *)
(* appointment/changed after, best-effort.  An event starts a run of each  *)
(* durable function that listens:                                          *)
(*   touches   appointment-reminders and homeowner-crew-notify, alike      *)
(*             here: load the row, then check and send touch after touch   *)
(*   calendar  appointment-calendar-sync: the calendar of the assignee     *)
(*   noShow    no-show-reschedule: one text, then back into a drip         *)
(* and a changed event cancels the touches under way.  At night the weather*)
(* run moves installs off risky days and sends the events afterwards.      *)
(*                                                                         *)
(* A step whose process dies is repeated, after its effect too.  Sleeps    *)
(* take any time.  Reassignment to another calendar, weather notes and     *)
(* wording are left out.                                                   *)
(***************************************************************************)
EXTENDS Naturals

CONSTANTS
    Appts, NumDays,
    Runs, None,     \* runs at a time (bound)
    NumTouches,
    MaxFaults,      \* deaths and runs that fail for good (bound)
    Forecasts,      \* sets of days at risk
    Casts           \* which functions run, who is booked, how many acts and nights follow (bound)

VARIABLES
    appt,           \* the rows
    mail,           \* events to be sent or on their way, counted
    known,          \* appointments whose no-show event Inngest has had
    lost,           \* appointments of which an event, or a run it started, came to nothing
    run,
    calendar,       \* events of the external calendar
    made,           \* how many were ever made
    crossed,        \* appointments whose calendar runs overlapped or were out of order
    planned,        \* the day the latest load of a touches run found
    texted, reenrolled,
    wx,             \* the weather run
    faults,
    cast

rows  == <<appt, mail, known, lost>>
sides == <<calendar, made, crossed, planned, texted, reenrolled>>
vars  == <<rows, run, sides, wx, faults, cast>>

-----------------------------------------------------------------------------
Days      == 1..NumDays
Functions == {"touches", "calendar", "noShow"}
Bookings  == UNION {[S -> Days] : S \in SUBSET Appts}
CastType  == [functions : SUBSET Functions, booked : Bookings, open : SUBSET Appts,
              acts : Nat, nights : Nat]

ASSUME ApptAssumption ==
    /\ NumDays \in Nat \ {0} /\ NumTouches \in Nat \ {0} /\ MaxFaults \in Nat
    /\ Forecasts \subseteq SUBSET Days /\ Appts # {}
    /\ Casts \subseteq CastType
    /\ \A c \in Casts : \A a, b \in DOMAIN c.booked : c.booked[a] = c.booked[b] => a = b

\* What a changed event tells its listeners apart by: rescheduled, reassigned and
\* weather_rescheduled are "moved", canceled and done are "ended".
Reasons   == {"moved", "ended", "no_show"}
Events    == Reasons \cup {"booked"}
StepOf    == {"load", "recheck", "send", "sync", "store", "reenroll"}
Ids       == Nat            \* of calendar events; 0 is none

Row == [status : {"none", "scheduled", "done", "no_show", "canceled"},
        day : Days, gcal : Ids]
RunRow == [fn : Functions, appt : Appts, step : StepOf \cup {"idle"},
           deletes : BOOLEAN,          \* the calendar run was started by an end
           day : Days, gcal : Ids,     \* of the row when it was loaded
           touch : 1..NumTouches,
           late : Nat,                 \* touches let out when no longer scheduled
           cancelling : BOOLEAN]

Scheduled(a) == appt[a].status = "scheduled"
Idle == [fn |-> "touches", appt |-> CHOOSE a \in Appts : TRUE, step |-> "idle", deletes |-> FALSE,
         day |-> 1, gcal |-> 0, touch |-> 1, late |-> 0, cancelling |-> FALSE]
Resting == [step |-> "idle", risky |-> {}, todo |-> {}, cur |-> None, busy |-> {}, moved |-> {},
            nights |-> 0]

TypeOK ==
    /\ appt \in [Appts -> Row]
    /\ mail \in [Appts -> [Events -> Nat]]
    /\ known \subseteq Appts /\ lost \subseteq Appts /\ crossed \subseteq Appts
    /\ run \in [Runs -> RunRow]
    /\ calendar \subseteq [id : Ids, appt : Appts, day : Days] /\ made \in Nat
    /\ planned \in [Appts -> 0..NumDays]
    /\ texted \in [Appts -> Nat] /\ reenrolled \in [Appts -> Nat]
    /\ wx \in [step : {"idle", "evaluate", "announce"}, risky : SUBSET Days,
               todo : SUBSET [appt : Appts, day : Days],
               cur : {None} \cup [appt : Appts, day : Days], busy : SUBSET Days,
               moved : SUBSET Appts, nights : Nat]
    /\ faults \in 0..MaxFaults /\ cast \in CastType

\* The appointments of cast.booked are booked, with their events on the way.
Init ==
    /\ cast \in Casts
    /\ LET booked == DOMAIN cast.booked IN
       /\ appt = [a \in Appts |-> IF a \in booked
                                  THEN [status |-> "scheduled", day |-> cast.booked[a], gcal |-> 0]
                                  ELSE [status |-> "none", day |-> 1, gcal |-> 0]]
       /\ mail = [a \in Appts |-> [e \in Events |-> IF e = "booked" /\ a \in booked THEN 1 ELSE 0]]
    /\ known = {} /\ lost = {}
    /\ run = [p \in Runs |-> Idle]
    /\ calendar = {} /\ made = 0 /\ crossed = {}
    /\ planned = [a \in Appts |-> 0]
    /\ texted = [a \in Appts |-> 0] /\ reenrolled = [a \in Appts |-> 0]
    /\ wx = Resting
    /\ faults = 0

-----------------------------------------------------------------------------
(* People.  The UPDATE commits; the event is sent then or at any later     *)
(* moment before it is delivered, or is lost.                              *)

\* The exclusion constraint: no two scheduled rows of a crew overlap.
FreeBug(a, d) == \A b \in Appts \ {a} : ~Scheduled(a) /\ Scheduled(b) => appt[b].day # d
Free(a, d) == \A b \in Appts \ {a} : Scheduled(b) => appt[b].day # d

Act == /\ cast.acts > 0 /\ cast' = [cast EXCEPT !.acts = @ - 1]
       /\ UNCHANGED <<run, sides, wx, faults>>

\* A no-show has one event id: Inngest drops the ones after the first.
Duplicate(a, e) == e = "no_show" /\ a \in known
Emit(a, e) ==
    \/ /\ ~Duplicate(a, e)
       /\ mail' = [mail EXCEPT ![a][e] = @ + 1]
       /\ known' = IF e = "no_show" THEN known \cup {a} ELSE known
       /\ UNCHANGED lost
    \/ Duplicate(a, e) /\ UNCHANGED <<mail, known, lost>>
    \/ lost' = lost \cup {a} /\ UNCHANGED <<mail, known>>

\* A taken slot is refused by the INSERT.
Book(a, d) ==
    /\ Act
    /\ appt[a].status = "none" /\ Free(a, d)
    /\ appt' = [appt EXCEPT ![a].status = "scheduled", ![a].day = d]
    /\ Emit(a, "booked")

\* The UPDATE takes scheduled rows only; the event is sent of any.
Moved(a, d) == IF Scheduled(a) THEN [appt EXCEPT ![a].day = d] ELSE appt
Reschedule(a, d) ==
    /\ Act
    /\ appt[a].status # "none" /\ (Scheduled(a) => Free(a, d))
    /\ appt' = Moved(a, d)
    /\ Emit(a, "moved")

Reassign(a) ==
    /\ Act
    /\ appt[a].status # "none"
    /\ Emit(a, "moved")
    /\ UNCHANGED appt

\* By id, whatever the status is; a customer's CANCEL does the same.
Cancel(a) ==
    /\ Act
    /\ appt[a].status # "none"
    /\ appt' = [appt EXCEPT ![a].status = "canceled"]
    /\ Emit(a, "ended")

MarkStatus(a, status) ==
    /\ Act
    /\ appt[a].status # "none"
    /\ appt' = [appt EXCEPT ![a].status = status]
    /\ Emit(a, IF status = "no_show" THEN "no_show" ELSE "ended")

-----------------------------------------------------------------------------
(* Inngest.                                                                *)

UnderWay(p) == run[p].step # "idle"
At(p, fn, step) == run[p].fn = fn /\ run[p].step = step

\* A no-show run of any other reason returns at once.
WakesBug(e) == {"calendar"} \cup (IF e = "booked" THEN {"touches"} ELSE {})
                            \cup (IF e = "no_show" THEN {"noShow"} ELSE {})
Wakes(e) == {"touches", "calendar"} \cup IF e = "no_show" THEN {"noShow"} ELSE {}

\* A calendar run started by one of these deletes.
DeletesBug(e) == e = "ended"
Deletes(e) == e \in {"ended", "no_show"}

\* cancelOn.
CancelsBug(e) == e = "ended"
Cancels(e) == e # "booked"

\* An ended run frees its place; what it let out too late stays on record until it is reused.
Ended(r) == [Idle EXCEPT !.late = r.late]

Hit(a, e) == {p \in Runs : Cancels(e) /\ UnderWay(p) /\ run[p].fn = "touches" /\ run[p].appt = a}
Begun(fn, a, e) == [Idle EXCEPT !.fn = fn, !.appt = a, !.step = "load",
                                !.deletes = fn = "calendar" /\ Deletes(e)]
Places(fns) == {at \in [fns -> {p \in Runs : ~UnderWay(p)}] :
                  \A f, g \in fns : at[f] = at[g] => f = g}
Crosses(a, e) == \/ \E p \in Runs : run[p].fn = "calendar" /\ run[p].appt = a /\ UnderWay(p)
                 \/ \E f \in Events : mail[a][f] > (IF f = e THEN 1 ELSE 0)

\* Every listener gets a run.  Touches the event finds inside a step finish it.
Deliver(a, e) ==
    LET fns == Wakes(e) \cap cast.functions
        at  == CHOOSE f \in Places(fns) : TRUE
    IN /\ mail[a][e] > 0 /\ Places(fns) # {}
       /\ mail' = [mail EXCEPT ![a][e] = @ - 1]
       /\ crossed' = IF "calendar" \in fns /\ Crosses(a, e) THEN crossed \cup {a} ELSE crossed
       /\ \E inside \in SUBSET Hit(a, e) :
            run' = [p \in Runs |->
                      IF \E fn \in fns : at[fn] = p
                      THEN Begun(CHOOSE fn \in fns : at[fn] = p, a, e)
                      ELSE IF p \in inside THEN [run[p] EXCEPT !.cancelling = TRUE]
                      ELSE IF p \in Hit(a, e) THEN Ended(run[p])
                      ELSE run[p]]
       /\ UNCHANGED <<appt, known, lost, calendar, made, planned, texted, reenrolled, wx, faults, cast>>

\* The step ends with its result recorded, or its process dies and it is repeated.
GoOn(r, step) == IF r.cancelling \/ step = "idle" THEN Ended(r) ELSE [r EXCEPT !.step = step]
Ends(p, r, step) ==
    \/ run' = [run EXCEPT ![p] = GoOn(r, step)] /\ UNCHANGED faults
    \/ /\ faults < MaxFaults /\ faults' = faults + 1
       /\ UNCHANGED run

\* The step fails as often as Inngest tries it.
GiveUp(p) ==
    /\ UnderWay(p) /\ faults < MaxFaults
    /\ faults' = faults + 1
    /\ run' = [run EXCEPT ![p] = Ended(@)]
    /\ lost' = lost \cup {run[p].appt}
    /\ UNCHANGED <<appt, mail, known, sides, wx, cast>>

-----------------------------------------------------------------------------
(* appointment-reminders and homeowner-crew-notify.                        *)

Load(p) ==
    LET a == run[p].appt IN
    /\ At(p, "touches", "load")
    /\ planned' = [planned EXCEPT ![a] = appt[a].day]
    /\ Ends(p, [run[p] EXCEPT !.day = appt[a].day], IF Scheduled(a) THEN "recheck" ELSE "idle")
    /\ UNCHANGED <<rows, calendar, made, crossed, texted, reenrolled, wx, cast>>

\* After the sleep, which was computed from the day loaded.
StillScheduledBug(a) == appt[a].status # "canceled"
StillScheduled(a) == Scheduled(a)
Recheck(p) ==
    /\ At(p, "touches", "recheck")
    /\ Ends(p, run[p], IF StillScheduled(run[p].appt) THEN "send" ELSE "idle")
    /\ UNCHANGED <<rows, sides, wx, cast>>

AfterTouch(p) == IF run[p].touch < NumTouches THEN "recheck" ELSE "idle"
NextTouch(r) == [r EXCEPT !.touch = IF @ < NumTouches THEN @ + 1 ELSE @]

\* The touch names the day loaded.  A repeated step lets it out again.
LetOut(p) ==
    /\ At(p, "touches", "send")
    /\ LET r == [run[p] EXCEPT !.late = @ + IF Scheduled(run[p].appt) THEN 0 ELSE 1]
       IN \/ run' = [run EXCEPT ![p] = GoOn(NextTouch(r), AfterTouch(p))] /\ UNCHANGED faults
          \/ /\ faults < MaxFaults /\ faults' = faults + 1
             /\ run' = [run EXCEPT ![p] = r]
    /\ UNCHANGED <<rows, sides, wx, cast>>

\* What the gateway throws or refuses is logged, and the touch is over.
Withhold(p) ==
    /\ At(p, "touches", "send")
    /\ Ends(p, NextTouch(run[p]), AfterTouch(p))
    /\ UNCHANGED <<rows, sides, wx, cast>>

-----------------------------------------------------------------------------
(* appointment-calendar-sync.                                              *)

LoadCalendar(p) ==
    LET a == run[p].appt IN
    /\ At(p, "calendar", "load")
    /\ Ends(p, [run[p] EXCEPT !.day = appt[a].day, !.gcal = appt[a].gcal], "sync")
    /\ UNCHANGED <<rows, sides, wx, cast>>

\* A changed event that ends the appointment deletes, any other patches or creates.
Sync(p) ==
    LET r == run[p] IN
    /\ At(p, "calendar", "sync")
    /\ \/ /\ r.deletes
          /\ calendar' = {c \in calendar : c.id # r.gcal}
          /\ Ends(p, r, "idle")
          /\ UNCHANGED made
       \/ /\ ~r.deletes /\ r.gcal # 0
          /\ calendar' = {IF c.id = r.gcal THEN [c EXCEPT !.day = r.day] ELSE c : c \in calendar}
          /\ Ends(p, r, "idle")
          /\ UNCHANGED made
       \/ /\ ~r.deletes /\ r.gcal = 0
          /\ made' = made + 1
          /\ calendar' = calendar \cup {[id |-> made + 1, appt |-> r.appt, day |-> r.day]}
          /\ Ends(p, [r EXCEPT !.gcal = made + 1], "store")
    /\ UNCHANGED <<rows, crossed, planned, texted, reenrolled, wx, cast>>

Store(p) ==
    /\ At(p, "calendar", "store")
    /\ appt' = [appt EXCEPT ![run[p].appt].gcal = run[p].gcal]
    /\ Ends(p, run[p], "idle")
    /\ UNCHANGED <<mail, known, lost, sides, wx, cast>>

-----------------------------------------------------------------------------
(* no-show-reschedule: the status is not read again.                       *)

LoadNoShow(p) ==
    /\ At(p, "noShow", "load")
    /\ Ends(p, run[p], "send")
    /\ UNCHANGED <<rows, sides, wx, cast>>

\* Back into the drip only after a confirmed text.
AfterText(sent) == IF sent THEN "reenroll" ELSE "idle"
TextNoShow(p) ==
    /\ At(p, "noShow", "send")
    /\ \E sent \in BOOLEAN :
         /\ texted' = [texted EXCEPT ![run[p].appt] = @ + IF sent THEN 1 ELSE 0]
         /\ Ends(p, run[p], AfterText(sent))
    /\ UNCHANGED <<rows, calendar, made, crossed, planned, reenrolled, wx, cast>>

Reenroll(p) ==
    /\ At(p, "noShow", "reenroll")
    /\ reenrolled' \in {reenrolled, [reenrolled EXCEPT ![run[p].appt] = @ + 1]}
    /\ Ends(p, run[p], "idle")
    /\ UNCHANGED <<rows, calendar, made, crossed, planned, texted, wx, cast>>

-----------------------------------------------------------------------------
(* weather-reschedule: the evaluation of a tenant is one step.             *)

WeatherActs == UNCHANGED <<known, run, sides, cast>>

\* The step reads the rows, and the forecast as it is this time.
Read == \E risky \in Forecasts :
    wx' = [wx EXCEPT !.step = "evaluate", !.risky = risky, !.cur = None, !.busy = {}, !.moved = {},
                     !.todo = {[appt |-> a, day |-> appt[a].day] : a \in {b \in Appts : Scheduled(b)}}]
StartWeather ==
    /\ wx.step = "idle" /\ wx.nights < cast.nights
    /\ Read
    /\ WeatherActs /\ UNCHANGED <<appt, mail, lost, faults>>

\* The next row read: a safe one is left, of a risky one the crew's other days are read.
Assess(r) ==
    /\ wx.step = "evaluate" /\ wx.cur = None /\ r \in wx.todo
    /\ wx' = [wx EXCEPT !.todo = @ \ {r},
                        !.cur = IF r.day \in wx.risky THEN r ELSE None,
                        !.busy = {appt[b].day : b \in {c \in Appts \ {r.appt} : Scheduled(c)}}]
    /\ WeatherActs /\ UNCHANGED <<appt, mail, lost, faults>>

\* pickRescheduleSlot: the earliest safe, free day after the one read.
Candidates == {d \in Days \ (wx.busy \cup wx.risky) : d > wx.cur.day}

\* No day: the row is flagged and stays.
Flag ==
    /\ wx.step = "evaluate" /\ wx.cur # None /\ Candidates = {}
    /\ wx' = [wx EXCEPT !.cur = None]
    /\ WeatherActs /\ UNCHANGED <<appt, mail, lost, faults>>

\* The row read counts as moved, also if it is scheduled no longer; a slot taken meanwhile
\* is busy, and the next is tried.
Shift ==
    /\ wx.step = "evaluate" /\ wx.cur # None
    /\ \E d \in Candidates :
         /\ \A e \in Candidates : d <= e
         /\ IF Scheduled(wx.cur.appt) /\ ~Free(wx.cur.appt, d)
            THEN wx' = [wx EXCEPT !.busy = @ \cup {d}] /\ UNCHANGED appt
            ELSE /\ appt' = Moved(wx.cur.appt, d)
                 /\ wx' = [wx EXCEPT !.cur = None, !.moved = @ \cup {wx.cur.appt}]
    /\ WeatherActs /\ UNCHANGED <<mail, lost, faults>>

EndEvaluate ==
    /\ wx.step = "evaluate" /\ wx.cur = None /\ wx.todo = {}
    /\ wx' = [wx EXCEPT !.step = "announce"]
    /\ WeatherActs /\ UNCHANGED <<appt, mail, lost, faults>>

\* The repeat reads the rows anew: what it moved before is safe now, and forgotten.
DieInEvaluate ==
    /\ wx.step = "evaluate" /\ faults < MaxFaults
    /\ faults' = faults + 1
    /\ lost' = lost \cup wx.moved
    /\ Read
    /\ WeatherActs /\ UNCHANGED <<appt, mail>>

\* The step fails as often as Inngest tries it.
GiveUpWeather ==
    /\ wx.step # "idle" /\ faults < MaxFaults
    /\ faults' = faults + 1
    /\ lost' = lost \cup wx.moved
    /\ wx' = [Resting EXCEPT !.nights = wx.nights + 1]
    /\ WeatherActs /\ UNCHANGED <<appt, mail>>

\* step.sendEvent, for each appointment moved: repeated, it sends again.
Announce(a) ==
    /\ wx.step = "announce" /\ a \in wx.moved
    /\ mail' = [mail EXCEPT ![a]["moved"] = @ + 1]
    /\ \/ wx' = [wx EXCEPT !.moved = @ \ {a}] /\ UNCHANGED faults
       \/ faults < MaxFaults /\ faults' = faults + 1 /\ UNCHANGED wx
    /\ WeatherActs /\ UNCHANGED <<appt, lost>>

EndWeather ==
    /\ wx.step = "announce" /\ wx.moved = {}
    /\ wx' = [Resting EXCEPT !.nights = wx.nights + 1]
    /\ WeatherActs /\ UNCHANGED <<appt, mail, lost, faults>>

-----------------------------------------------------------------------------
People == \E a \in cast.open :
    \/ \E d \in Days : Book(a, d) \/ Reschedule(a, d)
    \/ Reassign(a) \/ Cancel(a)
    \/ \E status \in {"done", "no_show"} : MarkStatus(a, status)
Touches(p)   == Load(p) \/ Recheck(p) \/ LetOut(p) \/ Withhold(p)
CalendarSync(p) == LoadCalendar(p) \/ Sync(p) \/ Store(p)
NoShow(p)    == LoadNoShow(p) \/ TextNoShow(p) \/ Reenroll(p)
Goes(p)      == Touches(p) \/ CalendarSync(p) \/ NoShow(p)
Weather ==
    \/ StartWeather \/ Flag \/ Shift \/ EndEvaluate \/ EndWeather
    \/ \E a \in Appts : Announce(a)
    \/ \E r \in wx.todo : Assess(r)
Delivery(a) == \E e \in Events : Deliver(a, e)

Next ==
    \/ People \/ Weather \/ DieInEvaluate \/ GiveUpWeather
    \/ \E p \in Runs : Goes(p) \/ GiveUp(p)
    \/ \E a \in Appts : Delivery(a)

Spec == Init /\ [][Next]_vars
\* Inngest delivers what it has taken and goes on with what it has begun, the weather run too;
\* nothing makes people act or a night come.
FairSpec ==
    /\ Spec
    /\ \A p \in Runs : WF_vars(Goes(p))
    /\ \A a \in Appts : WF_vars(Delivery(a))
    /\ WF_vars(wx.step # "idle" /\ Weather)

-----------------------------------------------------------------------------
\* The crew is never on two installs on one day, whoever moved them last.
NoDoubleBooking ==
    \A a, b \in Appts : a # b /\ Scheduled(a) /\ Scheduled(b) => appt[a].day # appt[b].day

\* However often an appointment is marked a no-show, one text leaves, plus one for each death, and
\* a customer is put back into the drip only after one.
OneNoShowText ==
    \A a \in Appts : texted[a] <= 1 + faults /\ (reenrolled[a] > 0 => texted[a] > 0)

\* The crew's day, the no-show's text and its way back into the drip.
ApptInv == TypeOK /\ NoDoubleBooking /\ OneNoShowText

\* After a cancellation, a completion or a no-show each run lets at most the one touch out that it
\* had checked, plus one for each death - whether or not the cancelling event arrives.
AtMostOneLateReminder == \A p \in Runs : run[p].late <= 1 + faults

\* Touches are planned on the day the row has, unless word of the move is still on its way, has
\* yet to be sent by the weather run, or came to nothing.
Heeds(p) == At(p, "touches", "recheck") \/ At(p, "touches", "send")
StaleOnlyIfLost ==
    \A p \in Runs :
      LET a == run[p].appt IN
      Heeds(p) /\ ~run[p].cancelling /\ run[p].day # appt[a].day
        => (\E e \in Reasons : mail[a][e] > 0) \/ a \in wx.moved \/ a \in lost

\* Once nothing is under way, and neither a run died nor an event was lost nor two were at work on
\* the appointment at once, the calendar shows it on its day if it is scheduled, and else not.
Settled(a) ==
    /\ \A e \in Events : mail[a][e] = 0
    /\ \A p \in Runs : UnderWay(p) => run[p].appt # a
    /\ a \notin wx.moved
CalendarAgrees ==
    \A a \in Appts :
      Settled(a) /\ faults = 0 /\ a \notin lost \cup crossed /\ "calendar" \in cast.functions
        => {[id |-> c.id, day |-> c.day] : c \in {e \in calendar : e.appt = a}}
             = IF Scheduled(a) THEN {[id |-> appt[a].gcal, day |-> appt[a].day]} ELSE {}

\* Every day a scheduled appointment is given is planned for in the end, unless it is moved or
\* closed again, or word of it came to nothing.
NewDayIsPlanned ==
    \A a \in Appts :
      "touches" \in cast.functions /\ Scheduled(a) ~> planned[a] = appt[a].day \/ ~Scheduled(a) \/ a \in lost

-----------------------------------------------------------------------------
(* What the comments say and the code does not do.                         *)

\* "The invariant is: reschedule succeeded => id returned => appointment/changed emitted."
WeatherMoveIsAnnounced ==
    [][\A a \in wx.moved \ wx'.moved : mail'[a]["moved"] > mail[a]["moved"]]_vars

\* "Cancels itself if the appointment is rescheduled or canceled (cancelOn appointment/changed)."
RemindsTheRightDay ==
    [][\A p \in Runs : LetOut(p) => run[p].day = appt[run[p].appt].day]_vars
=============================================================================

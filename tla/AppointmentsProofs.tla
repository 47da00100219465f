------------------------- MODULE AppointmentsProofs -------------------------
(***************************************************************************)
(* Proofs about Appointments, for any appointments, days, runs, touches,   *)
(* faults and casts.                                                       *)
(***************************************************************************)
EXTENDS Appointments, TLAPS

-----------------------------------------------------------------------------
(* The rows of the runs.                                                   *)

LEMMA IdleOK == Idle \in RunRow
<1>1. (CHOOSE a \in Appts : TRUE) \in Appts BY ApptAssumption
<1>2. 1 \in Days /\ 1 \in 1..NumTouches BY ApptAssumption DEF Days
<1> QED BY <1>1, <1>2 DEF Idle, RunRow, Functions, Ids

LEMMA EndedOK ==
    ASSUME NEW r \in RunRow
    PROVE  Ended(r) \in RunRow /\ Ended(r).step = "idle" /\ Ended(r).late = r.late
           /\ Ended(r).fn = "touches" /\ ~Ended(r).cancelling
<1>1. r.late \in Nat BY DEF RunRow
<1> QED BY <1>1, IdleOK DEF Ended, RunRow, Idle

LEMMA GoOnOK ==
    ASSUME NEW r \in RunRow, NEW step \in StepOf \cup {"idle"}
    PROVE  GoOn(r, step) \in RunRow
<1>1. [r EXCEPT !.step = step] \in RunRow BY DEF RunRow
<1> QED BY <1>1, EndedOK DEF GoOn

\* What a step of a run leaves of the runs, whether it is recorded or repeated.
LEMMA EndsOK ==
    ASSUME TypeOK, NEW p \in Runs, NEW r \in RunRow, NEW step \in StepOf \cup {"idle"},
           Ends(p, r, step)
    PROVE  /\ run' \in [Runs -> RunRow] /\ faults' \in 0..MaxFaults
           /\ \A q \in Runs \ {p} : run'[q] = run[q]
           /\ \/ faults' = faults + 1 /\ run'[p] = run[p]
              \/ faults' = faults /\ run'[p] = GoOn(r, step)
<1> USE DEF TypeOK
<1>1. GoOn(r, step) \in RunRow BY GoOnOK
<1>2. CASE run' = [run EXCEPT ![p] = GoOn(r, step)] /\ UNCHANGED faults
    BY <1>1, <1>2
<1>3. CASE faults < MaxFaults /\ faults' = faults + 1 /\ UNCHANGED run
    BY <1>3, ApptAssumption
<1> QED BY <1>2, <1>3 DEF Ends

\* What an event's delivery leaves of the runs.
LEMMA DeliverOK ==
    ASSUME TypeOK, NEW a \in Appts, NEW e \in Events, Deliver(a, e)
    PROVE  /\ run' \in [Runs -> RunRow]
           /\ \A q \in Runs :
                \/ run'[q] = run[q] /\ q \notin Hit(a, e)
                \/ q \in Hit(a, e) /\ run'[q] = [run[q] EXCEPT !.cancelling = TRUE]
                \/ q \in Hit(a, e) /\ run'[q] = Ended(run[q])
                \/ ~UnderWay(q) /\ \E fn \in Wakes(e) \cap cast.functions : run'[q] = Begun(fn, a, e)
           /\ \A q, s \in Runs :
                /\ ~UnderWay(q) /\ run'[q].step # "idle" /\ run'[q].fn = "noShow"
                /\ ~UnderWay(s) /\ run'[s].step # "idle" /\ run'[s].fn = "noShow"
                => q = s
<1> DEFINE fns == Wakes(e) \cap cast.functions
           at  == CHOOSE f \in Places(fns) : TRUE
<1>1. at \in Places(fns) BY DEF Deliver
<1>2. /\ at \in [fns -> {p \in Runs : ~UnderWay(p)}]
      /\ \A f, g \in fns : at[f] = at[g] => f = g
    BY <1>1 DEF Places
<1>3. PICK inside \in SUBSET Hit(a, e) :
          run' = [p \in Runs |->
                    IF \E fn \in fns : at[fn] = p
                    THEN Begun(CHOOSE fn \in fns : at[fn] = p, a, e)
                    ELSE IF p \in inside THEN [run[p] EXCEPT !.cancelling = TRUE]
                    ELSE IF p \in Hit(a, e) THEN Ended(run[p])
                    ELSE run[p]]
    BY DEF Deliver
<1> HIDE DEF at
<1>4. \A fn \in fns : fn \in Functions BY DEF TypeOK, CastType
<1>5. ASSUME NEW fn \in fns
      PROVE  Begun(fn, a, e) \in RunRow /\ Begun(fn, a, e).fn = fn
    BY <1>4, IdleOK DEF Begun, RunRow, StepOf
<1>6. ASSUME NEW q \in Runs
      PROVE  \/ run'[q] = run[q] /\ q \notin Hit(a, e)
             \/ q \in Hit(a, e) /\ run'[q] = [run[q] EXCEPT !.cancelling = TRUE]
             \/ q \in Hit(a, e) /\ run'[q] = Ended(run[q])
             \/ ~UnderWay(q) /\ \E fn \in fns : at[fn] = q /\ run'[q] = Begun(fn, a, e)
    <2>1. CASE \E fn \in fns : at[fn] = q
        <3> DEFINE f == CHOOSE fn \in fns : at[fn] = q
        <3>1. f \in fns /\ at[f] = q BY <2>1
        <3>2. run'[q] = Begun(f, a, e) BY <1>3, <2>1
        <3>3. ~UnderWay(q) BY <3>1, <1>2
        <3> QED BY <3>1, <3>2, <3>3
    <2>2. CASE ~ \E fn \in fns : at[fn] = q
        BY <1>3, <2>2
    <2> QED BY <2>1, <2>2
<1>7. ASSUME NEW q \in Runs PROVE run'[q] \in RunRow
    <2>1. run[q] \in RunRow BY DEF TypeOK
    <2>2. [run[q] EXCEPT !.cancelling = TRUE] \in RunRow BY <2>1 DEF RunRow
    <2> QED BY <1>6, <1>5, <2>1, <2>2, EndedOK
<1>8. ASSUME NEW q \in Runs, ~UnderWay(q), run'[q].step # "idle", run'[q].fn = "noShow"
      PROVE  "noShow" \in fns /\ at["noShow"] = q
    <2>1. q \notin Hit(a, e) BY <1>8 DEF Hit, UnderWay
    <2>2. run'[q] # run[q] BY <1>8 DEF UnderWay
    <2>3. PICK fn \in fns : at[fn] = q /\ run'[q] = Begun(fn, a, e)
        BY <2>1, <2>2, <1>6
    <2>4. fn = "noShow" BY <2>3, <1>5, <1>8
    <2> QED BY <2>3, <2>4
<1>9. run' \in [Runs -> RunRow] BY <1>3, <1>7
<1> QED BY <1>6, <1>8, <1>9

-----------------------------------------------------------------------------
(* Type correctness.                                                       *)

LEMMA InitType == Init => TypeOK
<1> SUFFICES ASSUME Init PROVE TypeOK OBVIOUS
<1> USE DEF Init
<1>1. cast \in CastType BY ApptAssumption
<1>2. appt \in [Appts -> Row]
    <2> SUFFICES ASSUME NEW a \in Appts PROVE appt[a] \in Row OBVIOUS
    <2>1. a \in DOMAIN cast.booked => cast.booked[a] \in Days BY <1>1 DEF CastType, Bookings
    <2>2. 1 \in Days BY ApptAssumption DEF Days
    <2> QED BY <2>1, <2>2 DEF Row, Ids
<1>3. mail \in [Appts -> [Events -> Nat]] OBVIOUS
<1>4. run \in [Runs -> RunRow] BY IdleOK
<1>5. calendar \subseteq [id : Ids, appt : Appts, day : Days] /\ made \in Nat OBVIOUS
<1>6. planned \in [Appts -> 0..NumDays] /\ faults \in 0..MaxFaults BY ApptAssumption
<1>7. texted \in [Appts -> Nat] /\ reenrolled \in [Appts -> Nat] OBVIOUS
<1>8. wx \in [step : {"idle", "evaluate", "announce"}, risky : SUBSET Days,
              todo : SUBSET [appt : Appts, day : Days],
              cur : {None} \cup [appt : Appts, day : Days], busy : SUBSET Days,
              moved : SUBSET Appts, nights : Nat]
    BY DEF Resting
<1> QED BY <1>1, <1>2, <1>3, <1>4, <1>5, <1>6, <1>7, <1>8 DEF TypeOK

LEMMA EmitType ==
    ASSUME TypeOK, NEW a \in Appts, NEW e \in Events, Emit(a, e)
    PROVE  mail' \in [Appts -> [Events -> Nat]] /\ known' \subseteq Appts /\ lost' \subseteq Appts
<1>1. mail[a][e] + 1 \in Nat BY DEF TypeOK
<1>2. [mail EXCEPT ![a][e] = @ + 1] \in [Appts -> [Events -> Nat]] BY <1>1 DEF TypeOK
<1> QED BY <1>2 DEF Emit, TypeOK

LEMMA PeopleType ==
    ASSUME TypeOK, People
    PROVE  TypeOK'
<1> PICK a \in cast.open :
           \/ \E d \in Days : Book(a, d) \/ Reschedule(a, d)
           \/ Reassign(a) \/ Cancel(a)
           \/ \E status \in {"done", "no_show"} : MarkStatus(a, status)
    BY DEF People
<1>0. a \in Appts BY DEF TypeOK, CastType
<1>1. Act BY DEF Book, Reschedule, Reassign, Cancel, MarkStatus
<1>2. cast' \in CastType
    <2>1. cast.acts - 1 \in Nat BY <1>1 DEF Act, TypeOK, CastType
    <2> QED BY <2>1, <1>1 DEF Act, TypeOK, CastType
<1>3. \E e \in Events : Emit(a, e)
    BY DEF Book, Reschedule, Reassign, Cancel, MarkStatus, Events, Reasons
<1>4. mail' \in [Appts -> [Events -> Nat]] /\ known' \subseteq Appts /\ lost' \subseteq Appts
    BY <1>0, <1>3, EmitType
<1>5. appt' \in [Appts -> Row]
    <2>0. appt \in [Appts -> Row] BY DEF TypeOK
    <2>1. ASSUME NEW s \in {"scheduled", "done", "no_show", "canceled"}
          PROVE  [appt EXCEPT ![a].status = s] \in [Appts -> Row]
        BY <1>0, <2>0 DEF Row
    <2>2. ASSUME NEW d \in Days PROVE [appt EXCEPT ![a].day = d] \in [Appts -> Row]
        BY <1>0, <2>0 DEF Row
    <2>3. ASSUME NEW d \in Days
          PROVE  [appt EXCEPT ![a].status = "scheduled", ![a].day = d] \in [Appts -> Row]
        BY <1>0, <2>0 DEF Row
    <2> QED BY ZenonT(40), <2>0, <2>1, <2>2, <2>3 DEF Book, Reschedule, Reassign, Cancel, MarkStatus, Moved
<1> QED BY <1>1, <1>2, <1>4, <1>5 DEF Act, TypeOK, sides

LEMMA DeliverType ==
    ASSUME TypeOK, NEW a \in Appts, NEW e \in Events, Deliver(a, e)
    PROVE  TypeOK'
<1>1. run' \in [Runs -> RunRow] BY DeliverOK
<1>2. mail' \in [Appts -> [Events -> Nat]]
    <2>1. mail[a][e] - 1 \in Nat BY DEF Deliver, TypeOK
    <2> QED BY <2>1 DEF Deliver, TypeOK
<1>3. crossed' \subseteq Appts BY DEF Deliver, TypeOK
<1> QED BY <1>1, <1>2, <1>3 DEF Deliver, TypeOK

LEMMA GoesType ==
    ASSUME TypeOK, NEW p \in Runs, Goes(p)
    PROVE  TypeOK'
<1> DEFINE a == run[p].appt
<1>0. run[p] \in RunRow /\ a \in Appts BY DEF TypeOK, RunRow
<1>1. CASE Load(p)
    <2>1. [run[p] EXCEPT !.day = appt[a].day] \in RunRow BY <1>0 DEF TypeOK, RunRow, Row
    <2>2. planned' \in [Appts -> 0..NumDays]
        <3>1. appt[a].day \in 0..NumDays BY <1>0, ApptAssumption DEF TypeOK, Row, Days
        <3> QED BY <3>1, <1>1 DEF Load, TypeOK
    <2>3. run' \in [Runs -> RunRow] /\ faults' \in 0..MaxFaults
        BY <1>1, <2>1, EndsOK DEF Load, StepOf
    <2> QED BY <1>1, <2>2, <2>3 DEF Load, TypeOK, rows
<1>2. CASE Recheck(p)
    <2>1. run' \in [Runs -> RunRow] /\ faults' \in 0..MaxFaults
        BY <1>0, <1>2, EndsOK DEF Recheck, StepOf
    <2> QED BY <1>2, <2>1 DEF Recheck, TypeOK, rows, sides
<1>3. ASSUME NEW r \in RunRow PROVE NextTouch(r) \in RunRow
    BY ApptAssumption DEF NextTouch, RunRow
<1>4. AfterTouch(p) \in StepOf \cup {"idle"} BY DEF AfterTouch, StepOf
<1>5. CASE LetOut(p)
    <2> DEFINE r == [run[p] EXCEPT !.late = @ + IF Scheduled(run[p].appt) THEN 0 ELSE 1]
    <2>1. r \in RunRow BY <1>0 DEF RunRow
    <2>2. GoOn(NextTouch(r), AfterTouch(p)) \in RunRow BY <2>1, <1>3, <1>4, GoOnOK
    <2>3. run' \in [Runs -> RunRow] /\ faults' \in 0..MaxFaults
        <3> HIDE DEF r
        <3>1. \/ run' = [run EXCEPT ![p] = GoOn(NextTouch(r), AfterTouch(p))] /\ UNCHANGED faults
              \/ faults < MaxFaults /\ faults' = faults + 1 /\ run' = [run EXCEPT ![p] = r]
            BY <1>5 DEF LetOut, r
        <3> QED BY <3>1, <2>1, <2>2, ApptAssumption DEF TypeOK
    <2> QED BY <1>5, <2>3 DEF LetOut, TypeOK, rows, sides
<1>6. CASE Withhold(p)
    <2>1. NextTouch(run[p]) \in RunRow BY <1>0, <1>3
    <2>2. run' \in [Runs -> RunRow] /\ faults' \in 0..MaxFaults
        BY <2>1, <1>4, <1>6, EndsOK DEF Withhold
    <2> QED BY <1>6, <2>2 DEF Withhold, TypeOK, rows, sides
<1>7. CASE LoadCalendar(p)
    <2>1. [run[p] EXCEPT !.day = appt[a].day, !.gcal = appt[a].gcal] \in RunRow
        BY <1>0 DEF TypeOK, RunRow, Row
    <2>2. run' \in [Runs -> RunRow] /\ faults' \in 0..MaxFaults
        BY <1>7, <2>1, EndsOK DEF LoadCalendar, StepOf
    <2> QED BY <1>7, <2>2 DEF LoadCalendar, TypeOK, rows, sides
<1>8. CASE Sync(p)
    <2>1. CASE run[p].deletes
        <3>1. run' \in [Runs -> RunRow] /\ faults' \in 0..MaxFaults
            BY <1>0, <1>8, <2>1, EndsOK DEF Sync, StepOf
        <3>2. calendar' \subseteq [id : Ids, appt : Appts, day : Days] /\ made' \in Nat
            BY <1>8, <2>1 DEF Sync, TypeOK
        <3> QED BY <1>8, <3>1, <3>2 DEF Sync, TypeOK, rows
    <2>2. CASE ~run[p].deletes /\ run[p].gcal # 0
        <3>1. run' \in [Runs -> RunRow] /\ faults' \in 0..MaxFaults
            BY <1>0, <1>8, <2>2, EndsOK DEF Sync, StepOf
        <3>2. calendar' \subseteq [id : Ids, appt : Appts, day : Days] /\ made' \in Nat
            <4>1. calendar' = {IF c.id = run[p].gcal THEN [c EXCEPT !.day = run[p].day] ELSE c : c \in calendar}
                  /\ UNCHANGED made
                BY <1>8, <2>2 DEF Sync
            <4>2. run[p].day \in Days BY <1>0 DEF RunRow
            <4>3. \A c \in calendar : [c EXCEPT !.day = run[p].day] \in [id : Ids, appt : Appts, day : Days]
                BY <4>2 DEF TypeOK
            <4> QED BY <4>1, <4>3 DEF TypeOK
        <3> QED BY <1>8, <3>1, <3>2 DEF Sync, TypeOK, rows
    <2>3. CASE ~run[p].deletes /\ run[p].gcal = 0
        <3>0. made \in Nat /\ made + 1 \in Nat /\ run[p].day \in Days BY <1>0 DEF TypeOK, RunRow
        <3>1. [run[p] EXCEPT !.gcal = made + 1] \in RunRow BY <1>0, <3>0 DEF RunRow, Ids
        <3>2. run' \in [Runs -> RunRow] /\ faults' \in 0..MaxFaults
            BY <3>1, <1>8, <2>3, EndsOK DEF Sync, StepOf
        <3>3. calendar' \subseteq [id : Ids, appt : Appts, day : Days] /\ made' \in Nat
            BY <1>0, <3>0, <1>8, <2>3 DEF Sync, TypeOK, Ids
        <3> QED BY <1>8, <3>2, <3>3 DEF Sync, TypeOK, rows
    <2> QED BY <2>1, <2>2, <2>3
<1>9. CASE Store(p)
    <2>1. run' \in [Runs -> RunRow] /\ faults' \in 0..MaxFaults
        BY <1>0, <1>9, EndsOK DEF Store, StepOf
    <2>2. appt' \in [Appts -> Row]
        <3>1. run[p].gcal \in Nat BY <1>0 DEF RunRow, Ids
        <3>2. appt \in [Appts -> Row] BY DEF TypeOK
        <3>3. [appt[a] EXCEPT !.gcal = run[p].gcal] \in Row BY <1>0, <3>1, <3>2 DEF Row, Ids
        <3>4. appt' = [appt EXCEPT ![a] = [appt[a] EXCEPT !.gcal = run[p].gcal]] BY <1>9 DEF Store
        <3> QED BY <1>0, <3>2, <3>3, <3>4
    <2> QED BY <1>9, <2>1, <2>2 DEF Store, TypeOK, sides
<1>10. CASE LoadNoShow(p)
    <2>1. run' \in [Runs -> RunRow] /\ faults' \in 0..MaxFaults
        BY <1>0, <1>10, EndsOK DEF LoadNoShow, StepOf
    <2> QED BY <1>10, <2>1 DEF LoadNoShow, TypeOK, rows, sides
<1>11. CASE TextNoShow(p)
    <2>1. PICK sent \in BOOLEAN :
             /\ texted' = [texted EXCEPT ![a] = @ + IF sent THEN 1 ELSE 0]
             /\ Ends(p, run[p], AfterText(sent))
        BY <1>11 DEF TextNoShow
    <2>2. AfterText(sent) \in StepOf \cup {"idle"} BY DEF AfterText, StepOf
    <2>3. run' \in [Runs -> RunRow] /\ faults' \in 0..MaxFaults
        BY <1>0, <2>1, <2>2, EndsOK
    <2>4. texted' \in [Appts -> Nat] BY <1>0, <2>1 DEF TypeOK
    <2> QED BY <1>11, <2>3, <2>4 DEF TextNoShow, TypeOK, rows
<1>12. CASE Reenroll(p)
    <2>1. run' \in [Runs -> RunRow] /\ faults' \in 0..MaxFaults
        BY <1>0, <1>12, EndsOK DEF Reenroll, StepOf
    <2>2. reenrolled' \in [Appts -> Nat] BY <1>0, <1>12 DEF Reenroll, TypeOK
    <2> QED BY <1>12, <2>1, <2>2 DEF Reenroll, TypeOK, rows
<1> QED BY <1>1, <1>2, <1>5, <1>6, <1>7, <1>8, <1>9, <1>10, <1>11, <1>12
        DEF Goes, Touches, CalendarSync, NoShow

LEMMA GiveUpType ==
    ASSUME TypeOK, NEW p \in Runs, GiveUp(p)
    PROVE  TypeOK'
<1>1. run[p] \in RunRow /\ run[p].appt \in Appts BY DEF TypeOK, RunRow
<1>2. run' \in [Runs -> RunRow] BY <1>1, EndedOK DEF GiveUp, TypeOK
<1>3. lost' \subseteq Appts /\ faults' \in 0..MaxFaults BY <1>1, ApptAssumption DEF GiveUp, TypeOK
<1> QED BY <1>2, <1>3 DEF GiveUp, TypeOK, sides

-----------------------------------------------------------------------------
\* What holds of the weather run's record in every step of its own.
WxType == wx \in [step : {"idle", "evaluate", "announce"}, risky : SUBSET Days,
                  todo : SUBSET [appt : Appts, day : Days],
                  cur : {None} \cup [appt : Appts, day : Days], busy : SUBSET Days,
                  moved : SUBSET Appts, nights : Nat]

LEMMA ReadType ==
    ASSUME TypeOK, Read
    PROVE  WxType' /\ wx'.step = "evaluate" /\ wx'.moved = {} /\ wx'.cur = None
           /\ wx'.todo = {[appt |-> a, day |-> appt[a].day] : a \in {b \in Appts : Scheduled(b)}}
<1>1. PICK risky \in Forecasts :
        wx' = [wx EXCEPT !.step = "evaluate", !.risky = risky, !.cur = None, !.busy = {}, !.moved = {},
                     !.todo = {[appt |-> a, day |-> appt[a].day] : a \in {b \in Appts : Scheduled(b)}}]
    BY DEF Read
<1>2. {[appt |-> a, day |-> appt[a].day] : a \in {b \in Appts : Scheduled(b)}}
        \subseteq [appt : Appts, day : Days]
    BY DEF TypeOK, Row
<1>3. risky \subseteq Days BY ApptAssumption
<1> DEFINE todo == {[appt |-> a, day |-> appt[a].day] : a \in {b \in Appts : Scheduled(b)}}
<1> HIDE DEF todo
<1>4. wx' = [wx EXCEPT !.step = "evaluate", !.risky = risky, !.cur = None, !.busy = {}, !.moved = {},
                       !.todo = todo]
    BY <1>1 DEF todo
<1>5. todo \subseteq [appt : Appts, day : Days] BY <1>2 DEF todo
<1>6. WxType' /\ wx'.step = "evaluate" /\ wx'.moved = {} /\ wx'.cur = None /\ wx'.todo = todo
    BY <1>3, <1>4, <1>5 DEF TypeOK, WxType
<1> QED BY <1>6 DEF todo

LEMMA ShiftOK ==
    ASSUME TypeOK, Shift
    PROVE  /\ WxType' /\ wx'.step = wx.step /\ wx'.todo = wx.todo /\ wx.cur.appt \in Appts
           /\ \/ /\ UNCHANGED appt /\ wx'.cur = wx.cur /\ wx'.moved = wx.moved
              \/ /\ wx'.cur = None /\ wx'.moved = wx.moved \cup {wx.cur.appt}
                 /\ \E d \in Days : /\ Scheduled(wx.cur.appt) => Free(wx.cur.appt, d)
                                    /\ appt' = Moved(wx.cur.appt, d)
<1>1. PICK d \in Candidates :
         IF Scheduled(wx.cur.appt) /\ ~Free(wx.cur.appt, d)
         THEN wx' = [wx EXCEPT !.busy = @ \cup {d}] /\ UNCHANGED appt
         ELSE /\ appt' = Moved(wx.cur.appt, d)
              /\ wx' = [wx EXCEPT !.cur = None, !.moved = @ \cup {wx.cur.appt}]
    BY DEF Shift
<1>2. d \in Days BY DEF Candidates
<1>3. WxType /\ wx.cur # None BY DEF TypeOK, WxType, Shift
<1>4. wx.cur \in [appt : Appts, day : Days] BY <1>3 DEF WxType
<1>5. CASE Scheduled(wx.cur.appt) /\ ~Free(wx.cur.appt, d)
    BY <1>1, <1>2, <1>3, <1>4, <1>5 DEF WxType
<1>6. CASE ~(Scheduled(wx.cur.appt) /\ ~Free(wx.cur.appt, d))
    <2>1. appt' = Moved(wx.cur.appt, d)
          /\ wx' = [wx EXCEPT !.cur = None, !.moved = @ \cup {wx.cur.appt}]
        BY <1>1, <1>6
    <2>2. Scheduled(wx.cur.appt) => Free(wx.cur.appt, d) BY <1>6
    <2>3. /\ WxType' /\ wx'.step = wx.step /\ wx'.todo = wx.todo /\ wx.cur.appt \in Appts
          /\ wx'.cur = None /\ wx'.moved = wx.moved \cup {wx.cur.appt}
        BY <1>3, <1>4, <2>1 DEF WxType
    <2> QED BY <1>2, <2>1, <2>2, <2>3
<1> QED BY <1>5, <1>6

LEMMA RestingOK ==
    ASSUME NEW n \in Nat, wx' = [Resting EXCEPT !.nights = n]
    PROVE  WxType' /\ wx'.moved = {} /\ wx'.todo = {} /\ wx'.cur = None /\ wx'.step = "idle"
BY DEF Resting, WxType

LEMMA WeatherType ==
    ASSUME TypeOK, Weather \/ DieInEvaluate \/ GiveUpWeather
    PROVE  TypeOK'
<1>0. WxType BY DEF TypeOK, WxType
<1>1. WxType' => wx' \in [step : {"idle", "evaluate", "announce"}, risky : SUBSET Days,
                  todo : SUBSET [appt : Appts, day : Days],
                  cur : {None} \cup [appt : Appts, day : Days], busy : SUBSET Days,
                  moved : SUBSET Appts, nights : Nat]
    BY DEF WxType
<1>2. CASE StartWeather
    BY <1>1, <1>2, ReadType DEF StartWeather, WeatherActs, TypeOK, sides
<1>3. CASE Flag
    <2>1. WxType' BY <1>0, <1>3 DEF Flag, WxType
    <2> QED BY <1>1, <1>3, <2>1 DEF Flag, WeatherActs, TypeOK, sides
<1>4. CASE Shift
    <2>1. WxType' BY <1>4, ShiftOK
    <2>2. appt' \in [Appts -> Row]
        <3>1. ASSUME NEW d \in Days, appt' = Moved(wx.cur.appt, d) PROVE appt' \in [Appts -> Row]
            BY SMTT(30), <3>1, <1>4, ShiftOK DEF TypeOK, Row, Moved
        <3> QED BY <3>1, <1>4, ShiftOK DEF TypeOK
    <2> QED BY <1>1, <1>4, <2>1, <2>2 DEF Shift, WeatherActs, TypeOK, sides
<1>5. CASE EndEvaluate
    <2>1. WxType' BY <1>0, <1>5 DEF EndEvaluate, WxType
    <2> QED BY <1>1, <1>5, <2>1 DEF EndEvaluate, WeatherActs, TypeOK, sides
<1>6. CASE EndWeather
    <2>1. WxType'
        <3>1. wx.nights + 1 \in Nat BY <1>0 DEF WxType
        <3> QED BY <3>1, <1>6, RestingOK DEF EndWeather
    <2> QED BY <1>1, <1>6, <2>1 DEF EndWeather, WeatherActs, TypeOK, sides
<1>7. CASE GiveUpWeather
    <2>1. WxType'
        <3>1. wx.nights + 1 \in Nat BY <1>0 DEF WxType
        <3> QED BY <3>1, <1>7, RestingOK DEF GiveUpWeather
    <2>2. lost' \subseteq Appts /\ faults' \in 0..MaxFaults
        BY <1>0, <1>7, ApptAssumption DEF GiveUpWeather, TypeOK, WxType
    <2> QED BY <1>1, <1>7, <2>1, <2>2 DEF GiveUpWeather, WeatherActs, TypeOK, sides
<1>8. CASE DieInEvaluate
    <2>1. WxType' BY <1>8, ReadType DEF DieInEvaluate
    <2>2. lost' \subseteq Appts /\ faults' \in 0..MaxFaults
        BY <1>0, <1>8, ApptAssumption DEF DieInEvaluate, TypeOK, WxType
    <2> QED BY <1>1, <1>8, <2>1, <2>2 DEF DieInEvaluate, WeatherActs, TypeOK, sides
<1>9. ASSUME NEW a \in Appts, Announce(a) PROVE TypeOK'
    <2>1. WxType' BY <1>0, <1>9 DEF Announce, WxType
    <2>2. mail' \in [Appts -> [Events -> Nat]] BY <1>9 DEF Announce, TypeOK, Events, Reasons
    <2>3. faults' \in 0..MaxFaults BY <1>9, ApptAssumption DEF Announce, TypeOK
    <2> QED BY <1>1, <1>9, <2>1, <2>2, <2>3 DEF Announce, WeatherActs, TypeOK, sides
<1>10. ASSUME NEW r \in wx.todo, Assess(r) PROVE TypeOK'
    <2>0. r \in [appt : Appts, day : Days] /\ wx.todo \ {r} \subseteq [appt : Appts, day : Days]
        BY <1>0, <1>10 DEF WxType
    <2>1. {appt[b].day : b \in {c \in Appts \ {r.appt} : Scheduled(c)}} \subseteq Days
        BY DEF TypeOK, Row
    <2>2. WxType'
        <3> DEFINE busy == {appt[b].day : b \in {c \in Appts \ {r.appt} : Scheduled(c)}}
                   cur == IF r.day \in wx.risky THEN r ELSE None
        <3>1. wx' = [wx EXCEPT !.todo = @ \ {r}, !.cur = cur, !.busy = busy]
            BY <1>10 DEF Assess
        <3>2. busy \subseteq Days /\ cur \in {None} \cup [appt : Appts, day : Days] BY <2>0, <2>1
        <3> HIDE DEF busy, cur
        <3> QED BY <1>0, <2>0, <3>1, <3>2 DEF WxType
    <2> QED BY <1>1, <1>10, <2>2 DEF Assess, WeatherActs, TypeOK, sides
<1> QED BY <1>2, <1>3, <1>4, <1>5, <1>6, <1>7, <1>8, <1>9, <1>10 DEF Weather

LEMMA TypeStep == TypeOK /\ [Next]_vars => TypeOK'
<1> SUFFICES ASSUME TypeOK, [Next]_vars PROVE TypeOK' OBVIOUS
<1>1. CASE People BY <1>1, PeopleType
<1>2. CASE Weather \/ DieInEvaluate \/ GiveUpWeather BY <1>2, WeatherType
<1>3. ASSUME NEW p \in Runs, Goes(p) \/ GiveUp(p) PROVE TypeOK' BY <1>3, GoesType, GiveUpType
<1>4. ASSUME NEW a \in Appts, Delivery(a) PROVE TypeOK' BY <1>4, DeliverType DEF Delivery
<1>5. CASE UNCHANGED vars BY <1>5 DEF vars, rows, sides, TypeOK
<1> QED BY <1>1, <1>2, <1>3, <1>4, <1>5 DEF Next

-----------------------------------------------------------------------------
(* What a step leaves alone.                                               *)

\* A step of a run changes its own row, and of the appointments at most the calendar's id.
LEMMA GoFrame ==
    ASSUME TypeOK, NEW p \in Runs, Goes(p) \/ GiveUp(p)
    PROVE  /\ UNCHANGED <<mail, known, wx>> /\ lost \subseteq lost'
           /\ faults \in Nat /\ (faults' = faults \/ faults' = faults + 1)
           /\ \A a \in Appts : appt'[a].status = appt[a].status /\ appt'[a].day = appt[a].day
           /\ \A q \in Runs \ {p} : run'[q] = run[q]
           /\ UnderWay(p)
           /\ \/ run'[p].step = "idle" /\ run'[p].fn = "touches"
              \/ /\ run'[p].fn = run[p].fn /\ run'[p].appt = run[p].appt
                 /\ run'[p].cancelling = run[p].cancelling
<1> DEFINE Same == \A a \in Appts : appt'[a].status = appt[a].status /\ appt'[a].day = appt[a].day
           Others == \A q \in Runs \ {p} : run'[q] = run[q]
           Kept(r) == r.fn = run[p].fn /\ r.appt = run[p].appt /\ r.cancelling = run[p].cancelling
           Own == \/ run'[p].step = "idle" /\ run'[p].fn = "touches"
                  \/ Kept(run'[p])
<1>0. run[p] \in RunRow /\ faults \in Nat BY ApptAssumption DEF TypeOK
<1>1. ASSUME NEW r \in RunRow, Kept(r), NEW step \in StepOf \cup {"idle"}, Ends(p, r, step)
      PROVE  Others /\ Own /\ (faults' = faults \/ faults' = faults + 1)
    <2>1. GoOn(r, step) = Ended(r) \/ GoOn(r, step) = [r EXCEPT !.step = step] BY DEF GoOn
    <2>2. Kept([r EXCEPT !.step = step]) BY <1>1 DEF RunRow
    <2> HIDE DEF Kept
    <2>3. run'[p] = run[p] \/ run'[p] = Ended(r) \/ run'[p] = [r EXCEPT !.step = step]
        BY <1>1, <2>1, EndsOK
    <2>4. Kept(run[p]) BY DEF Kept
    <2> QED BY <1>1, <2>2, <2>3, <2>4, EndsOK, EndedOK
<1>2. Kept(run[p]) OBVIOUS
<1>3. AfterTouch(p) \in StepOf \cup {"idle"} BY DEF AfterTouch, StepOf
<1>4. ASSUME NEW r \in RunRow, Kept(r) PROVE NextTouch(r) \in RunRow /\ Kept(NextTouch(r))
    BY <1>4, ApptAssumption DEF NextTouch, RunRow
<1>5. CASE Load(p)
    <2> DEFINE r == [run[p] EXCEPT !.day = appt[run[p].appt].day]
    <2>1. r \in RunRow /\ Kept(r) BY <1>0 DEF TypeOK, RunRow, Row
    <2>2. Others /\ Own /\ (faults' = faults \/ faults' = faults + 1)
        <3> HIDE DEF Others, Own, Kept
        <3> QED BY <1>1, <2>1, <1>5 DEF Load, StepOf
    <2> QED BY <1>0, <2>2, <1>5 DEF Load, rows, At, UnderWay
<1>6. CASE Recheck(p)
    <2>1. Others /\ Own /\ (faults' = faults \/ faults' = faults + 1)
        <3> HIDE DEF Others, Own, Kept
        <3> QED BY <1>0, <1>1, <1>2, <1>6 DEF Recheck, StepOf
    <2> QED BY <1>0, <2>1, <1>6 DEF Recheck, rows, At, UnderWay
<1>7. CASE LetOut(p)
    <2> DEFINE r == [run[p] EXCEPT !.late = @ + IF Scheduled(run[p].appt) THEN 0 ELSE 1]
    <2>1. r \in RunRow /\ Kept(r) BY <1>0 DEF RunRow
    <2>2. \/ run' = [run EXCEPT ![p] = GoOn(NextTouch(r), AfterTouch(p))] /\ UNCHANGED faults
          \/ faults < MaxFaults /\ faults' = faults + 1 /\ run' = [run EXCEPT ![p] = r]
        BY <1>7 DEF LetOut
    <2> HIDE DEF r
    <2>3. NextTouch(r) \in RunRow /\ Kept(NextTouch(r))
        <3> HIDE DEF Kept
        <3> QED BY <1>4, <2>1
    <2>4. \/ GoOn(NextTouch(r), AfterTouch(p)).step = "idle" /\ GoOn(NextTouch(r), AfterTouch(p)).fn = "touches"
          \/ Kept(GoOn(NextTouch(r), AfterTouch(p)))
        <3> DEFINE n == NextTouch(r)
        <3> HIDE DEF n
        <3>1. n \in RunRow /\ Kept(n) BY <2>3 DEF n
        <3>2. Kept([n EXCEPT !.step = AfterTouch(p)]) BY <3>1 DEF RunRow
        <3>3. GoOn(n, AfterTouch(p)) = Ended(n) \/ GoOn(n, AfterTouch(p)) = [n EXCEPT !.step = AfterTouch(p)]
            BY DEF GoOn
        <3>4. Ended(n).step = "idle" /\ Ended(n).fn = "touches" BY <3>1, EndedOK
        <3> HIDE DEF Kept
        <3>5. (GoOn(n, AfterTouch(p)).step = "idle" /\ GoOn(n, AfterTouch(p)).fn = "touches")
              \/ Kept(GoOn(n, AfterTouch(p)))
            BY <3>2, <3>3, <3>4
        <3> QED BY <3>5 DEF n
    <2>5. Others /\ Own /\ (faults' = faults \/ faults' = faults + 1)
        <3>1. run \in [Runs -> RunRow] BY DEF TypeOK
        <3> QED BY <3>1, <2>1, <2>2, <2>4
    <2> QED BY <1>0, <2>5, <1>7 DEF LetOut, rows, At, UnderWay
<1>8. CASE Withhold(p)
    <2>1. NextTouch(run[p]) \in RunRow /\ Kept(NextTouch(run[p])) BY <1>0, <1>2, <1>4
    <2>2. Others /\ Own /\ (faults' = faults \/ faults' = faults + 1)
        <3> HIDE DEF Others, Own, Kept
        <3> QED BY <1>1, <1>3, <2>1, <1>8 DEF Withhold
    <2> QED BY <1>0, <2>2, <1>8 DEF Withhold, rows, At, UnderWay
<1>9. CASE LoadCalendar(p)
    <2> DEFINE r == [run[p] EXCEPT !.day = appt[run[p].appt].day, !.gcal = appt[run[p].appt].gcal]
    <2>1. r \in RunRow /\ Kept(r) BY <1>0 DEF TypeOK, RunRow, Row
    <2>2. Others /\ Own /\ (faults' = faults \/ faults' = faults + 1)
        <3> HIDE DEF Others, Own, Kept
        <3> QED BY <1>1, <2>1, <1>9 DEF LoadCalendar, StepOf
    <2> QED BY <1>0, <2>2, <1>9 DEF LoadCalendar, rows, At, UnderWay
<1>10. CASE Sync(p)
    <2> DEFINE r == [run[p] EXCEPT !.gcal = made + 1]
    <2>1. r \in RunRow /\ Kept(r)
        <3>1. made + 1 \in Nat BY DEF TypeOK
        <3> QED BY <1>0, <3>1 DEF RunRow, Ids
    <2>2. Ends(p, run[p], "idle") \/ Ends(p, r, "store") BY <1>10 DEF Sync
    <2>3. Others /\ Own /\ (faults' = faults \/ faults' = faults + 1)
        <3> HIDE DEF Others, Own, Kept, r
        <3> QED BY <1>0, <1>1, <1>2, <2>1, <2>2 DEF StepOf
    <2> QED BY <1>0, <2>3, <1>10 DEF Sync, rows, At, UnderWay
<1>11. CASE Store(p)
    <2>1. Others /\ Own /\ (faults' = faults \/ faults' = faults + 1)
        <3> HIDE DEF Others, Own, Kept
        <3> QED BY <1>0, <1>1, <1>2, <1>11 DEF Store, StepOf
    <2>2. Same
        <3>1. appt \in [Appts -> Row] BY DEF TypeOK
        <3>2. appt' = [appt EXCEPT ![run[p].appt] = [appt[run[p].appt] EXCEPT !.gcal = run[p].gcal]]
            BY <1>11 DEF Store
        <3> QED BY <3>1, <3>2 DEF Row
    <2> QED BY <1>0, <2>1, <2>2, <1>11 DEF Store, At, UnderWay
<1>12. CASE LoadNoShow(p)
    <2>1. Others /\ Own /\ (faults' = faults \/ faults' = faults + 1)
        <3> HIDE DEF Others, Own, Kept
        <3> QED BY <1>0, <1>1, <1>2, <1>12 DEF LoadNoShow, StepOf
    <2> QED BY <1>0, <2>1, <1>12 DEF LoadNoShow, rows, At, UnderWay
<1>13. CASE TextNoShow(p)
    <2>1. PICK sent \in BOOLEAN : Ends(p, run[p], AfterText(sent)) BY <1>13 DEF TextNoShow
    <2>2. AfterText(sent) \in StepOf \cup {"idle"} BY DEF AfterText, StepOf
    <2>3. Others /\ Own /\ (faults' = faults \/ faults' = faults + 1)
        <3> HIDE DEF Others, Own, Kept
        <3> QED BY <1>0, <1>1, <1>2, <2>1, <2>2
    <2> QED BY <1>0, <2>3, <1>13 DEF TextNoShow, rows, At, UnderWay
<1>14. CASE Reenroll(p)
    <2>1. Others /\ Own /\ (faults' = faults \/ faults' = faults + 1)
        <3> HIDE DEF Others, Own, Kept
        <3> QED BY <1>0, <1>1, <1>2, <1>14 DEF Reenroll, StepOf
    <2> QED BY <1>0, <2>1, <1>14 DEF Reenroll, rows, At, UnderWay
<1>15. CASE GiveUp(p)
    <2>1. run' = [run EXCEPT ![p] = Ended(run[p])] BY <1>15 DEF GiveUp
    <2>2. Others /\ Own BY <1>0, <2>1, EndedOK DEF TypeOK
    <2> QED BY <1>0, <2>2, <1>15 DEF GiveUp
<1> HIDE DEF Others, Own, Same
<1> QED BY <1>5, <1>6, <1>7, <1>8, <1>9, <1>10, <1>11, <1>12, <1>13, <1>14, <1>15
        DEF Goes, Touches, CalendarSync, NoShow

\* An act of a person changes one row, and sends or loses one event of it.
ActOf(a, e) ==
    /\ Emit(a, e)
    /\ \A b \in Appts \ {a} : appt'[b] = appt[b]
    /\ \/ /\ e = "booked" /\ appt[a].status = "none" /\ appt'[a].status = "scheduled"
          /\ Free(a, appt'[a].day)
       \/ /\ e = "moved" /\ appt[a].status # "none" /\ appt'[a].status = appt[a].status
          /\ \/ appt'[a].day = appt[a].day
             \/ Scheduled(a) /\ Free(a, appt'[a].day)
       \/ /\ e \in {"ended", "no_show"} /\ appt[a].status # "none"
          /\ appt'[a].status \notin {"none", "scheduled"} /\ appt'[a].day = appt[a].day

LEMMA PeopleFrame ==
    ASSUME TypeOK, People
    PROVE  /\ UNCHANGED <<run, sides, wx, faults>>
           /\ \E a \in Appts, e \in Events : ActOf(a, e)
<1> PICK a \in cast.open :
           \/ \E d \in Days : Book(a, d) \/ Reschedule(a, d)
           \/ Reassign(a) \/ Cancel(a)
           \/ \E status \in {"done", "no_show"} : MarkStatus(a, status)
    BY DEF People
<1>0. a \in Appts /\ appt \in [Appts -> Row] BY DEF TypeOK, CastType
<1>1. UNCHANGED <<run, sides, wx, faults>>
    BY DEF Book, Reschedule, Reassign, Cancel, MarkStatus, Act
<1>2. ASSUME NEW d \in Days, Book(a, d) PROVE ActOf(a, "booked")
    BY <1>0, <1>2 DEF Book, Row, ActOf
<1>3. ASSUME NEW d \in Days, Reschedule(a, d) PROVE ActOf(a, "moved")
    BY <1>0, <1>3 DEF Reschedule, Moved, Row, ActOf
<1>4. ASSUME Reassign(a) PROVE ActOf(a, "moved")
    BY <1>0, <1>4 DEF Reassign, ActOf
<1>5. ASSUME Cancel(a) PROVE ActOf(a, "ended")
    BY <1>0, <1>5 DEF Cancel, Row, ActOf
<1>6. ASSUME NEW status \in {"done", "no_show"}, MarkStatus(a, status)
      PROVE  ActOf(a, "ended") \/ ActOf(a, "no_show")
    BY <1>0, <1>6 DEF MarkStatus, Row, ActOf
<1>7. {"booked", "moved", "ended", "no_show"} \subseteq Events BY DEF Events, Reasons
<1> QED BY <1>0, <1>1, <1>2, <1>3, <1>4, <1>5, <1>6, <1>7

\* The weather run moves at most one scheduled row at a time, to a free day.
LEMMA WeatherFrame ==
    ASSUME TypeOK, Weather \/ DieInEvaluate \/ GiveUpWeather
    PROVE  /\ UNCHANGED <<known, run, sides, cast>> /\ lost \subseteq lost'
           /\ faults \in Nat /\ (faults' = faults \/ faults' = faults + 1)
           /\ \A a \in Appts : appt'[a].status = appt[a].status
           /\ \/ UNCHANGED appt
              \/ \E a \in Appts :
                   /\ Scheduled(a) /\ Free(a, appt'[a].day) /\ a \in wx'.moved
                   /\ \A b \in Appts \ {a} : appt'[b] = appt[b]
<1>0. faults \in Nat /\ appt \in [Appts -> Row] BY ApptAssumption DEF TypeOK
<1>1. CASE Shift
    <2>1. CASE UNCHANGED appt BY <1>0, <1>1, <2>1 DEF Shift, WeatherActs
    <2>2. CASE wx'.moved = wx.moved \cup {wx.cur.appt} /\
               \E d \in Days : /\ Scheduled(wx.cur.appt) => Free(wx.cur.appt, d)
                               /\ appt' = Moved(wx.cur.appt, d)
        <3>1. wx.cur.appt \in Appts BY <1>1, ShiftOK
        <3>2. UNCHANGED <<mail, lost, faults, known, run, sides, cast>>
            BY <1>1 DEF Shift, WeatherActs
        <3>3. CASE Scheduled(wx.cur.appt)
            <4> DEFINE a == wx.cur.appt
            <4>1. PICK d \in Days : Free(a, d) /\ appt' = [appt EXCEPT ![a].day = d]
                BY <2>2, <3>3 DEF Moved
            <4>2. appt'[a].day = d /\ \A b \in Appts : appt'[b].status = appt[b].status
                BY <1>0, <3>1, <4>1 DEF Row
            <4>3. \A b \in Appts \ {a} : appt'[b] = appt[b] BY <1>0, <4>1
            <4>4. a \in wx'.moved BY <2>2
            <4>5. UNCHANGED <<known, run, sides, cast>> /\ lost \subseteq lost' /\ faults' = faults
                BY <3>2
            <4>6. Free(a, appt'[a].day) BY <4>1, <4>2
            <4> HIDE DEF a
            <4>7. a \in Appts /\ Scheduled(a) BY <3>1, <3>3 DEF a
            <4>8. \E c \in Appts :
                     /\ Scheduled(c) /\ Free(c, appt'[c].day) /\ c \in wx'.moved
                     /\ \A b \in Appts \ {c} : appt'[b] = appt[b]
                BY <4>7, <4>6, <4>4, <4>3
            <4> QED BY <1>0, <4>2, <4>5, <4>8
        <3>4. CASE ~Scheduled(wx.cur.appt)
            BY <1>0, <2>2, <3>2, <3>4 DEF Moved
        <3> QED BY <3>3, <3>4
    <2> QED BY <1>1, <2>1, <2>2, ShiftOK
<1>2. CASE StartWeather \/ Flag \/ EndEvaluate \/ EndWeather \/ \E r \in wx.todo : Assess(r)
    BY <1>0, <1>2 DEF StartWeather, Flag, EndEvaluate, EndWeather, Assess, WeatherActs
<1>3. CASE \E a \in Appts : Announce(a)
    BY <1>0, <1>3 DEF Announce, WeatherActs
<1>4. CASE DieInEvaluate \/ GiveUpWeather
    BY <1>0, <1>4 DEF DieInEvaluate, GiveUpWeather, WeatherActs
<1> QED
    <2>1. \/ Shift \/ DieInEvaluate \/ GiveUpWeather
          \/ StartWeather \/ Flag \/ EndEvaluate \/ EndWeather \/ \E r \in wx.todo : Assess(r)
          \/ \E a \in Appts : Announce(a)
        BY DEF Weather
    <2> QED BY <2>1, <1>1, <1>2, <1>3, <1>4

-----------------------------------------------------------------------------
(* No double booking.                                                      *)

LEMMA InitSlots == Init => NoDoubleBooking
<1> SUFFICES ASSUME Init PROVE NoDoubleBooking OBVIOUS
<1>1. \A a \in Appts : Scheduled(a) => a \in DOMAIN cast.booked /\ appt[a].day = cast.booked[a]
    BY DEF Init, Scheduled
<1>2. \A a, b \in DOMAIN cast.booked : cast.booked[a] = cast.booked[b] => a = b
    BY ApptAssumption DEF Init
<1> QED BY <1>1, <1>2 DEF NoDoubleBooking

LEMMA SlotsStep == TypeOK /\ NoDoubleBooking /\ [Next]_vars => NoDoubleBooking'
<1> SUFFICES ASSUME TypeOK, NoDoubleBooking, [Next]_vars PROVE NoDoubleBooking' OBVIOUS
<1>0. appt \in [Appts -> Row] BY DEF TypeOK
\* One row changes: it is scheduled on a day that was free, or no longer, or as it was.
<1>1. ASSUME NEW a \in Appts, \A b \in Appts \ {a} : appt'[b] = appt[b],
             \/ Free(a, appt'[a].day)
             \/ appt'[a].status # "scheduled"
             \/ appt'[a].status = appt[a].status /\ appt'[a].day = appt[a].day
      PROVE  NoDoubleBooking'
    BY <1>1 DEF NoDoubleBooking, Free, Scheduled
<1>2. CASE People
    BY <1>1, <1>2, PeopleFrame DEF ActOf
<1>3. CASE Weather \/ DieInEvaluate \/ GiveUpWeather
    <2>1. CASE UNCHANGED appt BY <2>1 DEF NoDoubleBooking, Scheduled
    <2> QED BY <1>1, <1>3, <2>1, WeatherFrame
<1>4. ASSUME NEW p \in Runs, Goes(p) \/ GiveUp(p) PROVE NoDoubleBooking'
    BY <1>4, GoFrame DEF NoDoubleBooking, Scheduled
<1>5. ASSUME NEW a \in Appts, Delivery(a) PROVE NoDoubleBooking'
    BY <1>5 DEF Delivery, Deliver, NoDoubleBooking, Scheduled
<1>6. CASE UNCHANGED vars BY <1>6 DEF vars, rows, NoDoubleBooking, Scheduled
<1> QED BY <1>2, <1>3, <1>4, <1>5, <1>6 DEF Next

-----------------------------------------------------------------------------
(* What is under way is under way for an appointment that was booked.      *)

Born(a) == appt[a].status # "none"
BornInv ==
    /\ \A p \in Runs : UnderWay(p) => Born(run[p].appt)
    /\ \A a \in Appts, e \in Events : mail[a][e] > 0 => Born(a)
    /\ \A r \in wx.todo : Born(r.appt)
    /\ wx.cur # None => Born(wx.cur.appt)
    /\ \A a \in wx.moved : Born(a)

LEMMA InitBorn == Init => BornInv
<1> SUFFICES ASSUME Init PROVE BornInv OBVIOUS
<1>1. \A p \in Runs : ~UnderWay(p) BY DEF Init, Idle, UnderWay
<1>2. wx.moved = {} /\ wx.todo = {} /\ wx.cur = None BY DEF Init, Resting
<1>3. ASSUME NEW a \in Appts, NEW e \in Events, mail[a][e] > 0 PROVE Born(a)
    <2>1. a \in DOMAIN cast.booked BY <1>3 DEF Init
    <2> QED BY <2>1 DEF Init, Born
<1> QED BY <1>1, <1>2, <1>3 DEF BornInv

\* What the weather run takes up is what it read, and what it moved is what it took up.
LEMMA WeatherTakes ==
    ASSUME TypeOK, Weather \/ DieInEvaluate \/ GiveUpWeather
    PROVE  /\ \A r \in wx'.todo : r \in wx.todo \/ Scheduled(r.appt)
           /\ wx'.cur # None => wx'.cur = wx.cur \/ wx'.cur \in wx.todo
           /\ \A a \in wx'.moved : a \in wx.moved \/ (wx.cur # None /\ a = wx.cur.appt)
           /\ \A a \in Appts, e \in Events : mail'[a][e] > 0 => mail[a][e] > 0 \/ a \in wx.moved
<1>0. WxType BY DEF TypeOK, WxType
<1>1. CASE StartWeather \/ DieInEvaluate
    <2>1. Read /\ UNCHANGED mail BY <1>1 DEF StartWeather, DieInEvaluate
    <2>2. \A r \in wx'.todo : Scheduled(r.appt) BY <2>1, ReadType
    <2> QED BY <2>1, <2>2, ReadType
<1>2. CASE Flag
    <2>1. wx'.todo = wx.todo /\ wx'.cur = None /\ wx'.moved = wx.moved /\ UNCHANGED mail
        BY <1>0, <1>2 DEF Flag, WxType
    <2> QED BY <2>1
<1>3. CASE Shift
    <2>1. UNCHANGED mail /\ wx.cur # None BY <1>3 DEF Shift
    <2> QED BY <1>3, <2>1, ShiftOK
<1>4. CASE EndEvaluate
    <2>1. wx'.todo = wx.todo /\ wx'.cur = wx.cur /\ wx'.moved = wx.moved /\ UNCHANGED mail
        BY <1>0, <1>4 DEF EndEvaluate, WxType
    <2> QED BY <2>1
<1>5. CASE EndWeather \/ GiveUpWeather
    <2>1. wx.nights + 1 \in Nat BY <1>0 DEF WxType
    <2>2. UNCHANGED mail BY <1>5 DEF EndWeather, GiveUpWeather
    <2> QED BY <1>5, <2>1, <2>2, RestingOK DEF EndWeather, GiveUpWeather
<1>6. ASSUME NEW a \in Appts, Announce(a)
      PROVE  /\ wx'.todo = wx.todo /\ wx'.cur = wx.cur /\ wx'.moved \subseteq wx.moved
             /\ \A b \in Appts, e \in Events : mail'[b][e] > 0 => mail[b][e] > 0 \/ b \in wx.moved
    BY <1>0, <1>6 DEF Announce, WxType, TypeOK
<1>7. ASSUME NEW r \in wx.todo, Assess(r)
      PROVE  /\ wx'.todo \subseteq wx.todo /\ wx'.cur \in {r, None} /\ wx'.moved = wx.moved
             /\ UNCHANGED mail
    <2> DEFINE busy == {appt[b].day : b \in {c \in Appts \ {r.appt} : Scheduled(c)}}
               cur == IF r.day \in wx.risky THEN r ELSE None
    <2>1. wx' = [wx EXCEPT !.todo = @ \ {r}, !.cur = cur, !.busy = busy] /\ UNCHANGED mail
        BY <1>7 DEF Assess
    <2>2. cur \in {r, None} OBVIOUS
    <2> HIDE DEF cur, busy
    <2> QED BY <1>0, <2>1, <2>2 DEF WxType
<1> QED BY <1>1, <1>2, <1>3, <1>4, <1>5, <1>6, <1>7 DEF Weather

LEMMA BornStep == TypeOK /\ BornInv /\ [Next]_vars => BornInv'
<1> SUFFICES ASSUME TypeOK, BornInv, [Next]_vars PROVE BornInv' OBVIOUS
<1>0. \A p \in Runs : run[p] \in RunRow /\ run[p].appt \in Appts BY DEF TypeOK, RunRow
<1>t. /\ \A r \in wx.todo : r.appt \in Appts
      /\ wx.cur # None => wx.cur.appt \in Appts
      /\ wx.moved \subseteq Appts
    BY DEF TypeOK
<1> DEFINE Grows == \A a \in Appts : Born(a) => Born(a)'
<1>1. CASE People
    <2>1. UNCHANGED <<run, wx>> BY <1>1, PeopleFrame
    <2>2. PICK a \in Appts, e \in Events : ActOf(a, e) BY <1>1, PeopleFrame
    <2>3. Grows /\ Born(a)' BY <2>2 DEF ActOf, Born
    <2>4. \A b \in Appts, f \in Events : mail'[b][f] > 0 => b = a \/ mail[b][f] > 0
        BY <2>2 DEF ActOf, Emit, TypeOK
    <2> QED BY <1>0, <1>t, <2>1, <2>3, <2>4 DEF BornInv, UnderWay
<1>2. ASSUME NEW p \in Runs, Goes(p) \/ GiveUp(p) PROVE BornInv'
    <2>1. Grows BY <1>2, GoFrame DEF Born
    <2>2. UNCHANGED <<mail, wx>> BY <1>2, GoFrame
    <2>3. \A q \in Runs : UnderWay(q)' => UnderWay(q) /\ run'[q].appt = run[q].appt
        BY <1>2, GoFrame DEF UnderWay
    <2> QED BY <1>0, <1>t, <2>1, <2>2, <2>3 DEF BornInv
<1>3. ASSUME NEW a \in Appts, NEW e \in Events, Deliver(a, e) PROVE BornInv'
    <2>1. UNCHANGED <<appt, wx>> BY <1>3 DEF Deliver
    <2>2. Born(a) BY <1>3 DEF Deliver, BornInv
    <2>3. \A b \in Appts, f \in Events : mail'[b][f] > 0 => mail[b][f] > 0
        BY <1>3 DEF Deliver, TypeOK
    <2>4. ASSUME NEW q \in Runs, UnderWay(q)' PROVE Born(run'[q].appt)
        <3>1. ASSUME NEW fn \in Wakes(e) \cap cast.functions PROVE Begun(fn, a, e).appt = a
            BY DEF Begun, Idle
        <3>2. [run[q] EXCEPT !.cancelling = TRUE].appt = run[q].appt BY <1>0 DEF RunRow
        <3>3. Ended(run[q]).step = "idle" BY <1>0, EndedOK
        <3>4. \/ run'[q] = run[q]
              \/ q \in Hit(a, e) /\ run'[q] = [run[q] EXCEPT !.cancelling = TRUE]
              \/ run'[q] = Ended(run[q])
              \/ \E fn \in Wakes(e) \cap cast.functions : run'[q] = Begun(fn, a, e)
            BY <1>3, DeliverOK
        <3>5. q \in Hit(a, e) => run[q].appt = a BY DEF Hit
        <3>6. run'[q].appt = a \/ run'[q] = run[q]
            BY <2>4, <3>1, <3>2, <3>3, <3>4, <3>5 DEF UnderWay
        <3> QED BY <2>2, <2>4, <3>6 DEF BornInv, UnderWay
    <2> QED BY <2>1, <2>3, <2>4 DEF BornInv, Born
<1>4. CASE Weather \/ DieInEvaluate \/ GiveUpWeather
    <2>1. Grows BY <1>4, WeatherFrame DEF Born
    <2>2. UNCHANGED run BY <1>4, WeatherFrame
    <2>3. \A b \in Appts, f \in Events : mail'[b][f] > 0 => b \in wx.moved \/ mail[b][f] > 0
        BY <1>4, WeatherTakes
    <2>4. ASSUME NEW r \in wx'.todo PROVE r.appt \in Appts /\ Born(r.appt)
        <3>1. r.appt \in Appts
            <4>1. TypeOK' BY TypeStep
            <4> QED BY <4>1 DEF TypeOK
        <3>2. r \in wx.todo \/ Scheduled(r.appt) BY <1>4, WeatherTakes
        <3> QED BY <3>1, <3>2 DEF BornInv, Born, Scheduled
    <2>5. wx'.cur # None => wx'.cur.appt \in Appts /\ Born(wx'.cur.appt)
        BY <1>4, <1>t, WeatherTakes DEF BornInv
    <2>6. \A b \in wx'.moved : b \in Appts /\ Born(b)
        BY <1>4, <1>t, WeatherTakes DEF BornInv
    <2> QED BY <1>0, <1>t, <2>1, <2>2, <2>3, <2>4, <2>5, <2>6 DEF BornInv, UnderWay
<1>5. CASE UNCHANGED vars BY <1>5 DEF vars, rows, BornInv, Born, UnderWay
<1> QED BY <1>1, <1>2, <1>3, <1>4, <1>5 DEF Next, Delivery

-----------------------------------------------------------------------------
(* Touches planned on a day the row no longer has.                         *)

\* A run that heeds a day has kept it, or has just loaded it.
LEMMA DayKept ==
    ASSUME TypeOK, NEW p \in Runs, Goes(p) \/ GiveUp(p), Heeds(p)'
    PROVE  \/ run'[p].day = appt[run[p].appt].day
           \/ Heeds(p) /\ run'[p].day = run[p].day
<1>0. run[p] \in RunRow BY DEF TypeOK
<1>1. run'[p].step # "idle" /\ run'[p].fn = "touches" /\ run'[p].step \in {"recheck", "send"}
    BY DEF Heeds, At
<1>2. run[p].fn = "touches" BY <1>1, GoFrame
<1>3. ASSUME NEW r \in RunRow, r.day = run[p].day \/ r.day = appt[run[p].appt].day,
             NEW step \in StepOf \cup {"idle"}, Ends(p, r, step)
      PROVE  run'[p] = run[p] \/ run'[p].day = r.day
    <2>1. GoOn(r, step) = Ended(r) \/ GoOn(r, step) = [r EXCEPT !.step = step] BY DEF GoOn
    <2>2. [r EXCEPT !.step = step].day = r.day BY DEF RunRow
    <2> QED BY <1>1, <1>3, <2>1, <2>2, EndsOK, EndedOK
<1>4. AfterTouch(p) \in StepOf \cup {"idle"} BY DEF AfterTouch, StepOf
<1>5. ASSUME NEW r \in RunRow PROVE NextTouch(r) \in RunRow /\ NextTouch(r).day = r.day
    BY ApptAssumption DEF NextTouch, RunRow
<1>6. CASE Load(p)
    <2>1. [run[p] EXCEPT !.day = appt[run[p].appt].day] \in RunRow BY <1>0 DEF TypeOK, RunRow, Row
    <2>2. [run[p] EXCEPT !.day = appt[run[p].appt].day].day = appt[run[p].appt].day
        BY <1>0 DEF RunRow
    <2>3. run'[p] # run[p] BY <1>1, <1>6 DEF Load, At
    <2> QED BY <1>3, <1>6, <2>1, <2>2, <2>3 DEF Load, StepOf
<1>7. CASE Recheck(p)
    BY <1>0, <1>3, <1>7 DEF Recheck, Heeds, StepOf
<1>8. CASE LetOut(p)
    <2> DEFINE r == [run[p] EXCEPT !.late = @ + IF Scheduled(run[p].appt) THEN 0 ELSE 1]
    <2>1. r \in RunRow /\ r.day = run[p].day BY <1>0 DEF RunRow
    <2> HIDE DEF r
    <2> DEFINE n == NextTouch(r)
    <2>2. n \in RunRow /\ n.day = run[p].day BY <2>1, <1>5
    <2>3. run'[p] = GoOn(n, AfterTouch(p)) \/ run'[p] = r BY <1>8 DEF LetOut, TypeOK, r
    <2> HIDE DEF n
    <2>4. GoOn(n, AfterTouch(p)) = Ended(n) \/ GoOn(n, AfterTouch(p)) = [n EXCEPT !.step = AfterTouch(p)]
        BY DEF GoOn
    <2>5. [n EXCEPT !.step = AfterTouch(p)].day = n.day BY <2>2 DEF RunRow
    <2>6. run'[p].day = run[p].day BY <1>1, <2>1, <2>2, <2>3, <2>4, <2>5, EndedOK
    <2> QED BY <1>8, <2>6 DEF LetOut, Heeds
<1>9. CASE Withhold(p)
    BY <1>0, <1>3, <1>4, <1>5, <1>9 DEF Withhold, Heeds
<1>10. CASE GiveUp(p)
    BY <1>0, <1>1, <1>10, EndedOK DEF GiveUp, TypeOK
<1>11. ~CalendarSync(p) /\ ~NoShow(p)
    BY <1>2 DEF CalendarSync, LoadCalendar, Sync, Store, NoShow, LoadNoShow, TextNoShow, Reenroll, At
<1> QED BY <1>6, <1>7, <1>8, <1>9, <1>10, <1>11 DEF Goes, Touches

\* Word of a move of a: sent, yet to be sent, or come to nothing.
Word(a) == (\E e \in Reasons : mail[a][e] > 0) \/ a \in wx.moved \/ a \in lost

\* Between its nights the weather run has nothing to announce.
StaleInv == StaleOnlyIfLost /\ (wx.step = "idle" => wx.moved = {})

LEMMA InitStale == Init => StaleInv
<1> SUFFICES ASSUME Init PROVE StaleInv OBVIOUS
<1>1. \A p \in Runs : run[p].step = "idle" BY DEF Init, Idle
<1>2. wx.moved = {} BY DEF Init, Resting
<1> QED BY <1>1, <1>2 DEF StaleInv, StaleOnlyIfLost, Heeds, At

LEMMA WordOfEach ==
    ASSUME TypeOK',
           ASSUME NEW q \in Runs, NEW a \in Appts, run'[q].appt = a, Heeds(q)', ~run'[q].cancelling,
                  run'[q].day # appt'[a].day
           PROVE  Word(a)'
    PROVE  StaleOnlyIfLost'
<1>1. \A q \in Runs : run'[q].appt \in Appts BY DEF TypeOK, RunRow
<1>2. \A q \in Runs, a \in Appts :
        run'[q].appt = a /\ Heeds(q)' /\ ~run'[q].cancelling /\ run'[q].day # appt'[a].day => Word(a)'
    OBVIOUS
<1> QED BY <1>1, <1>2 DEF StaleOnlyIfLost, Word

\* Where the runs stand still, it is enough that words remain and a changed day is given word of.
LEMMA WordKept ==
    ASSUME StaleOnlyIfLost, UNCHANGED run,
           \A p \in Runs : run[p].appt \in Appts,
           \A a \in Appts : Word(a) => Word(a)',
           \A a \in Appts : appt'[a].day = appt[a].day \/ Word(a)'
    PROVE  StaleOnlyIfLost'
BY DEF StaleOnlyIfLost, Word, Heeds, At

\* The weather run hands on word of what it moved, or it is lost.
LEMMA WordStays ==
    ASSUME TypeOK, wx.step = "idle" => wx.moved = {}, Weather \/ DieInEvaluate \/ GiveUpWeather
    PROVE  /\ \A a \in Appts : Word(a) => Word(a)'
           /\ wx'.step = "idle" => wx'.moved = {}
<1>0. WxType BY DEF TypeOK, WxType
<1>1. CASE StartWeather
    <2>1. UNCHANGED <<mail, lost>> /\ wx.moved = {} BY <1>1 DEF StartWeather
    <2> QED BY <1>1, <2>1, ReadType DEF StartWeather, Word
<1>2. CASE Flag \/ EndEvaluate
    <2>1. wx'.moved = wx.moved /\ wx'.step # "idle" /\ UNCHANGED <<mail, lost>>
        BY <1>0, <1>2 DEF Flag, EndEvaluate, WxType
    <2> QED BY <2>1 DEF Word
<1>3. CASE Shift
    <2>1. UNCHANGED <<mail, lost>> /\ wx'.step # "idle" BY <1>3, ShiftOK DEF Shift
    <2>2. wx.moved \subseteq wx'.moved BY <1>3, ShiftOK
    <2> QED BY <2>1, <2>2 DEF Word
<1>4. CASE DieInEvaluate
    <2>1. UNCHANGED mail /\ lost' = lost \cup wx.moved /\ wx'.step = "evaluate"
        BY <1>4, ReadType DEF DieInEvaluate
    <2> QED BY <2>1 DEF Word
<1>5. CASE EndWeather \/ GiveUpWeather
    <2>1. wx.nights + 1 \in Nat BY <1>0 DEF WxType
    <2>2. wx'.moved = {} BY <1>5, <2>1, RestingOK DEF EndWeather, GiveUpWeather
    <2>3. UNCHANGED mail /\ (lost' = lost \cup wx.moved \/ (lost' = lost /\ wx.moved = {}))
        BY <1>5 DEF EndWeather, GiveUpWeather
    <2> QED BY <2>2, <2>3 DEF Word
<1>6. ASSUME NEW a \in Appts, Announce(a)
      PROVE  /\ \A b \in Appts : Word(b) => Word(b)'
             /\ wx'.step # "idle"
    <2>1. /\ wx.step = "announce" /\ UNCHANGED lost
          /\ mail' = [mail EXCEPT ![a]["moved"] = @ + 1]
          /\ wx' = [wx EXCEPT !.moved = @ \ {a}] \/ wx' = wx
        BY <1>6 DEF Announce
    <2>2. wx'.step # "idle" /\ wx.moved \ {a} \subseteq wx'.moved BY <1>0, <2>1 DEF WxType
    <2>3. \A b \in Appts, e \in Reasons : mail[b][e] > 0 => mail'[b][e] > 0
        BY <2>1 DEF TypeOK, Events
    <2>4. mail'[a]["moved"] > 0 /\ "moved" \in Reasons BY <2>1 DEF TypeOK, Events, Reasons
    <2> QED BY <2>1, <2>2, <2>3, <2>4 DEF Word
<1>7. ASSUME NEW r \in wx.todo, Assess(r)
      PROVE  wx'.moved = wx.moved /\ wx'.step # "idle" /\ UNCHANGED <<mail, lost>>
    <2> DEFINE busy == {appt[b].day : b \in {c \in Appts \ {r.appt} : Scheduled(c)}}
               cur == IF r.day \in wx.risky THEN r ELSE None
    <2>1. wx' = [wx EXCEPT !.todo = @ \ {r}, !.cur = cur, !.busy = busy] /\ wx.step = "evaluate"
          /\ UNCHANGED <<mail, lost>>
        BY <1>7 DEF Assess
    <2> HIDE DEF cur, busy
    <2> QED BY <1>0, <2>1 DEF WxType
<1> QED BY <1>1, <1>2, <1>3, <1>4, <1>5, <1>6, <1>7 DEF Weather, Word

LEMMA StaleStep == TypeOK /\ BornInv /\ StaleInv /\ [Next]_vars => StaleInv'
<1> SUFFICES ASSUME TypeOK, BornInv, StaleInv, [Next]_vars PROVE StaleInv' OBVIOUS
<1>0. \A p \in Runs : run[p] \in RunRow /\ run[p].appt \in Appts BY DEF TypeOK, RunRow
<1>1. CASE People
    <2>1. UNCHANGED <<run, wx>> BY <1>1, PeopleFrame
    <2>2. PICK a \in Appts, e \in Events : ActOf(a, e) BY <1>1, PeopleFrame
    <2>3. \A b \in Appts : Word(b) => Word(b)'
        BY <2>1, <2>2 DEF ActOf, Emit, Word, TypeOK, Events, Reasons
    <2>4. CASE appt[a].status # "none"
        <3>1. e # "booked" BY <2>2, <2>4 DEF ActOf
        <3>2. appt'[a].day = appt[a].day \/ e = "moved" BY <2>2, <3>1 DEF ActOf
        <3>3. ASSUME e = "moved" PROVE Word(a)'
            BY <2>2, <3>3 DEF ActOf, Emit, Duplicate, Word, TypeOK, Events, Reasons
        <3>4. \A b \in Appts : appt'[b].day = appt[b].day \/ Word(b)'
            BY <2>2, <3>2, <3>3 DEF ActOf
        <3> QED BY <1>0, <2>1, <2>3, <3>4, WordKept DEF StaleInv
    <2>5. CASE appt[a].status = "none"
        <3>1. \A p \in Runs : Heeds(p) => run[p].appt # a
            BY <2>5 DEF BornInv, Born, UnderWay, Heeds, At
        <3>2. \A p \in Runs : Heeds(p) => appt'[run[p].appt] = appt[run[p].appt]
            BY <1>0, <2>2, <3>1 DEF ActOf
        <3>3. \A p \in Runs : Heeds(p)' <=> Heeds(p) BY <2>1 DEF Heeds, At
        <3>4. StaleOnlyIfLost'
            BY <1>0, <2>1, <2>3, <3>2, <3>3 DEF StaleInv, StaleOnlyIfLost, Word
        <3> QED BY <2>1, <3>4 DEF StaleInv
    <2> QED BY <2>4, <2>5
<1>2. ASSUME NEW p \in Runs, Goes(p) \/ GiveUp(p) PROVE StaleInv'
    <2>1. /\ UNCHANGED <<mail, wx>> /\ lost \subseteq lost'
          /\ \A a \in Appts : appt'[a].day = appt[a].day
          /\ \A q \in Runs \ {p} : run'[q] = run[q]
        BY <1>2, GoFrame
    <2>2. \A a \in Appts : Word(a) => Word(a)' BY <2>1 DEF Word
    <2>3. ASSUME NEW q \in Runs, q # p PROVE run'[q] = run[q] /\ (Heeds(q)' <=> Heeds(q))
        BY <2>1, <2>3 DEF Heeds, At
    <2>4. ASSUME Heeds(p)', run'[p].day # appt'[run'[p].appt].day, ~run'[p].cancelling
          PROVE  Heeds(p) /\ run[p].day # appt[run[p].appt].day /\ ~run[p].cancelling
                 /\ run'[p].appt = run[p].appt
        <3>1. run'[p].appt = run[p].appt /\ run'[p].cancelling = run[p].cancelling
            BY <1>2, <2>4, GoFrame DEF Heeds, At
        <3>2. run'[p].day # appt[run[p].appt].day BY <1>0, <2>1, <2>4, <3>1
        <3> QED BY <1>2, <2>4, <3>1, <3>2, DayKept
    <2>5. StaleOnlyIfLost'
        <3>1. ASSUME NEW q \in Runs, NEW a \in Appts, run'[q].appt = a, Heeds(q)', ~run'[q].cancelling,
                     run'[q].day # appt'[a].day
              PROVE  Word(a)'
            <4>1. /\ Heeds(q) /\ ~run[q].cancelling /\ run[q].day # appt[a].day /\ run[q].appt = a
                BY <1>0, <2>1, <2>3, <2>4, <3>1
            <4>2. Word(a) BY <4>1 DEF StaleInv, StaleOnlyIfLost, Word
            <4> QED BY <2>2, <4>2
        <3>2. TypeOK' BY TypeStep
        <3> QED BY <3>1, <3>2, WordOfEach
    <2> QED BY <2>1, <2>5 DEF StaleInv
<1>3. ASSUME NEW a \in Appts, NEW e \in Events, Deliver(a, e) PROVE StaleInv'
    <2>1. UNCHANGED <<appt, wx, lost>> /\ mail' = [mail EXCEPT ![a][e] = @ - 1] BY <1>3 DEF Deliver
    <2>2. ASSUME NEW q \in Runs, NEW b \in Appts, run'[q].appt = b, Heeds(q)', ~run'[q].cancelling,
                 run'[q].day # appt'[b].day
          PROVE  Word(b)'
        <3>1. \A fn \in Wakes(e) \cap cast.functions : Begun(fn, a, e).step = "load"
            BY DEF Begun, Idle
        <3>2. [run[q] EXCEPT !.cancelling = TRUE].cancelling BY <1>0 DEF RunRow
        <3>3. Ended(run[q]).step = "idle" BY <1>0, EndedOK
        <3>4. run'[q].step \notin {"idle", "load"} BY <2>2 DEF Heeds, At
        <3>5. \/ run'[q] = run[q] /\ q \notin Hit(a, e)
              \/ run'[q] = [run[q] EXCEPT !.cancelling = TRUE]
              \/ run'[q] = Ended(run[q])
              \/ \E fn \in Wakes(e) \cap cast.functions : run'[q] = Begun(fn, a, e)
            BY <1>3, DeliverOK
        <3>6. run'[q] = run[q] /\ q \notin Hit(a, e)
            BY <2>2, <3>1, <3>2, <3>3, <3>4, <3>5
        <3>7. Heeds(q) /\ run[q].appt = b BY <2>2, <3>6 DEF Heeds, At
        <3>8. Word(b) BY <2>1, <2>2, <3>6, <3>7 DEF StaleInv, StaleOnlyIfLost, Word
        <3>9. b = a => ~Cancels(e) BY <3>6, <3>7 DEF Hit, Heeds, At, UnderWay
        <3>10. ASSUME NEW f \in Reasons, mail[b][f] > 0 PROVE mail'[b][f] > 0
            <4>1. f # e \/ b # a BY <3>9 DEF Cancels, Reasons
            <4>2. mail'[b][f] = mail[b][f] BY <2>1, <4>1 DEF TypeOK, Events
            <4> QED BY <3>10, <4>2
        <3> QED BY <2>1, <3>8, <3>10 DEF Word
    <2>3. TypeOK' BY TypeStep
    <2>4. StaleOnlyIfLost' BY <2>2, <2>3, WordOfEach
    <2> QED BY <2>1, <2>4 DEF StaleInv
<1>4. CASE Weather \/ DieInEvaluate \/ GiveUpWeather
    <2>1. UNCHANGED run BY <1>4, WeatherFrame
    <2>2. \A a \in Appts : appt'[a].day = appt[a].day \/ a \in wx'.moved
        BY <1>4, WeatherFrame
    <2>3. /\ \A a \in Appts : Word(a) => Word(a)'
          /\ wx'.step = "idle" => wx'.moved = {}
        BY <1>4, WordStays DEF StaleInv
    <2>5. StaleOnlyIfLost' BY <1>0, <2>1, <2>2, <2>3, WordKept DEF StaleInv, Word
    <2> QED BY <2>3, <2>5 DEF StaleInv
<1>5. CASE UNCHANGED vars
    BY <1>5 DEF vars, rows, StaleInv, StaleOnlyIfLost, Heeds, At
<1> QED BY <1>1, <1>2, <1>3, <1>4, <1>5 DEF Next, Delivery

-----------------------------------------------------------------------------
(* Touches let out after the appointment has ended.                        *)

\* A run that has let one out too late finds the appointment over at its next check; one about to
\* let a touch out has let none out too late but for deaths.
Late(p) ==
    /\ run[p].late <= 1 + faults
    /\ UnderWay(p) /\ run[p].late > 0 => ~Scheduled(run[p].appt)
    /\ At(p, "touches", "send") => run[p].late <= faults
LateInv == \A p \in Runs : Late(p)

LEMMA InitLate == Init => LateInv
<1> SUFFICES ASSUME Init, NEW p \in Runs PROVE Late(p) BY DEF LateInv
<1>1. run[p].step = "idle" /\ run[p].late = 0 /\ faults = 0 BY DEF Init, Idle
<1> QED BY <1>1 DEF Late, UnderWay, At

\* A run that does not touch its count.
LEMMA LateKept ==
    ASSUME TypeOK, NEW p \in Runs, Late(p), NEW s \in RunRow, run'[p] = s, s.late = run[p].late,
           faults' = faults \/ faults' = faults + 1,
           \/ s.step = "idle"
           \/ UnderWay(p) /\ s.appt = run[p].appt /\ appt'[s.appt].status = appt[s.appt].status,
           s.fn = "touches" /\ s.step = "send" => run[p].late <= faults
    PROVE  Late(p)'
<1>1. run[p].late \in Nat /\ faults \in Nat /\ faults' \in Nat
    BY ApptAssumption DEF TypeOK, RunRow
<1>2. run'[p].late <= 1 + faults' BY <1>1 DEF Late
<1>3. UnderWay(p)' /\ run'[p].late > 0 => ~(appt'[run'[p].appt].status = "scheduled")
    BY DEF Late, UnderWay, Scheduled
<1>4. At(p, "touches", "send")' => run'[p].late <= faults' BY <1>1 DEF Late, At
<1> QED BY <1>2, <1>3, <1>4 DEF Late, Scheduled

LEMMA LateGoes ==
    ASSUME TypeOK, NEW p \in Runs, Late(p), Goes(p) \/ GiveUp(p)
    PROVE  Late(p)'
<1>0. run[p] \in RunRow /\ run[p].appt \in Appts /\ run[p].late \in Nat
      /\ faults \in Nat /\ faults' \in Nat
    <2>1. TypeOK' BY TypeStep DEF Next
    <2> QED BY <2>1, ApptAssumption DEF TypeOK, RunRow
<1>1. /\ UnderWay(p) /\ (faults' = faults \/ faults' = faults + 1)
      /\ \A a \in Appts : appt'[a].status = appt[a].status
    BY GoFrame
<1>2. ASSUME NEW r \in RunRow, r.late = run[p].late, r.appt = run[p].appt, r.fn = run[p].fn,
             NEW step \in StepOf \cup {"idle"}, Ends(p, r, step),
             r.fn = "touches" /\ step = "send" => run[p].late <= faults
      PROVE  Late(p)'
    <2>1. GoOn(r, step) = Ended(r) \/ GoOn(r, step) = [r EXCEPT !.step = step] BY DEF GoOn
    <2>2. CASE run'[p] = run[p]
        <3>1. run[p].fn = "touches" /\ run[p].step = "send" => run[p].late <= faults BY DEF Late, At
        <3> QED BY <1>0, <1>1, <2>2, <3>1, LateKept
    <2>3. CASE run'[p] = Ended(r)
        <3>1. Ended(r) \in RunRow /\ Ended(r).step = "idle" /\ Ended(r).late = run[p].late
            BY <1>2, EndedOK
        <3> QED BY <1>1, <2>3, <3>1, LateKept
    <2>4. CASE run'[p] = [r EXCEPT !.step = step]
        <3> DEFINE s == [r EXCEPT !.step = step]
        <3>1. s \in RunRow /\ s.late = run[p].late /\ s.appt = run[p].appt /\ s.fn = r.fn /\ s.step = step
            BY <1>2 DEF RunRow
        <3> HIDE DEF s
        <3> QED BY <1>0, <1>1, <1>2, <2>4, <3>1, LateKept DEF s
    <2> QED BY <1>2, <2>1, <2>2, <2>3, <2>4, EndsOK
<1>3. AfterTouch(p) \in {"recheck", "idle"} /\ AfterTouch(p) \in StepOf \cup {"idle"}
    BY DEF AfterTouch, StepOf
<1>4. ASSUME NEW r \in RunRow
      PROVE  NextTouch(r) \in RunRow /\ NextTouch(r).late = r.late /\ NextTouch(r).appt = r.appt
             /\ NextTouch(r).fn = r.fn
    BY ApptAssumption DEF NextTouch, RunRow
<1>5. CASE Load(p)
    <2>1. [run[p] EXCEPT !.day = appt[run[p].appt].day] \in RunRow BY <1>0 DEF TypeOK, RunRow, Row
    <2> QED BY <1>0, <1>2, <1>5, <2>1 DEF Load, StepOf, RunRow
<1>6. CASE Recheck(p)
    <2>1. Scheduled(run[p].appt) => run[p].late <= faults BY <1>0, <1>1 DEF Late
    <2> QED BY <1>0, <1>2, <1>6, <2>1 DEF Recheck, StillScheduled, StepOf
<1>7. CASE LetOut(p)
    <2> DEFINE r == [run[p] EXCEPT !.late = @ + IF Scheduled(run[p].appt) THEN 0 ELSE 1]
    <2>1. /\ r \in RunRow /\ r.appt = run[p].appt /\ r.fn = run[p].fn /\ r.step = "send"
          /\ r.late <= run[p].late + 1 /\ r.late \in Nat
          /\ r.late > 0 => ~Scheduled(run[p].appt)
        <3> DEFINE more == IF Scheduled(run[p].appt) THEN 0 ELSE 1
        <3>1. /\ more \in {0, 1} /\ (more > 0 => ~Scheduled(run[p].appt))
              /\ (run[p].late > 0 => ~Scheduled(run[p].appt))
            BY <1>1 DEF Late
        <3>2. run[p].step = "send" BY <1>7 DEF LetOut, At
        <3>3. r = [run[p] EXCEPT !.late = @ + more] OBVIOUS
        <3> HIDE DEF more, r
        <3>4. r \in RunRow /\ r.appt = run[p].appt /\ r.fn = run[p].fn /\ r.step = "send"
              /\ r.late = run[p].late + more
            BY <1>0, <3>1, <3>2, <3>3 DEF RunRow
        <3> QED BY <1>0, <3>1, <3>4
    <2>2. run[p].late <= faults BY <1>7 DEF LetOut, Late
    <2> HIDE DEF r
    <2>3. CASE run' = [run EXCEPT ![p] = GoOn(NextTouch(r), AfterTouch(p))] /\ UNCHANGED faults
        <3> DEFINE n == NextTouch(r)
        <3>1. n \in RunRow /\ n.late = r.late /\ n.appt = run[p].appt /\ n.fn = run[p].fn
            BY <1>4, <2>1
        <3> HIDE DEF n
        <3>2. run'[p] = GoOn(n, AfterTouch(p)) BY <2>3 DEF TypeOK, n
        <3>3. GoOn(n, AfterTouch(p)) = Ended(n) \/ GoOn(n, AfterTouch(p)) = [n EXCEPT !.step = AfterTouch(p)]
            BY DEF GoOn
        <3>4. Ended(n).step = "idle" /\ Ended(n).late = r.late BY <3>1, EndedOK
        <3>5. [n EXCEPT !.step = AfterTouch(p)].late = r.late
              /\ [n EXCEPT !.step = AfterTouch(p)].appt = run[p].appt
              /\ [n EXCEPT !.step = AfterTouch(p)].step # "send"
            BY <1>3, <3>1 DEF RunRow
        <3>6. run'[p].late = r.late /\ run'[p].step # "send"
              /\ (run'[p].step = "idle" \/ run'[p].appt = run[p].appt)
            BY <3>2, <3>3, <3>4, <3>5
        <3>7. r.late <= 1 + faults' BY <1>0, <2>1, <2>2, <2>3
        <3> QED BY <1>0, <1>1, <2>1, <3>6, <3>7 DEF Late, UnderWay, At, Scheduled
    <2>4. CASE faults' = faults + 1 /\ run' = [run EXCEPT ![p] = r]
        <3>1. run'[p] = r BY <2>4 DEF TypeOK
        <3>2. r.late <= faults' BY <1>0, <2>1, <2>2, <2>4
        <3> QED BY <1>0, <1>1, <2>1, <3>1, <3>2 DEF Late, UnderWay, At, Scheduled
    <2> QED BY <1>7, <2>3, <2>4 DEF LetOut, r
<1>8. CASE Withhold(p)
    BY <1>0, <1>2, <1>3, <1>4, <1>8 DEF Withhold
<1>9. CASE LoadCalendar(p)
    <2>1. [run[p] EXCEPT !.day = appt[run[p].appt].day, !.gcal = appt[run[p].appt].gcal] \in RunRow
        BY <1>0 DEF TypeOK, RunRow, Row
    <2> QED BY <1>0, <1>2, <1>9, <2>1 DEF LoadCalendar, StepOf, RunRow
<1>10. CASE Sync(p)
    <2> DEFINE r == [run[p] EXCEPT !.gcal = made + 1]
    <2>1. r \in RunRow /\ r.late = run[p].late /\ r.appt = run[p].appt /\ r.fn = run[p].fn
        <3>1. made + 1 \in Nat BY DEF TypeOK
        <3> QED BY <1>0, <3>1 DEF RunRow, Ids
    <2>2. Ends(p, run[p], "idle") \/ Ends(p, r, "store") BY <1>10 DEF Sync
    <2> HIDE DEF r
    <2> QED BY <1>0, <1>2, <2>1, <2>2 DEF StepOf
<1>11. CASE Store(p)
    BY <1>0, <1>2, <1>11 DEF Store, StepOf
<1>12. CASE LoadNoShow(p)
    BY <1>0, <1>2, <1>12 DEF LoadNoShow, At, StepOf
<1>13. CASE TextNoShow(p)
    <2>1. PICK sent \in BOOLEAN : Ends(p, run[p], AfterText(sent)) BY <1>13 DEF TextNoShow
    <2>2. AfterText(sent) \in {"reenroll", "idle"} BY DEF AfterText
    <2> QED BY <1>0, <1>2, <2>1, <2>2 DEF StepOf
<1>14. CASE Reenroll(p)
    BY <1>0, <1>2, <1>14 DEF Reenroll, StepOf
<1>15. CASE GiveUp(p)
    <2>1. run'[p] = Ended(run[p]) BY <1>15 DEF GiveUp, TypeOK
    <2>2. Ended(run[p]) \in RunRow /\ Ended(run[p]).step = "idle" /\ Ended(run[p]).late = run[p].late
        BY <1>0, EndedOK
    <2> QED BY <1>1, <2>1, <2>2, LateKept
<1> QED BY <1>5, <1>6, <1>7, <1>8, <1>9, <1>10, <1>11, <1>12, <1>13, <1>14, <1>15
        DEF Goes, Touches, CalendarSync, NoShow

LEMMA LateStep == TypeOK /\ BornInv /\ LateInv /\ [Next]_vars => LateInv'
<1> SUFFICES ASSUME TypeOK, BornInv, LateInv, [Next]_vars PROVE LateInv' OBVIOUS
<1>0. \A p \in Runs : /\ run[p] \in RunRow /\ run[p].appt \in Appts /\ run[p].late \in Nat
                      /\ Late(p) /\ (UnderWay(p) => Born(run[p].appt))
    BY DEF TypeOK, RunRow, LateInv, BornInv
<1>n. faults \in Nat BY ApptAssumption DEF TypeOK
\* Where a run stands still, an appointment that has ended stays ended.
<1>1. ASSUME NEW p \in Runs, run'[p] = run[p], faults' = faults \/ faults' = faults + 1,
             UnderWay(p) => (appt'[run[p].appt].status = "scheduled" => Scheduled(run[p].appt))
      PROVE  Late(p)'
    <2>1. Late(p) /\ run[p].late \in Nat BY <1>0
    <2> QED BY <1>1, <1>n, <2>1 DEF Late, UnderWay, At, Scheduled
<1>2. CASE People
    <2>1. UNCHANGED <<run, faults>> BY <1>2, PeopleFrame
    <2>2. PICK a \in Appts, e \in Events : ActOf(a, e) BY <1>2, PeopleFrame
    <2>3. \A b \in Appts : Born(b) /\ appt'[b].status = "scheduled" => Scheduled(b)
        BY <2>2 DEF ActOf, Born, Scheduled
    <2> QED BY <1>0, <1>1, <2>1, <2>3 DEF LateInv
<1>3. ASSUME NEW p \in Runs, Goes(p) \/ GiveUp(p) PROVE LateInv'
    <2>1. Late(p)' BY <1>0, <1>3, LateGoes
    <2>2. ASSUME NEW q \in Runs, q # p PROVE Late(q)'
        BY <1>0, <1>1, <1>3, <2>2, GoFrame DEF Scheduled
    <2> QED BY <2>1, <2>2 DEF LateInv
<1>4. ASSUME NEW a \in Appts, NEW e \in Events, Deliver(a, e) PROVE LateInv'
    <2>1. UNCHANGED <<appt, faults>> BY <1>4 DEF Deliver
    <2>2. ASSUME NEW q \in Runs PROVE Late(q)'
        <3>1. CASE run'[q] = run[q] BY <1>1, <2>1, <3>1 DEF Scheduled
        <3>2. CASE q \in Hit(a, e) /\ run'[q] = [run[q] EXCEPT !.cancelling = TRUE]
            <4> DEFINE s == [run[q] EXCEPT !.cancelling = TRUE]
            <4>1. s \in RunRow /\ s.late = run[q].late /\ s.appt = run[q].appt /\ s.fn = run[q].fn
                  /\ s.step = run[q].step
                BY <1>0 DEF RunRow
            <4>2. UnderWay(q) BY <3>2 DEF Hit
            <4>3. run[q].fn = "touches" /\ run[q].step = "send" => run[q].late <= faults
                BY <1>0 DEF Late, At
            <4> HIDE DEF s
            <4> QED BY <1>0, <2>1, <3>2, <4>1, <4>2, <4>3, LateKept DEF s
        <3>3. CASE run'[q] = Ended(run[q])
            <4>1. Ended(run[q]) \in RunRow /\ Ended(run[q]).step = "idle"
                  /\ Ended(run[q]).late = run[q].late
                BY <1>0, EndedOK
            <4> QED BY <1>0, <2>1, <3>3, <4>1, LateKept
        <3>4. CASE \E fn \in Wakes(e) \cap cast.functions : run'[q] = Begun(fn, a, e)
            <4>1. run'[q].late = 0 /\ run'[q].step = "load" BY <3>4 DEF Begun, Idle
            <4> QED BY <1>n, <2>1, <4>1 DEF Late, At
        <3> QED BY <1>4, <3>1, <3>2, <3>3, <3>4, DeliverOK
    <2> QED BY <2>2 DEF LateInv
<1>5. CASE Weather \/ DieInEvaluate \/ GiveUpWeather
    <2>1. UNCHANGED run /\ (faults' = faults \/ faults' = faults + 1)
          /\ \A a \in Appts : appt'[a].status = appt[a].status
        BY <1>5, WeatherFrame
    <2> QED BY <1>0, <1>1, <2>1 DEF LateInv, Scheduled
<1>6. CASE UNCHANGED vars
    BY <1>0, <1>1, <1>6 DEF vars, rows, LateInv, Scheduled
<1> QED BY <1>2, <1>3, <1>4, <1>5, <1>6 DEF Next, Delivery

-----------------------------------------------------------------------------
(* The text of a no-show.                                                  *)

Texts(p, a) == UnderWay(p) /\ run[p].fn = "noShow" /\ run[p].appt = a

\* Nobody has texted of a no-show whose event was never sent or is on its way; later at most one
\* run does, and it texts again only when a death repeats the step.
NoShowOf(a) ==
    /\ texted[a] <= 1 + faults /\ (reenrolled[a] > 0 => texted[a] > 0)
    /\ mail[a]["no_show"] <= 1
    /\ a \notin known => mail[a]["no_show"] = 0
    /\ a \notin known \/ mail[a]["no_show"] > 0 => texted[a] = 0 /\ \A p \in Runs : ~Texts(p, a)
    /\ \A p \in Runs :
         Texts(p, a) => \/ run[p].step \in {"load", "send"} /\ texted[a] <= faults
                        \/ run[p].step = "reenroll" /\ texted[a] > 0
    /\ \A p, q \in Runs : Texts(p, a) /\ Texts(q, a) => p = q
NoShowInv == \A a \in Appts : NoShowOf(a)

LEMMA InitNoShow == Init => NoShowInv
<1> SUFFICES ASSUME Init, NEW a \in Appts PROVE NoShowOf(a) BY DEF NoShowInv
<1>1. \A p \in Runs : ~Texts(p, a) BY DEF Init, Idle, Texts, UnderWay
<1>2. mail[a]["no_show"] = 0 /\ texted[a] = 0 /\ reenrolled[a] = 0 /\ faults = 0
    BY DEF Init, Events, Reasons
<1> QED BY <1>1, <1>2 DEF NoShowOf

\* A step that starts no such run, sends no such event and texts nobody.
LEMMA NoShowKept ==
    ASSUME TypeOK, NEW a \in Appts, NoShowOf(a), faults' = faults \/ faults' = faults + 1,
           UNCHANGED <<texted, reenrolled>>, mail'[a]["no_show"] = mail[a]["no_show"],
           a \in known' <=> a \in known,
           \A q \in Runs : Texts(q, a)' => Texts(q, a) /\ run'[q].step = run[q].step
    PROVE  NoShowOf(a)'
<1>1. texted[a] \in Nat /\ faults \in Nat /\ faults' \in Nat BY ApptAssumption DEF TypeOK
<1> QED BY <1>1 DEF NoShowOf

LEMMA NoShowGoes ==
    ASSUME TypeOK, NoShowInv, NEW p \in Runs, Goes(p) \/ GiveUp(p)
    PROVE  NoShowInv'
<1>0. run[p] \in RunRow /\ run[p].appt \in Appts /\ faults \in Nat BY ApptAssumption DEF TypeOK, RunRow
<1>b. PICK b \in Appts : b = run[p].appt BY <1>0
<1>1. /\ UNCHANGED <<mail, known>> /\ (faults' = faults \/ faults' = faults + 1) /\ UnderWay(p)
      /\ \A q \in Runs \ {p} : run'[q] = run[q]
      /\ \/ run'[p].step = "idle"
         \/ run'[p].fn = run[p].fn /\ run'[p].appt = run[p].appt
    BY GoFrame
<1>2. ASSUME NEW a \in Appts, NEW q \in Runs, Texts(q, a)'
      PROVE  Texts(q, a) /\ (q # p => run'[q].step = run[q].step)
    BY <1>1, <1>2 DEF Texts, UnderWay
<1>3. ASSUME NEW a \in Appts, a # b, texted'[a] = texted[a], reenrolled'[a] = reenrolled[a]
      PROVE  NoShowOf(a)'
    <2>1. \A q \in Runs : Texts(q, a) => q # p BY <1>b, <1>3 DEF Texts
    <2>2. texted[a] \in Nat /\ faults' \in Nat BY <1>0, <1>1 DEF TypeOK
    <2> QED BY <1>0, <1>1, <1>2, <1>3, <2>1, <2>2 DEF NoShowInv, NoShowOf
<1>4. ASSUME NEW step \in {"send", "reenroll", "idle"}, Ends(p, run[p], step)
      PROVE  (faults' = faults + 1 /\ run'[p] = run[p])
             \/ (faults' = faults /\ run'[p].step \in {step, "idle"})
    <2>1. GoOn(run[p], step) = Ended(run[p]) \/ GoOn(run[p], step) = [run[p] EXCEPT !.step = step]
        BY DEF GoOn
    <2>2. [run[p] EXCEPT !.step = step].step = step BY <1>0 DEF RunRow
    <2> QED BY ZenonT(40), <1>0, <1>4, <2>1, <2>2, EndsOK, EndedOK DEF StepOf
<1>5. NoShowOf(b) BY <1>0 DEF NoShowInv
<1>6. CASE LoadNoShow(p)
    <2>1. UNCHANGED <<texted, reenrolled>> BY <1>6 DEF LoadNoShow, sides
    <2>2. Texts(p, b) /\ run[p].step = "load" BY <1>1, <1>b, <1>6 DEF LoadNoShow, At, Texts
    <2>3. texted[b] <= faults /\ texted[b] \in Nat BY <1>0, <1>5, <2>2 DEF NoShowOf, TypeOK
    <2>4. run'[p].step \in {"load", "send", "idle"} BY <1>4, <1>6, <2>2 DEF LoadNoShow
    <2>5. NoShowOf(b)'
        <3>1. Texts(p, b)' => run'[p].step \in {"load", "send"} BY <2>4 DEF Texts, UnderWay
        <3> QED BY <1>0, <1>1, <1>2, <1>5, <2>1, <2>2, <2>3, <3>1 DEF NoShowOf
    <2> QED BY <1>3, <2>1, <2>5 DEF NoShowInv
<1>7. CASE TextNoShow(p)
    <2>1. PICK sent \in BOOLEAN :
             /\ texted' = [texted EXCEPT ![b] = @ + IF sent THEN 1 ELSE 0]
             /\ Ends(p, run[p], AfterText(sent))
        BY <1>b, <1>7 DEF TextNoShow
    <2>2. UNCHANGED reenrolled BY <1>7 DEF TextNoShow
    <2>3. Texts(p, b) /\ run[p].step = "send" BY <1>1, <1>b, <1>7 DEF TextNoShow, At, Texts
    <2>4. texted[b] <= faults /\ texted[b] \in Nat BY <1>0, <1>5, <2>3 DEF NoShowOf, TypeOK
    <2>5. /\ texted'[b] = texted[b] + (IF sent THEN 1 ELSE 0)
          /\ \A a \in Appts \ {b} : texted'[a] = texted[a]
        BY <1>0, <2>1 DEF TypeOK
    <2>6. \/ faults' = faults + 1 /\ run'[p].step = "send"
          \/ faults' = faults /\ run'[p].step \in {AfterText(sent), "idle"}
        BY <1>4, <2>1, <2>3 DEF AfterText
    <2>7. texted'[b] <= 1 + faults' /\ texted'[b] \in Nat /\ texted'[b] >= texted[b]
        BY <1>0, <2>4, <2>5, <2>6
    <2>8. Texts(p, b)' => \/ run'[p].step \in {"load", "send"} /\ texted'[b] <= faults'
                          \/ run'[p].step = "reenroll" /\ texted'[b] > 0
        <3>1. CASE faults' = faults + 1 /\ run'[p].step = "send" BY <1>0, <2>4, <2>5, <3>1
        <3>2. CASE run'[p].step \in {AfterText(sent), "idle"}
            BY <2>4, <2>5, <3>2 DEF AfterText, Texts, UnderWay
        <3> QED BY <2>6, <3>1, <3>2
    <2>9. NoShowOf(b)'
        BY <1>0, <1>1, <1>2, <1>5, <2>2, <2>3, <2>4, <2>7, <2>8 DEF NoShowOf
    <2> QED BY <1>3, <2>2, <2>5, <2>9 DEF NoShowInv
<1>8. CASE Reenroll(p)
    <2>1. Texts(p, b) /\ run[p].step = "reenroll" BY <1>1, <1>b, <1>8 DEF Reenroll, At, Texts
    <2>2. texted[b] > 0 /\ texted[b] \in Nat BY <1>0, <1>5, <2>1 DEF NoShowOf, TypeOK
    <2>3. UNCHANGED texted /\ \A a \in Appts \ {b} : reenrolled'[a] = reenrolled[a]
        BY <1>0, <1>b, <1>8 DEF Reenroll, TypeOK
    <2>4. run'[p].step \in {"reenroll", "idle"} BY <1>4, <1>8, <2>1 DEF Reenroll
    <2>5. NoShowOf(b)'
        <3>1. Texts(p, b)' => run'[p].step = "reenroll" BY <2>4 DEF Texts, UnderWay
        <3> QED BY <1>0, <1>1, <1>2, <1>5, <2>1, <2>2, <2>3, <3>1 DEF NoShowOf
    <2> QED BY <1>3, <2>3, <2>5 DEF NoShowInv
\* A run of another function, or one that ends.
<1>9. CASE Touches(p) \/ CalendarSync(p) \/ GiveUp(p)
    <2>1. UNCHANGED <<texted, reenrolled>>
        BY <1>9 DEF Touches, Load, Recheck, LetOut, Withhold, CalendarSync, LoadCalendar, Sync, Store,
                    GiveUp, sides
    <2>2. ASSUME NEW a \in Appts PROVE ~Texts(p, a)'
        <3>1. CASE GiveUp(p)
            BY <1>0, <3>1, EndedOK DEF GiveUp, TypeOK, Texts, UnderWay
        <3>2. CASE Touches(p) \/ CalendarSync(p)
            <4>1. run[p].fn # "noShow"
                BY <3>2 DEF Touches, Load, Recheck, LetOut, Withhold,
                            CalendarSync, LoadCalendar, Sync, Store, At
            <4> QED BY <1>1, <4>1 DEF Texts, UnderWay
        <3> QED BY <1>9, <3>1, <3>2
    <2>3. ASSUME NEW a \in Appts PROVE NoShowOf(a)'
        BY <1>1, <1>2, <2>1, <2>2, NoShowKept DEF NoShowInv
    <2> QED BY <2>3 DEF NoShowInv
<1> QED BY <1>6, <1>7, <1>8, <1>9 DEF Goes, NoShow

LEMMA NoShowStep == TypeOK /\ NoShowInv /\ [Next]_vars => NoShowInv'
<1> SUFFICES ASSUME TypeOK, NoShowInv, [Next]_vars PROVE NoShowInv' OBVIOUS
<1>0. faults \in Nat /\ \A p \in Runs : run[p] \in RunRow BY ApptAssumption DEF TypeOK
<1>1. CASE People
    <2>1. UNCHANGED <<run, texted, reenrolled, faults>> BY <1>1, PeopleFrame DEF sides
    <2>2. PICK a \in Appts, e \in Events : Emit(a, e) BY <1>1, PeopleFrame DEF ActOf
    <2>3. ASSUME NEW b \in Appts, mail'[b]["no_show"] = mail[b]["no_show"], b \in known' <=> b \in known
          PROVE  NoShowOf(b)'
        BY <2>1, <2>3, NoShowKept DEF NoShowInv, Texts, UnderWay
    <2>4. CASE e = "no_show" /\ a \notin known /\ mail' = [mail EXCEPT ![a][e] = @ + 1]
               /\ known' = known \cup {a}
        <3>1. ASSUME NEW b \in Appts, b # a PROVE NoShowOf(b)'
            BY <2>3, <2>4, <3>1 DEF TypeOK
        <3>2. NoShowOf(a)'
            <4>1. mail[a]["no_show"] = 0 /\ texted[a] = 0 /\ \A p \in Runs : ~Texts(p, a)
                BY <2>4 DEF NoShowInv, NoShowOf
            <4>2. mail'[a]["no_show"] = 1 BY <2>4, <4>1 DEF TypeOK
            <4>3. \A p \in Runs : ~Texts(p, a)' BY <2>1, <4>1 DEF Texts, UnderWay
            <4> QED BY <1>0, <2>1, <2>4, <4>1, <4>2, <4>3 DEF NoShowInv, NoShowOf
        <3> QED BY <3>1, <3>2 DEF NoShowInv
    <2>5. CASE e # "no_show" \/ UNCHANGED <<mail, known>>
        <3>1. \A b \in Appts : mail'[b]["no_show"] = mail[b]["no_show"] /\ (b \in known' <=> b \in known)
            BY SMTT(30), <2>2, <2>5 DEF Emit, TypeOK, Events, Reasons
        <3> QED BY <2>3, <3>1 DEF NoShowInv
    <2> QED BY <2>2, <2>4, <2>5 DEF Emit, Duplicate
<1>2. ASSUME NEW p \in Runs, Goes(p) \/ GiveUp(p) PROVE NoShowInv' BY <1>2, NoShowGoes
<1>3. ASSUME NEW a \in Appts, NEW e \in Events, Deliver(a, e) PROVE NoShowInv'
    <2>1. UNCHANGED <<known, texted, reenrolled, faults>> /\ mail[a][e] > 0
          /\ mail' = [mail EXCEPT ![a][e] = @ - 1]
        BY <1>3 DEF Deliver
    \* A run that texts was under way before, or is a new one of the no-show delivered.
    <2>2. ASSUME NEW q \in Runs, NEW b \in Appts, Texts(q, b)'
          PROVE  \/ Texts(q, b) /\ run'[q].step = run[q].step
                 \/ e = "no_show" /\ b = a /\ ~UnderWay(q) /\ run'[q].step = "load"
        <3>1. run'[q].step # "idle" /\ run'[q].fn = "noShow" /\ run'[q].appt = b
            BY <2>2 DEF Texts, UnderWay
        <3>2. CASE run'[q] = run[q] BY <3>1, <3>2 DEF Texts, UnderWay
        <3>3. CASE q \in Hit(a, e) /\ run'[q] = [run[q] EXCEPT !.cancelling = TRUE]
            <4>1. run'[q].fn = "touches" BY <1>0, <3>3 DEF Hit, RunRow
            <4> QED BY <3>1, <4>1
        <3>4. CASE run'[q] = Ended(run[q]) BY <1>0, <3>1, <3>4, EndedOK
        <3>5. CASE ~UnderWay(q) /\ \E fn \in Wakes(e) \cap cast.functions : run'[q] = Begun(fn, a, e)
            <4>1. PICK fn \in Wakes(e) : run'[q] = Begun(fn, a, e) BY <3>5
            <4>2. run'[q].fn = fn /\ run'[q].appt = a /\ run'[q].step = "load"
                BY <4>1 DEF Begun, Idle
            <4>3. e = "no_show" BY <3>1, <4>1, <4>2 DEF Wakes
            <4> QED BY <3>1, <3>5, <4>2, <4>3
        <3> QED BY <1>3, <3>2, <3>3, <3>4, <3>5, DeliverOK
    <2>3. ASSUME NEW b \in Appts, e # "no_show" \/ b # a PROVE NoShowOf(b)'
        <3>1. mail'[b]["no_show"] = mail[b]["no_show"] BY <2>1, <2>3 DEF TypeOK
        <3> QED BY <2>1, <2>2, <2>3, <3>1, NoShowKept DEF NoShowInv
    <2>4. ASSUME e = "no_show" PROVE NoShowOf(a)'
        <3>1. /\ mail[a]["no_show"] = 1 /\ a \in known /\ texted[a] = 0
              /\ \A p \in Runs : ~Texts(p, a)
            BY <2>1, <2>4 DEF NoShowInv, NoShowOf, TypeOK, Events, Reasons
        <3>2. mail'[a]["no_show"] = 0 BY <2>1, <2>4, <3>1 DEF TypeOK
        <3>3. \A q \in Runs : Texts(q, a)' => ~UnderWay(q) /\ run'[q].step = "load"
            BY <2>2, <3>1
        <3>4. \A q, s \in Runs : Texts(q, a)' /\ Texts(s, a)' => q = s
            BY <1>3, <3>3, DeliverOK DEF Texts
        <3> QED BY <1>0, <2>1, <3>1, <3>2, <3>3, <3>4 DEF NoShowInv, NoShowOf
    <2> QED BY <2>3, <2>4 DEF NoShowInv
<1>4. CASE Weather \/ DieInEvaluate \/ GiveUpWeather
    <2>1. UNCHANGED <<run, known, texted, reenrolled>> /\ (faults' = faults \/ faults' = faults + 1)
        BY <1>4, WeatherFrame DEF sides
    <2>2. \A b \in Appts : mail'[b]["no_show"] = mail[b]["no_show"]
        <3>1. UNCHANGED mail \/ \E a \in Appts : mail' = [mail EXCEPT ![a]["moved"] = @ + 1]
            BY <1>4 DEF Weather, StartWeather, Flag, Shift, EndEvaluate, EndWeather, Announce, Assess,
                        DieInEvaluate, GiveUpWeather
        <3>2. mail \in [Appts -> [Events -> Nat]] BY DEF TypeOK
        <3>3. ASSUME NEW a \in Appts, mail' = [mail EXCEPT ![a]["moved"] = @ + 1], NEW b \in Appts
              PROVE  mail'[b]["no_show"] = mail[b]["no_show"]
            BY <3>2, <3>3
        <3> QED BY <3>1, <3>3
    <2> QED BY <2>1, <2>2, NoShowKept DEF NoShowInv, Texts, UnderWay
<1>5. CASE UNCHANGED vars
    BY <1>5, NoShowKept DEF vars, rows, sides, NoShowInv, Texts, UnderWay
<1> QED BY <1>1, <1>2, <1>3, <1>4, <1>5 DEF Next, Delivery

-----------------------------------------------------------------------------
(* The external calendar.                                                  *)

CalRun(p, a) == run[p].fn = "calendar" /\ run[p].appt = a
Of(a) == {c \in calendar : c.appt = a}
WordMoved(a) == mail[a]["moved"] > 0 \/ a \in wx.moved
WordEnded(a) == mail[a]["ended"] > 0 \/ mail[a]["no_show"] > 0

\* An id names one event, and rows and runs hold ids of events of their own appointment only.
IdsAreOwned ==
    /\ \A c \in calendar : c.id \in 1..made
    /\ \A c, d \in calendar : c.id = d.id => c = d
    /\ \A a \in Appts : appt[a].gcal <= made /\ \A c \in calendar : c.id = appt[a].gcal => c.appt = a
    /\ \A p \in Runs : run[p].fn = "calendar" =>
         run[p].gcal <= made /\ \A c \in calendar : c.id = run[p].gcal => c.appt = run[p].appt

\* Calendar runs are never cancelled, a no-show stays over, and a row nobody booked has no event.
RunsAreListed ==
    /\ \A p \in Runs : run[p].fn = "calendar" => ~run[p].cancelling /\ run[p].step \in {"load", "sync", "store"}
    /\ \A a \in known : Born(a) /\ ~Scheduled(a)
    /\ \A a \in Appts : ~Born(a) => appt[a].gcal = 0

\* An appointment whose words arrive in order and whose runs go one after the other.
Calm(a) == faults = 0 /\ a \notin lost /\ a \notin crossed /\ "calendar" \in cast.functions

OneRun(a) == \A p, q \in Runs : CalRun(p, a) /\ CalRun(q, a) => p = q

\* Until an id is stored, only the run that stores it has made an event.
NotYetStored(a) ==
    appt[a].gcal = 0 =>
      /\ \A p \in Runs : CalRun(p, a) =>
           /\ ~run[p].deletes /\ mail[a]["booked"] = 0
           /\ run[p].step = "load" => Of(a) = {}
           /\ run[p].step = "sync" => Of(a) = {} /\ run[p].gcal = 0
           /\ run[p].step = "store" =>
                run[p].gcal # 0 /\ Of(a) = {[id |-> run[p].gcal, appt |-> a, day |-> run[p].day]}
      /\ (\A p \in Runs : ~CalRun(p, a)) => Of(a) = {} /\ (Born(a) => mail[a]["booked"] > 0)

\* Then there is no event but that one.
Stored(a) ==
    appt[a].gcal # 0 =>
      /\ mail[a]["booked"] = 0
      /\ \A p \in Runs : CalRun(p, a) =>
           run[p].step # "store" /\ (run[p].step = "sync" => run[p].gcal = appt[a].gcal)
      /\ \A c \in Of(a) : c.id = appt[a].gcal

ShownWhileScheduled(a) ==
    Scheduled(a) =>
      /\ ~WordEnded(a)
      /\ \A p \in Runs : CalRun(p, a) =>
           /\ ~run[p].deletes
           /\ run[p].step \in {"sync", "store"} => run[p].day = appt[a].day \/ WordMoved(a)
      /\ appt[a].gcal # 0 =>
           \E c \in Of(a) : c.day = appt[a].day \/ WordMoved(a) \/ \E p \in Runs : CalRun(p, a)

HiddenOnceOver(a) ==
    Born(a) /\ ~Scheduled(a) =>
      \/ WordEnded(a)
      \/ /\ appt[a].gcal # 0
         /\ Of(a) = {} \/ \E p \in Runs : CalRun(p, a) /\ run[p].deletes

CalendarOf(a) == OneRun(a) /\ NotYetStored(a) /\ Stored(a) /\ ShownWhileScheduled(a) /\ HiddenOnceOver(a)
CalendarInv == IdsAreOwned /\ RunsAreListed /\ \A a \in Appts : Calm(a) => CalendarOf(a)

LEMMA InitCalendar == Init => CalendarInv
<1> SUFFICES ASSUME Init PROVE CalendarInv OBVIOUS
<1>1. calendar = {} /\ made = 0 /\ known = {} /\ \A p \in Runs : run[p].fn = "touches"
    BY DEF Init, Idle
<1>2. \A a \in Appts : appt[a].gcal = 0 BY DEF Init
<1>3. IdsAreOwned /\ RunsAreListed BY <1>1, <1>2 DEF IdsAreOwned, RunsAreListed
<1>4. ASSUME NEW a \in Appts PROVE CalendarOf(a)
    <2>1. (Born(a) => Scheduled(a) /\ mail[a]["booked"] > 0) /\ ~WordEnded(a)
        BY DEF Init, Born, Scheduled, WordEnded, Events, Reasons
    <2> QED BY <1>1, <1>2, <2>1 DEF CalendarOf, OneRun, NotYetStored, Stored, ShownWhileScheduled,
                                    HiddenOnceOver, CalRun, Of
<1> QED BY <1>3, <1>4 DEF CalendarInv

\* Rows keep their ids, and runs theirs, or take the row's.
LEMMA OwnedKept ==
    ASSUME TypeOK, IdsAreOwned, UNCHANGED <<calendar, made>>,
           \A a \in Appts : appt'[a].gcal = appt[a].gcal,
           \A q \in Runs : run'[q].fn = "calendar" =>
             \/ run'[q].gcal = 0
             \/ run[q].fn = "calendar" /\ run'[q].gcal = run[q].gcal /\ run'[q].appt = run[q].appt
             \/ run'[q].appt \in Appts /\ run'[q].gcal = appt[run'[q].appt].gcal
    PROVE  IdsAreOwned'
<1>1. made \in Nat /\ \A c \in calendar : c.id \in 1..made BY DEF TypeOK, IdsAreOwned
<1>2. \A c \in calendar : c.id # 0 BY <1>1
<1>3. ASSUME NEW q \in Runs, run'[q].fn = "calendar"
      PROVE  run'[q].gcal <= made /\ \A c \in calendar : c.id = run'[q].gcal => c.appt = run'[q].appt
    BY <1>1, <1>2, <1>3 DEF IdsAreOwned
<1> QED BY <1>1, <1>3 DEF IdsAreOwned

\* A step that leaves an appointment's runs and events alone, and moves it with word of it.
LEMMA CalendarKept ==
    ASSUME NEW a \in Appts, CalendarOf(a), Of(a)' = Of(a),
           appt'[a].status = appt[a].status, appt'[a].gcal = appt[a].gcal,
           appt'[a].day = appt[a].day \/ WordMoved(a)', WordMoved(a) => WordMoved(a)',
           \A e \in Events \ {"moved"} : mail'[a][e] = mail[a][e],
           \A q \in Runs : CalRun(q, a)' => CalRun(q, a),
           \A q \in Runs : CalRun(q, a) => run'[q] = run[q]
    PROVE  CalendarOf(a)'
<1>1. /\ mail'[a]["booked"] = mail[a]["booked"] /\ (WordEnded(a)' <=> WordEnded(a))
      /\ (Scheduled(a)' <=> Scheduled(a)) /\ (Born(a)' <=> Born(a))
    BY DEF Events, Reasons, WordEnded, Scheduled, Born
<1>2. \A q \in Runs : CalRun(q, a)' <=> CalRun(q, a) BY DEF CalRun
<1>3. OneRun(a)' BY DEF CalendarOf, OneRun
<1>4. NotYetStored(a)' BY <1>1, <1>2 DEF CalendarOf, NotYetStored
<1>5. Stored(a)' BY <1>1, <1>2 DEF CalendarOf, Stored
<1>6. ShownWhileScheduled(a)' BY <1>1, <1>2 DEF CalendarOf, ShownWhileScheduled
<1>7. HiddenOnceOver(a)' BY <1>1, <1>2 DEF CalendarOf, HiddenOnceOver
<1> QED BY <1>3, <1>4, <1>5, <1>6, <1>7 DEF CalendarOf

\* People give no row another calendar id.
LEMMA PeopleKeepIds ==
    ASSUME TypeOK, People
    PROVE  cast'.functions = cast.functions /\ \A a \in Appts : appt'[a].gcal = appt[a].gcal
<1> PICK a \in cast.open :
           \/ \E d \in Days : Book(a, d) \/ Reschedule(a, d)
           \/ Reassign(a) \/ Cancel(a)
           \/ \E status \in {"done", "no_show"} : MarkStatus(a, status)
    BY DEF People
<1>0. a \in Appts BY DEF TypeOK, CastType
<1>1. Act BY DEF Book, Reschedule, Reassign, Cancel, MarkStatus
<1>2. cast'.functions = cast.functions BY <1>1 DEF Act, TypeOK, CastType
<1>3. appt \in [Appts -> Row] BY DEF TypeOK
<1>4. \/ UNCHANGED appt
      \/ \E d \in Days : appt' = [appt EXCEPT ![a].day = d]
      \/ \E s \in {"done", "no_show", "canceled"} : appt' = [appt EXCEPT ![a].status = s]
      \/ \E d \in Days : appt' = [appt EXCEPT ![a].status = "scheduled", ![a].day = d]
    BY ZenonT(40) DEF Book, Reschedule, Reassign, Cancel, MarkStatus, Moved
<1>5. \A b \in Appts : appt'[b].gcal = appt[b].gcal BY <1>0, <1>3, <1>4 DEF Row
<1> QED BY <1>2, <1>5

LEMMA PeopleCalendar ==
    ASSUME TypeOK, BornInv, CalendarInv, People
    PROVE  CalendarInv'
<1>1. UNCHANGED <<run, sides, wx, faults>> BY PeopleFrame
<1>2. PICK a \in Appts, e \in Events : ActOf(a, e) BY PeopleFrame
<1>3. cast'.functions = cast.functions /\ \A b \in Appts : appt'[b].gcal = appt[b].gcal
    BY PeopleKeepIds
<1>4. IdsAreOwned' BY <1>1, <1>3, OwnedKept DEF CalendarInv, sides, IdsAreOwned
<1>5. mail \in [Appts -> [Events -> Nat]] BY DEF TypeOK
<1>6. RunsAreListed'
    <2>1. ASSUME NEW b \in known' PROVE Born(b)' /\ ~Scheduled(b)'
        <3>1. b \in known \/ (b = a /\ e = "no_show") BY <1>2 DEF ActOf, Emit
        <3>2. b \in Appts BY <3>1 DEF TypeOK
        <3>3. CASE b # a BY <1>2, <3>1, <3>2, <3>3 DEF ActOf, CalendarInv, RunsAreListed, Born, Scheduled
        <3>4. CASE b = a
            BY <1>2, <3>1, <3>4 DEF ActOf, CalendarInv, RunsAreListed, Born, Scheduled
        <3> QED BY <3>3, <3>4
    <2>2. \A b \in Appts : Born(b) => Born(b)' BY <1>2 DEF ActOf, Born
    <2> QED BY <1>1, <1>3, <2>1, <2>2 DEF CalendarInv, RunsAreListed
<1>7. ASSUME NEW b \in Appts, Calm(b)' PROVE Calm(b) /\ (b = a => a \notin lost')
    BY <1>1, <1>2, <1>3, <1>7 DEF Calm, ActOf, Emit, sides
<1>8. ASSUME NEW b \in Appts, b # a, Calm(b)' PROVE CalendarOf(b)'
    <2>1. mail'[b] = mail[b] /\ appt'[b] = appt[b] BY <1>2, <1>5, <1>8 DEF ActOf, Emit
    <2>2. CalendarOf(b) BY <1>7, <1>8 DEF CalendarInv
    <2> QED BY <1>1, <2>1, <2>2, CalendarKept DEF Of, CalRun, WordMoved, sides
<1>9. ASSUME Calm(a)' PROVE CalendarOf(a)'
    <2>0. CalendarOf(a) BY <1>7, <1>9 DEF CalendarInv
    <2>1. \/ /\ ~Duplicate(a, e)
             /\ mail' = [mail EXCEPT ![a][e] = @ + 1]
          \/ e = "no_show" /\ a \in known /\ UNCHANGED mail
        <3>1. a \notin lost' BY <1>7, <1>9
        <3>2. ~(lost' = lost \cup {a}) BY <3>1
        <3> QED BY <1>2, <3>2 DEF ActOf, Emit, Duplicate
    <2>2. /\ Of(a)' = Of(a) /\ \A q \in Runs : CalRun(q, a)' <=> CalRun(q, a)
          /\ UNCHANGED run
        BY <1>1 DEF Of, CalRun, sides
    <2>3. appt'[a].gcal = appt[a].gcal BY <1>3
    <2>4. CASE e = "booked"
        <3>1. mail'[a]["booked"] > 0 /\ \A f \in Events \ {"booked"} : mail'[a][f] = mail[a][f]
            BY <1>5, <2>1, <2>4
        <3>2. ~Born(a) /\ Scheduled(a)' BY <1>2, <2>4 DEF ActOf, Born, Scheduled
        <3>3. appt[a].gcal = 0 BY <3>2 DEF CalendarInv, RunsAreListed
        <3>4. \A f \in Events : mail[a][f] = 0 BY <1>5, <3>2 DEF BornInv
        <3>5. \A q \in Runs : ~CalRun(q, a)
            BY <3>2 DEF BornInv, CalendarInv, RunsAreListed, CalRun, UnderWay
        <3>6. Of(a) = {} BY <2>0, <3>3, <3>5 DEF CalendarOf, NotYetStored
        <3>7. ~WordEnded(a)' BY <3>1, <3>4 DEF WordEnded, Events, Reasons
        <3> QED BY <2>2, <2>3, <3>1, <3>2, <3>3, <3>5, <3>6, <3>7
                DEF CalendarOf, OneRun, NotYetStored, Stored, ShownWhileScheduled, HiddenOnceOver, CalRun, Of
    <2>5. CASE e = "moved"
        <3>1. WordMoved(a)' /\ \A f \in Events \ {"moved"} : mail'[a][f] = mail[a][f]
            BY <1>5, <2>1, <2>5 DEF WordMoved
        <3>2. appt'[a].status = appt[a].status BY <1>2, <2>5 DEF ActOf
        <3> QED BY <2>0, <2>2, <2>3, <3>1, <3>2, CalendarKept
    <2>6. CASE e \in {"ended", "no_show"}
        <3>1. mail'[a]["booked"] = mail[a]["booked"] BY <1>5, <2>1, <2>6 DEF Events, Reasons
        <3>2. Born(a) /\ Born(a)' /\ ~Scheduled(a)'
            BY <1>2, <2>6 DEF ActOf, Born, Scheduled
        <3>3. HiddenOnceOver(a)'
            <4>1. CASE mail' = [mail EXCEPT ![a][e] = @ + 1]
                <5>1. WordEnded(a)' BY <1>5, <2>6, <4>1 DEF WordEnded, Events, Reasons
                <5> QED BY <5>1 DEF HiddenOnceOver
            <4>2. CASE a \in known /\ UNCHANGED mail
                <5>1. ~Scheduled(a) BY <4>2 DEF CalendarInv, RunsAreListed
                <5> QED BY <2>0, <2>2, <2>3, <3>2, <4>2, <5>1 DEF CalendarOf, HiddenOnceOver, WordEnded
            <4> QED BY <2>1, <4>1, <4>2
        <3>4. OneRun(a)' /\ NotYetStored(a)' /\ Stored(a)' /\ ShownWhileScheduled(a)'
            BY <2>0, <2>2, <2>3, <3>1, <3>2
               DEF CalendarOf, OneRun, NotYetStored, Stored, ShownWhileScheduled
        <3> QED BY <3>3, <3>4 DEF CalendarOf
    <2> QED BY <2>4, <2>5, <2>6 DEF Events, Reasons
<1> QED BY <1>4, <1>6, <1>8, <1>9 DEF CalendarInv

\* The weather run tells of a move, or has yet to; nothing else of a row or its mail changes.
LEMMA WeatherKeepsIds ==
    ASSUME TypeOK, wx.step = "idle" => wx.moved = {}, Weather \/ DieInEvaluate \/ GiveUpWeather
    PROVE  /\ \A a \in Appts : appt'[a].gcal = appt[a].gcal
           /\ \A a \in Appts : WordMoved(a) => WordMoved(a)' \/ a \in lost'
           /\ \A a \in Appts, e \in Events \ {"moved"} : mail'[a][e] = mail[a][e]
<1>0. WxType /\ appt \in [Appts -> Row] /\ mail \in [Appts -> [Events -> Nat]] BY DEF TypeOK, WxType
<1>1. CASE StartWeather
    BY <1>1 DEF StartWeather, WordMoved
<1>2. CASE Flag \/ EndEvaluate
    <2>1. wx'.moved = wx.moved /\ UNCHANGED <<appt, mail>>
        BY <1>0, <1>2 DEF Flag, EndEvaluate, WxType
    <2> QED BY <2>1 DEF WordMoved
<1>3. CASE Shift
    <2>1. UNCHANGED mail BY <1>3 DEF Shift
    <2>2. wx.moved \subseteq wx'.moved BY <1>3, ShiftOK
    <2>3. UNCHANGED appt \/ \E d \in Days : appt' = Moved(wx.cur.appt, d) BY <1>3, ShiftOK
    <2>4. UNCHANGED appt \/ \E d \in Days : appt' = [appt EXCEPT ![wx.cur.appt].day = d]
        BY <2>3 DEF Moved
    <2>5. ASSUME NEW d \in Days, appt' = [appt EXCEPT ![wx.cur.appt].day = d]
          PROVE  \A a \in Appts : appt'[a].gcal = appt[a].gcal
        BY <1>0, <2>5 DEF Row
    <2> QED BY <2>1, <2>2, <2>4, <2>5 DEF WordMoved
<1>4. CASE DieInEvaluate \/ GiveUpWeather
    BY <1>4 DEF DieInEvaluate, GiveUpWeather, WordMoved
<1>5. CASE EndWeather
    BY <1>5 DEF EndWeather, WordMoved
<1>6. ASSUME NEW a \in Appts, Announce(a)
      PROVE  /\ UNCHANGED appt
             /\ \A b \in Appts : WordMoved(b) => WordMoved(b)'
             /\ \A b \in Appts, e \in Events \ {"moved"} : mail'[b][e] = mail[b][e]
    <2>1. /\ mail' = [mail EXCEPT ![a]["moved"] = @ + 1] /\ UNCHANGED appt
          /\ wx' = [wx EXCEPT !.moved = @ \ {a}] \/ wx' = wx
        BY <1>6 DEF Announce
    <2>2. wx.moved \ {a} \subseteq wx'.moved BY <1>0, <2>1 DEF WxType
    <2>3. mail'[a]["moved"] > 0 BY <1>0, <2>1 DEF Events, Reasons
    <2>4. \A b \in Appts \ {a} : mail'[b] = mail[b] BY <1>0, <2>1
    <2>5. \A b \in Appts, e \in Events \ {"moved"} : mail'[b][e] = mail[b][e] BY <1>0, <2>1
    <2> QED BY <2>1, <2>2, <2>3, <2>4, <2>5 DEF WordMoved
<1>7. ASSUME NEW r \in wx.todo, Assess(r)
      PROVE  wx'.moved = wx.moved /\ UNCHANGED <<appt, mail>>
    <2> DEFINE busy == {appt[b].day : b \in {c \in Appts \ {r.appt} : Scheduled(c)}}
               cur == IF r.day \in wx.risky THEN r ELSE None
    <2>1. wx' = [wx EXCEPT !.todo = @ \ {r}, !.cur = cur, !.busy = busy] /\ UNCHANGED <<appt, mail>>
        BY <1>7 DEF Assess
    <2> HIDE DEF cur, busy
    <2> QED BY <1>0, <2>1 DEF WxType
<1>8. ASSUME \E r \in wx.todo : Assess(r)
      PROVE  wx'.moved = wx.moved /\ UNCHANGED <<appt, mail>>
    BY <1>7, <1>8
<1> QED BY <1>1, <1>2, <1>3, <1>4, <1>5, <1>6, <1>8 DEF Weather, WordMoved

LEMMA WeatherCalendar ==
    ASSUME TypeOK, wx.step = "idle" => wx.moved = {}, CalendarInv, Weather \/ DieInEvaluate \/ GiveUpWeather
    PROVE  CalendarInv'
<1>1. /\ UNCHANGED <<known, run, sides, cast>> /\ lost \subseteq lost'
      /\ faults \in Nat /\ (faults' = faults \/ faults' = faults + 1)
      /\ \A a \in Appts : appt'[a].status = appt[a].status
    BY WeatherFrame
<1>2. /\ \A a \in Appts : appt'[a].gcal = appt[a].gcal
      /\ \A a \in Appts : WordMoved(a) => WordMoved(a)' \/ a \in lost'
      /\ \A a \in Appts, e \in Events \ {"moved"} : mail'[a][e] = mail[a][e]
    BY WeatherKeepsIds
<1>3. \A a \in Appts : appt'[a] = appt[a] \/ a \in wx'.moved BY WeatherFrame
<1>4. IdsAreOwned' BY <1>1, <1>2, OwnedKept DEF CalendarInv, sides, IdsAreOwned
<1>5. RunsAreListed'
    <2>1. known \subseteq Appts BY DEF TypeOK
    <2> QED BY <1>1, <1>2, <2>1 DEF CalendarInv, RunsAreListed, Born, Scheduled
<1>6. ASSUME NEW a \in Appts, Calm(a)' PROVE CalendarOf(a)'
    <2>1. Calm(a) /\ a \notin lost' BY <1>1, <1>6 DEF Calm, sides
    <2>2. CalendarOf(a) BY <2>1 DEF CalendarInv
    <2>3. appt'[a].day = appt[a].day \/ WordMoved(a)' BY <1>3 DEF WordMoved
    <2>4. Of(a)' = Of(a) BY <1>1 DEF Of, sides
    <2>5. \A q \in Runs : CalRun(q, a)' => CalRun(q, a) BY <1>1 DEF CalRun
    <2> QED BY <1>1, <1>2, <2>1, <2>2, <2>3, <2>4, <2>5, CalendarKept
<1> QED BY <1>4, <1>5, <1>6 DEF CalendarInv

\* An event starts one calendar run; the other calendar runs go on as they were.
LEMMA DeliverCalendar ==
    ASSUME TypeOK, RunsAreListed, NEW a \in Appts, NEW e \in Events, Deliver(a, e)
    PROVE  /\ \A q \in Runs : run[q].fn = "calendar" => run'[q] = run[q]
           /\ \A q \in Runs : run'[q].fn = "calendar" =>
                run'[q] = run[q] \/ run'[q] = Begun("calendar", a, e)
           /\ \A q, s \in Runs :
                run'[q].fn = "calendar" /\ run'[q] # run[q] /\ run'[s].fn = "calendar" /\ run'[s] # run[s]
                => q = s
           /\ "calendar" \in cast.functions => \E q \in Runs : run'[q] = Begun("calendar", a, e)
<1> DEFINE fns == Wakes(e) \cap cast.functions
           at  == CHOOSE f \in Places(fns) : TRUE
<1>1. at \in Places(fns) BY DEF Deliver
<1>2. /\ at \in [fns -> {p \in Runs : ~UnderWay(p)}]
      /\ \A f, g \in fns : at[f] = at[g] => f = g
    BY <1>1 DEF Places
<1>3. PICK inside \in SUBSET Hit(a, e) :
          run' = [p \in Runs |->
                    IF \E fn \in fns : at[fn] = p
                    THEN Begun(CHOOSE fn \in fns : at[fn] = p, a, e)
                    ELSE IF p \in inside THEN [run[p] EXCEPT !.cancelling = TRUE]
                    ELSE IF p \in Hit(a, e) THEN Ended(run[p])
                    ELSE run[p]]
    BY DEF Deliver
<1> HIDE DEF at
<1>4. \A fn \in fns : fn \in Functions BY DEF TypeOK, CastType
<1>5. ASSUME NEW fn \in fns PROVE Begun(fn, a, e).fn = fn
    BY <1>4, IdleOK DEF Begun, RunRow, StepOf
<1>6. \A q \in Runs : run[q] \in RunRow BY DEF TypeOK
<1>7. ASSUME NEW q \in Runs, NEW fn \in fns, at[fn] = q
      PROVE  run'[q] = Begun(fn, a, e)
    <2>1. (CHOOSE f \in fns : at[f] = q) = fn BY <1>2, <1>7
    <2> QED BY <1>3, <1>7, <2>1
<1>8. ASSUME NEW q \in Runs, \A fn \in fns : at[fn] # q
      PROVE  \/ run'[q] = run[q] /\ q \notin Hit(a, e)
             \/ q \in Hit(a, e) /\ run'[q].fn = "touches"
    <2>1. q \in Hit(a, e) => [run[q] EXCEPT !.cancelling = TRUE].fn = "touches"
        BY <1>6 DEF Hit, RunRow
    <2>2. Ended(run[q]).fn = "touches" BY <1>6, EndedOK
    <2> QED BY <1>3, <1>8, <2>1, <2>2
<1>9. ASSUME NEW q \in Runs, run[q].fn = "calendar" PROVE run'[q] = run[q]
    <2>1. UnderWay(q) BY <1>9 DEF RunsAreListed, UnderWay
    <2>2. \A fn \in fns : at[fn] # q BY <1>2, <2>1
    <2>3. q \notin Hit(a, e) BY <1>9 DEF Hit
    <2> QED BY <1>8, <2>2, <2>3
<1>10. ASSUME NEW q \in Runs, run'[q].fn = "calendar", run'[q] # run[q]
       PROVE  "calendar" \in fns /\ at["calendar"] = q /\ run'[q] = Begun("calendar", a, e)
    <2>1. PICK fn \in fns : at[fn] = q BY <1>8, <1>10
    <2>2. run'[q] = Begun(fn, a, e) BY <1>7, <2>1
    <2>3. fn = "calendar" BY <1>5, <1>10, <2>2
    <2> QED BY <2>1, <2>2, <2>3
<1>11. ASSUME "calendar" \in cast.functions PROVE \E q \in Runs : run'[q] = Begun("calendar", a, e)
    <2>1. "calendar" \in fns BY <1>11 DEF Wakes
    <2>2. at["calendar"] \in Runs BY <1>2, <2>1
    <2> QED BY <1>7, <2>1, <2>2
<1>12. \A q \in Runs : run'[q].fn = "calendar" => run'[q] = run[q] \/ run'[q] = Begun("calendar", a, e)
    BY <1>10
<1>13. \A q, s \in Runs :
         run'[q].fn = "calendar" /\ run'[q] # run[q] /\ run'[s].fn = "calendar" /\ run'[s] # run[s]
         => q = s
    BY <1>10
<1> QED BY <1>9, <1>11, <1>12, <1>13

LEMMA BegunCalendar ==
    ASSUME NEW a \in Appts, NEW e \in Events
    PROVE  LET r == Begun("calendar", a, e) IN
           /\ r.fn = "calendar" /\ r.appt = a /\ r.step = "load" /\ r.gcal = 0 /\ ~r.cancelling
           /\ r.deletes <=> e \in {"ended", "no_show"}
BY DEF Begun, Idle, Deletes

LEMMA DeliveryCalendar ==
    ASSUME TypeOK, BornInv, CalendarInv, NEW a \in Appts, NEW e \in Events, Deliver(a, e)
    PROVE  CalendarInv'
<1>1. /\ UNCHANGED <<appt, known, lost, calendar, made, wx, faults, cast>> /\ mail[a][e] > 0
      /\ mail' = [mail EXCEPT ![a][e] = @ - 1]
    BY DEF Deliver
<1>2. mail \in [Appts -> [Events -> Nat]] BY DEF TypeOK
<1>3. IdsAreOwned /\ RunsAreListed BY DEF CalendarInv
<1> DEFINE new == Begun("calendar", a, e)
<1>4. /\ new.fn = "calendar" /\ new.appt = a /\ new.step = "load" /\ new.gcal = 0 /\ ~new.cancelling
      /\ new.deletes <=> e \in {"ended", "no_show"}
    BY BegunCalendar
<1> HIDE DEF new
<1>5. /\ \A q \in Runs : run[q].fn = "calendar" => run'[q] = run[q]
      /\ \A q \in Runs : run'[q].fn = "calendar" => run'[q] = run[q] \/ run'[q] = new
      /\ \A q, s \in Runs :
           run'[q].fn = "calendar" /\ run'[q] # run[q] /\ run'[s].fn = "calendar" /\ run'[s] # run[s]
           => q = s
      /\ "calendar" \in cast.functions => \E q \in Runs : run'[q] = new
    BY <1>3, DeliverCalendar DEF new
<1>6. IdsAreOwned'
    <2>1. \A q \in Runs : run'[q].fn = "calendar" =>
            run'[q].gcal = 0 \/ (run[q].fn = "calendar" /\ run'[q] = run[q])
        BY <1>4, <1>5
    <2> QED BY <1>1, <1>3, <2>1, OwnedKept
<1>7. RunsAreListed'
    <2>1. \A q \in Runs : run'[q].fn = "calendar" =>
            ~run'[q].cancelling /\ run'[q].step \in {"load", "sync", "store"}
        BY <1>3, <1>4, <1>5 DEF RunsAreListed
    <2> QED BY <1>1, <1>3, <2>1 DEF RunsAreListed, Born, Scheduled
<1>8. crossed \subseteq crossed' BY DEF Deliver
<1>9. ASSUME NEW b \in Appts, b # a, Calm(b)' PROVE CalendarOf(b)'
    <2>1. Calm(b) BY <1>1, <1>8, <1>9 DEF Calm
    <2>2. CalendarOf(b) BY <2>1 DEF CalendarInv
    <2>3. mail'[b] = mail[b] BY <1>1, <1>2, <1>9
    <2>4. \A q \in Runs : CalRun(q, b)' => CalRun(q, b)
        BY <1>4, <1>5, <1>9 DEF CalRun
    <2>5. \A q \in Runs : CalRun(q, b) => run'[q] = run[q] BY <1>5 DEF CalRun
    <2>6. Of(b)' = Of(b) BY <1>1 DEF Of
    <2> QED BY <1>1, <2>2, <2>3, <2>4, <2>5, <2>6, CalendarKept DEF WordMoved
\* Nothing else was on its way, and no run at work.
<1>10. ASSUME Calm(a)' PROVE CalendarOf(a)'
    <2>1. Calm(a) /\ a \notin crossed' /\ "calendar" \in cast.functions
        BY <1>1, <1>8, <1>10 DEF Calm
    <2>2. ~Crosses(a, e)
        <3>1. "calendar" \in Wakes(e) \cap cast.functions BY <2>1 DEF Wakes
        <3> QED BY <2>1, <3>1 DEF Deliver
    <2>3. \A f \in Events : mail'[a][f] = 0 /\ (f # e => mail[a][f] = 0)
        <3>1. \A f \in Events : mail[a][f] <= (IF f = e THEN 1 ELSE 0) BY <1>2, <2>2 DEF Crosses
        <3> QED BY <1>1, <1>2, <3>1
    <2>4. \A q \in Runs : ~CalRun(q, a)
        BY <1>3, <2>2 DEF Crosses, CalRun, RunsAreListed, UnderWay
    <2>5. PICK p \in Runs : run'[p] = new BY <1>5, <2>1
    <2>6. CalRun(p, a)' /\ run'[p] # run[p] /\ \A q \in Runs : CalRun(q, a)' => q = p
        <3>1. CalRun(p, a)' BY <1>4, <2>5 DEF CalRun
        <3>2. \A q \in Runs : CalRun(q, a)' => run'[q] # run[q] BY <2>4 DEF CalRun
        <3> QED BY <1>5, <3>1, <3>2 DEF CalRun
    <2>7. \A q \in Runs : CalRun(q, a)' => run'[q].step = "load" /\ (run'[q].deletes <=> e \in {"ended", "no_show"})
        BY <1>4, <2>5, <2>6
    <2>8. CalendarOf(a) BY <2>1 DEF CalendarInv
    <2>9. mail'[a]["booked"] = 0 /\ ~WordEnded(a)' BY <2>3 DEF WordEnded, Events, Reasons
    <2>10. Born(a) /\ (Born(a)' <=> Born(a)) /\ (Scheduled(a)' <=> Scheduled(a)) /\ Of(a)' = Of(a)
        BY <1>1 DEF BornInv, Born, Scheduled, Of
    <2>11. WordEnded(a) <=> e \in {"ended", "no_show"}
        BY <1>1, <1>2, <2>3 DEF WordEnded, Events, Reasons
    <2>12. appt[a].gcal = 0 => Of(a) = {} /\ e = "booked"
        <3>1. appt[a].gcal = 0 => Of(a) = {} /\ mail[a]["booked"] > 0
            BY <2>4, <2>8, <2>10 DEF CalendarOf, NotYetStored
        <3> QED BY <2>3, <3>1 DEF Events
    <2>13. OneRun(a)' BY <2>6 DEF OneRun
    <2>14. NotYetStored(a)' BY <1>1, <2>5, <2>6, <2>7, <2>9, <2>10, <2>12 DEF NotYetStored
    <2>15. Stored(a)' BY <1>1, <2>7, <2>8, <2>9, <2>10 DEF Stored, CalendarOf
    <2>16. ShownWhileScheduled(a)'
        <3> SUFFICES ASSUME Scheduled(a)' PROVE ShownWhileScheduled(a)' BY DEF ShownWhileScheduled
        <3>1. ~WordEnded(a) BY <2>8, <2>10 DEF CalendarOf, ShownWhileScheduled
        <3>2. \A q \in Runs : CalRun(q, a)' => ~run'[q].deletes /\ run'[q].step = "load"
            BY <2>7, <2>11, <3>1
        <3>3. appt[a].gcal # 0 => \E c \in Of(a) : TRUE
            BY <2>8, <2>10 DEF CalendarOf, ShownWhileScheduled
        <3> QED BY <1>1, <2>6, <2>9, <2>10, <3>2, <3>3 DEF ShownWhileScheduled
    <2>17. HiddenOnceOver(a)'
        <3> SUFFICES ASSUME ~Scheduled(a) PROVE HiddenOnceOver(a)' BY <2>10 DEF HiddenOnceOver
        <3>1. WordEnded(a) \/ (appt[a].gcal # 0 /\ Of(a) = {})
            BY <2>4, <2>8, <2>10 DEF CalendarOf, HiddenOnceOver
        <3>2. CASE WordEnded(a)
            <4>1. appt[a].gcal # 0 BY <2>11, <2>12, <3>2
            <4> QED BY <1>1, <2>6, <2>7, <2>11, <3>2, <4>1 DEF HiddenOnceOver
        <3>3. CASE appt[a].gcal # 0 /\ Of(a) = {}
            BY <1>1, <2>10, <3>3 DEF HiddenOnceOver
        <3> QED BY <3>1, <3>2, <3>3
    <2> QED BY <2>13, <2>14, <2>15, <2>16, <2>17 DEF CalendarOf
<1> QED BY <1>6, <1>7, <1>9, <1>10 DEF CalendarInv

\* The record of a calendar run after each of its steps, unless a death repeats the step.
LEMMA CalendarEnds ==
    ASSUME TypeOK, RunsAreListed, NEW p \in Runs, run[p].fn = "calendar", NEW r \in RunRow,
           ~r.cancelling, NEW step \in StepOf \cup {"idle"}, Ends(p, r, step)
    PROVE  \/ faults' = faults + 1 /\ run'[p] = run[p]
           \/ faults' = faults /\ step # "idle" /\ run'[p] = [r EXCEPT !.step = step]
           \/ faults' = faults /\ step = "idle" /\ run'[p].fn = "touches"
BY EndsOK, EndedOK DEF GoOn

LEMMA LoadedRow ==
    ASSUME TypeOK, RunsAreListed, NEW p \in Runs, LoadCalendar(p)
    PROVE  \/ faults' = faults + 1 /\ run'[p] = run[p]
           \/ /\ faults' = faults /\ run'[p].fn = "calendar" /\ run'[p].appt = run[p].appt
              /\ run'[p].deletes = run[p].deletes /\ ~run'[p].cancelling /\ run'[p].step = "sync"
              /\ run'[p].day = appt[run[p].appt].day /\ run'[p].gcal = appt[run[p].appt].gcal
<1> DEFINE r == [run[p] EXCEPT !.day = appt[run[p].appt].day, !.gcal = appt[run[p].appt].gcal]
<1>1. run[p] \in RunRow /\ run[p].fn = "calendar" /\ ~run[p].cancelling
    BY DEF LoadCalendar, At, RunsAreListed, TypeOK
<1>2. run[p].appt \in Appts /\ appt[run[p].appt] \in Row BY <1>1 DEF TypeOK, RunRow
<1>3. /\ r \in RunRow /\ r.fn = "calendar" /\ r.appt = run[p].appt /\ r.deletes = run[p].deletes
      /\ ~r.cancelling /\ r.day = appt[run[p].appt].day /\ r.gcal = appt[run[p].appt].gcal
    BY <1>1, <1>2 DEF RunRow, Row
<1>4. Ends(p, r, "sync") BY DEF LoadCalendar
<1> HIDE DEF r
<1>s. "sync" \in StepOf \cup {"idle"} BY DEF StepOf
<1>5. \/ faults' = faults + 1 /\ run'[p] = run[p]
      \/ faults' = faults /\ run'[p] = [r EXCEPT !.step = "sync"]
    BY <1>1, <1>3, <1>4, <1>s, CalendarEnds
<1> QED BY <1>3, <1>5 DEF RunRow

LEMMA SyncedRow ==
    ASSUME TypeOK, RunsAreListed, NEW p \in Runs, Sync(p)
    PROVE  \/ faults' = faults + 1 /\ run'[p] = run[p]
           \/ /\ run[p].deletes \/ run[p].gcal # 0
              /\ faults' = faults /\ run'[p].fn = "touches"
           \/ /\ ~run[p].deletes /\ run[p].gcal = 0
              /\ faults' = faults /\ run'[p].fn = "calendar" /\ run'[p].appt = run[p].appt
              /\ run'[p].deletes = run[p].deletes /\ ~run'[p].cancelling /\ run'[p].step = "store"
              /\ run'[p].day = run[p].day /\ run'[p].gcal = made + 1
<1> DEFINE r == [run[p] EXCEPT !.gcal = made + 1]
<1>1. run[p] \in RunRow /\ run[p].fn = "calendar" /\ ~run[p].cancelling
    BY DEF Sync, At, RunsAreListed, TypeOK
<1>2. CASE run[p].deletes \/ run[p].gcal # 0
    <2>1. Ends(p, run[p], "idle") BY <1>2 DEF Sync
    <2> QED BY <1>1, <1>2, <2>1, CalendarEnds
<1>3. CASE ~run[p].deletes /\ run[p].gcal = 0
    <2>1. made + 1 \in Nat BY DEF TypeOK
    <2>2. /\ r \in RunRow /\ r.fn = "calendar" /\ r.appt = run[p].appt /\ r.deletes = run[p].deletes
          /\ ~r.cancelling /\ r.day = run[p].day /\ r.gcal = made + 1
        BY <1>1, <2>1 DEF RunRow, Ids
    <2>3. Ends(p, r, "store") BY <1>3 DEF Sync
    <2> HIDE DEF r
    <2>s. "store" \in StepOf \cup {"idle"} BY DEF StepOf
    <2>4. \/ faults' = faults + 1 /\ run'[p] = run[p]
          \/ faults' = faults /\ run'[p] = [r EXCEPT !.step = "store"]
        BY <1>1, <2>2, <2>3, <2>s, CalendarEnds
    <2> QED BY <1>3, <2>2, <2>4 DEF RunRow
<1> QED BY <1>2, <1>3

LEMMA StoredRow ==
    ASSUME TypeOK, RunsAreListed, NEW p \in Runs, Store(p)
    PROVE  \/ faults' = faults + 1 /\ run'[p] = run[p]
           \/ faults' = faults /\ run'[p].fn = "touches"
<1>1. run[p] \in RunRow /\ run[p].fn = "calendar" /\ ~run[p].cancelling
    BY DEF Store, At, RunsAreListed, TypeOK
<1>2. Ends(p, run[p], "idle") BY DEF Store
<1> QED BY <1>1, <1>2, CalendarEnds

\* A step of a calendar run leaves the runs of other appointments alone.
LEMMA OtherRuns ==
    ASSUME NEW p \in Runs, NEW a \in Appts, run[p].appt # a,
           \A q \in Runs \ {p} : run'[q] = run[q],
           run'[p].fn = "touches" \/ run'[p].appt = run[p].appt
    PROVE  /\ \A q \in Runs : CalRun(q, a)' => CalRun(q, a)
           /\ \A q \in Runs : CalRun(q, a) => run'[q] = run[q]
BY DEF CalRun

LEMMA LoadCalendarKeeps ==
    ASSUME TypeOK, CalendarInv, NEW p \in Runs, LoadCalendar(p)
    PROVE  CalendarInv'
<1>1. run[p].fn = "calendar" /\ run[p].step = "load" /\ run[p].appt \in Appts
    BY DEF LoadCalendar, At, TypeOK, RunRow
<1>b. PICK b \in Appts : b = run[p].appt BY <1>1
<1>2. UNCHANGED <<appt, mail, known, lost, calendar, made, crossed, wx, cast>>
    BY DEF LoadCalendar, rows, sides
<1>3. IdsAreOwned /\ RunsAreListed BY DEF CalendarInv
<1>4. \A q \in Runs \ {p} : run'[q] = run[q]
    BY GoFrame DEF Goes, CalendarSync
<1>5. \/ faults' = faults + 1 /\ run'[p] = run[p]
      \/ /\ faults' = faults /\ run'[p].fn = "calendar" /\ run'[p].appt = b
         /\ run'[p].deletes = run[p].deletes /\ ~run'[p].cancelling /\ run'[p].step = "sync"
         /\ run'[p].day = appt[b].day /\ run'[p].gcal = appt[b].gcal
    BY <1>3, <1>b, LoadedRow
<1>6. faults \in Nat BY ApptAssumption DEF TypeOK
<1>7. IdsAreOwned'
    <2>1. \A q \in Runs : run'[q].fn = "calendar" =>
            \/ run'[q].gcal = 0
            \/ run[q].fn = "calendar" /\ run'[q].gcal = run[q].gcal /\ run'[q].appt = run[q].appt
            \/ run'[q].appt \in Appts /\ run'[q].gcal = appt[run'[q].appt].gcal
        BY <1>4, <1>5
    <2> QED BY <1>2, <1>3, <2>1, OwnedKept
<1>8. RunsAreListed'
    <2>1. \A q \in Runs : run'[q].fn = "calendar" =>
            ~run'[q].cancelling /\ run'[q].step \in {"load", "sync", "store"}
        BY <1>3, <1>4, <1>5 DEF RunsAreListed
    <2> QED BY <1>2, <1>3, <2>1 DEF RunsAreListed, Born, Scheduled
<1>9. ASSUME NEW a \in Appts, Calm(a)' PROVE CalendarOf(a)'
    <2>1. Calm(a) /\ faults' = faults BY <1>2, <1>5, <1>6, <1>9 DEF Calm
    <2>2. CalendarOf(a) BY <2>1 DEF CalendarInv
    <2>3. Of(a)' = Of(a) BY <1>2 DEF Of
    <2>4. CASE a # b
        <3>1. /\ \A q \in Runs : CalRun(q, a)' => CalRun(q, a)
              /\ \A q \in Runs : CalRun(q, a) => run'[q] = run[q]
            BY <1>b, <1>4, <1>5, <2>4, OtherRuns
        <3> QED BY <1>2, <2>2, <2>3, <3>1, CalendarKept DEF WordMoved
    <2>5. CASE a = b
        <3>1. CalRun(p, a) /\ \A q \in Runs : CalRun(q, a) => q = p
            BY <1>1, <1>b, <2>2, <2>5 DEF CalRun, CalendarOf, OneRun
        <3>2. CalRun(p, a)' /\ \A q \in Runs : CalRun(q, a)' => q = p
            BY <1>4, <1>5, <1>6, <2>1, <2>5, <3>1 DEF CalRun
        <3>3. /\ run'[p].deletes = run[p].deletes /\ run'[p].step = "sync"
              /\ run'[p].day = appt[a].day /\ run'[p].gcal = appt[a].gcal
            BY <1>5, <1>6, <2>1, <2>5
        <3>4. OneRun(a)' BY <3>2 DEF OneRun
        <3>5. NotYetStored(a)'
            BY <1>1, <1>2, <2>2, <2>3, <3>1, <3>2, <3>3 DEF CalendarOf, NotYetStored
        <3>6. Stored(a)'
            BY <1>2, <2>2, <2>3, <3>1, <3>2, <3>3 DEF CalendarOf, Stored
        <3>7. ShownWhileScheduled(a)'
            BY <1>2, <2>2, <2>3, <3>1, <3>2, <3>3
               DEF CalendarOf, ShownWhileScheduled, Scheduled, WordEnded, WordMoved
        <3>8. HiddenOnceOver(a)'
            BY <1>2, <2>2, <2>3, <3>1, <3>2, <3>3
               DEF CalendarOf, HiddenOnceOver, Scheduled, Born, WordEnded
        <3> QED BY <3>4, <3>5, <3>6, <3>7, <3>8 DEF CalendarOf
    <2> QED BY <2>4, <2>5
<1> QED BY <1>7, <1>8, <1>9 DEF CalendarInv

\* What a sync does to the calendar: it drops the run's event, redates it, or makes a new one.
LEMMA SyncOwned ==
    ASSUME TypeOK, CalendarInv, NEW p \in Runs, Sync(p)
    PROVE  IdsAreOwned'
<1>1. run[p].fn = "calendar" /\ run[p].step = "sync" BY DEF Sync, At
<1>2. UNCHANGED appt BY DEF Sync, rows
<1>3. IdsAreOwned /\ RunsAreListed /\ made \in Nat
      /\ calendar \subseteq [id : Ids, appt : Appts, day : Days]
    BY DEF CalendarInv, TypeOK
<1>4. \A q \in Runs \ {p} : run'[q] = run[q]
    BY GoFrame DEF Goes, CalendarSync
<1>5. \/ run'[p] = run[p] \/ run'[p].fn = "touches"
      \/ /\ ~run[p].deletes /\ run[p].gcal = 0
         /\ run'[p].appt = run[p].appt /\ run'[p].gcal = made + 1
    BY <1>3, SyncedRow
<1>6. CASE run[p].deletes \/ run[p].gcal # 0
    <2>1. made' = made BY <1>6 DEF Sync
    <2>2. \A q \in Runs : run'[q].fn = "calendar" => run'[q] = run[q] BY <1>4, <1>5, <1>6
    <2>3. CASE run[p].deletes
        <3>1. calendar' \subseteq calendar BY <2>3 DEF Sync
        <3>2. \A c \in calendar' : c \in calendar BY <3>1
        <3> QED BY <1>2, <1>3, <2>1, <2>2, <3>2 DEF IdsAreOwned
    <2>4. CASE ~run[p].deletes
        <3> DEFINE Dated(c) == IF c.id = run[p].gcal THEN [c EXCEPT !.day = run[p].day] ELSE c
        <3>1. calendar' = {Dated(c) : c \in calendar} BY <1>6, <2>4 DEF Sync
        <3>2. \A c \in calendar : Dated(c).id = c.id /\ Dated(c).appt = c.appt BY <1>3
        <3> HIDE DEF Dated
        <3>3. \A c \in calendar' : \E d \in calendar : c = Dated(d) /\ c.id = d.id /\ c.appt = d.appt
            BY <3>1, <3>2
        <3>4. \A c \in calendar' : c.id \in 1..made BY <1>3, <3>3 DEF IdsAreOwned
        <3>5. \A c, d \in calendar' : c.id = d.id => c = d BY <1>3, <3>3 DEF IdsAreOwned
        <3>6. \A a \in Appts : \A c \in calendar' : c.id = appt[a].gcal => c.appt = a
            BY <1>3, <3>3 DEF IdsAreOwned
        <3>7. \A q \in Runs : run[q].fn = "calendar" =>
                \A c \in calendar' : c.id = run[q].gcal => c.appt = run[q].appt
            BY <1>3, <3>3 DEF IdsAreOwned
        <3> QED BY <1>2, <1>3, <2>1, <2>2, <3>4, <3>5, <3>6, <3>7 DEF IdsAreOwned
    <2> QED BY <2>3, <2>4
<1>7. CASE ~run[p].deletes /\ run[p].gcal = 0
    <2> DEFINE new == [id |-> made + 1, appt |-> run[p].appt, day |-> run[p].day]
    <2>1. made' = made + 1 /\ calendar' = calendar \cup {new} BY <1>7 DEF Sync
    <2>2. new.id = made + 1 /\ new.appt = run[p].appt OBVIOUS
    <2> HIDE DEF new
    <2>3. \A c \in calendar' : c = new \/ (c \in calendar /\ c.id \in 1..made)
        BY <1>3, <2>1 DEF IdsAreOwned
    <2>4. \A c \in calendar' : c.id \in 1..made' BY <1>3, <2>1, <2>2, <2>3
    <2>5. \A c, d \in calendar' : c.id = d.id => c = d BY <1>3, <2>2, <2>3 DEF IdsAreOwned
    <2>6. \A a \in Appts : appt[a].gcal \in Nat BY DEF TypeOK, Row, Ids
    <2>7. \A a \in Appts : appt[a].gcal <= made' /\ \A c \in calendar' : c.id = appt[a].gcal => c.appt = a
        BY <1>3, <2>1, <2>2, <2>3, <2>6 DEF IdsAreOwned
    <2>8. \A q \in Runs : run[q].gcal \in Nat BY DEF TypeOK, RunRow, Ids
    <2>9. ASSUME NEW q \in Runs, run'[q].fn = "calendar"
          PROVE  run'[q].gcal <= made' /\ \A c \in calendar' : c.id = run'[q].gcal => c.appt = run'[q].appt
        <3>1. CASE run'[q] = run[q]
            BY <1>3, <2>1, <2>2, <2>3, <2>8, <2>9, <3>1 DEF IdsAreOwned
        <3>2. CASE q = p /\ run'[p].appt = run[p].appt /\ run'[p].gcal = made + 1
            BY <1>3, <2>1, <2>2, <2>3, <3>2
        <3> QED BY <1>4, <1>5, <2>9, <3>1, <3>2
    <2> QED BY <1>2, <2>4, <2>5, <2>7, <2>9 DEF IdsAreOwned
<1> QED BY <1>6, <1>7

LEMMA SyncElsewhere ==
    ASSUME TypeOK, IdsAreOwned, NEW p \in Runs, Sync(p), NEW a \in Appts, run[p].appt # a
    PROVE  Of(a)' = Of(a)
<1>1. \A c \in calendar : c.id = run[p].gcal => c.appt # a BY DEF IdsAreOwned, Sync, At
<1>2. CASE run[p].deletes
    BY <1>1, <1>2 DEF Sync, Of
<1>3. CASE ~run[p].deletes /\ run[p].gcal # 0
    <2> DEFINE Dated(c) == IF c.id = run[p].gcal THEN [c EXCEPT !.day = run[p].day] ELSE c
    <2>1. calendar' = {Dated(c) : c \in calendar} BY <1>3 DEF Sync
    <2>2. \A c \in calendar : Dated(c).appt = c.appt BY DEF TypeOK
    <2>3. \A c \in calendar : c.appt = a => Dated(c) = c BY <1>1
    <2> HIDE DEF Dated
    <2> QED BY <2>1, <2>2, <2>3 DEF Of
<1>4. CASE ~run[p].deletes /\ run[p].gcal = 0
    BY <1>4 DEF Sync, Of
<1> QED BY <1>2, <1>3, <1>4

LEMMA SyncKeeps ==
    ASSUME TypeOK, CalendarInv, NEW p \in Runs, Sync(p)
    PROVE  CalendarInv'
<1>1. run[p].fn = "calendar" /\ run[p].step = "sync" /\ run[p].appt \in Appts
    BY DEF Sync, At, TypeOK, RunRow
<1>b. PICK b \in Appts : b = run[p].appt BY <1>1
<1>2. UNCHANGED <<appt, mail, known, lost, crossed, wx, cast>> BY DEF Sync, rows
<1>3. IdsAreOwned /\ RunsAreListed BY DEF CalendarInv
<1>4. \A q \in Runs \ {p} : run'[q] = run[q]
    BY GoFrame DEF Goes, CalendarSync
<1>5. \/ faults' = faults + 1 /\ run'[p] = run[p]
      \/ /\ run[p].deletes \/ run[p].gcal # 0
         /\ faults' = faults /\ run'[p].fn = "touches"
      \/ /\ ~run[p].deletes /\ run[p].gcal = 0
         /\ faults' = faults /\ run'[p].fn = "calendar" /\ run'[p].appt = b
         /\ run'[p].deletes = run[p].deletes /\ ~run'[p].cancelling /\ run'[p].step = "store"
         /\ run'[p].day = run[p].day /\ run'[p].gcal = made + 1
    BY <1>3, <1>b, SyncedRow
<1>6. faults \in Nat /\ made \in Nat /\ calendar \subseteq [id : Ids, appt : Appts, day : Days]
    BY ApptAssumption DEF TypeOK
<1>7. IdsAreOwned' BY SyncOwned
<1>8. RunsAreListed'
    <2>1. \A q \in Runs : run'[q].fn = "calendar" =>
            ~run'[q].cancelling /\ run'[q].step \in {"load", "sync", "store"}
        BY <1>3, <1>4, <1>5 DEF RunsAreListed
    <2> QED BY <1>2, <1>3, <2>1 DEF RunsAreListed, Born, Scheduled
<1>9. ASSUME NEW a \in Appts, Calm(a)' PROVE CalendarOf(a)'
    <2>1. Calm(a) /\ faults' = faults BY <1>2, <1>5, <1>6, <1>9 DEF Calm
    <2>2. CalendarOf(a) BY <2>1 DEF CalendarInv
    <2>3. CASE a # b
        <3>1. /\ \A q \in Runs : CalRun(q, a)' => CalRun(q, a)
              /\ \A q \in Runs : CalRun(q, a) => run'[q] = run[q]
            BY <1>b, <1>4, <1>5, <2>3, OtherRuns
        <3>2. Of(a)' = Of(a) BY <1>b, <1>3, <2>3, SyncElsewhere
        <3> QED BY <1>2, <2>2, <3>1, <3>2, CalendarKept DEF WordMoved
    <2>4. CASE a = b
        <3>1. CalRun(p, a) /\ \A q \in Runs : CalRun(q, a) => q = p
            BY <1>1, <1>b, <2>2, <2>4 DEF CalRun, CalendarOf, OneRun
        <3>2. \A q \in Runs : CalRun(q, a)' => q = p BY <1>4, <3>1 DEF CalRun
        <3>3. OneRun(a)' BY <3>2 DEF OneRun
        <3>4. appt[a].gcal # 0 => run[p].gcal = appt[a].gcal /\ \A c \in Of(a) : c.id = run[p].gcal
            BY <1>1, <2>2, <3>1 DEF CalendarOf, Stored
        <3>5. appt[a].gcal = 0 => ~run[p].deletes /\ run[p].gcal = 0 /\ Of(a) = {} /\ mail[a]["booked"] = 0
            BY <1>1, <2>2, <3>1 DEF CalendarOf, NotYetStored
        <3>6. CASE run[p].deletes \/ run[p].gcal # 0
            <4>1. \A q \in Runs : ~CalRun(q, a)'
                BY <1>5, <1>6, <2>1, <3>2, <3>6 DEF CalRun
            <4>2. appt[a].gcal # 0 BY <3>5, <3>6
            <4>3. CASE run[p].deletes
                <5>1. calendar' = {c \in calendar : c.id # run[p].gcal} BY <4>3 DEF Sync
                <5>2. Of(a)' = {} BY <3>4, <4>2, <5>1 DEF Of
                <5>3. ~Scheduled(a) BY <2>2, <3>1, <4>3 DEF CalendarOf, ShownWhileScheduled
                <5> QED BY <1>2, <2>2, <3>3, <4>1, <4>2, <5>2, <5>3
                        DEF CalendarOf, NotYetStored, Stored, ShownWhileScheduled, HiddenOnceOver, Scheduled
            <4>4. CASE ~run[p].deletes
                <5> DEFINE Dated(c) == IF c.id = run[p].gcal THEN [c EXCEPT !.day = run[p].day] ELSE c
                <5>1. calendar' = {Dated(c) : c \in calendar} BY <3>6, <4>4 DEF Sync
                <5>2. \A c \in calendar : Dated(c).id = c.id /\ Dated(c).appt = c.appt BY <1>6
                <5>3. \A c \in Of(a) : Dated(c).day = run[p].day BY <1>6, <3>4, <4>2 DEF Of
                <5> HIDE DEF Dated
                <5>4. \A c \in Of(a)' : \E d \in Of(a) : c = Dated(d) /\ c.id = d.id
                    BY <5>1, <5>2 DEF Of
                <5>5. \A c \in Of(a) : Dated(c) \in Of(a)' BY <5>1, <5>2 DEF Of
                <5>6. Stored(a)' /\ NotYetStored(a)'
                    BY <1>2, <2>2, <4>1, <4>2, <5>4 DEF CalendarOf, Stored, NotYetStored
                <5>7. ShownWhileScheduled(a)'
                    <6> SUFFICES ASSUME Scheduled(a)' PROVE ShownWhileScheduled(a)'
                        BY DEF ShownWhileScheduled
                    <6>1. Scheduled(a) BY <1>2 DEF Scheduled
                    <6>2. PICK c \in Of(a) : TRUE BY <2>2, <4>2, <6>1 DEF CalendarOf, ShownWhileScheduled
                    <6>3. run[p].day = appt[a].day \/ WordMoved(a)
                        BY <1>1, <2>2, <3>1, <6>1 DEF CalendarOf, ShownWhileScheduled
                    <6>4. Dated(c) \in Of(a)' /\ (Dated(c).day = appt'[a].day \/ WordMoved(a)')
                        BY <1>2, <5>3, <5>5, <6>2, <6>3 DEF WordMoved
                    <6>5. ~WordEnded(a)'
                        BY <1>2, <2>2, <6>1 DEF CalendarOf, ShownWhileScheduled, WordEnded
                    <6> QED BY <4>1, <6>4, <6>5 DEF ShownWhileScheduled
                <5>8. HiddenOnceOver(a)'
                    <6>1. Of(a) = {} => Of(a)' = {} BY <5>4
                    <6>2. ~ \E q \in Runs : CalRun(q, a) /\ run[q].deletes BY <3>1, <4>4
                    <6> QED BY <1>2, <2>2, <6>1, <6>2
                            DEF CalendarOf, HiddenOnceOver, Born, Scheduled, WordEnded
                <5> QED BY <3>3, <5>6, <5>7, <5>8 DEF CalendarOf
            <4> QED BY <4>3, <4>4
        <3>7. CASE ~run[p].deletes /\ run[p].gcal = 0
            <4> DEFINE new == [id |-> made + 1, appt |-> a, day |-> run[p].day]
            <4>1. appt[a].gcal = 0 BY <3>4, <3>7
            <4>2. calendar' = calendar \cup {new} BY <1>b, <2>4, <3>7 DEF Sync
            <4>3. Of(a)' = {new} BY <3>5, <4>1, <4>2 DEF Of
            <4>4. /\ CalRun(p, a)' /\ run'[p].deletes = run[p].deletes /\ run'[p].step = "store"
                  /\ run'[p].day = run[p].day /\ run'[p].gcal = made + 1
                BY <1>5, <1>6, <2>1, <2>4, <3>7 DEF CalRun
            <4>5. NotYetStored(a)'
                BY <1>2, <1>6, <3>2, <3>5, <3>7, <4>1, <4>3, <4>4 DEF NotYetStored
            <4>6. Stored(a)' BY <1>2, <4>1 DEF Stored
            <4>7. ShownWhileScheduled(a)'
                BY <1>1, <1>2, <2>2, <3>1, <3>2, <3>7, <4>1, <4>4
                   DEF CalendarOf, ShownWhileScheduled, Scheduled, WordEnded, WordMoved
            <4>8. HiddenOnceOver(a)'
                BY <1>2, <2>2, <4>1 DEF CalendarOf, HiddenOnceOver, Born, Scheduled, WordEnded
            <4> QED BY <3>3, <4>5, <4>6, <4>7, <4>8 DEF CalendarOf
        <3> QED BY <3>6, <3>7
    <2> QED BY <2>3, <2>4
<1> QED BY <1>7, <1>8, <1>9 DEF CalendarInv

LEMMA StoreKeeps ==
    ASSUME TypeOK, BornInv, CalendarInv, NEW p \in Runs, Store(p)
    PROVE  CalendarInv'
<1>1. run[p].fn = "calendar" /\ run[p].step = "store" /\ run[p].appt \in Appts /\ run[p] \in RunRow
    BY DEF Store, At, TypeOK, RunRow
<1>b. PICK b \in Appts : b = run[p].appt BY <1>1
<1>2. UNCHANGED <<mail, known, lost, calendar, made, crossed, wx, cast>> BY DEF Store, sides
<1>3. IdsAreOwned /\ RunsAreListed BY DEF CalendarInv
<1>4. \A q \in Runs \ {p} : run'[q] = run[q]
    BY GoFrame DEF Goes, CalendarSync
<1>5. \/ faults' = faults + 1 /\ run'[p] = run[p]
      \/ faults' = faults /\ run'[p].fn = "touches"
    BY <1>3, StoredRow
<1>6. faults \in Nat /\ appt \in [Appts -> Row] BY ApptAssumption DEF TypeOK
<1>7. /\ \A a \in Appts \ {b} : appt'[a] = appt[a]
      /\ appt'[b].gcal = run[p].gcal /\ appt'[b].status = appt[b].status /\ appt'[b].day = appt[b].day
    <2>1. appt' = [appt EXCEPT ![b] = [appt[b] EXCEPT !.gcal = run[p].gcal]] BY <1>b DEF Store
    <2> QED BY <1>6, <2>1 DEF Row
<1>8. \A q \in Runs : run'[q].fn = "calendar" => run'[q] = run[q] BY <1>4, <1>5
<1>9. IdsAreOwned'
    <2>1. run[p].gcal <= made /\ \A c \in calendar : c.id = run[p].gcal => c.appt = b
        BY <1>1, <1>b, <1>3 DEF IdsAreOwned
    <2>2. \A a \in Appts : appt'[a].gcal <= made /\ \A c \in calendar : c.id = appt'[a].gcal => c.appt = a
        BY <1>3, <1>7, <2>1 DEF IdsAreOwned
    <2> QED BY <1>2, <1>3, <1>8, <2>2 DEF IdsAreOwned
<1>10. RunsAreListed'
    <2>1. known \subseteq Appts BY DEF TypeOK
    <2>2. Born(b) BY <1>1, <1>b DEF BornInv, UnderWay
    <2>3. \A a \in Appts : appt'[a].status = appt[a].status BY <1>7
    <2>4. \A a \in Appts : ~Born(a)' => appt'[a].gcal = 0
        BY <1>3, <1>7, <2>2, <2>3 DEF RunsAreListed, Born
    <2>5. \A a \in known' : Born(a)' /\ ~Scheduled(a)'
        BY <1>2, <1>3, <2>1, <2>3 DEF RunsAreListed, Born, Scheduled
    <2> QED BY <1>3, <1>8, <2>4, <2>5 DEF RunsAreListed
<1>11. ASSUME NEW a \in Appts, Calm(a)' PROVE CalendarOf(a)'
    <2>1. Calm(a) /\ faults' = faults BY <1>2, <1>5, <1>6, <1>11 DEF Calm
    <2>2. CalendarOf(a) BY <2>1 DEF CalendarInv
    <2>3. Of(a)' = Of(a) BY <1>2 DEF Of
    <2>4. CASE a # b
        <3>1. /\ \A q \in Runs : CalRun(q, a)' => CalRun(q, a)
              /\ \A q \in Runs : CalRun(q, a) => run'[q] = run[q]
            BY <1>b, <1>4, <1>5, <2>4, OtherRuns
        <3>2. appt'[a] = appt[a] BY <1>7, <2>4
        <3> QED BY <1>2, <2>2, <2>3, <3>1, <3>2, CalendarKept DEF WordMoved
    <2>5. CASE a = b
        <3>1. CalRun(p, a) /\ \A q \in Runs : CalRun(q, a) => q = p
            BY <1>1, <1>b, <2>2, <2>5 DEF CalRun, CalendarOf, OneRun
        <3>2. \A q \in Runs : ~CalRun(q, a)' BY <1>4, <1>5, <1>6, <2>1, <3>1 DEF CalRun
        <3>3. appt[a].gcal = 0 BY <1>1, <2>2, <3>1 DEF CalendarOf, Stored
        <3>4. /\ run[p].gcal # 0 /\ Of(a) = {[id |-> run[p].gcal, appt |-> a, day |-> run[p].day]}
              /\ mail[a]["booked"] = 0
            BY <1>1, <2>2, <3>1, <3>3 DEF CalendarOf, NotYetStored
        <3>5. appt'[a].gcal = run[p].gcal /\ appt'[a].status = appt[a].status /\ appt'[a].day = appt[a].day
            BY <1>7, <2>5
        <3>6. OneRun(a)' /\ NotYetStored(a)' BY <3>2, <3>4, <3>5 DEF OneRun, NotYetStored
        <3>7. Stored(a)' BY <1>2, <2>3, <3>2, <3>4, <3>5 DEF Stored
        <3>8. ShownWhileScheduled(a)'
            <4> SUFFICES ASSUME Scheduled(a)' PROVE ShownWhileScheduled(a)' BY DEF ShownWhileScheduled
            <4>1. Scheduled(a) BY <3>5 DEF Scheduled
            <4>2. run[p].day = appt[a].day \/ WordMoved(a)
                BY <1>1, <2>2, <3>1, <4>1 DEF CalendarOf, ShownWhileScheduled
            <4>3. ~WordEnded(a)' BY <1>2, <2>2, <4>1 DEF CalendarOf, ShownWhileScheduled, WordEnded
            <4>4. \E c \in Of(a)' : c.day = appt'[a].day \/ WordMoved(a)'
                BY <1>2, <2>3, <3>4, <3>5, <4>2 DEF WordMoved
            <4> QED BY <3>2, <4>3, <4>4 DEF ShownWhileScheduled
        <3>9. HiddenOnceOver(a)'
            BY <1>2, <2>2, <3>3, <3>5 DEF CalendarOf, HiddenOnceOver, Born, Scheduled, WordEnded
        <3> QED BY <3>6, <3>7, <3>8, <3>9 DEF CalendarOf
    <2> QED BY <2>4, <2>5
<1> QED BY <1>9, <1>10, <1>11 DEF CalendarInv

\* A run of another function, or one given up: it has no place in the calendar, or ends the calm.
LEMMA OthersKeep ==
    ASSUME TypeOK, CalendarInv, NEW p \in Runs, Touches(p) \/ NoShow(p) \/ GiveUp(p)
    PROVE  CalendarInv'
<1>1. UNCHANGED <<appt, calendar, made, crossed, cast>>
    BY DEF Touches, Load, Recheck, LetOut, Withhold, NoShow, LoadNoShow, TextNoShow, Reenroll, GiveUp,
           rows, sides
<1>2. /\ UNCHANGED <<mail, known, wx>> /\ lost \subseteq lost'
      /\ faults \in Nat /\ (faults' = faults \/ faults' = faults + 1)
      /\ \A q \in Runs \ {p} : run'[q] = run[q]
      /\ run'[p].fn = "touches" \/ run'[p].fn = run[p].fn
    BY GoFrame DEF Goes
<1>3. IdsAreOwned /\ RunsAreListed /\ run[p] \in RunRow BY DEF CalendarInv, TypeOK
<1>4. run'[p].fn # "calendar"
    <2>1. CASE GiveUp(p)
        <3>1. run'[p] = Ended(run[p]) BY <2>1 DEF GiveUp, TypeOK
        <3> QED BY <1>3, <3>1, EndedOK
    <2>2. CASE Touches(p) \/ NoShow(p)
        <3>1. run[p].fn # "calendar"
            BY <2>2 DEF Touches, Load, Recheck, LetOut, Withhold, NoShow, LoadNoShow, TextNoShow, Reenroll, At
        <3> QED BY <1>2, <3>1
    <2> QED BY <2>1, <2>2
<1>5. \A q \in Runs : run'[q].fn = "calendar" => run'[q] = run[q] BY <1>2, <1>4
<1>6. IdsAreOwned' BY <1>1, <1>3, <1>5, OwnedKept
<1>7. RunsAreListed' BY <1>1, <1>2, <1>3, <1>5 DEF RunsAreListed, Born, Scheduled
<1>8. ASSUME NEW a \in Appts, Calm(a)' PROVE CalendarOf(a)'
    <2>1. Calm(a) /\ faults' = faults BY <1>1, <1>2, <1>8 DEF Calm
    <2>2. CalendarOf(a) BY <2>1 DEF CalendarInv
    <2>3. run[p].fn # "calendar"
        <3>1. ~GiveUp(p) BY <1>2, <2>1 DEF GiveUp
        <3> QED BY <3>1 DEF Touches, Load, Recheck, LetOut, Withhold,
                            NoShow, LoadNoShow, TextNoShow, Reenroll, At
    <2>4. /\ \A q \in Runs : CalRun(q, a)' => CalRun(q, a)
          /\ \A q \in Runs : CalRun(q, a) => run'[q] = run[q]
        BY <1>2, <1>4, <2>3 DEF CalRun
    <2>5. Of(a)' = Of(a) BY <1>1 DEF Of
    <2> QED BY <1>1, <1>2, <2>2, <2>4, <2>5, CalendarKept DEF WordMoved
<1> QED BY <1>6, <1>7, <1>8 DEF CalendarInv

LEMMA CalendarStep == TypeOK /\ BornInv /\ StaleInv /\ CalendarInv /\ [Next]_vars => CalendarInv'
<1> SUFFICES ASSUME TypeOK, BornInv, StaleInv, CalendarInv, [Next]_vars PROVE CalendarInv' OBVIOUS
<1>1. CASE People BY <1>1, PeopleCalendar
<1>2. CASE Weather \/ DieInEvaluate \/ GiveUpWeather BY <1>2, WeatherCalendar DEF StaleInv
<1>3. ASSUME NEW p \in Runs, Goes(p) \/ GiveUp(p) PROVE CalendarInv'
    BY <1>3, LoadCalendarKeeps, SyncKeeps, StoreKeeps, OthersKeep DEF Goes, CalendarSync
<1>4. ASSUME NEW a \in Appts, NEW e \in Events, Deliver(a, e) PROVE CalendarInv'
    BY <1>4, DeliveryCalendar
<1>5. CASE UNCHANGED vars
    <2>1. UNCHANGED <<appt, mail, known, lost, run, calendar, made, crossed, wx, faults, cast>>
        BY <1>5 DEF vars, rows, sides
    <2>2. IdsAreOwned' /\ RunsAreListed'
        BY <2>1 DEF CalendarInv, IdsAreOwned, RunsAreListed, Born, Scheduled
    <2>3. ASSUME NEW a \in Appts, Calm(a)' PROVE CalendarOf(a)'
        <3>1. CalendarOf(a) BY <2>1, <2>3 DEF Calm, CalendarInv
        <3> QED BY <2>1, <3>1, CalendarKept DEF Of, CalRun, WordMoved
    <2> QED BY <2>2, <2>3 DEF CalendarInv
<1> QED BY <1>1, <1>2, <1>3, <1>4, <1>5 DEF Next, Delivery

LEMMA CalendarShown == CalendarInv => CalendarAgrees
<1> SUFFICES ASSUME CalendarInv, NEW a \in Appts, Settled(a), faults = 0, a \notin lost \cup crossed,
                    "calendar" \in cast.functions
             PROVE  {[id |-> c.id, day |-> c.day] : c \in {e \in calendar : e.appt = a}}
                      = IF Scheduled(a) THEN {[id |-> appt[a].gcal, day |-> appt[a].day]} ELSE {}
    BY DEF CalendarAgrees
<1>1. CalendarOf(a) BY DEF CalendarInv, Calm
<1>2. \A q \in Runs : ~CalRun(q, a)
    BY DEF Settled, CalendarInv, RunsAreListed, CalRun, UnderWay
<1>3. mail[a]["booked"] = 0 /\ ~WordEnded(a) /\ ~WordMoved(a)
    BY DEF Settled, WordEnded, WordMoved, Events, Reasons
<1>4. {e \in calendar : e.appt = a} = Of(a) BY DEF Of
<1>5. CASE Scheduled(a)
    <2>1. appt[a].gcal # 0 BY <1>1, <1>2, <1>3, <1>5 DEF CalendarOf, NotYetStored, Born, Scheduled
    <2>2. PICK c \in Of(a) : c.day = appt[a].day
        BY <1>1, <1>2, <1>3, <1>5, <2>1 DEF CalendarOf, ShownWhileScheduled
    <2>3. \A d \in Of(a) : d.id = appt[a].gcal /\ d = c
        BY <1>1, <2>1, <2>2 DEF CalendarOf, Stored, CalendarInv, IdsAreOwned, Of
    <2> QED BY <1>4, <1>5, <2>2, <2>3
<1>6. CASE ~Scheduled(a)
    <2>1. Of(a) = {}
        <3>1. CASE Born(a) BY <1>1, <1>2, <1>3, <1>6, <3>1 DEF CalendarOf, HiddenOnceOver
        <3>2. CASE ~Born(a)
            BY <1>1, <1>2, <3>2 DEF CalendarOf, NotYetStored, CalendarInv, RunsAreListed
        <3> QED BY <3>1, <3>2
    <2> QED BY <1>4, <1>6, <2>1
<1> QED BY <1>5, <1>6

-----------------------------------------------------------------------------
(* The theorems.                                                           *)

LEMMA Inductive == Spec => [](TypeOK /\ NoDoubleBooking /\ BornInv /\ StaleInv /\ LateInv /\ NoShowInv
                            /\ CalendarInv)
<1>1. Init => TypeOK /\ NoDoubleBooking /\ BornInv /\ StaleInv /\ LateInv /\ NoShowInv /\ CalendarInv
    BY InitType, InitSlots, InitBorn, InitStale, InitLate, InitNoShow, InitCalendar
<1>2. TypeOK /\ NoDoubleBooking /\ BornInv /\ StaleInv /\ LateInv /\ NoShowInv /\ CalendarInv /\ [Next]_vars
        => (TypeOK /\ NoDoubleBooking /\ BornInv /\ StaleInv /\ LateInv /\ NoShowInv /\ CalendarInv)'
    BY TypeStep, SlotsStep, BornStep, StaleStep, LateStep, NoShowStep, CalendarStep
<1> QED BY <1>1, <1>2, PTL DEF Spec

\* The crew is never on two installs on one day, whoever moved them last, and a no-show is texted
\* once but for deaths and returns to the drip only after the text.
THEOREM ApptsHold == Spec => []ApptInv
<1>1. TypeOK /\ NoDoubleBooking /\ NoShowInv => ApptInv
    BY DEF NoShowInv, NoShowOf, ApptInv, OneNoShowText
<1> QED BY <1>1, Inductive, PTL

\* Of an appointment that has ended each run lets at most one touch out, plus one for each death.
THEOREM LateRemindersBounded == Spec => []AtMostOneLateReminder
<1>1. LateInv => AtMostOneLateReminder BY DEF LateInv, Late, AtMostOneLateReminder
<1> QED BY <1>1, Inductive, PTL

\* Touches are planned on a day the row no longer has only while word of the move is still to come,
\* or came to nothing.
THEOREM StaleDaysAreLost == Spec => []StaleOnlyIfLost
<1>1. StaleInv => StaleOnlyIfLost BY DEF StaleInv
<1> QED BY <1>1, Inductive, PTL

\* The external calendar shows a scheduled appointment once, on its day, and no other, when its
\* words are delivered, its runs are over, and no death, loss or overlap came between.
THEOREM CalendarKeepsUp == Spec => []CalendarAgrees
<1> QED BY CalendarShown, Inductive, PTL
=============================================================================

--------------------------- MODULE MCAppointments ---------------------------
(* One install under one function and two or three acts after its booking, then *)
(* the weather run beside the touches of one install or the bookings of two.    *)
EXTENDS Appointments, TLC

CONSTANTS a1, a2
MCAppts == {a1, a2}
MCForecasts == {{1}, {1, 2}}

MCCasts ==
    {[functions |-> {f}, booked |-> a1 :> 1, open |-> {a1}, acts |-> 2, nights |-> 0] :
        f \in {"touches", "calendar"}}
    \cup {[functions |-> {"noShow"}, booked |-> a1 :> 1, open |-> {a1}, acts |-> 3, nights |-> 0],
          [functions |-> {"touches"}, booked |-> a1 :> 1, open |-> {a1}, acts |-> 1, nights |-> 1],
          [functions |-> {}, booked |-> a1 :> 1, open |-> {a1, a2}, acts |-> 1, nights |-> 1],
          [functions |-> {}, booked |-> a1 :> 1 @@ a2 :> 2, open |-> {a1, a2}, acts |-> 1, nights |-> 1]}
=============================================================================

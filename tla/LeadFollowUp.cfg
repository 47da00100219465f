\* One lead, two reps, one death or swallowed error, one or two acts of people.
SPECIFICATION FairSpec
CONSTANTS
    Keys = {"assigned", "assignment_failed", "first_touch", "sla_breach"}
    Rules = {"assignment_failed", "sla_breach"}
    Reps = {r1, r2}
    NoRep = NoRep
    Voices = {"voice1", "voice2"}
    NumTouches = 2
    MaxFaults = 1
    Deliveries <- MCDeliveries
INVARIANTS LeadsInv AtMostOneLateTouch
PROPERTIES ClosedStaysClosed ImplementsBoard OverdueIsEscalated
CHECK_DEADLOCK FALSE

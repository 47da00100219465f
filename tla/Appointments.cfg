\* Two installs of one crew over three days, two touches each, one death or failed run.
SPECIFICATION FairSpec
CONSTANTS
    a1 = a1
    a2 = a2
    Appts <- MCAppts
    NumDays = 3
    Runs = {1, 2, 3}
    None = None
    NumTouches = 2
    MaxFaults = 1
    Forecasts <- MCForecasts
    Casts <- MCCasts
INVARIANTS ApptInv AtMostOneLateReminder StaleOnlyIfLost CalendarAgrees
PROPERTIES NewDayIsPlanned
CHECK_DEADLOCK FALSE

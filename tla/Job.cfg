\* Two moves at once, from the board with reasons or from signals, while evidence comes and
\* goes and the commission is recorded twice, paid out and charged back; or agents and staff
\* at the tasks together, with backfills over a changing configuration.
SPECIFICATION MCSpec
CONSTANTS
    Movers = {m1, m2}
    Recorders = {r1, r2}
    Reasons = TRUE
    Tasks <- MCThree
    DependsOn <- MCChain
    Manual = {1, 3}
SYMMETRY MCSymmetry
INVARIANTS StageIsEarned TasksInv
PROPERTY PayoutsAreFinal
CHECK_DEADLOCK FALSE

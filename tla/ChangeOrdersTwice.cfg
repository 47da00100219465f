\* The same submission delivered twice at once.
SPECIFICATION Spec
CONSTANTS
    Orders = {o1}
    Totals = {2}
    ValueEstimate = 5
    Submissions = {u1}
    Deliveries = {d1, d2}
    Runs = {r1, r2}
    MaxAttempts = 1
    None = None
INVARIANT AppliedOnce
CHECK_DEADLOCK FALSE

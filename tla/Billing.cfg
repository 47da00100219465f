\* One change order delivered twice to two runs; or certificate requests with two bookings, and
\* a death of the sweep.
SPECIFICATION MCSpec
CONSTANTS
    Orders = {o1}
    Totals <- MCTotals
    ValueEstimate = 5
    Submissions = {u1}
    Deliveries = {d1, d2}
    Runs = {r1, r2}
    MaxAttempts = 2
    None = None
    Requests = {c1, c2}
    Bookings = {b1, b2}
    MaxDeaths = 1
    Unset = Unset
    d1 = d1
    d2 = d2
    r1 = r1
    r2 = r2
    c1 = c1
    c2 = c2
    b1 = b1
    b2 = b2
INVARIANTS ChangeOrdersInv CertsInv
PROPERTIES AcceptedIsApplied ApprovedIsDelivered
CHECK_DEADLOCK FALSE

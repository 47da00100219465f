\* Two pages open at once, the rep's own send and three webhook deliveries; or one page with
\* two accepted events, retries, and staff converting the same lead by hand.
SPECIFICATION MCSpec
CONSTANTS
    Begins = {b1, b2}
    Sends = {s1}
    Submissions = {u1, u2}
    Sessions = {c1, c2}
    Hooks = {h1, h2, h3}
    CollectsDeposit = TRUE
    Runs = {r1, r2}
    Manuals = {m1}
    MaxAttempts = 2
    None = None
    b1 = b1
    b2 = b2
    s1 = s1
    u1 = u1
    u2 = u2
    c1 = c1
    c2 = c2
    h1 = h1
    h2 = h2
    h3 = h3
INVARIANT AcceptanceInv
PROPERTIES TasksGateConversion AcceptanceConverts
CHECK_DEADLOCK FALSE

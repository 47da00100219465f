\* Two invoices of one referred job, two runs, two taps; or one customer's credits, estimates
\* and inspections, with two handlers, and the editor or the sweep beside them.
SPECIFICATION MCSpec
CONSTANTS
    Jobs = {j1}
    j1 = j1
    Fee <- MCFee
    Thresholds = {1, 2}
    Invoices = {i1, i2}
    JobOf <- MCJobOf
    Runs = {r1, r2}
    Approvals = {a1, a2}
    MaxAttempts = 3
    None = None
    Leads = {l1, l2}
    Estimates = {e1, e2}
    Credits = {1, 2}
    Lapse = 3
    Handlers = {h1, h2}
    MaxTries = 2
    Editors = {x1}
    Nil = Nil
    QuietAtTen = FALSE
    MaxFaults = 1
    l1 = l1
    l2 = l2
    e1 = e1
    e2 = e2
    h1 = h1
    h2 = h2
INVARIANTS PayablesInv PromisesInv
PROPERTIES ApprovalStands FeeIsOwed CheckinsRun
CHECK_DEADLOCK FALSE

\* Two numbered sends and a depreciation send over two invoices; or one invoice with its
\* session, two deliveries and one dunning run of three attempts a step.
SPECIFICATION MCSpec
CONSTANTS
    Invoices = {i1, i2}
    AmountDue <- MCAmountDue
    Senders = {s1, s2}
    Approvals = {a1}
    Sessions = {p1}
    Deliveries = {d1, d2}
    Runs = {r1}
    MaxAttempts = 3
    DunningEnabled = TRUE
    None = None
    i1 = i1
    i2 = i2
    s1 = s1
    s2 = s2
    a1 = a1
    p1 = p1
    d1 = d1
    d2 = d2
INVARIANTS InvoicingInv DunningInv
PROPERTIES NumbersArePermanent NobodyStarves ImplementsLedger ChasedToTheEnd

\* Two invoices of one customer, two runs, two failures, two attempts of each step; or two
\* works and their rows; or the bills and memos of a supplier with two guards and one leftover.
SPECIFICATION MCSpec
CONSTANTS
    Invoices = {i1, i2}
    Customers = {c1}
    c1 = c1
    i2 = i2
    r1 = r1
    r2 = r2
    CustomerOf <- MCCustomerOf
    Installments <- MCOnePayment
    Runs = {r1, r2}
    MaxAttempts = 2
    MaxFailures = 2
    None = None
    Works = {w1, w2}
    MaxTries = 2
    MaxFaults = 2
    Bills = {b1, b2}
    Memos = {m1}
    Jobs = {j1, j2}
    Overbilled = {b1}
    BillCents = 3
    OrderCents = 2
    Guards = {g1, g2}
    Desks = {k1}
    Nil = Nil
    w1 = w1
    w2 = w2
    b1 = b1
    b2 = b2
    m1 = m1
    j1 = j1
    j2 = j2
    g1 = g1
    g2 = g2
INVARIANTS BooksInv SuppliersInv
PROPERTIES PaidIsBooked SuppliersSettle
CHECK_DEADLOCK FALSE

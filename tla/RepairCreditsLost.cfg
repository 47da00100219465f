\* One customer, one credit, and two runs at the one lead: two photos of a live inspection,
\* and nobody at the editor.
SPECIFICATION CreditSpec
CONSTANTS
    Leads = {l1}
    Estimates = {e1, e2}
    Credits = {1}
    Lapse = 1
    Handlers = {h1, h2}
    MaxTries = 1
    Editors = {}
    Nil = Nil
INVARIANT AppliedIsShown
CHECK_DEADLOCK FALSE

SPECIFICATION Spec
CONSTANTS
    c1 = c1
    a1 = a1
    Providers = {"cheap", "dear", "local", "odd"}
    Local = {"local"}
    Price <- MCPrice
    Unpriced = {"odd"}
    AllowUnpriced = FALSE
    Charge <- MCCharge
    Fallbacks <- MCFallbacks
    Budget = 3
    MaxAttempts = 2
    Callers = {c1}
    MaxCalls = 1
    Queries <- MCQueries
    ReadableTables = {"action"}
    DefaultLimit = 2
    MaxLimit = 5
    MaxRows = 3
    Askers = {a1}
    MaxOutages = 2
INVARIANTS RejectionIsNotHidden
CHECK_DEADLOCK FALSE

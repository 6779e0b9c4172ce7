SPECIFICATION Spec
CONSTANTS
    a0 = a0
    a1 = a1
    v1 = v1
    v2 = v2
    o1 = o1
    Actions = {a0, a1}
    AppliedOn <- MCAppliedOn
    Supported = {a0, a1}
    Wirings = {{a0, a1}}
    Horizons = {1, 2}
    WindowDays = 2
    Histories <- MCHistories
    Restates = 0
    Limit = 2
    Verifiers = {v1, v2}
    Operators = {o1}
    Undone = {a1}
    MaxDay = 5
    MaxFaults = 1
PROPERTIES TerminalIsFinal
CHECK_DEADLOCK FALSE

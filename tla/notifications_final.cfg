SPECIFICATION Spec
CONSTANTS
    s1 = s1
    s2 = s2
    cb1 = cb1
    cb2 = cb2
    Channels = {"email"}
    Preferences <- MCPreferences
    DayLength = 6
    MaxAttempts = 2
    Callbacks = {cb1, cb2}
    Senders = {s1, s2}
    MaxChanges = 2
    MaxCrashes = 1
PROPERTIES FinalStatusIsFinal
CHECK_DEADLOCK FALSE

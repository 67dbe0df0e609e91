CONSTANTS
    t1 = t1
    t2 = t2
    t3 = t3
    d1 = d1
    d2 = d2
    None = None
    Turns = {t1, t2}
    Dialogs = {d1, d2}
    Traced = {FALSE}
    HasCLI = TRUE
    Outcomes <- Failures
    MaxClock = 1

SPECIFICATION ConvSpec
CHECK_DEADLOCK FALSE
INVARIANT FollowUpsResume

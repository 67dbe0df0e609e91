CONSTANTS
    a = a
    b = b
    x = x
    Agents = {a, b}
    WithCLI = {a, b}
    Strangers = {x}
    Calls <- MCCalls
    Roots <- MCRoots
    Callees <- MCCallees
    Bodies = {"ping", "text", "noText", "empty", "noMethod", "garbage", "unread", "stalled", "notPost", "card"}
    ClientTimeout = 1
    CLITimeout = 2
    MaxClock = 3
    MaxCrashes = 1

SPECIFICATION A2AFairSpec
INVARIANTS A2ATypeOK WorkWithinDeadline SuccessIsLogged
PROPERTIES ServedAsPromised CallsEnd HandlersEnd
CHECK_DEADLOCK FALSE

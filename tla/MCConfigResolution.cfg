CONSTANTS
    Files <- MCFiles
    Environments <- MCEnvironments
    CommandLines <- MCCommandLines
    Unset = Unset
    Garbage = Garbage

SPECIFICATION ConfigSpec
CHECK_DEADLOCK FALSE
INVARIANTS Precedence AutoAssignKept RunsAsValidated

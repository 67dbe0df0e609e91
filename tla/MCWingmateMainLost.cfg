CONSTANTS
    runner = runner
    main = main
    Starters = {runner}
    Callers = {main}
    Reqs = {r1, r2}

SPECIFICATION ProcSpec
INVARIANT NoRecordLost

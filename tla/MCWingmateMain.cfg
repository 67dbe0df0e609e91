CONSTANTS
    runner = runner
    main = main
    Starters = {runner}
    Callers = {main}
    Reqs = {r1, r2}
SPECIFICATION ProcFairSpec
INVARIANTS NoRequestRecordLost SuccessMeansDrained
PROPERTY ImplementsService SignalEndsProcess AgentEndEndsProcess

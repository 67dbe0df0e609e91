CONSTANTS
    Starters = {main}
    Callers = {stopper}
    Reqs = {r1}
SPECIFICATION LifeSpec
INVARIANT ShutdownStopsServing

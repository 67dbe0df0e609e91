CONSTANTS
    Starters = {main, other}
    Callers = {stopper}
    Reqs = {r1}
SPECIFICATION LifeFairSpec
INVARIANTS LifeTypeOK OneStartOneShutdown LostOnlyWhenUnserved ReadyMeansComplete
PROPERTIES AgentIsGraceful CancelEndsStart CancelStopsServing

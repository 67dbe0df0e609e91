CONSTANTS
    Ids = {s1, s2}
    FallbackIds = {s1}
    Values = {chat}
    Empty = empty
    TTL = 2
    Interval = 2
SPECIFICATION SessFairSpec
PROPERTIES ImplementsTTLStore AbandonedSessionsRemoved StopEndsCleanup

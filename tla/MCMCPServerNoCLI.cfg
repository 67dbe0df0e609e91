CONSTANTS
    Ids = {s1, s2}
    FallbackIds = {}
    Values = {}
    Empty = empty
    TTL = 1
    Interval = 1
    Clients = {c1}
    NoId = none
    MaxRequests = 2

SPECIFICATION SrvSpec
PROPERTY HandlersCheckInstalled

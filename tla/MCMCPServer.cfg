CONSTANTS
    Ids = {s1, s2, s3}
    FallbackIds = {s3}
    Values = {}
    Empty = empty
    TTL = 2
    Interval = 1
    Clients = {c1, c2}
    NoId = none
    MaxRequests = 2

SPECIFICATION SrvSpec
INVARIANTS SrvTypeOK NoEarlyLogout ReplyCarriesLiveSession SessionsNotShared
SYMMETRY Interchangeable

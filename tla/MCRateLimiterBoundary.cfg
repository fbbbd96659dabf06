SPECIFICATION LimiterSpec
CONSTANTS
    Caller = {h1, h2}
    Client = {c1}
    Requests = 2
    Posts = 1
    NoRequest = NoRequest
    Minutes <- MCMinutes
INVARIANTS
    Limited
CHECK_DEADLOCK FALSE

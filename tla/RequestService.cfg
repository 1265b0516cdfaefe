SPECIFICATION FairSpec
CONSTANTS
    Requests = {r1, r2}
    NoRequest = norequest
    Clients = {c1}
    MaxRequests = 1
    TimeLimit = 1
    MaxPollDelay = 2
    Timeouts = {1}
INVARIANTS
    SlotsBounded
    PendingFollowedUp
PROPERTIES
    PollsAnswered
    SlotsReturned
    RequestsForgotten

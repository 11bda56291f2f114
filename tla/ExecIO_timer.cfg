\* Two tasks, two requests for a timer queue of one entry, one message.
SPECIFICATION FairSpec
CONSTANTS
    Tasks = {t1, t2}
    Nodes = {r1, r2, m1}
    Requests = {r1, r2}
    Nobody = Nobody
    Slots = 1
INVARIANTS
    OnePlace
    WaitIORemovesLinked
    NoSleeperForgotten
PROPERTIES
    ImplementsRequests
    RequestsComplete
    WaitIOReturns

\* Two threads that query, and a user client with up to two ports and queues.
SPECIFICATION Spec
CONSTANTS
    q1 = q1
    q2 = q2
    Queries <- MCQueries
    Asks <- MCAsks
    None = None
    User = User
    MaxClient = 3
    MaxPort = 1
    MaxQueue = 1
    MaxSubs = 2
    MaxMade = 3
INVARIANTS ListsExact OwnDescriptor CallsBounded
CHECK_DEADLOCK FALSE

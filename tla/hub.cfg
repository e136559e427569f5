SPECIFICATION FairSpec
CONSTANTS
    Clients = {c1, c2}
    Envs = {e1, e2}
    Senders = {s1}
    Cap = 1
    MaxEvents = 3
    Nil = Nil
INVARIANTS TypeOK NoPanic NothingMissed
PROPERTIES FeedSpec BroadcastsReturn LostIsForgotten QueuedIsDelivered
CHECK_DEADLOCK FALSE

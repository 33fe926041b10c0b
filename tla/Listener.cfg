CONSTANTS
    c1 = c1
    c2 = c2
    Conns = {c1, c2}
    HeaderSize = 3
    QueueCap = 1
SPECIFICATION FairSpec
INVARIANTS TypeOK HandedOverOnce SniffDeadlineCleared ReplayIsFaithful
PROPERTY NobodyStaysBlocked
CHECK_DEADLOCK FALSE

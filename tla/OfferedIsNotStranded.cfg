CONSTANTS
    c1 = c1
    c2 = c2
    Conns = {c1, c2}
    HeaderSize = 2
    QueueCap = 1
SPECIFICATION FairSpec
PROPERTY OfferedIsNotStranded
CHECK_DEADLOCK FALSE

CONSTANTS
    plain = plain
    long = long
    Hosts = {plain, long}
    NoText = NoText
    Dests <- MCShort
    NoDest = NoDest
    MaxUp = 1
    MaxInbox = 1
SPECIFICATION FairSpec
PROPERTY ReaderEndsSession
CHECK_DEADLOCK FALSE

CONSTANTS
    plain = plain
    long = long
    Hosts = {plain, long}
    NoText = NoText
    Dests <- MCDests
    NoDest = NoDest
    MaxUp = 3
    MaxInbox = 1
SPECIFICATION FairSpec
INVARIANTS TypeOK DestinationIsNamed BuffersOutliveReader UplinkIsBilled CleanEndIsNil
PROPERTY SessionEnds
CHECK_DEADLOCK FALSE

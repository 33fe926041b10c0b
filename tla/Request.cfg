CONSTANTS
    plain = plain
    listed = listed
    starred = starred
    spaced = spaced
    odd = odd
    Hosts = {plain, listed, starred, spaced, odd}
    BlockedHosts = {listed}
    NilHosts = {starred}
    SpacedHosts = {spaced}
    OddHosts = {odd}
    Server = server
    NoAddr = NoAddr
    NoText = NoText
    Chains <- MCChains
    WireAddrs <- MCWireAddrs
    MaxUp = 2
    MaxDown = 3
SPECIFICATION FairSpec
INVARIANTS TypeOK PeersAreToldAsNamed NothingLeftOpen TrafficReportedOnce DownloadIsWhole
PROPERTY HeaderDeadline
CHECK_DEADLOCK FALSE

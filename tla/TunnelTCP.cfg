\* Two chunks each way; every kind of client connection and of peer.
CONSTANTS
    MaxUp = 2
    MaxDown = 2
SPECIFICATION FairSpec
INVARIANTS TypeOK BuffersOutliveReader TrafficIsDelivered UploadComplete DownloadComplete
PROPERTY TunnelEnds
CHECK_DEADLOCK FALSE

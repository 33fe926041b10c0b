\* One request at a time: what ends a block early is not a late failure.
CONSTANTS
    Requests = {r1}
    Addrs = {a1, a2}
    Threshold = 2
    Window = 2
    Cooldown = 4
    MinInterval = 1
    MaxInterval = 60
    DrainFirst = TRUE
    MaxTime = 8
SPECIFICATION Spec
PROPERTY BlockLastsTheCooldown
CHECK_DEADLOCK FALSE

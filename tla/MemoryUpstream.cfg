\* One user, one admin, two connections, room for two tasks.
CONSTANTS
    Keys = {k1}
    Users = {k1}
    Stored = {k1}
    Admins = {admin}
    Tunnels = {t1, t2}
    App = app
    NoKey = NoKey
    Amounts = {1}
    Cap = 2
    MaxTotal = 2
    PersistModes = {TRUE, FALSE}
SPECIFICATION FairSpec
INVARIANTS TypeOK TrafficAccountedFor UsersAgree
PROPERTY CallsReturnAndDrain

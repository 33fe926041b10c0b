\* Two users, one admin, one connection.
CONSTANTS
    Keys = {k1, k2}
    Users = {k1}
    Stored = {k1}
    Admins = {admin}
    Tunnels = {t1}
    App = app
    NoKey = NoKey
    Amounts = {1}
    Cap = 1
    MaxTotal = 2
    PersistModes = {TRUE}
SPECIFICATION Spec
INVARIANT DeletedStaysOut

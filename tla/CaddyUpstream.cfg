CONSTANTS
    Keys = {k1}
    Admins = {admin1, admin2}
    Tunnels = {t1, t2, t3}
    Amounts = {1}
    MaxTotal = 3
    NoKey = NoKey
    NoCaller = NoCaller
    Abandoned = Abandoned
SPECIFICATION FairSpec
INVARIANTS TypeOK NeverOverbilled
PROPERTIES LockIsReleased ImplementsAtomicStore

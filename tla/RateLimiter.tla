---------------------------- MODULE RateLimiter ----------------------------
(***************************************************************************)
(* The limiter of failed authentications on the CONNECT path of            *)
(* modules/handler/handler.go.                                             *)
(*                                                                         *)
(* Requests run concurrently.  One that is not limited by isRateLimited    *)
(* has its Proxy-Authorization checked, which takes time (Validate sleeps  *)
(* and may read the storage), and calls recordFailure when the check       *)
(* fails.  The first failure starts a goroutine that periodically drops    *)
(* old entries; Cleanup stops it when the handler is unloaded.             *)
(*                                                                         *)
(* isRateLimited, the body of recordFailure, cleanupTick and Cleanup read  *)
(* the clock and the map under failMu and are single steps.  The start of  *)
(* the goroutine is outside failMu and is a step of its own.  0 is the     *)
(* zero time.Time.  A request that authenticates opens a tunnel, which     *)
(* never touches the limiter again.                                        *)
(***************************************************************************)
EXTENDS Integers, FiniteSets, SequencesExt

CONSTANTS
    Requests,       \* goroutines serving CONNECT requests
    Addrs,          \* r.RemoteAddr of the requests
    Threshold,      \* connectFailLimit
    Window,         \* connectFailWindow
    Cooldown,       \* connectFailCooldown
    MinInterval,    \* time.Second, the lower clamp of the ticker's interval
    MaxInterval,    \* time.Minute, the upper clamp
    DrainFirst,     \* the handler is unloaded only when no request is running
    MaxTime         \* bound on the clock

ASSUME ConstantsAssumption ==
    /\ Threshold \in Nat \ {0}
    /\ Window \in Nat \ {0} /\ Cooldown \in Nat \ {0}
    /\ MinInterval \in Nat \ {0} /\ MaxInterval \in Nat \ {0}
    /\ DrainFirst \in BOOLEAN
    /\ MaxTime \in Nat

VARIABLES
    now,            \* the clock
    failState,      \* Handler.failState: a failRecord for some addresses
    req,            \* req[r]: where request r is, its source and (ghost) when
                    \* isRateLimited let it through; Idle when there is none
    done,           \* cleanupDone: "nil", "open" or "closed"
    loop,           \* the cleanup goroutine: "none", "running" or "stopped"
    nextTick,       \* when its ticker fires next
    unloaded,       \* Cleanup was called
    recent          \* recent[a]: ghost, the times of the last failures of a

vars == <<now, failState, req, done, loop, nextTick, unloaded, recent>>

FailRecord == [count : Nat, firstFailure : Nat, blockedUntil : Nat]
Request == [at : {"checking", "failed", "recording"}, addr : Addrs, passed : Nat]
Idle == [at |-> "idle"]

TypeOK ==
    /\ now \in Nat \ {0}
    /\ DOMAIN failState \subseteq Addrs
    /\ failState \in [DOMAIN failState -> FailRecord]
    /\ req \in [Requests -> Request \cup {Idle}]
    /\ done \in {"nil", "open", "closed"}
    /\ loop \in {"none", "running", "stopped"}
    /\ nextTick \in Nat
    /\ unloaded \in BOOLEAN
    /\ recent \in [Addrs -> Seq(Nat)]

NoRecord == [count |-> 0, firstFailure |-> 0, blockedUntil |-> 0]
NoRecords == [a \in {} |-> NoRecord]    \* the nil map and the empty one

Init ==
    /\ now = 1
    /\ failState = NoRecords
    /\ req = [r \in Requests |-> Idle]
    /\ done = "nil" /\ loop = "none" /\ nextTick = 0
    /\ unloaded = FALSE
    /\ recent = [a \in Addrs |-> <<>>]

-----------------------------------------------------------------------------
(* The records.                                                            *)

Known(a) == a \in DOMAIN failState

\* isRateLimited's answer for a source with a record.
Blocked(a) ==
    /\ Known(a)
    /\ failState[a].blockedUntil # 0
    /\ now < failState[a].blockedUntil

\* A record whose cooldown has elapsed, which isRateLimited drops.
Expired(a) ==
    /\ Known(a)
    /\ failState[a].blockedUntil # 0
    /\ now >= failState[a].blockedUntil

Without(S) == [a \in DOMAIN failState \ S |-> failState[a]]

RecordOf(a) == IF Known(a) THEN failState[a] ELSE NoRecord

\* Mutant: the counter is not reset with the window.
InWindowKeepingCount(rec) ==
    IF rec.firstFailure = 0 \/ now - rec.firstFailure > Window
    THEN [rec EXCEPT !.firstFailure = now, !.blockedUntil = 0]
    ELSE rec

\* The counter starts again when the first failure fell outside the window.
InWindow(rec) ==
    IF rec.firstFailure = 0 \/ now - rec.firstFailure > Window
    THEN [count |-> 0, firstFailure |-> now, blockedUntil |-> 0]
    ELSE rec

\* Mutant: every failure past the threshold starts the cooldown again.
CountedProlonging(rec) ==
    LET n == rec.count + 1 IN
    [rec EXCEPT !.count = n,
                !.blockedUntil = IF n >= Threshold THEN now + Cooldown
                                 ELSE rec.blockedUntil]

\* Mutant: the end of the block is computed backwards.
CountedBackwards(rec) ==
    LET n == rec.count + 1 IN
    [rec EXCEPT !.count = n,
                !.blockedUntil = IF n >= Threshold /\ rec.blockedUntil = 0
                                 THEN now - Cooldown ELSE rec.blockedUntil]

\* One more failure; reaching the threshold blocks the source, once.
Counted(rec) ==
    LET n == rec.count + 1 IN
    [count |-> n, firstFailure |-> rec.firstFailure,
     blockedUntil |-> IF n >= Threshold /\ rec.blockedUntil = 0
                      THEN now + Cooldown ELSE rec.blockedUntil]

\* cleanupLoop's interval: half the cooldown, clamped.
Interval ==
    LET half == Cooldown \div 2 IN
    IF half <= 0 THEN MinInterval
    ELSE IF half > MaxInterval THEN MaxInterval ELSE half

\* Mutant: only blocks are dropped, not the records of single failures.
StaleBlocks == {a \in DOMAIN failState :
            /\ failState[a].blockedUntil # 0
            /\ now - failState[a].firstFailure > Cooldown}

\* Mutant: entries are dropped after the window instead of the cooldown.
StaleByWindow == {a \in DOMAIN failState :
            /\ failState[a].firstFailure # 0
            /\ now - failState[a].firstFailure > Window}

\* The entries that cleanupTick drops.
Stale == {a \in DOMAIN failState :
            /\ failState[a].firstFailure # 0
            /\ now - failState[a].firstFailure > Cooldown}

LastOnes(s, n) == IF Len(s) <= n THEN s ELSE SubSeq(s, Len(s) - n + 1, Len(s))

-----------------------------------------------------------------------------
(* A request.                                                              *)

\* A CONNECT request from a: isRateLimited either sends it on to the next
\* handler or lets it through to the check, dropping an expired record.
Arrive(r, a) ==
    /\ req[r] = Idle /\ ~unloaded
    /\ IF Blocked(a)
       THEN UNCHANGED <<failState, req>>
       ELSE /\ failState' = IF Expired(a) THEN Without({a}) ELSE failState
            /\ req' = [req EXCEPT ![r] =
                          [at |-> "checking", addr |-> a, passed |-> now]]
    /\ UNCHANGED <<now, done, loop, nextTick, unloaded, recent>>

\* Validate knows the user: the request becomes a tunnel.
Accept(r) ==
    /\ req[r].at = "checking"
    /\ req' = [req EXCEPT ![r] = Idle]
    /\ UNCHANGED <<now, failState, done, loop, nextTick, unloaded, recent>>

\* The header has the wrong length or Validate does not know the user.
Reject(r) ==
    /\ req[r].at = "checking"
    /\ req' = [req EXCEPT ![r].at = "failed"]
    /\ UNCHANGED <<now, failState, done, loop, nextTick, unloaded, recent>>

\* recordFailure: spawnCleanupLoop, whose sync.Once runs the body one time.
SpawnCleanupLoop(r) ==
    /\ req[r].at = "failed"
    /\ req' = [req EXCEPT ![r].at = "recording"]
    /\ IF loop = "none"
       THEN done' = "open" /\ loop' = "running" /\ nextTick' = now + Interval
       ELSE UNCHANGED <<done, loop, nextTick>>
    /\ UNCHANGED <<now, failState, unloaded, recent>>

\* recordFailure: the rest, under failMu; then the next handler runs.
RecordFailure(r) ==
    LET a == req[r].addr IN
    /\ req[r].at = "recording"
    /\ req' = [req EXCEPT ![r] = Idle]
    /\ failState' = [b \in DOMAIN failState \cup {a} |->
                        IF b = a THEN Counted(InWindow(RecordOf(a)))
                        ELSE failState[b]]
    /\ recent' = [recent EXCEPT ![a] = LastOnes(Append(@, now), Threshold)]
    /\ UNCHANGED <<now, done, loop, nextTick, unloaded>>

-----------------------------------------------------------------------------
(* The cleanup goroutine, unloading and time.                              *)

\* The ticker fires: cleanupTick.
CleanupTick ==
    /\ loop = "running" /\ now >= nextTick
    /\ failState' = Without(Stale)
    /\ nextTick' = now + Interval
    /\ UNCHANGED <<now, req, done, loop, unloaded, recent>>

LoopExit ==
    /\ loop = "running" /\ done = "closed"
    /\ loop' = "stopped"
    /\ UNCHANGED <<now, failState, req, done, nextTick, unloaded, recent>>

\* Mutant: the map is released but the goroutine is not told to stop.
CleanupWithoutClose ==
    /\ ~unloaded
    /\ DrainFirst => \A r \in Requests : req[r] = Idle
    /\ unloaded' = TRUE
    /\ failState' = NoRecords
    /\ UNCHANGED <<now, req, done, loop, nextTick, recent>>

Cleanup ==
    /\ ~unloaded
    /\ DrainFirst => \A r \in Requests : req[r] = Idle
    /\ unloaded' = TRUE
    /\ done' = IF done = "nil" THEN "nil" ELSE "closed"
    /\ failState' = NoRecords
    /\ UNCHANGED <<now, req, loop, nextTick, recent>>

\* Time passes, but not past a tick that is due: the goroutine wakes within
\* one unit of time.
Tick ==
    /\ now < MaxTime
    /\ loop = "running" => now < nextTick
    /\ now' = now + 1
    /\ UNCHANGED <<failState, req, done, loop, nextTick, unloaded, recent>>

Next ==
    \/ \E r \in Requests :
        \/ \E a \in Addrs : Arrive(r, a)
        \/ Accept(r) \/ Reject(r) \/ SpawnCleanupLoop(r) \/ RecordFailure(r)
    \/ CleanupTick \/ LoopExit \/ Cleanup \/ Tick

Spec == Init /\ [][Next]_vars

\* The cleanup goroutine is scheduled.
FairSpec == Spec /\ WF_vars(LoopExit)

-----------------------------------------------------------------------------
(* Properties.                                                             *)

\* The map does not grow without bound: while the handler is loaded, no entry,
\* of a source that failed once or of one that was blocked, outlives its first
\* failure by more than the cooldown and one interval of the cleanup goroutine,
\* whatever order requests, ticks and the lazy removals come in.
EntryAgeBound ==
    ~unloaded =>
        \A a \in DOMAIN failState :
            now - failState[a].firstFailure <= Cooldown + Interval

\* A source is blocked only for Threshold failures within one window: requests
\* that were slow, or came around a removal of its record, add up to no block
\* that they did not earn (a client that mistypes once is never locked out).
BlockIsEarned ==
    [][\A a \in Addrs :
        ~Blocked(a) /\ Blocked(a)' =>
            /\ Len(recent'[a]) = Threshold
            /\ now - recent'[a][1] <= Window]_vars

\* A running block is never prolonged, however many requests that were already
\* past isRateLimited fail during it.
BlockNeverProlonged ==
    [][\A a \in Addrs :
        Blocked(a) /\ Blocked(a)' =>
            failState'[a].blockedUntil = failState[a].blockedUntil]_vars

\* Within the cooldown that follows the first failure, a block ends early only
\* with the handler, or through the failure of a request that had passed
\* isRateLimited before the block began.
BlockEndsEarlyOnlyByLateFailure ==
    [][\A a \in Addrs :
        /\ Blocked(a) /\ ~Blocked(a)'
        /\ now' < failState[a].blockedUntil
        /\ now <= failState[a].firstFailure + Cooldown
        => \/ unloaded'
           \/ \E r \in Requests :
                /\ req[r].at = "recording" /\ req[r].addr = a
                /\ req[r].passed <= failState[a].blockedUntil - Cooldown]_vars

\* A blocked source stays blocked until the cooldown has elapsed, as the
\* comment of recordFailure says; only unloading the handler may end it sooner.
BlockLastsTheCooldown ==
    [][\A a \in Addrs :
        Blocked(a) /\ ~Blocked(a)' =>
            now' >= failState[a].blockedUntil \/ unloaded']_vars

\* Once Cleanup has run, the goroutine stops and no record is kept.
UnloadReleases == unloaded ~> loop # "running" /\ failState = NoRecords
=============================================================================

------------------------- MODULE RateLimiterProofs -------------------------
(***************************************************************************)
(* Proofs about RateLimiter, for any number of requests and sources and    *)
(* any threshold, window, cooldown and clamps of the interval.             *)
(***************************************************************************)
EXTENDS RateLimiter, TLAPS

\* cleanupLoop's interval is positive, so that time.NewTicker does not panic.
LEMMA IntervalPositive == Interval \in Nat /\ Interval > 0
  BY ConstantsAssumption DEF Interval

\* Counting a failure keeps the record's first failure.
LEMMA CountedType ==
  ASSUME NEW rec \in FailRecord, now \in Nat \ {0}
  PROVE  /\ Counted(rec) \in FailRecord
         /\ Counted(rec).firstFailure = rec.firstFailure
  BY ConstantsAssumption DEF Counted, FailRecord

\* A record in its window has a first failure: the old one or this one.
LEMMA InWindowType ==
  ASSUME NEW rec \in FailRecord, now \in Nat \ {0}
  PROVE  /\ InWindow(rec) \in FailRecord
         /\ InWindow(rec).firstFailure # 0
         /\ InWindow(rec).firstFailure \in {rec.firstFailure, now}
  BY DEF InWindow, FailRecord

\* What RecordFailure makes of a record.
LEMMA CountedRecord ==
  ASSUME NEW rec \in FailRecord, now \in Nat \ {0}
  PROVE  /\ Counted(InWindow(rec)) \in FailRecord
         /\ Counted(InWindow(rec)).firstFailure # 0
         /\ Counted(InWindow(rec)).firstFailure \in {rec.firstFailure, now}
  BY CountedType, InWindowType

LEMMA RecordOfType ==
  ASSUME TypeOK, NEW a \in Addrs
  PROVE  RecordOf(a) \in FailRecord
  BY DEF TypeOK, RecordOf, Known, NoRecord, FailRecord

\* Dropping entries keeps the map well-typed.
LEMMA WithoutType ==
  ASSUME TypeOK, NEW S
  PROVE  /\ DOMAIN Without(S) = DOMAIN failState \ S
         /\ DOMAIN Without(S) \subseteq Addrs
         /\ Without(S) \in [DOMAIN Without(S) -> FailRecord]
         /\ \A a \in DOMAIN Without(S) : Without(S)[a] = failState[a]
  BY DEF TypeOK, Without

LEMMA LastOnesType ==
  ASSUME NEW s \in Seq(Nat), NEW n \in Nat
  PROVE  LastOnes(s, n) \in Seq(Nat)
<1>1. CASE Len(s) <= n
  BY <1>1 DEF LastOnes
<1>2. CASE ~(Len(s) <= n)
  <2>1. Len(s) - n + 1 \in 1..Len(s) + 1 /\ Len(s) \in Nat
    BY <1>2
  <2>2. SubSeq(s, Len(s) - n + 1, Len(s)) \in Seq(Nat)
    BY <2>1
  <2> QED BY <1>2, <2>2 DEF LastOnes
<1> QED BY <1>1, <1>2

-----------------------------------------------------------------------------
(* Type correctness.                                                       *)

LEMMA TypeInit == Init => TypeOK
<1> SUFFICES ASSUME Init PROVE TypeOK
  OBVIOUS
<1>1. DOMAIN failState = {} /\ failState \in [DOMAIN failState -> FailRecord]
  BY DEF Init, NoRecords
<1>2. req \in [Requests -> Request \cup {Idle}]
  BY DEF Init
<1>3. recent \in [Addrs -> Seq(Nat)]
  BY DEF Init
<1>4. /\ now \in Nat \ {0} /\ nextTick \in Nat
      /\ done \in {"nil", "open", "closed"}
      /\ loop \in {"none", "running", "stopped"}
  BY DEF Init
<1>5. unloaded \in BOOLEAN
  BY DEF Init
<1> QED BY <1>1, <1>2, <1>3, <1>4, <1>5 DEF TypeOK

LEMMA TypeNext == TypeOK /\ [Next]_vars => TypeOK'
<1> SUFFICES ASSUME TypeOK, [Next]_vars PROVE TypeOK'
  OBVIOUS
<1>1. ASSUME NEW r \in Requests, NEW a \in Addrs, Arrive(r, a)
      PROVE  TypeOK'
  <2>1. failState' = failState \/ failState' = Without({a})
    BY <1>1 DEF Arrive
  <2>2. DOMAIN failState' \subseteq Addrs
        /\ failState' \in [DOMAIN failState' -> FailRecord]
    <3>1. CASE failState' = failState
      BY <3>1 DEF TypeOK
    <3>2. CASE failState' = Without({a})
      BY <3>2, WithoutType
    <3> QED BY <2>1, <3>1, <3>2
  <2>3. req' \in [Requests -> Request \cup {Idle}]
    <3>1. [at |-> "checking", addr |-> a, passed |-> now] \in Request
      BY DEF TypeOK, Request
    <3> QED BY <1>1, <3>1 DEF Arrive, TypeOK
  <2> QED BY <1>1, <2>2, <2>3 DEF Arrive, TypeOK
<1>2. ASSUME NEW r \in Requests, Accept(r)
      PROVE  TypeOK'
  BY <1>2 DEF Accept, TypeOK
<1>3. ASSUME NEW r \in Requests, Reject(r)
      PROVE  TypeOK'
  <2>1. req[r] \in Request
    BY <1>3 DEF Reject, TypeOK, Idle
  <2>2. req' \in [Requests -> Request \cup {Idle}]
    BY <1>3, <2>1 DEF Reject, TypeOK, Request
  <2> QED BY <1>3, <2>2 DEF Reject, TypeOK
<1>4. ASSUME NEW r \in Requests, SpawnCleanupLoop(r)
      PROVE  TypeOK'
  <2>1. req[r] \in Request
    BY <1>4 DEF SpawnCleanupLoop, TypeOK, Idle
  <2>2. req' \in [Requests -> Request \cup {Idle}]
    BY <1>4, <2>1 DEF SpawnCleanupLoop, TypeOK, Request
  <2>3. nextTick' \in Nat
    BY <1>4, IntervalPositive DEF SpawnCleanupLoop, TypeOK
  <2> QED BY <1>4, <2>2, <2>3 DEF SpawnCleanupLoop, TypeOK
<1>5. ASSUME NEW r \in Requests, RecordFailure(r)
      PROVE  TypeOK'
  <2> DEFINE a == req[r].addr
  <2>1. req[r] \in Request /\ a \in Addrs
    BY <1>5 DEF RecordFailure, TypeOK, Idle, Request
  <2>2. Counted(InWindow(RecordOf(a))) \in FailRecord
    BY <2>1, RecordOfType, CountedRecord DEF TypeOK
  <2>3. DOMAIN failState' \subseteq Addrs
        /\ failState' \in [DOMAIN failState' -> FailRecord]
    BY <1>5, <2>1, <2>2 DEF RecordFailure, TypeOK
  <2>4. LastOnes(Append(recent[a], now), Threshold) \in Seq(Nat)
    <3>1. Append(recent[a], now) \in Seq(Nat)
      BY <2>1 DEF TypeOK
    <3> QED BY <3>1, LastOnesType, ConstantsAssumption
  <2>5. recent' \in [Addrs -> Seq(Nat)]
    BY <1>5, <2>1, <2>4 DEF RecordFailure, TypeOK
  <2> QED BY <1>5, <2>3, <2>5 DEF RecordFailure, TypeOK
<1>6. CASE CleanupTick
  <2>1. DOMAIN failState' \subseteq Addrs
        /\ failState' \in [DOMAIN failState' -> FailRecord]
    BY <1>6, WithoutType DEF CleanupTick
  <2> QED BY <1>6, <2>1, IntervalPositive DEF CleanupTick, TypeOK
<1>7. CASE LoopExit
  BY <1>7 DEF LoopExit, TypeOK
<1>8. CASE Cleanup
  <2>1. DOMAIN failState' \subseteq Addrs
        /\ failState' \in [DOMAIN failState' -> FailRecord]
    BY <1>8 DEF Cleanup, NoRecords
  <2> QED BY <1>8, <2>1 DEF Cleanup, TypeOK
<1>9. CASE Tick
  BY <1>9 DEF Tick, TypeOK
<1>10. CASE UNCHANGED vars
  BY <1>10 DEF vars, TypeOK
<1> QED BY <1>1, <1>2, <1>3, <1>4, <1>5, <1>6, <1>7, <1>8, <1>9, <1>10 DEF Next

\* The types of Handler's limiter state, for every value of the constants.
THEOREM TypeCorrect == Spec => []TypeOK
  BY TypeInit, TypeNext, PTL DEF Spec

-----------------------------------------------------------------------------
(* EntryAgeBound.  The goroutine runs from the first failure to Cleanup and  *)
(* no time passes while its tick is due, so the last tick, at most one       *)
(* interval ago, has dropped whatever was older than the cooldown then.      *)

\* The goroutine's life: it runs whenever there is, or is about to be, an
\* entry, and its next tick is due within one interval.
LoopInv ==
    /\ \A r \in Requests : req[r].at = "recording" => loop # "none"
    /\ loop = "stopped" => done = "closed"
    /\ done = "closed" => unloaded
    /\ loop = "running" => now <= nextTick /\ nextTick <= now + Interval

\* An entry: one of the past that survived the last tick.
EntryInv(a) ==
    /\ loop = "running"
    /\ failState[a].firstFailure # 0
    /\ failState[a].firstFailure <= now
    /\ nextTick - failState[a].firstFailure <= Cooldown + Interval

EntriesInv == ~unloaded => \A a \in DOMAIN failState : EntryInv(a)

AgeInv == TypeOK /\ LoopInv /\ EntriesInv

LEMMA AgeInvInit == Init => AgeInv
<1> SUFFICES ASSUME Init PROVE AgeInv
  OBVIOUS
<1>1. TypeOK
  BY TypeInit
<1>2. LoopInv
  BY DEF Init, LoopInv, Idle
<1>3. EntriesInv
  BY DEF Init, NoRecords, EntriesInv
<1> QED BY <1>1, <1>2, <1>3 DEF AgeInv

LEMMA LoopInvNext == AgeInv /\ [Next]_vars => LoopInv'
<1> SUFFICES ASSUME AgeInv, [Next]_vars PROVE LoopInv'
  OBVIOUS
<1> USE DEF AgeInv
<1>1. ASSUME NEW r \in Requests, NEW a \in Addrs, Arrive(r, a)
      PROVE  LoopInv'
  BY <1>1 DEF Arrive, LoopInv, TypeOK
<1>2. ASSUME NEW r \in Requests, Accept(r)
      PROVE  LoopInv'
  BY <1>2 DEF Accept, LoopInv, TypeOK, Idle
<1>3. ASSUME NEW r \in Requests, Reject(r)
      PROVE  LoopInv'
  <2>1. req[r] \in Request
    BY <1>3 DEF Reject, TypeOK, Idle
  <2> QED BY <1>3, <2>1 DEF Reject, LoopInv, TypeOK, Request
<1>4. ASSUME NEW r \in Requests, SpawnCleanupLoop(r)
      PROVE  LoopInv'
  <2>1. CASE loop = "none"
    BY <1>4, <2>1, IntervalPositive DEF SpawnCleanupLoop, LoopInv, TypeOK
  <2>2. CASE loop # "none"
    BY <1>4, <2>2 DEF SpawnCleanupLoop, LoopInv, TypeOK
  <2> QED BY <2>1, <2>2
<1>5. ASSUME NEW r \in Requests, RecordFailure(r)
      PROVE  LoopInv'
  BY <1>5 DEF RecordFailure, LoopInv, TypeOK, Idle
<1>6. CASE CleanupTick
  BY <1>6, IntervalPositive DEF CleanupTick, LoopInv, TypeOK
<1>7. CASE LoopExit
  BY <1>7 DEF LoopExit, LoopInv, TypeOK
<1>8. CASE Cleanup
  BY <1>8 DEF Cleanup, LoopInv, TypeOK
<1>9. CASE Tick
  BY <1>9, IntervalPositive DEF Tick, LoopInv, TypeOK
<1>10. CASE UNCHANGED vars
  BY <1>10 DEF vars, LoopInv
<1> QED BY <1>1, <1>2, <1>3, <1>4, <1>5, <1>6, <1>7, <1>8, <1>9, <1>10 DEF Next

LEMMA EntriesInvNext == AgeInv /\ [Next]_vars => EntriesInv'
<1> SUFFICES ASSUME AgeInv, [Next]_vars, ~unloaded', NEW a \in DOMAIN failState'
             PROVE  EntryInv(a)'
  BY DEF EntriesInv
<1>0. a \in DOMAIN failState => /\ failState[a].firstFailure \in Nat
                                /\ ~unloaded => EntryInv(a)
  BY DEF AgeInv, TypeOK, EntriesInv, FailRecord
<1>1. ASSUME NEW r \in Requests, NEW b \in Addrs, Arrive(r, b)
      PROVE  EntryInv(a)'
  <2>1. a \in DOMAIN failState /\ failState'[a] = failState[a]
    BY <1>1, WithoutType DEF Arrive, AgeInv
  <2> QED BY <1>0, <1>1, <2>1 DEF Arrive, EntryInv
<1>2. ASSUME NEW r \in Requests, Accept(r) \/ Reject(r)
      PROVE  EntryInv(a)'
  BY <1>0, <1>2 DEF Accept, Reject, EntryInv
<1>3. ASSUME NEW r \in Requests, SpawnCleanupLoop(r)
      PROVE  EntryInv(a)'
  BY <1>0, <1>3 DEF SpawnCleanupLoop, EntryInv
<1>4. ASSUME NEW r \in Requests, RecordFailure(r)
      PROVE  EntryInv(a)'
  <2> DEFINE b == req[r].addr
             f == failState'[a].firstFailure
  <2>1. b \in Addrs
    BY <1>4 DEF RecordFailure, AgeInv, TypeOK, Request, Idle
  <2>2. loop = "running"
    BY <1>4 DEF RecordFailure, AgeInv, LoopInv, TypeOK
  <2>3. CASE a # b
    <3>1. a \in DOMAIN failState /\ failState'[a] = failState[a]
      BY <1>4, <2>3 DEF RecordFailure
    <3> QED BY <1>0, <1>4, <3>1 DEF RecordFailure, EntryInv
  <2>4. CASE a = b
    <3>1. RecordOf(b) \in FailRecord
      BY <2>1, RecordOfType DEF AgeInv
    <3>2. failState'[a] = Counted(InWindow(RecordOf(b)))
      BY <1>4, <2>4 DEF RecordFailure
    <3>3. f # 0 /\ f \in {RecordOf(b).firstFailure, now}
      BY <3>1, <3>2, CountedRecord DEF AgeInv, TypeOK
    <3>4. CASE f = now
      <4>1. nextTick <= now + Interval /\ now \in Nat /\ nextTick \in Nat
        BY <2>2 DEF AgeInv, LoopInv, TypeOK
      <4>2. nextTick - f <= Cooldown + Interval
        BY <3>4, <4>1, ConstantsAssumption, IntervalPositive
      <4> QED BY <1>4, <2>2, <3>3, <3>4, <4>1, <4>2 DEF RecordFailure, EntryInv
    <3>5. CASE f # now
      <4>1. b \in DOMAIN failState /\ f = failState[b].firstFailure
        BY <3>3, <3>5 DEF RecordOf, Known, NoRecord
      <4> QED BY <1>0, <1>4, <2>4, <3>3, <4>1 DEF RecordFailure, EntryInv
    <3> QED BY <3>4, <3>5
  <2> QED BY <2>3, <2>4
<1>5. CASE CleanupTick
  <2>1. a \in DOMAIN failState /\ a \notin Stale /\ failState'[a] = failState[a]
    BY <1>5, WithoutType DEF CleanupTick, AgeInv
  <2>2. EntryInv(a)
    BY <1>0, <1>5, <2>1 DEF CleanupTick
  <2>3. now - failState[a].firstFailure <= Cooldown
    BY <1>0, <2>1, <2>2, ConstantsAssumption DEF Stale, EntryInv, AgeInv, TypeOK
  <2> QED BY <1>0, <1>5, <2>1, <2>2, <2>3, IntervalPositive, ConstantsAssumption
          DEF CleanupTick, EntryInv, AgeInv, TypeOK
<1>6. ~LoopExit /\ ~Cleanup
  BY DEF LoopExit, Cleanup, AgeInv, LoopInv
<1>7. CASE Tick
  BY <1>0, <1>7 DEF Tick, EntryInv, AgeInv, TypeOK
<1>8. CASE UNCHANGED vars
  BY <1>0, <1>8 DEF vars, EntryInv
<1> QED BY <1>1, <1>2, <1>3, <1>4, <1>5, <1>6, <1>7, <1>8 DEF Next

\* The records of failures are bounded in age, so the map is bounded by the
\* sources that fail within that time, for every value of the constants.
THEOREM AgeBounded == Spec => []EntryAgeBound
<1>1. AgeInv /\ [Next]_vars => AgeInv'
  BY TypeNext, LoopInvNext, EntriesInvNext DEF AgeInv
<1>2. AgeInv => EntryAgeBound
  <2> SUFFICES ASSUME AgeInv, ~unloaded, NEW a \in DOMAIN failState
               PROVE  now - failState[a].firstFailure <= Cooldown + Interval
    BY DEF EntryAgeBound
  <2>1. EntryInv(a) /\ failState[a].firstFailure \in Nat
    BY DEF AgeInv, EntriesInv, TypeOK, FailRecord
  <2>2. now <= nextTick /\ now \in Nat /\ nextTick \in Nat
    BY <2>1 DEF AgeInv, LoopInv, TypeOK, EntryInv
  <2> QED BY <2>1, <2>2, IntervalPositive, ConstantsAssumption DEF EntryInv
<1> QED BY AgeInvInit, <1>1, <1>2, PTL DEF Spec

-----------------------------------------------------------------------------
(* A running block.                                                        *)

\* A block that runs before and after a step ends when it was going to: a
\* failure that starts a new window clears the block (with more than one failure
\* to a block it cannot set another), and one within the window sets nothing.
LEMMA BlockKeepsItsEnd ==
  ASSUME Threshold > 1, TypeOK, [Next]_vars, NEW a \in Addrs,
         Blocked(a), Blocked(a)'
  PROVE  failState'[a].blockedUntil = failState[a].blockedUntil
<1>0. /\ a \in DOMAIN failState /\ a \in DOMAIN failState'
      /\ failState[a] \in FailRecord /\ failState[a].blockedUntil # 0
      /\ failState'[a].blockedUntil # 0
  BY DEF Blocked, Known, TypeOK
<1>1. ASSUME NEW r \in Requests, RecordFailure(r)
      PROVE  failState'[a].blockedUntil = failState[a].blockedUntil
  <2> DEFINE w == InWindow(failState[a])
  <2>1. CASE a # req[r].addr
    BY <1>0, <1>1, <2>1 DEF RecordFailure
  <2>2. CASE a = req[r].addr
    <3>1. failState'[a] = Counted(w)
      BY <1>0, <1>1, <2>2 DEF RecordFailure, RecordOf, Known
    <3>2. CASE w = failState[a]
      BY <1>0, <3>1, <3>2 DEF Counted
    <3>3. CASE w # failState[a]
      <4>1. w = [count |-> 0, firstFailure |-> now, blockedUntil |-> 0]
        BY <3>3 DEF InWindow
      <4>2. Counted(w).blockedUntil = 0
        <5> HIDE DEF w
        <5> QED BY <4>1, ConstantsAssumption DEF Counted
      <4> QED BY <1>0, <3>1, <4>2
    <3> QED BY <3>2, <3>3
  <2> QED BY <2>1, <2>2
<1>2. ASSUME NEW r \in Requests, NEW b \in Addrs, Arrive(r, b)
      PROVE  failState'[a].blockedUntil = failState[a].blockedUntil
  <2>1. failState' = failState \/ failState' = Without({b})
    BY <1>2 DEF Arrive
  <2>2. CASE failState' = failState
    BY <2>2
  <2>3. CASE failState' = Without({b})
    <3>1. \A c \in DOMAIN Without({b}) : Without({b})[c] = failState[c]
      BY WithoutType
    <3>2. a \in DOMAIN Without({b})
      BY <1>0, <2>3
    <3>3. Without({b})[a] = failState[a]
      BY <3>1, <3>2
    <3> QED BY <2>3, <3>3
  <2> QED BY <2>1, <2>2, <2>3
<1>3. ASSUME NEW r \in Requests, Accept(r) \/ Reject(r) \/ SpawnCleanupLoop(r)
      PROVE  failState'[a].blockedUntil = failState[a].blockedUntil
  BY <1>3 DEF Accept, Reject, SpawnCleanupLoop
<1>4. CASE CleanupTick
  BY <1>0, <1>4, WithoutType DEF CleanupTick
<1>5. CASE LoopExit \/ Tick \/ UNCHANGED vars
  BY <1>5 DEF LoopExit, Tick, vars
<1>6. ~Cleanup
  BY <1>0 DEF Cleanup, NoRecords
<1> QED BY <1>1, <1>2, <1>3, <1>4, <1>5, <1>6 DEF Next

\* Requests that were past isRateLimited when the block began do not make it
\* longer by failing: for every threshold above one, as the code's is.
THEOREM NeverProlonged == Threshold > 1 => (Spec => BlockNeverProlonged)
<1> SUFFICES ASSUME Threshold > 1 PROVE Spec => BlockNeverProlonged
  OBVIOUS
<1>1. TypeOK /\ [Next]_vars =>
        [\A a \in Addrs : Blocked(a) /\ Blocked(a)' =>
            failState'[a].blockedUntil = failState[a].blockedUntil]_vars
  BY BlockKeepsItsEnd
<1> QED BY TypeInit, TypeNext, <1>1, PTL DEF Spec, BlockNeverProlonged

-----------------------------------------------------------------------------
(* BlockIsEarned.  A record in its window counts failures that recent also  *)
(* holds: the last of them, as many as were counted or as recent keeps.     *)

\* The failures a record counted are the last ones, none before the first.
CountedAreRecent(a) ==
    LET s == recent[a]
        c == failState[a].count
    IN  /\ failState[a].firstFailure <= now
        /\ c <= Len(s) \/ Len(s) = Threshold
        /\ \A i \in 1..Len(s) :
                Len(s) - i < c => s[i] >= failState[a].firstFailure

EarnedInv ==
    /\ \A a \in Addrs : Len(recent[a]) <= Threshold
    /\ \A a \in DOMAIN failState : CountedAreRecent(a)

EarnedHistory == TypeOK /\ EarnedInv

\* What LastOnes keeps of a sequence that one element was appended to.
LEMMA LastOnesAppended ==
  ASSUME NEW s \in Seq(Nat), NEW t \in Nat, NEW n \in Nat \ {0}, Len(s) <= n
  PROVE  LET l == LastOnes(Append(s, t), n) IN
         \/ /\ Len(s) < n /\ Len(l) = Len(s) + 1
            /\ \A i \in 1..Len(s) : l[i] = s[i]
            /\ l[Len(s) + 1] = t
         \/ /\ Len(s) = n /\ Len(l) = n
            /\ \A i \in 1..n - 1 : l[i] = s[i + 1]
            /\ l[n] = t
<1> DEFINE u == Append(s, t)
           l == LastOnes(u, n)
<1>1. /\ u \in Seq(Nat) /\ Len(u) = Len(s) + 1 /\ Len(s) \in Nat
      /\ \A i \in 1..Len(s) : u[i] = s[i]
      /\ u[Len(s) + 1] = t
  OBVIOUS
<1> HIDE DEF u
<1>2. ASSUME Len(s) < n
      PROVE  Len(l) = Len(s) + 1 /\ l = u
  BY <1>1, <1>2 DEF LastOnes
<1>3. ASSUME Len(s) = n
      PROVE  Len(l) = n /\ \A i \in 1..n : l[i] = u[i + 1]
  <2>1. l = SubSeq(u, 2, n + 1)
    BY <1>1, <1>3 DEF LastOnes
  <2> QED BY <1>1, <1>3, <2>1
<1> HIDE DEF l
<1>4. \/ /\ Len(s) < n /\ Len(l) = Len(s) + 1
         /\ \A i \in 1..Len(s) : l[i] = s[i]
         /\ l[Len(s) + 1] = t
      \/ /\ Len(s) = n /\ Len(l) = n
         /\ \A i \in 1..n - 1 : l[i] = s[i + 1]
         /\ l[n] = t
  <2>1. CASE Len(s) < n
    BY <1>1, <1>2, <2>1
  <2>2. CASE Len(s) = n
    <3>1. \A i \in 1..n - 1 : i \in 1..n /\ i + 1 \in 1..Len(s)
      BY <2>2
    <3>2. \A i \in 1..n - 1 : l[i] = s[i + 1]
      BY <1>1, <1>3, <2>2, <3>1
    <3>3. l[n] = t
      BY <1>1, <1>3, <2>2
    <3> QED BY <1>3, <2>2, <3>2, <3>3
  <2> QED BY <1>1, <2>1, <2>2
<1> QED BY <1>4 DEF l, u

\* Counting a failure in its window and keeping its time go together.
LEMMA FailureIsKept ==
  ASSUME EarnedHistory, NEW r \in Requests, RecordFailure(r), NEW a \in Addrs,
         a = req[r].addr
  PROVE  /\ Len(recent'[a]) <= Threshold
         /\ CountedAreRecent(a)'
<1> DEFINE s == recent[a]
           l == recent'[a]
           w == InWindow(RecordOf(a))
           rec == failState'[a]
<1>1. /\ s \in Seq(Nat) /\ now \in Nat /\ Len(s) <= Threshold
      /\ Threshold \in Nat \ {0} /\ Len(s) \in Nat
  BY ConstantsAssumption DEF EarnedHistory, EarnedInv, TypeOK
<1>2. l = LastOnes(Append(s, now), Threshold)
  BY DEF RecordFailure, EarnedHistory, TypeOK
<1>3. \/ /\ Len(s) < Threshold /\ Len(l) = Len(s) + 1
         /\ \A i \in 1..Len(s) : l[i] = s[i]
         /\ l[Len(s) + 1] = now
      \/ /\ Len(s) = Threshold /\ Len(l) = Threshold
         /\ \A i \in 1..Threshold - 1 : l[i] = s[i + 1]
         /\ l[Threshold] = now
  <2> HIDE DEF s, l
  <2> QED BY <1>1, <1>2, LastOnesAppended
<1>4. rec = Counted(w) /\ RecordOf(a) \in FailRecord
  BY RecordOfType DEF RecordFailure, EarnedHistory
<1>5. w \in FailRecord /\ rec.count = w.count + 1
      /\ rec.firstFailure = w.firstFailure
  BY <1>4, InWindowType DEF Counted, EarnedHistory, TypeOK
<1>6. w.count \in Nat /\ w.firstFailure \in Nat
  BY <1>5 DEF FailRecord
<1>7. /\ w.firstFailure <= now
      /\ w.count <= Len(s) \/ Len(s) = Threshold
      /\ \A i \in 1..Len(s) : Len(s) - i < w.count => s[i] >= w.firstFailure
  <2>1. CASE w = RecordOf(a) /\ RecordOf(a).firstFailure # 0
    <3>1. a \in DOMAIN failState /\ w = failState[a]
      BY <2>1 DEF RecordOf, Known, NoRecord
    <3> QED BY <3>1 DEF EarnedHistory, EarnedInv, CountedAreRecent
  <2>2. CASE w = [count |-> 0, firstFailure |-> now, blockedUntil |-> 0]
    <3>1. w.count = 0 /\ w.firstFailure = now
      BY <2>2
    <3> QED BY <1>1, <3>1
  <2> QED BY <2>1, <2>2 DEF InWindow
<1> HIDE DEF s, l, w, rec
<1>8. rec.count <= Len(l) \/ Len(l) = Threshold
  BY <1>1, <1>3, <1>5, <1>6, <1>7
<1>9. ASSUME NEW i \in 1..Len(l), Len(l) - i < rec.count
      PROVE  l[i] >= rec.firstFailure
  <2>1. CASE i = Len(l)
    BY <1>1, <1>3, <1>5, <1>6, <1>7, <2>1
  <2>2. CASE i # Len(l) /\ Len(s) < Threshold /\ Len(l) = Len(s) + 1
    <3>1. i \in 1..Len(s) /\ Len(s) - i < w.count
      BY <1>1, <1>5, <1>6, <1>9, <2>2
    <3> QED BY <1>1, <1>3, <1>5, <1>7, <2>2, <3>1
  <2>3. CASE i # Len(l) /\ Len(s) = Threshold /\ Len(l) = Threshold
    <3>1. i \in 1..Threshold - 1 /\ i + 1 \in 1..Len(s)
          /\ Len(s) - (i + 1) < w.count
      BY <1>1, <1>5, <1>6, <1>9, <2>3
    <3> QED BY <1>1, <1>3, <1>5, <1>7, <2>3, <3>1
  <2> QED BY <1>3, <2>1, <2>2, <2>3
<1>10. rec.firstFailure <= now'
  BY <1>5, <1>7 DEF RecordFailure
<1>11. Len(l) <= Threshold
  BY <1>1, <1>3
<1> QED BY <1>8, <1>9, <1>10, <1>11 DEF CountedAreRecent, l, rec

\* Time goes on, at most, and records are dropped: every other step.
LEMMA OtherSteps ==
  ASSUME TypeOK, [Next]_vars, \A r \in Requests : ~RecordFailure(r)
  PROVE  /\ recent' = recent
         /\ DOMAIN failState' \subseteq DOMAIN failState
         /\ \A a \in DOMAIN failState' : failState'[a] = failState[a]
         /\ now' >= now
<1> DEFINE Kept == /\ recent' = recent
                   /\ DOMAIN failState' \subseteq DOMAIN failState
                   /\ \A a \in DOMAIN failState' : failState'[a] = failState[a]
                   /\ now' >= now
<1> SUFFICES Kept
  OBVIOUS
<1>1. now \in Nat
  BY DEF TypeOK
<1>2. ASSUME NEW S, failState' = Without(S)
      PROVE  /\ DOMAIN failState' \subseteq DOMAIN failState
             /\ \A a \in DOMAIN failState' : failState'[a] = failState[a]
  BY <1>2, WithoutType
<1>3. ASSUME NEW r \in Requests, NEW b \in Addrs, Arrive(r, b)
      PROVE  Kept
  <2>1. /\ recent' = recent /\ now' = now
        /\ failState' = failState \/ failState' = Without({b})
    BY <1>3 DEF Arrive
  <2> QED BY <1>1, <1>2, <2>1
<1>4. ASSUME NEW r \in Requests, Accept(r) \/ Reject(r) \/ SpawnCleanupLoop(r)
      PROVE  Kept
  BY <1>1, <1>4 DEF Accept, Reject, SpawnCleanupLoop
<1>5. CASE CleanupTick
  <2>1. failState' = Without(Stale) /\ recent' = recent /\ now' = now
    BY <1>5 DEF CleanupTick
  <2> QED BY <1>1, <1>2, <2>1
<1>6. CASE LoopExit \/ UNCHANGED vars
  BY <1>1, <1>6 DEF LoopExit, vars
<1>7. CASE Cleanup
  BY <1>1, <1>7 DEF Cleanup, NoRecords
<1>8. CASE Tick
  BY <1>1, <1>8 DEF Tick
<1> HIDE DEF Kept
<1> QED BY <1>3, <1>4, <1>5, <1>6, <1>7, <1>8 DEF Next

LEMMA EarnedNext == EarnedHistory /\ [Next]_vars => EarnedInv'
<1> SUFFICES ASSUME EarnedHistory, [Next]_vars PROVE EarnedInv'
  OBVIOUS
<1>1. ASSUME NEW r \in Requests, RecordFailure(r)
      PROVE  EarnedInv'
  <2>1. PICK b \in Addrs : b = req[r].addr
    BY <1>1 DEF RecordFailure, EarnedHistory, TypeOK, Request, Idle
  <2>2. Len(recent'[b]) <= Threshold /\ CountedAreRecent(b)'
    BY <1>1, <2>1, FailureIsKept
  <2>3. ASSUME NEW a \in Addrs, a # b
        PROVE  /\ Len(recent'[a]) <= Threshold
               /\ a \in DOMAIN failState' => CountedAreRecent(a)'
    <3>1. recent'[a] = recent[a] /\ now' = now
      BY <1>1, <2>1, <2>3 DEF RecordFailure, EarnedHistory, TypeOK
    <3>2. a \in DOMAIN failState' =>
            a \in DOMAIN failState /\ failState'[a] = failState[a]
      BY <1>1, <2>1, <2>3 DEF RecordFailure
    <3> QED BY <3>1, <3>2 DEF EarnedHistory, EarnedInv, CountedAreRecent
  <2>4. DOMAIN failState' \subseteq Addrs
    BY <1>1, <2>1 DEF RecordFailure, EarnedHistory, TypeOK
  <2> QED BY <2>2, <2>3, <2>4 DEF EarnedInv
<1>2. ASSUME \A r \in Requests : ~RecordFailure(r)
      PROVE  EarnedInv'
  <2>1. /\ recent' = recent /\ now' >= now
        /\ DOMAIN failState' \subseteq DOMAIN failState
        /\ \A a \in DOMAIN failState' : failState'[a] = failState[a]
    BY <1>2, OtherSteps DEF EarnedHistory
  <2>2. ASSUME NEW a \in DOMAIN failState'
        PROVE  CountedAreRecent(a)'
    <3>1. CountedAreRecent(a) /\ failState'[a] = failState[a]
          /\ failState[a] \in FailRecord
      BY <2>1, <2>2 DEF EarnedHistory, EarnedInv, TypeOK
    <3>2. failState'[a].firstFailure <= now'
      <4>1. now' \in Nat
        BY TypeNext DEF EarnedHistory, TypeOK
      <4> QED BY <2>1, <3>1, <4>1
              DEF CountedAreRecent, FailRecord, EarnedHistory, TypeOK
    <3> QED BY <2>1, <3>1, <3>2 DEF CountedAreRecent
  <2> QED BY <2>1, <2>2 DEF EarnedHistory, EarnedInv
<1> QED BY <1>1, <1>2

LEMMA EarnedInit == Init => EarnedHistory
<1> SUFFICES ASSUME Init PROVE EarnedHistory
  OBVIOUS
<1>1. TypeOK
  BY TypeInit
<1>2. \A a \in Addrs : Len(recent[a]) <= Threshold
  BY ConstantsAssumption DEF Init
<1>3. DOMAIN failState = {}
  BY DEF Init, NoRecords
<1> QED BY <1>1, <1>2, <1>3 DEF EarnedHistory, EarnedInv

\* The step that blocks a source is its failure number Threshold, at least, in
\* a window whose first failure is no more than Window old.
LEMMA BlockCounts ==
  ASSUME EarnedHistory, [Next]_vars, NEW a \in Addrs, ~Blocked(a), Blocked(a)'
  PROVE  Len(recent'[a]) = Threshold /\ now - recent'[a][1] <= Window
<1>1. PICK r \in Requests : RecordFailure(r)
  <2> SUFFICES ASSUME \A r \in Requests : ~RecordFailure(r) PROVE FALSE
    OBVIOUS
  <2>1. /\ a \in DOMAIN failState /\ failState'[a] = failState[a] /\ now' >= now
        /\ a \in DOMAIN failState'
    BY OtherSteps DEF Blocked, Known, EarnedHistory
  <2>2. /\ failState[a].blockedUntil \in Nat /\ now \in Nat /\ now' \in Nat
    BY <2>1, TypeNext DEF EarnedHistory, TypeOK, FailRecord
  <2> QED BY <2>1, <2>2 DEF Blocked, Known
<1>2. now' = now /\ now \in Nat \ {0}
  BY <1>1 DEF RecordFailure, EarnedHistory, TypeOK
<1>3. a = req[r].addr
  BY <1>1, <1>2 DEF RecordFailure, Blocked, Known
<1> DEFINE w == InWindow(RecordOf(a))
           rec == failState'[a]
           l == recent'[a]
<1>4. rec = Counted(w) /\ RecordOf(a) \in FailRecord
  BY <1>1, <1>3, RecordOfType DEF RecordFailure, EarnedHistory
<1>5. w \in FailRecord
  BY <1>2, <1>4, InWindowType
<1>6. /\ w.count \in Nat /\ w.firstFailure \in Nat /\ w.blockedUntil \in Nat
      /\ Threshold \in Nat \ {0} /\ Window \in Nat
  BY <1>5, ConstantsAssumption DEF FailRecord
<1>7. w.blockedUntil = 0 \/ w.blockedUntil <= now
  <2>1. CASE w = RecordOf(a)
    BY <1>2, <1>6, <2>1 DEF Blocked, RecordOf, Known, NoRecord
  <2>2. CASE w = [count |-> 0, firstFailure |-> now, blockedUntil |-> 0]
    <3>1. w.blockedUntil = 0
      BY <2>2
    <3> QED BY <3>1
  <2> QED BY <2>1, <2>2 DEF InWindow
<1>8. now - w.firstFailure <= Window
  <2>1. CASE w = [count |-> 0, firstFailure |-> now, blockedUntil |-> 0]
    <3>1. w.firstFailure = now
      BY <2>1
    <3> QED BY <1>2, <1>6, <3>1
  <2>2. CASE w = RecordOf(a) /\ ~(now - RecordOf(a).firstFailure > Window)
    BY <1>2, <1>6, <2>2
  <2> QED BY <2>1, <2>2 DEF InWindow
<1> HIDE DEF w
<1>9. rec.count = w.count + 1 /\ rec.firstFailure = w.firstFailure
      /\ w.count + 1 >= Threshold
  BY <1>2, <1>4, <1>6, <1>7 DEF Counted, Blocked
<1>10. Len(l) <= Threshold /\ CountedAreRecent(a)' /\ l \in Seq(Nat)
  BY <1>1, <1>3, FailureIsKept, TypeNext DEF EarnedHistory, TypeOK
<1>11. /\ rec.count <= Len(l) \/ Len(l) = Threshold
       /\ \A i \in 1..Len(l) : Len(l) - i < rec.count => l[i] >= rec.firstFailure
  BY <1>10 DEF CountedAreRecent
<1> HIDE DEF rec, l
<1>12. Len(l) = Threshold
  BY <1>6, <1>9, <1>10, <1>11
<1>13. l[1] >= w.firstFailure /\ l[1] \in Nat
  BY <1>6, <1>9, <1>10, <1>11, <1>12
<1>14. now - l[1] <= Window
  BY <1>2, <1>6, <1>8, <1>13
<1> QED BY <1>12, <1>14 DEF l

\* A block is earned by Threshold failures within one window, whatever the
\* number of requests and sources and however slow their checks are.
THEOREM EarnedBlocks == Spec => BlockIsEarned
<1>1. EarnedHistory /\ [Next]_vars => EarnedHistory'
  BY TypeNext, EarnedNext DEF EarnedHistory
<1>2. EarnedHistory /\ [Next]_vars =>
        [\A a \in Addrs : ~Blocked(a) /\ Blocked(a)' =>
            /\ Len(recent'[a]) = Threshold
            /\ now - recent'[a][1] <= Window]_vars
  BY BlockCounts
<1> QED BY EarnedInit, <1>1, <1>2, PTL DEF Spec, BlockIsEarned

-----------------------------------------------------------------------------
(* BlockEndsEarlyOnlyByLateFailure.  Whoever passed isRateLimited did so     *)
(* before the block of its source began: a running block lets nobody pass   *)
(* and one that is over is dropped by the first request that passes.        *)

PassedBeforeBlock(r) ==
    req[r] # Idle =>
        /\ req[r].passed <= now
        /\ LET a == req[r].addr IN
           a \in DOMAIN failState /\ failState[a].blockedUntil # 0 =>
                req[r].passed + Cooldown <= failState[a].blockedUntil

PassedInv == \A r \in Requests : PassedBeforeBlock(r)

PassedHistory == TypeOK /\ PassedInv

LEMMA PassedNext == PassedHistory /\ [Next]_vars => PassedInv'
<1> SUFFICES ASSUME PassedHistory, [Next]_vars, NEW q \in Requests
             PROVE  PassedBeforeBlock(q)'
  BY DEF PassedInv
<1>1. PassedBeforeBlock(q) /\ req[q] \in Request \cup {Idle} /\ now \in Nat
  BY DEF PassedHistory, PassedInv, TypeOK
<1>2. ASSUME req'[q] # Idle => /\ req[q] # Idle
                               /\ req'[q].addr = req[q].addr
                               /\ req'[q].passed = req[q].passed,
             now' >= now,
             DOMAIN failState' \subseteq DOMAIN failState,
             \A a \in DOMAIN failState' : failState'[a] = failState[a]
      PROVE  PassedBeforeBlock(q)'
  <2>1. now' \in Nat
    BY TypeNext DEF PassedHistory, TypeOK
  <2>2. req[q] # Idle => req[q].passed \in Nat
    BY <1>1 DEF Request
  <2> QED BY <1>1, <1>2, <2>1, <2>2 DEF PassedBeforeBlock
<1>3. ASSUME NEW r \in Requests, RecordFailure(r)
      PROVE  PassedBeforeBlock(q)'
  <2>1. /\ req' = [req EXCEPT ![r] = Idle] /\ now' = now
        /\ req \in [Requests -> Request \cup {Idle}]
    BY <1>3 DEF RecordFailure, PassedHistory, TypeOK
  <2>2. CASE q = r
    BY <2>1, <2>2 DEF PassedBeforeBlock
  <2>3. CASE q # r /\ req[q] # Idle
    <3> DEFINE a == req[q].addr
               p == req[q].passed
               rec == RecordOf(a)
               w == InWindow(rec)
               new == failState'[a]
    <3>1. /\ req'[q] = req[q] /\ a \in Addrs /\ p \in Nat /\ p <= now
          /\ Cooldown \in Nat
          /\ a \in DOMAIN failState /\ failState[a].blockedUntil # 0 =>
                p + Cooldown <= failState[a].blockedUntil
      BY <1>1, <2>1, <2>3, ConstantsAssumption DEF Request, PassedBeforeBlock
    <3>2. ASSUME a = req[r].addr, new.blockedUntil # 0
          PROVE  p + Cooldown <= new.blockedUntil
      <4>1. new = Counted(w) /\ rec \in FailRecord
        BY <1>3, <3>1, <3>2, RecordOfType DEF RecordFailure, PassedHistory
      <4>2. w \in FailRecord /\ now + Cooldown >= p + Cooldown
        BY <3>1, <4>1, <1>1, InWindowType DEF PassedHistory, TypeOK
      <4>3. w.blockedUntil # 0 => p + Cooldown <= w.blockedUntil
        <5>1. CASE w = [count |-> 0, firstFailure |-> now, blockedUntil |-> 0]
          <6>1. w.blockedUntil = 0
            BY <5>1
          <6> QED BY <6>1
        <5>2. CASE w = rec
          BY <3>1, <5>2 DEF RecordOf, Known, NoRecord
        <5> QED BY <5>1, <5>2 DEF InWindow
      <4> HIDE DEF w
      <4> QED BY <3>2, <4>1, <4>2, <4>3 DEF Counted
    <3>3. a # req[r].addr /\ a \in DOMAIN failState' =>
             a \in DOMAIN failState /\ new = failState[a]
      BY <1>3 DEF RecordFailure
    <3> QED BY <2>1, <3>1, <3>2, <3>3 DEF PassedBeforeBlock
  <2>4. CASE q # r /\ req[q] = Idle
    BY <2>1, <2>4 DEF PassedBeforeBlock
  <2> QED BY <2>2, <2>3, <2>4
<1>4. ASSUME \A r \in Requests : ~RecordFailure(r),
             NEW a \in Addrs, Arrive(q, a), ~Blocked(a)
      PROVE  PassedBeforeBlock(q)'
  <2>1. /\ req'[q] = [at |-> "checking", addr |-> a, passed |-> now]
        /\ now' = now
        /\ failState' = IF Expired(a) THEN Without({a}) ELSE failState
    BY <1>4 DEF Arrive, PassedHistory, TypeOK
  <2>2. a \in DOMAIN failState' => failState'[a].blockedUntil = 0
    <3>1. CASE Expired(a)
      <4>1. DOMAIN Without({a}) = DOMAIN failState \ {a}
        BY WithoutType DEF PassedHistory
      <4> QED BY <2>1, <3>1, <4>1
    <3>2. CASE ~Expired(a)
      <4>1. a \in DOMAIN failState => failState[a].blockedUntil \in Nat
        BY DEF PassedHistory, TypeOK, FailRecord
      <4> QED BY <1>1, <1>4, <2>1, <3>2, <4>1 DEF Expired, Blocked, Known
    <3> QED BY <3>1, <3>2
  <2> QED BY <1>1, <2>1, <2>2 DEF PassedBeforeBlock
<1>5. ASSUME \A r \in Requests : ~RecordFailure(r),
             \A a \in Addrs : ~(Arrive(q, a) /\ ~Blocked(a))
      PROVE  PassedBeforeBlock(q)'
  <2>1. req'[q] # Idle => /\ req[q] # Idle
                          /\ req'[q].addr = req[q].addr
                          /\ req'[q].passed = req[q].passed
    <3> SUFFICES ASSUME req'[q] # Idle, req'[q] # req[q]
                 PROVE  /\ req[q] # Idle
                        /\ req'[q].addr = req[q].addr
                        /\ req'[q].passed = req[q].passed
      OBVIOUS
    <3>1. req \in [Requests -> Request \cup {Idle}]
      BY DEF PassedHistory, TypeOK
    <3>2. ~CleanupTick /\ ~LoopExit /\ ~Cleanup /\ ~Tick /\ ~UNCHANGED vars
      BY DEF CleanupTick, LoopExit, Cleanup, Tick, vars
    <3>3. ASSUME NEW r \in Requests, NEW a \in Addrs, Arrive(r, a)
          PROVE  FALSE
      BY <1>5, <3>1, <3>3 DEF Arrive
    <3>4. PICK r \in Requests : Accept(r) \/ Reject(r) \/ SpawnCleanupLoop(r)
      BY <1>5, <3>2, <3>3 DEF Next
    <3>5. r = q /\ ~Accept(r)
      BY <3>1, <3>4 DEF Accept, Reject, SpawnCleanupLoop
    <3>6. req[q] # Idle /\ req[q] \in Request
      BY <3>1, <3>4, <3>5 DEF Reject, SpawnCleanupLoop, Idle
    <3> QED BY <3>1, <3>4, <3>5, <3>6 DEF Reject, SpawnCleanupLoop, Request
  <2>2. /\ DOMAIN failState' \subseteq DOMAIN failState
        /\ \A a \in DOMAIN failState' : failState'[a] = failState[a]
        /\ now' >= now
    BY <1>5, OtherSteps DEF PassedHistory
  <2> QED BY <1>2, <2>1, <2>2
<1> QED BY <1>3, <1>4, <1>5

LEMMA PassedInit == Init => PassedHistory
  BY TypeInit DEF Init, PassedHistory, PassedInv, PassedBeforeBlock

\* What may end a running block before its time.
LEMMA BlockIsEnded ==
  ASSUME PassedHistory, [Next]_vars, NEW a \in Addrs,
         Blocked(a), ~Blocked(a)', now' < failState[a].blockedUntil,
         now <= failState[a].firstFailure + Cooldown
  PROVE  \/ unloaded'
         \/ \E r \in Requests :
                /\ req[r].at = "recording" /\ req[r].addr = a
                /\ req[r].passed <= failState[a].blockedUntil - Cooldown
<1>1. /\ a \in DOMAIN failState /\ failState[a] \in FailRecord
      /\ failState[a].blockedUntil # 0 /\ failState[a].blockedUntil \in Nat
      /\ failState[a].firstFailure \in Nat
      /\ now \in Nat /\ Cooldown \in Nat
  BY ConstantsAssumption DEF Blocked, Known, PassedHistory, TypeOK, FailRecord
<1>2. a \notin DOMAIN failState' \/ failState'[a] # failState[a]
  BY <1>1 DEF Blocked, Known
<1>3. ASSUME NEW r \in Requests, RecordFailure(r)
      PROVE  /\ req[r].at = "recording" /\ req[r].addr = a
             /\ req[r].passed <= failState[a].blockedUntil - Cooldown
  <2>1. req[r].at = "recording" /\ req[r] \in Request
    BY <1>3 DEF RecordFailure, PassedHistory, TypeOK, Idle
  <2>2. req[r].addr = a
    BY <1>1, <1>2, <1>3 DEF RecordFailure
  <2>3. req[r].passed \in Nat /\ req[r] # Idle
    BY <2>1 DEF Request, Idle
  <2>4. req[r].passed + Cooldown <= failState[a].blockedUntil
    BY <1>1, <2>2, <2>3 DEF PassedHistory, PassedInv, PassedBeforeBlock
  <2> QED BY <1>1, <2>1, <2>2, <2>3, <2>4
<1>4. ASSUME NEW r \in Requests, NEW b \in Addrs, Arrive(r, b)
      PROVE  FALSE
  <2>1. ~Expired(a)
    BY <1>1 DEF Expired, Blocked
  <2>2. CASE b = a
    BY <1>1, <1>2, <1>4, <2>2 DEF Arrive
  <2>3. CASE b # a
    <3>1. a \in DOMAIN Without({b}) /\ Without({b})[a] = failState[a]
      BY <1>1, <2>3 DEF Without
    <3> QED BY <1>1, <1>2, <1>4, <3>1 DEF Arrive
  <2> QED BY <2>2, <2>3
<1>5. ASSUME NEW r \in Requests, Accept(r) \/ Reject(r) \/ SpawnCleanupLoop(r)
      PROVE  FALSE
  BY <1>1, <1>2, <1>5 DEF Accept, Reject, SpawnCleanupLoop
<1>6. ~CleanupTick
  <2>1. a \notin Stale
    BY <1>1 DEF Stale
  <2>2. a \in DOMAIN Without(Stale) /\ Without(Stale)[a] = failState[a]
    BY <1>1, <2>1 DEF Without
  <2> QED BY <1>2, <2>2 DEF CleanupTick
<1>7. ~LoopExit /\ ~Tick /\ ~UNCHANGED vars
  BY <1>1, <1>2 DEF LoopExit, Tick, vars
<1>8. Cleanup => unloaded'
  BY DEF Cleanup
<1> QED BY <1>3, <1>4, <1>5, <1>6, <1>7, <1>8 DEF Next

\* Within the cooldown after the first failure, only the end of the handler or
\* a request that was already past isRateLimited when the block began ends it.
THEOREM EndedByLateFailure == Spec => BlockEndsEarlyOnlyByLateFailure
<1>1. PassedHistory /\ [Next]_vars => PassedHistory'
  BY TypeNext, PassedNext DEF PassedHistory
<1>2. PassedHistory /\ [Next]_vars =>
        [\A a \in Addrs :
            /\ Blocked(a) /\ ~Blocked(a)'
            /\ now' < failState[a].blockedUntil
            /\ now <= failState[a].firstFailure + Cooldown
            => \/ unloaded'
               \/ \E r \in Requests :
                    /\ req[r].at = "recording" /\ req[r].addr = a
                    /\ req[r].passed <= failState[a].blockedUntil - Cooldown]_vars
  BY BlockIsEnded
<1> QED BY PassedInit, <1>1, <1>2, PTL DEF Spec, BlockEndsEarlyOnlyByLateFailure

-----------------------------------------------------------------------------
(* Unloading.                                                              *)

\* There is a channel to close whenever the goroutine runs; and after Cleanup, if
\* no request is left to run, no record comes back and a goroutine that still runs
\* has its signal to stop.
Released ==
    /\ loop = "running" => done # "nil"
    /\ DrainFirst /\ unloaded =>
          /\ \A r \in Requests : req[r] = Idle
          /\ failState = NoRecords
          /\ loop = "running" => done = "closed"

LEMMA ReleasedNext == TypeOK /\ Released /\ [Next]_vars => Released'
<1> SUFFICES ASSUME TypeOK, Released, [Next]_vars PROVE Released'
  OBVIOUS
<1>0. /\ req \in [Requests -> Request \cup {Idle}]
      /\ done \in {"nil", "open", "closed"} /\ loop \in {"none", "running", "stopped"}
      /\ Idle.at = "idle"
  BY DEF TypeOK, Idle
<1>1. ASSUME NEW r \in Requests, NEW a \in Addrs, Arrive(r, a)
      PROVE  Released'
  BY <1>1 DEF Arrive, Released
<1>2. ASSUME NEW r \in Requests,
             Accept(r) \/ Reject(r) \/ SpawnCleanupLoop(r) \/ RecordFailure(r)
      PROVE  Released'
  <2>1. req[r] # Idle /\ unloaded' = unloaded
    BY <1>0, <1>2 DEF Accept, Reject, SpawnCleanupLoop, RecordFailure
  <2>2. ~(DrainFirst /\ unloaded)
    BY <2>1 DEF Released
  <2>3. loop' = "running" => done' # "nil"
    BY <1>2 DEF Released, Accept, Reject, SpawnCleanupLoop, RecordFailure
  <2> QED BY <2>1, <2>2, <2>3 DEF Released
<1>3. CASE CleanupTick
  <2>1. failState = NoRecords => failState' = NoRecords
    BY <1>3 DEF CleanupTick, Without, NoRecords
  <2> QED BY <1>3, <2>1 DEF CleanupTick, Released
<1>4. CASE LoopExit
  BY <1>4 DEF LoopExit, Released
<1>5. CASE Cleanup
  BY <1>0, <1>5 DEF Cleanup, Released
<1>6. CASE Tick
  BY <1>6 DEF Tick, Released
<1>7. CASE UNCHANGED vars
  BY <1>7 DEF vars, Released
<1> QED BY <1>1, <1>2, <1>3, <1>4, <1>5, <1>6, <1>7 DEF Next

\* A handler unloaded when no request is running is released for good: no later
\* step brings a record back or leaves the goroutine without its signal, also when
\* the handler was unloaded before any failure had started the goroutine.
THEOREM UnloadedForGood == Spec => []Released
<1>1. Init => Released
  BY DEF Init, Released
<1> QED BY TypeInit, TypeNext, ReleasedNext, <1>1, PTL DEF Spec
=============================================================================

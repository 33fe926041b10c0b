------------------------ MODULE CaddyUpstreamProofs ------------------------
(***************************************************************************)
(* CaddyUpstream implements AtomicStore, for any users, callers and        *)
(* amounts: its type invariant, the invariant that the lock and the        *)
(* absence of overlapping Adds and Deletes give, and the step simulation.  *)
(***************************************************************************)
EXTENDS CaddyUpstream, SumTheorems

\* What a Consume reports is the traffic of its caller.
AmountsGiven ==
    \A c \in Callers : call[c].pc \in ConsumePcs => call[c].amount \in Amounts

\* Between its Lock and its Unlock a Consume holds the lock.
HoldsLock ==
    \A c \in Callers :
        call[c].pc \in {"load", "store", "unlock"} => lock[call[c].key] = c

\* What a Consume has read is still the record when it writes.
ReadIsFresh ==
    \A c \in Callers :
        call[c].pc = "store" =>
            /\ call[c].key \in DOMAIN storage
            /\ call[c].read = storage[call[c].key]

\* What an Add has not found is not there when it writes.
StillMissing ==
    \A c \in Callers : call[c].pc = "addStore" => call[c].key \notin DOMAIN storage

\* An Add or a Delete is the only call for its user.
AdminIsAlone ==
    \A c, d \in Callers :
        c # d /\ call[c].pc \in AdminPcs => call[d].key # call[c].key

QuietInv == HoldsLock /\ ReadIsFresh /\ StillMissing /\ AdminIsAlone

Typed == TypeOK /\ AmountsGiven

IInv == Typed /\ (env = "quiet" => QuietInv)

-----------------------------------------------------------------------------
(* The accounts.                                                           *)

\* Writing a record gives accounts of the same users and that one.
LEMMA SetType ==
    ASSUME NEW m, DOMAIN m \subseteq Keys, m \in [DOMAIN m -> Nat],
           NEW k \in Keys, NEW n \in Nat
    PROVE  /\ DOMAIN Set(m, k, n) = DOMAIN m \cup {k}
           /\ Set(m, k, n) \in [DOMAIN Set(m, k, n) -> Nat]
           /\ Set(m, k, n)[k] = n
           /\ \A j \in DOMAIN m : j # k => Set(m, k, n)[j] = m[j]
  BY DEF Set

\* The same of the storage, when a step writes a record or not.
LEMMA WriteType ==
    ASSUME TypeOK, NEW k \in Keys, NEW n \in Nat,
           storage' \in {Set(storage, k, n), storage}
    PROVE  DOMAIN storage' \subseteq Keys /\ storage' \in [DOMAIN storage' -> Nat]
  <1>1. DOMAIN storage \subseteq Keys /\ storage \in [DOMAIN storage -> Nat]
    BY DEF TypeOK
  <1>2. CASE storage' = storage
    BY <1>1, <1>2
  <1>3. CASE storage' = Set(storage, k, n)
    <2>1. DOMAIN Set(storage, k, n) = DOMAIN storage \cup {k}
      BY <1>1, SetType
    <2>2. Set(storage, k, n) \in [DOMAIN Set(storage, k, n) -> Nat]
      BY <1>1, SetType
    <2> QED
      BY <1>1, <1>3, <2>1, <2>2
  <1> QED
    BY <1>2, <1>3

\* Dropping a record leaves the others as they are.
LEMMA DropType ==
    ASSUME NEW m, DOMAIN m \subseteq Keys, m \in [DOMAIN m -> Nat], NEW k \in Keys
    PROVE  /\ DOMAIN DropKey(m, k) = DOMAIN m \ {k}
           /\ DropKey(m, k) \in [DOMAIN DropKey(m, k) -> Nat]
           /\ \A j \in DOMAIN m \ {k} : DropKey(m, k)[j] = m[j]
  BY DEF DropKey

\* A caller's next call record is a call record.
LEMMA GotoType ==
    ASSUME TypeOK, NEW c \in Callers,
           NEW pc \in {"idle"} \cup AdminPcs \cup ConsumePcs, Goto(c, pc),
           call[c].pc # "idle"
    PROVE  /\ call' \in [Callers -> Call]
           /\ \A d \in Callers : call'[d].pc # "idle" => call'[d].key \in Keys
           /\ call'[c].pc = pc /\ call'[c].key = call[c].key
           /\ call'[c].amount = call[c].amount /\ call'[c].read = call[c].read
           /\ \A d \in Callers \ {c} : call'[d] = call[d]
  <1> DEFINE q == [call[c] EXCEPT !.pc = pc]
  <1>1. call[c] \in Call
    BY DEF TypeOK
  <1>2. q = [pc |-> pc, key |-> call[c].key, amount |-> call[c].amount,
             read |-> call[c].read]
    BY <1>1 DEF Call
  <1>3. q \in Call
    BY <1>1, <1>2 DEF Call
  <1>4. call' = [call EXCEPT ![c] = q]
    BY DEF Goto
  <1>5. call \in [Callers -> Call]
    BY DEF TypeOK
  <1>6. call'[c] = q /\ \A d \in Callers \ {c} : call'[d] = call[d]
    BY <1>4, <1>5
  <1>7. call' \in [Callers -> Call]
    BY <1>3, <1>4, <1>5
  <1>8. q.pc = pc /\ q.key = call[c].key /\ q.amount = call[c].amount
        /\ q.read = call[c].read
    BY <1>2
  <1>9. \A d \in Callers : call'[d].pc # "idle" => call'[d].key \in Keys
    BY <1>6, <1>8 DEF TypeOK
  <1> QED
    BY <1>6, <1>7, <1>8, <1>9

\* A caller whose call returns is idle, and the others' calls go on.
LEMMA ReturnType ==
    ASSUME TypeOK, NEW c \in Callers, Return(c)
    PROVE  /\ call' \in [Callers -> Call]
           /\ \A d \in Callers : call'[d].pc # "idle" => call'[d].key \in Keys
           /\ call'[c].pc = "idle" /\ call'[c].key = NoKey
           /\ \A d \in Callers \ {c} : call'[d] = call[d]
  <1>1. NoCall \in Call
    BY DEF NoCall, Call
  <1>2. NoCall.pc = "idle" /\ NoCall.key = NoKey
    BY DEF NoCall
  <1> QED
    BY <1>1, <1>2 DEF TypeOK, Return

\* A new call is one of a user's, and only the caller's record changes.
LEMMA BeginType ==
    ASSUME TypeOK, NEW c \in Callers, NEW pc \in AdminPcs \cup {"lock"},
           NEW k \in Keys, NEW n \in Nat, Begin(c, pc, k, n)
    PROVE  /\ call' \in [Callers -> Call]
           /\ \A d \in Callers : call'[d].pc # "idle" => call'[d].key \in Keys
           /\ call'[c].pc = pc /\ call'[c].key = k /\ call'[c].amount = n
           /\ \A d \in Callers \ {c} : call'[d] = call[d]
  <1> DEFINE q == [pc |-> pc, key |-> k, amount |-> n, read |-> 0]
  <1>1. q \in Call
    BY DEF Call, ConsumePcs
  <1>2. call' \in [Callers -> Call] /\ call'[c] = q
        /\ \A d \in Callers \ {c} : call'[d] = call[d]
    BY <1>1 DEF TypeOK, Begin
  <1>3. q.pc = pc /\ q.key = k /\ q.amount = n
    OBVIOUS
  <1> QED
    BY <1>2, <1>3 DEF TypeOK

\* Load puts the record that it finds into the caller's.
LEMMA LoadType ==
    ASSUME TypeOK, NEW c \in Callers, call[c].pc = "load",
           call[c].key \in DOMAIN storage,
           Read(c, storage[call[c].key])
    PROVE  /\ call' \in [Callers -> Call]
           /\ \A d \in Callers : call'[d].pc # "idle" => call'[d].key \in Keys
           /\ call'[c].pc = "store" /\ call'[c].key = call[c].key
           /\ call'[c].amount = call[c].amount
           /\ call'[c].read = storage[call[c].key]
           /\ \A d \in Callers \ {c} : call'[d] = call[d]
  <1> DEFINE q == [pc |-> "store", key |-> call[c].key, amount |-> call[c].amount,
                   read |-> storage[call[c].key]]
  <1>1. call[c] \in Call /\ call \in [Callers -> Call]
    BY DEF TypeOK
  <1>2. storage[call[c].key] \in Nat
    BY DEF TypeOK
  <1>3. call' = [call EXCEPT ![c] = q]
    BY DEF Read
  <1>4. q \in Call
    BY <1>1, <1>2 DEF Call, ConsumePcs
  <1>5. call' \in [Callers -> Call] /\ call'[c] = q
        /\ \A d \in Callers \ {c} : call'[d] = call[d]
    BY <1>1, <1>3, <1>4
  <1>6. call[c].key \in Keys
    BY DEF TypeOK
  <1> QED
    BY <1>5, <1>6 DEF TypeOK

-----------------------------------------------------------------------------
(* Types.                                                                  *)

\* The initial state.
LEMMA InitTyped == Init => Typed
  <1> SUFFICES ASSUME Init PROVE Typed
    OBVIOUS
  <1>1. \A c \in Callers : call[c] = NoCall
    BY DEF Init
  <1>2. NoCall \in Call /\ NoCall.pc = "idle"
    BY DEF NoCall, Call
  <1>3. DOMAIN storage \subseteq Keys /\ storage \in [DOMAIN storage -> Nat]
    BY DEF Init
  <1>4. call \in [Callers -> Call]
    BY <1>1, <1>2 DEF Init
  <1>5. TypeOK
    BY <1>1, <1>2, <1>3, <1>4 DEF TypeOK, Init
  <1>6. AmountsGiven
    BY <1>1, <1>2 DEF AmountsGiven, ConsumePcs
  <1> QED
    BY <1>5, <1>6 DEF Typed

\* The other callers' amounts are theirs still.
LEMMA AmountsKept ==
    ASSUME AmountsGiven, NEW c \in Callers,
           \A d \in Callers \ {c} : call'[d] = call[d],
           call'[c].pc \in ConsumePcs => call'[c].amount \in Amounts
    PROVE  AmountsGiven'
  BY DEF AmountsGiven

\* Every step.
LEMMA NextTyped == Typed /\ [Next]_vars => Typed'
  <1> SUFFICES ASSUME Typed, [Next]_vars PROVE Typed'
    OBVIOUS
  <1>0. TypeOK /\ AmountsGiven
    BY DEF Typed
  <1>1. CASE \E c \in Admins, k \in Keys : Add(c, k) \/ Delete(c, k)
    <2>1. PICK c \in Callers, k \in Keys, pc \in AdminPcs :
              /\ Begin(c, pc, k, 0) /\ UNCHANGED <<env, storage, lock, reported>>
      BY <1>1 DEF Add, Delete, Callers, AdminPcs
    <2>2. TypeOK'
      BY <1>0, <2>1, BeginType DEF TypeOK
    <2>3. /\ \A d \in Callers \ {c} : call'[d] = call[d]
          /\ call'[c].pc = pc
      BY <1>0, <2>1, BeginType
    <2>4. AmountsGiven'
      BY <1>0, <2>3, AmountsKept DEF AdminPcs, ConsumePcs
    <2> QED
      BY <2>2, <2>4 DEF Typed
  <1>2. CASE \E c \in Tunnels, k \in Keys, n \in Amounts : Consume(c, k, n)
    <2>1. PICK c \in Callers, k \in Keys, n \in Amounts : Consume(c, k, n)
      BY <1>2 DEF Callers
    <2>2. n \in Nat
      BY ConstantsAssumption
    <2>3. Begin(c, "lock", k, n)
      BY <2>1 DEF Consume
    <2>4. reported' \in [Keys -> Nat]
      BY <1>0, <2>1, <2>2 DEF Consume, TypeOK
    <2>5. TypeOK'
      BY <1>0, <2>1, <2>2, <2>3, <2>4, BeginType DEF TypeOK, Consume
    <2>6. /\ \A d \in Callers \ {c} : call'[d] = call[d]
          /\ call'[c].amount \in Amounts
      BY <1>0, <2>2, <2>3, BeginType
    <2>7. AmountsGiven'
      BY <1>0, <2>6, AmountsKept
    <2> QED
      BY <2>5, <2>7 DEF Typed
  <1>3. CASE \E c \in Callers : AddExists(c) \/ DeleteExists(c)
    <2>1. PICK c \in Callers : AddExists(c) \/ DeleteExists(c)
      BY <1>3
    <2>2. \/ Return(c)
          \/ \E pc \in AdminPcs : Goto(c, pc)
      BY <2>1 DEF AddExists, DeleteExists, AdminPcs
    <2>3. call[c].pc # "idle" /\ UNCHANGED <<env, storage, lock, reported>>
      BY <2>1 DEF AddExists, DeleteExists
    <2>4. TypeOK'
      BY <1>0, <2>2, <2>3, GotoType, ReturnType DEF TypeOK
    <2>5. call'[c].pc \notin ConsumePcs /\ \A d \in Callers \ {c} : call'[d] = call[d]
      BY <1>0, <2>2, <2>3, GotoType, ReturnType DEF AdminPcs, ConsumePcs
    <2> QED
      BY <1>0, <2>4, <2>5, AmountsKept DEF Typed
  <1>4. CASE \E c \in Callers : AddStore(c) \/ DeleteDelete(c)
    <2>1. PICK c \in Callers : AddStore(c) \/ DeleteDelete(c)
      BY <1>4
    <2>2. call[c].key \in Keys /\ Return(c) /\ UNCHANGED <<env, lock, reported>>
      BY <1>0, <2>1 DEF AddStore, DeleteDelete, TypeOK
    <2>3. \/ storage' \in {Set(storage, call[c].key, 0), storage}
          \/ storage' = DropKey(storage, call[c].key)
      BY <2>1 DEF AddStore, DeleteDelete
    <2>4. DOMAIN storage' \subseteq Keys /\ storage' \in [DOMAIN storage' -> Nat]
      <3>1. CASE storage' \in {Set(storage, call[c].key, 0), storage}
        BY <1>0, <2>2, <3>1, WriteType
      <3>2. CASE storage' = DropKey(storage, call[c].key)
        BY <1>0, <3>2 DEF TypeOK, DropKey
      <3> QED
        BY <2>3, <3>1, <3>2
    <2>5. TypeOK'
      BY <1>0, <2>2, <2>4, ReturnType DEF TypeOK
    <2>6. AmountsGiven'
      BY <1>0, <2>2, ReturnType, AmountsKept DEF ConsumePcs
    <2> QED
      BY <2>5, <2>6 DEF Typed
  <1>5. CASE \E c \in Callers : Lock(c) \/ LockFails(c)
    <2>1. PICK c \in Callers : Lock(c) \/ LockFails(c)
      BY <1>5
    <2>2. Goto(c, "load") /\ call[c].pc = "lock" /\ UNCHANGED <<env, storage, reported>>
      BY <2>1 DEF Lock, LockFails
    <2>3. lock' \in [Keys -> Callers \cup {NoCaller, Abandoned}]
      BY <1>0, <2>1 DEF Lock, LockFails, TypeOK
    <2>4. TypeOK'
      BY <1>0, <2>2, <2>3, GotoType DEF TypeOK, ConsumePcs
    <2>5. AmountsGiven'
      BY <1>0, <2>2, GotoType, AmountsKept DEF ConsumePcs, AmountsGiven
    <2> QED
      BY <2>4, <2>5 DEF Typed
  <1>6. CASE \E c \in Callers : Load(c)
    <2>1. PICK c \in Callers : Load(c)
      BY <1>6
    <2>2. call[c].pc = "load" /\ UNCHANGED <<env, storage, lock, reported>>
      BY <2>1 DEF Load
    <2>3. CASE Goto(c, "unlock")
      <3>1. TypeOK'
        BY <1>0, <2>2, <2>3, GotoType DEF TypeOK, ConsumePcs
      <3>2. AmountsGiven'
        BY <1>0, <2>2, <2>3, GotoType, AmountsKept DEF ConsumePcs, AmountsGiven
      <3> QED
        BY <3>1, <3>2 DEF Typed
    <2>4. CASE call[c].key \in DOMAIN storage /\ Read(c, storage[call[c].key])
      <3>1. TypeOK'
        BY <1>0, <2>2, <2>4, LoadType DEF TypeOK
      <3>2. AmountsGiven'
        BY <1>0, <2>2, <2>4, LoadType, AmountsKept DEF ConsumePcs, AmountsGiven
      <3> QED
        BY <3>1, <3>2 DEF Typed
    <2> QED
      BY <2>1, <2>3, <2>4 DEF Load
  <1>7. CASE \E c \in Callers : Store(c)
    <2>1. PICK c \in Callers : Store(c)
      BY <1>7
    <2>2. call[c].pc = "store" /\ Goto(c, "unlock") /\ UNCHANGED <<env, lock, reported>>
      BY <2>1 DEF Store
    <2>3. call[c].key \in Keys /\ call[c].read + call[c].amount \in Nat
      BY <1>0, <2>2 DEF TypeOK, Call
    <2>4. storage' \in {Set(storage, call[c].key, call[c].read + call[c].amount), storage}
      BY <2>1 DEF Store
    <2>5. DOMAIN storage' \subseteq Keys /\ storage' \in [DOMAIN storage' -> Nat]
      BY <1>0, <2>3, <2>4, WriteType
    <2>6. TypeOK'
      BY <1>0, <2>2, <2>5, GotoType DEF TypeOK, ConsumePcs
    <2>7. AmountsGiven'
      BY <1>0, <2>2, GotoType, AmountsKept DEF ConsumePcs, AmountsGiven
    <2> QED
      BY <2>6, <2>7 DEF Typed
  <1>8. CASE \E c \in Callers : Unlock(c) \/ UnlockFails(c)
    <2>1. PICK c \in Callers : Unlock(c) \/ UnlockFails(c)
      BY <1>8
    <2>2. Return(c) /\ UNCHANGED <<env, storage, reported>>
      BY <2>1 DEF Unlock, UnlockFails
    <2>3. lock' \in [Keys -> Callers \cup {NoCaller, Abandoned}]
      BY <1>0, <2>1 DEF TypeOK, Unlock, UnlockFails
    <2>4. TypeOK'
      BY <1>0, <2>2, <2>3, ReturnType DEF TypeOK
    <2>5. AmountsGiven'
      BY <1>0, <2>2, ReturnType, AmountsKept DEF ConsumePcs
    <2> QED
      BY <2>4, <2>5 DEF Typed
  <1>9. CASE UNCHANGED vars
    BY <1>0, <1>9 DEF Typed, TypeOK, AmountsGiven, vars
  <1> QED
    BY <1>1, <1>2, <1>3, <1>4, <1>5, <1>6, <1>7, <1>8, <1>9 DEF Next, Callers

\* The state of CaddyUpstream and its callers keeps its types, for any users,
\* callers and amounts.
THEOREM TypeCorrect == Spec => []TypeOK
  <1>1. Spec => []Typed
    BY InitTyped, NextTyped, PTL DEF Spec
  <1>2. Typed => TypeOK
    BY DEF Typed
  <1> QED
    BY <1>1, <1>2, PTL

-----------------------------------------------------------------------------
(* The invariant of quiet behaviours.                                      *)

\* Initially nobody calls.
LEMMA InitQuiet == Init => QuietInv
  <1> SUFFICES ASSUME Init PROVE QuietInv
    OBVIOUS
  <1>1. \A c \in Callers : call[c].pc = "idle"
    BY DEF Init, NoCall
  <1> QED
    BY <1>1 DEF QuietInv, HoldsLock, ReadIsFresh, StillMissing, AdminIsAlone, AdminPcs

\* A caller that goes on with its call, or returns, leaves the others alone.
LEMMA AloneKept ==
    ASSUME Typed, AdminIsAlone, NEW c \in Callers, call[c].pc # "idle",
           \A d \in Callers \ {c} : call'[d] = call[d],
           \/ /\ call'[c].key = call[c].key
              /\ call'[c].pc \in AdminPcs => call[c].pc \in AdminPcs
           \/ call'[c].key = NoKey /\ call'[c].pc = "idle"
    PROVE  AdminIsAlone'
  <1> SUFFICES ASSUME NEW a \in Callers, NEW b \in Callers, a # b,
                      call'[a].pc \in AdminPcs
               PROVE  call'[b].key # call'[a].key
    BY DEF AdminIsAlone
  <1>1. CASE a = c
    <2>1. call[c].pc \in AdminPcs /\ call'[c].key = call[c].key /\ call'[b] = call[b]
      BY <1>1 DEF AdminPcs
    <2> QED
      BY <1>1, <2>1 DEF AdminIsAlone
  <1>2. CASE b = c
    <2>1. call'[a] = call[a] /\ call[a].pc # "idle"
      BY <1>2 DEF AdminPcs
    <2>2. call[a].key \in Keys
      BY <2>1 DEF Typed, TypeOK
    <2> QED
      BY <1>2, <2>1, <2>2, ConstantsAssumption DEF AdminIsAlone
  <1>3. CASE a # c /\ b # c
    BY <1>3 DEF AdminIsAlone
  <1> QED
    BY <1>1, <1>2, <1>3

\* A new call begins only when the ones under way allow it.
LEMMA QuietBegin ==
    ASSUME Typed, QuietInv, env = "quiet", NEW c \in Callers,
           NEW pc \in AdminPcs \cup {"lock"}, pc # "addStore", NEW k \in Keys,
           NEW n \in Nat, Begin(c, pc, k, n), UNCHANGED <<storage, lock>>
    PROVE  QuietInv'
  <1>1. /\ call'[c].pc = pc /\ call'[c].key = k
        /\ \A d \in Callers \ {c} : call'[d] = call[d]
    BY BeginType DEF Typed
  <1>2. HoldsLock' /\ ReadIsFresh' /\ StillMissing'
    BY <1>1 DEF QuietInv, HoldsLock, ReadIsFresh, StillMissing, AdminPcs
  <1>3. IF pc = "lock" THEN \A d \in Callers : call[d].key = k => call[d].pc \notin AdminPcs
        ELSE \A d \in Callers : call[d].key # k
    BY DEF Begin, Calling, Administered
  <1>4. AdminIsAlone'
    BY <1>1, <1>3 DEF QuietInv, AdminIsAlone, AdminPcs
  <1> QED
    BY <1>2, <1>4 DEF QuietInv

\* Add and Delete.
LEMMA QuietAdmin ==
    ASSUME Typed, QuietInv, env = "quiet", NEW c \in Callers,
           AddExists(c) \/ DeleteExists(c) \/ AddStore(c) \/ DeleteDelete(c)
    PROVE  QuietInv'
  <1> USE DEF Typed
  <1>1. call[c].pc \in AdminPcs /\ call[c].pc # "idle" /\ lock' = lock
    BY DEF AddExists, DeleteExists, AddStore, DeleteDelete, AdminPcs
  <1>2. /\ \A d \in Callers \ {c} : call'[d] = call[d]
        /\ \/ call'[c].key = call[c].key /\ call'[c].pc \in {"addStore", "deleteDelete"}
           \/ call'[c].key = NoKey /\ call'[c].pc = "idle"
    BY <1>1, GotoType, ReturnType
      DEF AddExists, DeleteExists, AddStore, DeleteDelete, AdminPcs
  <1>3. AdminIsAlone'
    BY <1>1, <1>2, AloneKept DEF QuietInv
  <1>4. HoldsLock'
    BY <1>1, <1>2 DEF QuietInv, HoldsLock
  <1>5. /\ \A d \in Callers \ {c} : call[d].key # call[c].key
        /\ storage \in [DOMAIN storage -> Nat] /\ DOMAIN storage \subseteq Keys
        /\ call[c].key \in Keys
    BY <1>1 DEF QuietInv, AdminIsAlone, TypeOK
  <1>6. /\ \A j \in Keys \ {call[c].key} : j \in DOMAIN storage' <=> j \in DOMAIN storage
        /\ \A j \in DOMAIN storage \ {call[c].key} : storage'[j] = storage[j]
    BY <1>5 DEF AddExists, DeleteExists, AddStore, DeleteDelete, Set, DropKey
  <1>7. ReadIsFresh'
    BY <1>2, <1>5, <1>6 DEF QuietInv, ReadIsFresh, TypeOK
  <1>8. call'[c].pc = "addStore" => call'[c].key \notin DOMAIN storage'
    <2>1. CASE Return(c)
      BY <2>1, ReturnType
    <2>2. CASE AddExists(c) /\ Goto(c, "addStore") /\ call[c].key \notin DOMAIN storage
      <3>1. storage' = storage /\ call'[c].key = call[c].key
        BY <1>1, <2>2, GotoType DEF AddExists, AdminPcs
      <3> QED
        BY <2>2, <3>1
    <2>3. CASE DeleteExists(c) /\ Goto(c, "deleteDelete")
      BY <1>1, <2>3, GotoType DEF AdminPcs
    <2> QED
      BY <2>1, <2>2, <2>3 DEF AddExists, DeleteExists, AddStore, DeleteDelete
  <1>9. StillMissing'
    <2> SUFFICES ASSUME NEW d \in Callers, call'[d].pc = "addStore"
                 PROVE  call'[d].key \notin DOMAIN storage'
      BY DEF StillMissing
    <2>1. CASE d = c
      BY <1>8, <2>1
    <2>2. CASE d # c
      <3>1. call'[d] = call[d] /\ call[d].key \notin DOMAIN storage /\ call[d].key \in Keys
        BY <1>2, <2>2 DEF QuietInv, StillMissing, TypeOK
      <3> QED
        BY <1>5, <1>6, <2>2, <3>1
    <2> QED
      BY <2>1, <2>2
  <1> QED
    BY <1>3, <1>4, <1>7, <1>9 DEF QuietInv

\* Consume.
LEMMA QuietConsume ==
    ASSUME Typed, QuietInv, env = "quiet", NEW c \in Callers,
           Lock(c) \/ LockFails(c) \/ Load(c) \/ Store(c) \/ Unlock(c) \/ UnlockFails(c)
    PROVE  QuietInv'
  <1> USE DEF Typed
  <1>0. /\ HoldsLock /\ ReadIsFresh /\ StillMissing /\ AdminIsAlone
        /\ storage \in [DOMAIN storage -> Nat] /\ DOMAIN storage \subseteq Keys
        /\ \A d \in Callers : call[d].pc # "idle" => call[d].key \in Keys
    BY DEF QuietInv, TypeOK
  <1>1. CASE Lock(c)
    <2>1. /\ call[c].pc = "lock" /\ call'[c].pc = "load" /\ call'[c].key = call[c].key
          /\ \A d \in Callers \ {c} : call'[d] = call[d]
      BY <1>1, GotoType DEF Lock, ConsumePcs
    <2>2. AdminIsAlone'
      BY <1>0, <2>1, AloneKept DEF AdminPcs
    <2>3. ReadIsFresh' /\ StillMissing'
      BY <1>0, <1>1, <2>1 DEF Lock, ReadIsFresh, StillMissing
    <2>4. /\ lock[call[c].key] = NoCaller /\ lock' = [lock EXCEPT ![call[c].key] = c]
          /\ lock \in [Keys -> Callers \cup {NoCaller, Abandoned}]
      BY <1>1 DEF Lock, TypeOK
    <2>5. HoldsLock'
      BY <1>0, <2>1, <2>4, ConstantsAssumption DEF HoldsLock
    <2> QED
      BY <2>2, <2>3, <2>5 DEF QuietInv
  <1>2. CASE Load(c)
    <2>1. /\ call[c].pc = "load" /\ storage' = storage /\ lock' = lock
          /\ call'[c].key = call[c].key
          /\ \A d \in Callers \ {c} : call'[d] = call[d]
          /\ \/ call'[c].pc = "unlock"
             \/ /\ call'[c].pc = "store" /\ call[c].key \in DOMAIN storage
                /\ call'[c].read = storage[call[c].key]
      <3>1. CASE Goto(c, "unlock")
        BY <1>2, <3>1, GotoType DEF Load, ConsumePcs
      <3>2. CASE call[c].key \in DOMAIN storage /\ Read(c, storage[call[c].key])
        BY <1>2, <3>2, LoadType DEF Load
      <3> QED
        BY <1>2, <3>1, <3>2 DEF Load
    <2>2. AdminIsAlone'
      BY <1>0, <2>1, AloneKept DEF AdminPcs
    <2>3. ReadIsFresh' /\ StillMissing' /\ HoldsLock'
      BY <1>0, <2>1 DEF ReadIsFresh, StillMissing, HoldsLock
    <2> QED
      BY <2>2, <2>3 DEF QuietInv
  <1>3. CASE Store(c)
    <2>1. /\ call[c].pc = "store" /\ call'[c].pc = "unlock" /\ call'[c].key = call[c].key
          /\ \A d \in Callers \ {c} : call'[d] = call[d]
          /\ lock' = lock
      BY <1>3, GotoType DEF Store, ConsumePcs
    <2>2. call[c].key \in DOMAIN storage
      BY <1>0, <2>1 DEF ReadIsFresh
    <2>3. /\ DOMAIN storage' = DOMAIN storage
          /\ \A j \in DOMAIN storage \ {call[c].key} : storage'[j] = storage[j]
      BY <1>3, <2>2 DEF Store, Set
    <2>4. AdminIsAlone'
      BY <1>0, <2>1, AloneKept DEF AdminPcs
    <2>5. HoldsLock' /\ StillMissing'
      BY <1>0, <2>1, <2>3 DEF HoldsLock, StillMissing
    <2>6. \A d \in Callers \ {c} : call[d].pc = "store" => call[d].key # call[c].key
      BY <1>0, <2>1 DEF HoldsLock
    <2>7. ReadIsFresh'
      BY <1>0, <2>1, <2>3, <2>6 DEF ReadIsFresh
    <2> QED
      BY <2>4, <2>5, <2>7 DEF QuietInv
  <1>4. CASE Unlock(c)
    <2>1. /\ call[c].pc = "unlock" /\ call'[c].pc = "idle" /\ call'[c].key = NoKey
          /\ \A d \in Callers \ {c} : call'[d] = call[d]
          /\ storage' = storage
      BY <1>4, ReturnType DEF Unlock
    <2>2. AdminIsAlone'
      BY <1>0, <2>1, AloneKept
    <2>3. ReadIsFresh' /\ StillMissing'
      BY <1>0, <2>1 DEF ReadIsFresh, StillMissing
    <2>4. /\ lock' = [lock EXCEPT ![call[c].key] = NoCaller]
          /\ lock \in [Keys -> Callers \cup {NoCaller, Abandoned}]
          /\ lock[call[c].key] = c
      BY <1>0, <1>4, <2>1 DEF Unlock, TypeOK, HoldsLock
    <2>5. HoldsLock'
      BY <1>0, <2>1, <2>4 DEF HoldsLock
    <2> QED
      BY <2>2, <2>3, <2>5 DEF QuietInv
  <1> QED
    BY <1>1, <1>2, <1>3, <1>4 DEF LockFails, UnlockFails

\* Every step.
LEMMA NextQuiet == Typed /\ QuietInv /\ env = "quiet" /\ [Next]_vars => QuietInv'
  <1> SUFFICES ASSUME Typed, QuietInv, env = "quiet", [Next]_vars PROVE QuietInv'
    OBVIOUS
  <1>1. ASSUME NEW c \in Admins, NEW k \in Keys, Add(c, k) \/ Delete(c, k)
        PROVE  QuietInv'
    <2>1. c \in Callers
      BY DEF Callers
    <2>2. PICK pc \in {"addExists", "deleteExists"} : Begin(c, pc, k, 0)
      BY <1>1 DEF Add, Delete
    <2>3. UNCHANGED <<storage, lock>>
      BY <1>1 DEF Add, Delete
    <2> QED
      BY <2>1, <2>2, <2>3, QuietBegin DEF AdminPcs
  <1>2. ASSUME NEW c \in Tunnels, NEW k \in Keys, NEW n \in Amounts, Consume(c, k, n)
        PROVE  QuietInv'
    <2>1. c \in Callers /\ n \in Nat
      BY ConstantsAssumption DEF Callers
    <2>2. Begin(c, "lock", k, n) /\ UNCHANGED <<storage, lock>>
      BY <1>2 DEF Consume
    <2> QED
      BY <2>1, <2>2, QuietBegin
  <1>3. CASE UNCHANGED vars
    BY <1>3 DEF QuietInv, HoldsLock, ReadIsFresh, StillMissing, AdminIsAlone, vars
  <1> QED
    BY <1>1, <1>2, <1>3, QuietAdmin, QuietConsume DEF Next, Callers

-----------------------------------------------------------------------------
(* The refinement.                                                         *)

\* The invariant.
LEMMA Invariance == Spec => []IInv
  <1>1. Init => IInv
    BY InitTyped, InitQuiet DEF IInv
  <1>2. IInv /\ [Next]_vars => IInv'
    <2> SUFFICES ASSUME IInv, [Next]_vars PROVE IInv'
      OBVIOUS
    <2>1. env' = env
      BY DEF Next, vars, Add, Delete, Consume, AddExists, AddStore, DeleteExists,
             DeleteDelete, Lock, LockFails, Load, Store, Unlock, UnlockFails
    <2> QED
      BY <2>1, NextTyped, NextQuiet DEF IInv
  <1> QED
    BY <1>1, <1>2, PTL DEF Spec

\* A quiet behaviour changes its records only as AtomicStore does: by the Store
\* of an Add that found none, by a Delete, and by the Store of a Consume.
LEMMA QuietStep ==
    ASSUME Typed, QuietInv, [Next]_vars
    PROVE  \/ storage' = storage
           \/ \E k \in Keys :
                \/ storage' = StoreAdd(storage, k)
                \/ storage' = StoreDelete(storage, k)
                \/ \E n \in Amounts : storage' = StoreConsume(storage, k, n)
  <1>1. ASSUME NEW c \in Callers, AddStore(c) \/ DeleteDelete(c), storage' # storage
        PROVE  \E k \in Keys : \/ storage' = StoreAdd(storage, k)
                               \/ storage' = StoreDelete(storage, k)
    <2>1. call[c].key \in Keys
      BY <1>1 DEF AddStore, DeleteDelete, Typed, TypeOK
    <2>2. CASE AddStore(c)
      <3>1. storage' = Set(storage, call[c].key, 0) /\ call[c].key \notin DOMAIN storage
        BY <1>1, <2>2 DEF AddStore, QuietInv, StillMissing
      <3> QED
        BY <2>1, <3>1 DEF StoreAdd
    <2>3. CASE DeleteDelete(c)
      <3>1. storage' = DropKey(storage, call[c].key)
        BY <1>1, <2>3 DEF DeleteDelete
      <3>2. call[c].key \in DOMAIN storage
        <4> SUFFICES ASSUME call[c].key \notin DOMAIN storage PROVE FALSE
          OBVIOUS
        <4>1. storage = [j \in DOMAIN storage |-> storage[j]]
          BY DEF Typed, TypeOK
        <4>2. DropKey(storage, call[c].key) = storage
          BY <4>1 DEF DropKey
        <4> QED
          BY <1>1, <3>1, <4>2
      <3> QED
        BY <2>1, <3>1, <3>2 DEF StoreDelete
    <2> QED
      BY <1>1, <2>2, <2>3
  <1>2. ASSUME NEW c \in Callers, Store(c), storage' # storage
        PROVE  \E k \in Keys : \E n \in Amounts : storage' = StoreConsume(storage, k, n)
    <2>1. call[c].key \in Keys /\ call[c].amount \in Amounts
      BY <1>2 DEF Store, Typed, TypeOK, AmountsGiven, ConsumePcs
    <2>2. call[c].key \in DOMAIN storage /\ call[c].read = storage[call[c].key]
      BY <1>2 DEF Store, QuietInv, ReadIsFresh
    <2>3. storage' = Set(storage, call[c].key, storage[call[c].key] + call[c].amount)
      BY <1>2, <2>2 DEF Store
    <2> QED
      BY <2>1, <2>2, <2>3 DEF StoreConsume
  <1>3. CASE UNCHANGED vars
    BY <1>3 DEF vars
  <1> QED
    BY <1>1, <1>2, <1>3 DEF Next, Callers, Add, Delete, Consume, AddExists,
       DeleteExists, Lock, LockFails, Load, Unlock, UnlockFails

\* Concurrent Consumes lose no update, and every call takes effect in one step or
\* not at all, as long as Add and Delete do not overlap with other calls for the
\* same user: CaddyUpstream then implements the atomic storage that MemoryUpstream
\* is modelled over, for any number of users, callers and amounts.
THEOREM Refinement == Spec => ImplementsAtomicStore
  <1>1. Init => Atomic!Init
    <2> SUFFICES ASSUME Init PROVE \E S \in SUBSET Keys : Records = [k \in S |-> 0]
      BY DEF Atomic!Init
    <2>1. PICK S \in SUBSET Keys : storage = [k \in S |-> 0]
      BY DEF Init
    <2>2. CASE env = "quiet"
      BY <2>1, <2>2 DEF Records
    <2>3. CASE env # "quiet"
      BY <2>3 DEF Records
    <2> QED
      BY <2>2, <2>3
  <1>2. IInv /\ [Next]_vars => [Atomic!Next]_Records
    <2> SUFFICES ASSUME IInv, [Next]_vars PROVE Atomic!Next \/ Records' = Records
      OBVIOUS
    <2>1. env' = env
      BY DEF Next, vars, Add, Delete, Consume, AddExists, AddStore, DeleteExists,
             DeleteDelete, Lock, LockFails, Load, Store, Unlock, UnlockFails
    <2>2. CASE env # "quiet"
      BY <2>1, <2>2 DEF Records
    <2>3. CASE env = "quiet"
      <3>1. Records = storage /\ Records' = storage'
        BY <2>1, <2>3 DEF Records
      <3>2. \/ storage' = storage
            \/ \E k \in Keys :
                \/ storage' = StoreAdd(storage, k)
                \/ storage' = StoreDelete(storage, k)
                \/ \E n \in Amounts : storage' = StoreConsume(storage, k, n)
        BY <2>3, QuietStep DEF IInv
      <3> QED
        BY <3>1, <3>2 DEF Atomic!Next, Atomic!StoreAdd, Atomic!StoreDelete,
           Atomic!StoreConsume, Atomic!Set, Atomic!DropKey, StoreAdd, StoreDelete,
           StoreConsume, Set, DropKey
    <2> QED
      BY <2>2, <2>3
  <1> QED
    BY <1>1, <1>2, Invariance, PTL DEF Spec, ImplementsAtomicStore, Atomic!Spec

-----------------------------------------------------------------------------
(* Traffic is not counted twice.  What a Consume was called with may be    *)
(* added once more, until its Store.                                       *)

Owed(r, k) ==
    IF r.pc \in {"lock", "load", "store"} /\ r.key = k THEN r.amount ELSE 0

\* The traffic of k that the calls under way may still add.
Outstanding(k) == SumFunction([c \in Callers |-> Owed(call[c], k)])

\* What was reported for k covers its record and what was read of it, together
\* with what the calls under way may still add.
Covered(k) ==
    /\ Outstanding(k) <= reported[k]
    /\ k \in DOMAIN storage => storage[k] + Outstanding(k) <= reported[k]
    /\ \A c \in Callers : call[c].pc = "store" /\ call[c].key = k =>
                              call[c].read + Outstanding(k) <= reported[k]

LEMMA OwedType ==
    ASSUME NEW r \in Call, NEW k
    PROVE  Owed(r, k) \in Nat
  BY DEF Owed, Call

LEMMA OutstandingType ==
    ASSUME TypeOK, NEW k
    PROVE  /\ [c \in Callers |-> Owed(call[c], k)] \in [Callers -> Nat]
           /\ Outstanding(k) \in Nat
  <1> DEFINE w == [c \in Callers |-> Owed(call[c], k)]
  <1>1. w \in [Callers -> Nat]
    BY OwedType DEF TypeOK
  <1> HIDE DEF w
  <1>2. SumFunction(w) \in Nat
    BY <1>1, SumType, ConstantsAssumption
  <1> QED
    BY <1>1, <1>2 DEF w, Outstanding

\* A step of one caller changes what that caller owes.
LEMMA OutstandingChanged ==
    ASSUME TypeOK, TypeOK', NEW c \in Callers,
           \A d \in Callers \ {c} : call'[d] = call[d], NEW k
    PROVE  /\ Outstanding(k)' = Outstanding(k) - Owed(call[c], k) + Owed(call'[c], k)
           /\ Outstanding(k) \in Nat /\ Outstanding(k)' \in Nat
           /\ Owed(call[c], k) \in Nat /\ Owed(call'[c], k) \in Nat
  <1> DEFINE w == [d \in Callers |-> Owed(call[d], k)]
             v == [d \in Callers |-> Owed(call'[d], k)]
  <1>1. w \in [Callers -> Nat] /\ Outstanding(k) \in Nat
    BY OutstandingType
  <1>2. v \in [Callers -> Nat]
    BY OwedType DEF TypeOK
  <1>3. /\ w[c] = Owed(call[c], k) /\ v[c] = Owed(call'[c], k)
        /\ \A d \in Callers \ {c} : v[d] = w[d]
    OBVIOUS
  <1>4. Outstanding(k) = SumFunction(w) /\ Outstanding(k)' = SumFunction(v)
    BY DEF Outstanding
  <1> HIDE DEF w, v
  <1>5. SumFunction(v) = SumFunction(w) - w[c] + v[c]
    <2>1. w \in [Callers -> Int] /\ v \in [Callers -> Int]
      BY <1>1, <1>2
    <2> QED
      BY <1>3, <2>1, SumChange, ConstantsAssumption
  <1>6. SumFunction(v) \in Nat
    BY <1>2, SumType, ConstantsAssumption
  <1>7. w[c] \in Nat /\ v[c] \in Nat
    BY <1>1, <1>2
  <1> QED
    BY <1>1, <1>3, <1>4, <1>5, <1>6, <1>7

\* A step of one caller keeps k covered if what is reported grows by as much as
\* what the caller owes, a record that is written was covered by what the caller
\* owes no more, and a record that is read is the stored one.
LEMMA CoveredStep ==
    ASSUME TypeOK, TypeOK', NEW c \in Callers,
           \A d \in Callers \ {c} : call'[d] = call[d],
           NEW k \in Keys, Covered(k), NEW x \in Nat, reported'[k] = reported[k] + x,
           Owed(call'[c], k) <= Owed(call[c], k) + x,
           k \in DOMAIN storage' =>
               \/ k \in DOMAIN storage /\ storage'[k] = storage[k]
               \/ storage'[k] + Outstanding(k)' <= reported'[k],
           call'[c].pc = "store" /\ call'[c].key = k =>
               k \in DOMAIN storage /\ call'[c].read = storage[k]
    PROVE  Covered(k)'
  <1>1. /\ Outstanding(k)' = Outstanding(k) - Owed(call[c], k) + Owed(call'[c], k)
        /\ Outstanding(k) \in Nat /\ Outstanding(k)' \in Nat
        /\ Owed(call[c], k) \in Nat /\ Owed(call'[c], k) \in Nat
    BY OutstandingChanged
  <1> DEFINE P == Outstanding(k)
             Q == Outstanding(k)'
  <1>2. P \in Nat /\ Q \in Nat /\ Q <= P + x /\ reported[k] \in Nat
    BY <1>1 DEF TypeOK
  <1>3. /\ P <= reported[k]
        /\ k \in DOMAIN storage => storage[k] + P <= reported[k]
        /\ \A d \in Callers : call[d].pc = "store" /\ call[d].key = k =>
               call[d].read + P <= reported[k]
    BY DEF Covered
  <1> HIDE DEF P, Q
  <1>4. \A d \in Callers : call[d].read \in Nat /\ call'[d].read \in Nat
    BY DEF TypeOK, Call
  <1>5. k \in DOMAIN storage => storage[k] \in Nat
    BY DEF TypeOK
  <1>6. Q <= reported'[k]
    BY <1>2, <1>3
  <1>7. k \in DOMAIN storage' => storage'[k] + Q <= reported'[k]
    BY <1>2, <1>3, <1>5 DEF Q
  <1>8. ASSUME NEW d \in Callers, call'[d].pc = "store", call'[d].key = k
        PROVE  call'[d].read + Q <= reported'[k]
    <2>1. CASE d = c
      BY <1>2, <1>3, <1>5, <1>8, <2>1
    <2>2. CASE d # c
      BY <1>2, <1>3, <1>4, <1>8, <2>2
    <2> QED
      BY <2>1, <2>2
  <1> QED
    BY <1>6, <1>7, <1>8 DEF Covered, Q

LEMMA CoveredInit ==
    ASSUME Init, NEW k \in Keys
    PROVE  Covered(k)
  <1> DEFINE w == [c \in Callers |-> Owed(call[c], k)]
  <1>1. \A c \in Callers : call[c].pc = "idle"
    BY DEF Init, NoCall
  <1>2. w \in [Callers -> Int] /\ \A c \in Callers : w[c] = 0
    BY <1>1 DEF Owed
  <1> HIDE DEF w
  <1>3. SumFunction(w) = 0
    BY <1>2, SumZero, ConstantsAssumption
  <1>4. Outstanding(k) = 0
    BY <1>3 DEF w, Outstanding
  <1>5. reported[k] = 0 /\ (k \in DOMAIN storage => storage[k] = 0)
    BY DEF Init
  <1> QED
    BY <1>1, <1>4, <1>5 DEF Covered

LEMMA CoveredNext ==
    ASSUME Typed, [Next]_vars, NEW k \in Keys, Covered(k)
    PROVE  Covered(k)'
  <1>0. TypeOK /\ TypeOK'
    BY NextTyped DEF Typed
  <1>1. ASSUME NEW c \in Admins, NEW j \in Keys, Add(c, j) \/ Delete(c, j)
        PROVE  Covered(k)'
    <2>1. PICK pc \in AdminPcs :
              /\ c \in Callers /\ Begin(c, pc, j, 0)
              /\ UNCHANGED <<storage, reported>>
      BY <1>1 DEF Add, Delete, Callers, AdminPcs
    <2>2. /\ \A d \in Callers \ {c} : call'[d] = call[d]
          /\ call'[c].pc = pc
      BY <1>0, <2>1, BeginType
    <2>3. /\ Owed(call'[c], k) <= Owed(call[c], k) + 0
          /\ call'[c].pc # "store"
      <3>1. Owed(call[c], k) \in Nat
        BY <1>0, <2>1, OwedType DEF TypeOK
      <3>2. Owed(call'[c], k) = 0 /\ call'[c].pc # "store"
        BY <2>2 DEF Owed, AdminPcs
      <3> QED
        BY <3>1, <3>2
    <2>4. 0 \in Nat /\ reported'[k] = reported[k] + 0
      BY <1>0, <2>1 DEF TypeOK
    <2> QED
      BY <1>0, <2>1, <2>2, <2>3, <2>4, CoveredStep
  <1>2. ASSUME NEW c \in Tunnels, NEW j \in Keys, NEW n \in Amounts, Consume(c, j, n)
        PROVE  Covered(k)'
    <2>1. /\ c \in Callers /\ n \in Nat /\ Begin(c, "lock", j, n)
          /\ UNCHANGED storage
      BY <1>2, ConstantsAssumption DEF Consume, Callers
    <2>2. /\ \A d \in Callers \ {c} : call'[d] = call[d]
          /\ call'[c].pc = "lock" /\ call'[c].key = j /\ call'[c].amount = n
      BY <1>0, <2>1, BeginType
    <2> DEFINE x == IF j = k THEN n ELSE 0
    <2>3. x \in Nat /\ reported'[k] = reported[k] + x
      BY <1>0, <1>2, <2>1 DEF Consume, TypeOK
    <2>4. Owed(call'[c], k) = x /\ call'[c].pc # "store" /\ Owed(call[c], k) \in Nat
      BY <1>0, <2>1, <2>2, OutstandingChanged DEF Owed
    <2> HIDE DEF x
    <2>5. Owed(call'[c], k) <= Owed(call[c], k) + x
      BY <2>3, <2>4
    <2> QED
      BY <1>0, <2>1, <2>2, <2>3, <2>4, <2>5, CoveredStep
  \* Steps that neither report nor write.
  <1>3. ASSUME NEW c \in Callers,
               AddExists(c) \/ DeleteExists(c) \/ Lock(c) \/ LockFails(c)
                 \/ Load(c) \/ Unlock(c) \/ UnlockFails(c)
        PROVE  Covered(k)'
    <2>1. /\ call[c].pc # "idle" /\ UNCHANGED <<storage, reported>>
          /\ \/ Return(c)
             \/ \E pc \in AdminPcs \cup {"unlock"} : Goto(c, pc)
             \/ Goto(c, "load") /\ call[c].pc = "lock"
             \/ /\ call[c].pc = "load" /\ call[c].key \in DOMAIN storage
                /\ Read(c, storage[call[c].key])
      BY <1>3 DEF AddExists, DeleteExists, Lock, LockFails, Load, Unlock, UnlockFails,
         AdminPcs
    <2>2. /\ \A d \in Callers \ {c} : call'[d] = call[d]
          /\ \/ call'[c].pc \in AdminPcs \cup {"unlock", "idle"}
             \/ /\ call'[c].pc = "load" /\ call[c].pc = "lock"
                /\ call'[c].key = call[c].key /\ call'[c].amount = call[c].amount
             \/ /\ call'[c].pc = "store" /\ call[c].pc = "load"
                /\ call'[c].key = call[c].key /\ call'[c].amount = call[c].amount
                /\ call[c].key \in DOMAIN storage
                /\ call'[c].read = storage[call[c].key]
      <3>1. CASE Return(c)
        BY <1>0, <3>1, ReturnType
      <3>2. CASE \E pc \in AdminPcs \cup {"unlock"} : Goto(c, pc)
        BY <1>0, <2>1, <3>2, GotoType DEF ConsumePcs
      <3>3. CASE Goto(c, "load") /\ call[c].pc = "lock"
        BY <1>0, <2>1, <3>3, GotoType DEF ConsumePcs
      <3>4. CASE /\ call[c].pc = "load" /\ call[c].key \in DOMAIN storage
                 /\ Read(c, storage[call[c].key])
        BY <1>0, <3>4, LoadType
      <3> QED
        BY <2>1, <3>1, <3>2, <3>3, <3>4
    <2>3. Owed(call[c], k) \in Nat
      BY <1>0, <2>2, OutstandingChanged
    <2>4. Owed(call'[c], k) <= Owed(call[c], k) + 0
      BY <2>2, <2>3 DEF Owed, AdminPcs
    <2>5. call'[c].pc = "store" /\ call'[c].key = k =>
              k \in DOMAIN storage /\ call'[c].read = storage[k]
      BY <2>2 DEF AdminPcs
    <2>6. 0 \in Nat /\ reported'[k] = reported[k] + 0
      BY <1>0, <2>1 DEF TypeOK
    <2> QED
      BY <1>0, <2>1, <2>2, <2>4, <2>5, <2>6, CoveredStep
  \* Steps that write.
  <1>4. ASSUME NEW c \in Callers, AddStore(c) \/ DeleteDelete(c) \/ Store(c)
        PROVE  Covered(k)'
    <2> DEFINE j == call[c].key
               n == IF call[c].pc = "store" THEN call[c].read + call[c].amount ELSE 0
    <2>1. /\ call[c].pc \in {"addStore", "deleteDelete", "store"}
          /\ UNCHANGED reported
          /\ Return(c) \/ Goto(c, "unlock")
          /\ storage' \in {Set(storage, j, n), DropKey(storage, j), storage}
      BY <1>4 DEF AddStore, DeleteDelete, Store
    <2>2. /\ \A d \in Callers \ {c} : call'[d] = call[d]
          /\ call'[c].pc \in {"unlock", "idle"}
      BY <1>0, <2>1, ReturnType, GotoType DEF ConsumePcs
    <2>3. Owed(call'[c], k) = 0 /\ call'[c].pc # "store"
      BY <2>2 DEF Owed
    <2>4. /\ Outstanding(k)' = Outstanding(k) - Owed(call[c], k)
          /\ Outstanding(k) \in Nat /\ Outstanding(k)' \in Nat
          /\ Owed(call[c], k) \in Nat
      <3>1. /\ Outstanding(k)' = Outstanding(k) - Owed(call[c], k) + Owed(call'[c], k)
            /\ Outstanding(k) \in Nat /\ Outstanding(k)' \in Nat
            /\ Owed(call[c], k) \in Nat
        BY <1>0, <2>2, OutstandingChanged
      <3> QED
        BY <2>3, <3>1
    <2>5. j = k => n + Outstanding(k)' <= reported[k]
      <3>1. CASE call[c].pc = "store" /\ j = k
        <4>1. call[c].read + Outstanding(k) <= reported[k]
          BY <3>1 DEF Covered
        <4>2. Owed(call[c], k) = call[c].amount
          BY <3>1 DEF Owed
        <4>3. call[c].read \in Nat /\ call[c].amount \in Nat /\ reported[k] \in Nat
          BY <1>0 DEF TypeOK, Call
        <4> QED
          BY <2>4, <3>1, <4>1, <4>2, <4>3
      <3>2. CASE call[c].pc # "store"
        <4>1. Outstanding(k) <= reported[k] /\ reported[k] \in Nat
          BY <1>0 DEF Covered, TypeOK
        <4> QED
          BY <2>4, <3>2, <4>1
      <3> QED
        BY <3>1, <3>2
    <2> HIDE DEF n
    <2>6. k \in DOMAIN storage' =>
              \/ k \in DOMAIN storage /\ storage'[k] = storage[k]
              \/ storage'[k] + Outstanding(k)' <= reported'[k]
      BY <2>1, <2>5 DEF Set, DropKey
    <2>7. 0 \in Nat /\ reported'[k] = reported[k] + 0
      BY <1>0, <2>1 DEF TypeOK
    <2>8. Owed(call'[c], k) <= Owed(call[c], k) + 0
      BY <2>3, <2>4
    <2> QED
      BY <1>0, <2>2, <2>3, <2>6, <2>7, <2>8, CoveredStep
  <1>5. CASE UNCHANGED vars
    BY <1>5 DEF vars, Covered, Outstanding
  <1> QED
    BY <1>1, <1>2, <1>3, <1>4, <1>5 DEF Next, Callers

\* In every behaviour, also when Adds and Deletes overlap with Consumes and when
\* the lock is lost: a record never holds more than was reported for its user.
THEOREM NoOverbilling == Spec => []NeverOverbilled
  <1> DEFINE Inv == Typed /\ \A k \in Keys : Covered(k)
  <1>1. Init => Inv
    BY InitTyped, CoveredInit
  <1>2. Inv /\ [Next]_vars => Inv'
    <2> SUFFICES ASSUME Inv, [Next]_vars PROVE Inv'
      OBVIOUS
    <2>1. \A k \in Keys : Covered(k)'
      BY CoveredNext
    <2> QED
      BY <2>1, NextTyped
  <1>3. Inv => NeverOverbilled
    <2> SUFFICES ASSUME Inv, NEW k \in DOMAIN storage
                 PROVE  storage[k] <= reported[k]
      BY DEF NeverOverbilled
    <2>1. TypeOK
      BY DEF Typed
    <2>2. k \in Keys /\ storage[k] \in Nat /\ reported[k] \in Nat
      BY <2>1 DEF TypeOK
    <2>3. storage[k] + Outstanding(k) <= reported[k] /\ Outstanding(k) \in Nat
      BY <2>1, <2>2, OutstandingType DEF Covered
    <2> QED
      BY <2>2, <2>3
  <1> HIDE DEF Inv
  <1> QED
    BY <1>1, <1>2, <1>3, PTL DEF Spec

-----------------------------------------------------------------------------
(* The storage's locks.                                                    *)

Locked(c) == call[c].pc \in {"load", "store", "unlock"}

\* A lock that is taken is held by a Consume of that record that has its Unlock
\* still to come, or by one whose Unlock has failed.
LocksAreHeld ==
    \A k \in Keys :
        /\ lock[k] \in Callers => call[lock[k]].key = k /\ Locked(lock[k])
        /\ lock[k] = Abandoned => env = "unlocked"

\* Where Lock does not fail, the Consumes of one user exclude one another from
\* before their Load to after their Store, whatever Adds and Deletes come between.
ConsumesExclude ==
    env # "unlocked" =>
        \A c, d \in Callers :
            Locked(c) /\ Locked(d) /\ call[c].key = call[d].key => c = d

LockInv == LocksAreHeld /\ (env # "unlocked" => HoldsLock)

\* What a step of c must keep: of its lock, or of not having one.
LEMMA LockStep ==
    ASSUME TypeOK, LockInv, NEW c \in Callers, env' = env,
           \A d \in Callers \ {c} : call'[d] = call[d],
           \/ /\ UNCHANGED lock
              /\ ~Locked(c) /\ (env # "unlocked" => ~Locked(c)')
           \/ /\ UNCHANGED lock /\ call'[c].key = call[c].key
              /\ Locked(c) /\ Locked(c)'
    PROVE  LockInv'
  <1>1. LocksAreHeld'
    BY DEF LockInv, LocksAreHeld, Locked
  <1>2. env # "unlocked" => HoldsLock'
    BY DEF LockInv, HoldsLock, Locked
  <1> QED
    BY <1>1, <1>2 DEF LockInv

LEMMA LockNext == Typed /\ LockInv /\ [Next]_vars => LockInv'
  <1> SUFFICES ASSUME Typed, LockInv, [Next]_vars PROVE LockInv'
    OBVIOUS
  <1>0. TypeOK /\ {NoCaller, Abandoned} \cap Callers = {} /\ NoCaller # Abandoned
    BY ConstantsAssumption DEF Typed
  <1>1. CASE \/ \E c \in Admins, k \in Keys : Add(c, k) \/ Delete(c, k)
             \/ \E c \in Tunnels, k \in Keys, n \in Amounts : Consume(c, k, n)
    <2>1. PICK c \in Callers, k \in Keys, pc \in AdminPcs \cup {"lock"}, n \in Nat :
              Begin(c, pc, k, n) /\ UNCHANGED <<env, lock>>
      BY <1>1, ConstantsAssumption DEF Add, Delete, Consume, Callers, AdminPcs
    <2>2. /\ \A d \in Callers \ {c} : call'[d] = call[d]
          /\ call'[c].pc = pc
      BY <1>0, <2>1, BeginType
    <2>3. ~Locked(c) /\ ~Locked(c)'
      BY <2>1, <2>2 DEF Begin, NoCall, Locked, AdminPcs
    <2> QED
      BY <1>0, <2>1, <2>2, <2>3, LockStep
  <1>2. ASSUME NEW c \in Callers,
               AddExists(c) \/ DeleteExists(c) \/ AddStore(c) \/ DeleteDelete(c)
        PROVE  LockInv'
    <2>1. call[c].pc \in AdminPcs /\ UNCHANGED <<env, lock>>
      BY <1>2 DEF AddExists, DeleteExists, AddStore, DeleteDelete, AdminPcs
    <2>2. Return(c) \/ \E pc \in AdminPcs : Goto(c, pc)
      BY <1>2 DEF AddExists, DeleteExists, AddStore, DeleteDelete, AdminPcs
    <2>3. /\ \A d \in Callers \ {c} : call'[d] = call[d]
          /\ call'[c].pc \in AdminPcs \cup {"idle"}
      BY <1>0, <2>1, <2>2, GotoType, ReturnType DEF AdminPcs
    <2>4. ~Locked(c) /\ ~Locked(c)'
      BY <2>1, <2>3 DEF Locked, AdminPcs
    <2> QED
      BY <1>0, <2>1, <2>3, <2>4, LockStep
  <1>3. ASSUME NEW c \in Callers, Lock(c)
        PROVE  LockInv'
    <2> DEFINE k == call[c].key
    <2>1. /\ call[c].pc = "lock" /\ lock[k] = NoCaller /\ env' = env
          /\ lock' = [lock EXCEPT ![k] = c] /\ Goto(c, "load") /\ k \in Keys
      BY <1>0, <1>3 DEF Lock, TypeOK
    <2>2. /\ \A d \in Callers \ {c} : call'[d] = call[d]
          /\ call'[c].pc = "load" /\ call'[c].key = k
      BY <1>0, <2>1, GotoType DEF ConsumePcs
    <2>3. lock'[k] = c /\ \A j \in Keys \ {k} : lock'[j] = lock[j]
      BY <1>0, <2>1 DEF TypeOK
    <2>4. \A j \in Keys : lock[j] \in Callers => lock[j] # c
      BY <1>0, <2>1 DEF TypeOK, LockInv, LocksAreHeld, Locked
    <2>5. LocksAreHeld'
      BY <1>0, <2>1, <2>2, <2>3, <2>4 DEF LockInv, LocksAreHeld, Locked
    <2>6. env # "unlocked" => HoldsLock'
      <3>1. \A d \in Callers : Locked(d) => call[d].key \in Keys
        BY <1>0 DEF TypeOK, Locked
      <3> QED
        BY <1>0, <2>1, <2>2, <2>3, <3>1 DEF LockInv, HoldsLock, Locked
    <2> QED
      BY <2>1, <2>5, <2>6 DEF LockInv
  <1>4. ASSUME NEW c \in Callers, LockFails(c)
        PROVE  LockInv'
    <2>1. call[c].pc = "lock" /\ env = "unlocked" /\ Goto(c, "load") /\ UNCHANGED <<env, lock>>
      BY <1>4 DEF LockFails
    <2>2. \A d \in Callers \ {c} : call'[d] = call[d]
      BY <1>0, <2>1, GotoType DEF ConsumePcs
    <2> QED
      BY <1>0, <2>1, <2>2, LockStep DEF Locked
  <1>5. ASSUME NEW c \in Callers, Load(c) \/ Store(c)
        PROVE  LockInv'
    <2>1. call[c].pc \in {"load", "store"} /\ UNCHANGED <<env, lock>>
      BY <1>5 DEF Load, Store
    <2>2. \/ Goto(c, "unlock")
          \/ /\ call[c].pc = "load" /\ call[c].key \in DOMAIN storage
             /\ Read(c, storage[call[c].key])
      BY <1>5 DEF Load, Store
    <2>3. /\ \A d \in Callers \ {c} : call'[d] = call[d]
          /\ call'[c].pc \in {"store", "unlock"} /\ call'[c].key = call[c].key
      BY <1>0, <2>1, <2>2, GotoType, LoadType DEF ConsumePcs
    <2> QED
      BY <1>0, <2>1, <2>3, LockStep DEF Locked
  <1>6. ASSUME NEW c \in Callers, Unlock(c)
        PROVE  LockInv'
    <2> DEFINE k == call[c].key
    <2>1. /\ Locked(c) /\ env' = env /\ Return(c) /\ k \in Keys
          /\ lock' = [lock EXCEPT ![k] = NoCaller]
      BY <1>0, <1>6 DEF Unlock, Locked, TypeOK
    <2>2. /\ \A d \in Callers \ {c} : call'[d] = call[d]
          /\ call'[c].pc = "idle"
      BY <1>0, <2>1, ReturnType
    <2>3. lock'[k] = NoCaller /\ \A j \in Keys \ {k} : lock'[j] = lock[j]
      BY <1>0, <2>1 DEF TypeOK
    <2>4. \A j \in Keys \ {k} : lock[j] \in Callers => lock[j] # c
      BY <1>0 DEF TypeOK, LockInv, LocksAreHeld
    <2>5. LocksAreHeld'
      BY <1>0, <2>1, <2>2, <2>3, <2>4 DEF LockInv, LocksAreHeld, Locked
    <2>6. env # "unlocked" => HoldsLock'
      <3>1. \A d \in Callers : Locked(d) => call[d].key \in Keys
        BY <1>0 DEF TypeOK, Locked
      <3> QED
        BY <2>1, <2>2, <2>3, <3>1 DEF LockInv, HoldsLock, Locked
    <2> QED
      BY <2>1, <2>5, <2>6 DEF LockInv
  <1>7. ASSUME NEW c \in Callers, UnlockFails(c)
        PROVE  LockInv'
    <2> DEFINE k == call[c].key
    <2>1. /\ env = "unlocked" /\ env' = env /\ Locked(c) /\ Return(c) /\ k \in Keys
          /\ lock' = [lock EXCEPT ![k] = IF @ = c THEN Abandoned ELSE @]
      BY <1>0, <1>7 DEF UnlockFails, Locked, TypeOK
    <2>2. \A d \in Callers \ {c} : call'[d] = call[d]
      BY <1>0, <2>1, ReturnType
    <2>3. /\ lock'[k] = IF lock[k] = c THEN Abandoned ELSE lock[k]
          /\ \A j \in Keys \ {k} : lock'[j] = lock[j]
      BY <1>0, <2>1 DEF TypeOK
    <2>4. \A j \in Keys \ {k} : lock[j] \in Callers => lock[j] # c
      BY <1>0 DEF TypeOK, LockInv, LocksAreHeld
    <2>5. \A j \in Keys : lock'[j] \in Callers => lock'[j] = lock[j] /\ lock[j] # c
      BY <1>0, <2>3, <2>4
    <2>6. LocksAreHeld'
      BY <2>1, <2>2, <2>5 DEF LockInv, LocksAreHeld, Locked
    <2> QED
      BY <2>1, <2>6 DEF LockInv
  <1>8. CASE UNCHANGED vars
    BY <1>8 DEF vars, LockInv, LocksAreHeld, HoldsLock, Locked
  <1> QED
    BY <1>1, <1>2, <1>3, <1>4, <1>5, <1>6, <1>7, <1>8 DEF Next, Callers

LEMMA LockInvariance == Spec => []LockInv
  <1>1. Init => LockInv
    BY ConstantsAssumption DEF Init, NoCall, LockInv, LocksAreHeld, HoldsLock, Locked
  <1> QED
    BY <1>1, InitTyped, NextTyped, LockNext, PTL DEF Spec

\* Consume leaves no lock behind, which would shut out every other tunnel of its
\* user: on each way out, a lock that never was taken included, whoever holds a lock
\* has its Unlock still to come; only an Unlock that fails leaves one.
THEOREM NoLockIsLeft == Spec => []LocksAreHeld
  <1>1. LockInv => LocksAreHeld
    BY DEF LockInv
  <1> QED
    BY <1>1, LockInvariance, PTL

\* As long as Lock does not fail, no two Consumes of a user are between Load and
\* Store at a time, with any Adds and Deletes around them: what keeps the
\* read-modify-write of a record from losing traffic.
THEOREM MutualExclusion == Spec => []ConsumesExclude
  <1>1. LockInv => ConsumesExclude
    BY DEF LockInv, HoldsLock, Locked, ConsumesExclude
  <1> QED
    BY <1>1, LockInvariance, PTL
=============================================================================

--------------------------- MODULE CaddyUpstream ---------------------------
(***************************************************************************)
(* CaddyUpstream of app/upstream.go: the persistent upstream, which keeps  *)
(* one record per user in a certmagic storage.                             *)
(*                                                                         *)
(* Its callers run concurrently: the tunnels and admin requests of a       *)
(* configuration that uses it directly, or the workers of the              *)
(* MemoryUpstreams of two configurations that overlap at a reload.  Each   *)
(* operation of the storage is a step; those that return an error may      *)
(* fail, a Store with or without effect.  Consume holds the storage's lock *)
(* for the user's record between its Load and its Store; Add and Delete    *)
(* take no lock.  The errors of Lock and Unlock are ignored: Consume goes  *)
(* on without a lock, Unlock releases the lock whoever holds it, and a     *)
(* lock that it fails to release stays taken.                              *)
(***************************************************************************)
EXTENDS AccountStore, FiniteSets

CONSTANTS
    Keys,           \* users
    Admins,         \* goroutines that call Add and Delete
    Tunnels,        \* goroutines that call Consume
    Amounts,        \* traffic one Consume may report
    MaxTotal,       \* bound on a user's traffic
    NoKey,          \* the user of no call
    NoCaller,       \* the holder of a free lock
    Abandoned       \* the holder of a lock whose Unlock has failed

Callers == Admins \cup Tunnels

ASSUME ConstantsAssumption ==
    /\ IsFiniteSet(Callers)
    /\ Admins \cap Tunnels = {} /\ NoKey \notin Keys
    /\ {NoCaller, Abandoned} \cap Callers = {} /\ NoCaller # Abandoned
    /\ Amounts \subseteq Nat /\ MaxTotal \in Nat

VARIABLES
    env,            \* what may happen; fixed
    storage,        \* the records of the storage
    lock,           \* lock[k]: the holder of the storage's lock on k's record
    call,           \* call[c]: the call that caller c is in
    reported        \* ghost: traffic that Consume was ever called with

vars == <<env, storage, lock, call, reported>>

\* "shared": Add and Delete overlap with other calls for the same user;
\* "quiet": they do not, as with the one worker of a MemoryUpstream;
\* "unlocked": as "shared", and Lock and Unlock may fail.
Env == {"quiet", "shared", "unlocked"}

AdminPcs == {"addExists", "addStore", "deleteExists", "deleteDelete"}
ConsumePcs == {"lock", "load", "store", "unlock"}
Call == [pc : {"idle"} \cup AdminPcs \cup ConsumePcs, key : Keys \cup {NoKey},
         amount : Nat, read : Nat]
NoCall == [pc |-> "idle", key |-> NoKey, amount |-> 0, read |-> 0]

TypeOK ==
    /\ env \in Env
    /\ DOMAIN storage \subseteq Keys /\ storage \in [DOMAIN storage -> Nat]
    /\ lock \in [Keys -> Callers \cup {NoCaller, Abandoned}]
    /\ call \in [Callers -> Call]
    /\ \A c \in Callers : call[c].pc # "idle" => call[c].key \in Keys
    /\ reported \in [Keys -> Nat]

Init ==
    /\ env \in Env
    /\ \E S \in SUBSET Keys : storage = [k \in S |-> 0]
    /\ lock = [k \in Keys |-> NoCaller]
    /\ call = [c \in Callers |-> NoCall]
    /\ reported = [k \in Keys |-> 0]

-----------------------------------------------------------------------------
(* Calls.                                                                  *)

Calling(k) == {c \in Callers : call[c].key = k}
Administered(k) == \E c \in Calling(k) : call[c].pc \in AdminPcs

Goto(c, pc) == call' = [call EXCEPT ![c].pc = pc]
Return(c) == call' = [call EXCEPT ![c] = NoCall]

Begin(c, pc, k, n) ==
    /\ call[c] = NoCall
    /\ env = "quiet" => IF pc = "lock" THEN ~Administered(k) ELSE Calling(k) = {}
    /\ call' = [call EXCEPT ![c] = [pc |-> pc, key |-> k, amount |-> n, read |-> 0]]

Add(c, k) == Begin(c, "addExists", k, 0) /\ UNCHANGED <<env, storage, lock, reported>>

Delete(c, k) ==
    Begin(c, "deleteExists", k, 0) /\ UNCHANGED <<env, storage, lock, reported>>

\* A key that is not a user's is refused before any of this (validStorageKey).
Consume(c, k, n) ==
    /\ reported[k] + n <= MaxTotal
    /\ Begin(c, "lock", k, n)
    /\ reported' = [reported EXCEPT ![k] = @ + n]
    /\ UNCHANGED <<env, storage, lock>>

-----------------------------------------------------------------------------
(* Add and Delete.                                                         *)

\* Mutant: Add does not look for a record.
AddExistsBlind(c) ==
    /\ call[c].pc = "addExists"
    /\ Goto(c, "addStore")
    /\ UNCHANGED <<env, storage, lock, reported>>

AddExists(c) ==
    /\ call[c].pc = "addExists"
    /\ IF call[c].key \in DOMAIN storage THEN Return(c) ELSE Goto(c, "addStore")
    /\ UNCHANGED <<env, storage, lock, reported>>

\* Store of a fresh record, over one that has appeared since too.
AddStore(c) ==
    /\ call[c].pc = "addStore"
    /\ storage' \in {Set(storage, call[c].key, 0), storage}
    /\ Return(c)
    /\ UNCHANGED <<env, lock, reported>>

DeleteExists(c) ==
    /\ call[c].pc = "deleteExists"
    /\ IF call[c].key \in DOMAIN storage THEN Goto(c, "deleteDelete") ELSE Return(c)
    /\ UNCHANGED <<env, storage, lock, reported>>

DeleteDelete(c) ==
    /\ call[c].pc = "deleteDelete"
    /\ storage' \in {DropKey(storage, call[c].key), storage}
    /\ Return(c)
    /\ UNCHANGED <<env, lock, reported>>

-----------------------------------------------------------------------------
(* Consume.                                                                *)

Lock(c) ==
    /\ call[c].pc = "lock" /\ lock[call[c].key] = NoCaller
    /\ lock' = [lock EXCEPT ![call[c].key] = c]
    /\ Goto(c, "load")
    /\ UNCHANGED <<env, storage, reported>>

\* The error is ignored.
LockFails(c) ==
    /\ env = "unlocked" /\ call[c].pc = "lock"
    /\ Goto(c, "load")
    /\ UNCHANGED <<env, storage, lock, reported>>

Read(c, total) ==
    call' = [call EXCEPT ![c] = [pc |-> "store", key |-> call[c].key,
                                 amount |-> call[c].amount, read |-> total]]

\* Mutant: the traffic is added here and once more at the Store.
LoadAdding(c) ==
    LET k == call[c].key IN
    /\ call[c].pc = "load"
    /\ \/ k \in DOMAIN storage /\ Read(c, call[c].amount + storage[k])
       \/ Goto(c, "unlock")
    /\ UNCHANGED <<env, storage, lock, reported>>

\* Mutant: Consume returns on an error of Load without Unlock.
LoadReturning(c) ==
    LET k == call[c].key IN
    /\ call[c].pc = "load"
    /\ \/ k \in DOMAIN storage /\ Read(c, storage[k])
       \/ Return(c)
    /\ UNCHANGED <<env, storage, lock, reported>>

\* Load and Unmarshal; an error, as of a missing record, ends the call.
Load(c) ==
    LET k == call[c].key IN
    /\ call[c].pc = "load"
    /\ \/ k \in DOMAIN storage /\ Read(c, storage[k])
       \/ Goto(c, "unlock")
    /\ UNCHANGED <<env, storage, lock, reported>>

\* Mutant: the traffic is taken off.
StoreSubtracting(c) ==
    /\ call[c].pc = "store"
    /\ storage' = Set(storage, call[c].key, call[c].read - call[c].amount)
    /\ Goto(c, "unlock")
    /\ UNCHANGED <<env, lock, reported>>

Store(c) ==
    /\ call[c].pc = "store"
    /\ storage' \in {Set(storage, call[c].key, call[c].read + call[c].amount), storage}
    /\ Goto(c, "unlock")
    /\ UNCHANGED <<env, lock, reported>>

\* The deferred Unlock, and Consume returns.
Unlock(c) ==
    /\ call[c].pc = "unlock"
    /\ lock' = [lock EXCEPT ![call[c].key] = NoCaller]
    /\ Return(c)
    /\ UNCHANGED <<env, storage, reported>>

\* The same with an error, which nobody sees: c's lock stays taken.
UnlockFails(c) ==
    /\ env = "unlocked" /\ call[c].pc = "unlock"
    /\ lock' = [lock EXCEPT ![call[c].key] = IF @ = c THEN Abandoned ELSE @]
    /\ Return(c)
    /\ UNCHANGED <<env, storage, reported>>

ConsumeSteps(c) ==
    Lock(c) \/ LockFails(c) \/ Load(c) \/ Store(c) \/ Unlock(c) \/ UnlockFails(c)

Next ==
    \/ \E c \in Admins :
        \/ \E k \in Keys : Add(c, k) \/ Delete(c, k)
        \/ AddExists(c) \/ AddStore(c) \/ DeleteExists(c) \/ DeleteDelete(c)
    \/ \E c \in Tunnels :
        \/ \E k \in Keys, n \in Amounts : Consume(c, k, n)
        \/ Lock(c) \/ LockFails(c) \/ Load(c) \/ Store(c) \/ Unlock(c) \/ UnlockFails(c)

Spec == Init /\ [][Next]_vars

\* A caller goes on with what it has begun, once it is not waiting for a lock.
FairSpec == Spec /\ \A c \in Tunnels : WF_vars(ConsumeSteps(c))

-----------------------------------------------------------------------------
(* Properties.                                                             *)

\* A user's record never holds more traffic than was reported for the user: not
\* when calls overlap in any way, a Store fails after it took effect, the lock is
\* lost, or the user is deleted and added again between a Load and its Store.
NeverOverbilled == \A k \in DOMAIN storage : storage[k] <= reported[k]

\* Consume gives every lock that it takes to Unlock, whatever fails between the two
\* and also when another Consume's Lock has failed: only an Unlock that fails itself
\* makes a record unusable for all other tunnels of its user.
LockIsReleased == \A k \in Keys : lock[k] \in Callers ~> lock[k] \notin Callers

\* The records, in the behaviours where no Add or Delete overlaps with another
\* call for the same user; in the others nothing is claimed.
Records == IF env = "quiet" THEN storage ELSE [k \in {} |-> 0]

Atomic == INSTANCE AtomicStore WITH store <- Records

\* Concurrent Consumes lose no update, and each call takes effect in one step or
\* not at all: CaddyUpstream implements the storage that MemoryUpstream assumes.
ImplementsAtomicStore == Atomic!Spec
=============================================================================

--------------------------- MODULE MemoryUpstream ---------------------------
(***************************************************************************)
(* The user store of the trojan app: app/upstream.go and the part of       *)
(* app/app.go that starts it.                                              *)
(*                                                                         *)
(* MemoryUpstream keeps the traffic of every user in a map (mm) and, when  *)
(* a persistent upstream is configured, forwards every change as a Task    *)
(* over a bounded channel (ch) to one worker goroutine, which applies it   *)
(* to that upstream (storage).  Connections and admin requests call it     *)
(* concurrently; each call changes mm under a mutex and then, outside the  *)
(* mutex, sends its Task.  The process may crash at any point and be       *)
(* started again over the storage that it left.                            *)
(*                                                                         *)
(* A user's password and its key (trojan.GenKey, a hash) are one value.    *)
(* Traffic.Up and Traffic.Down are added by the same statements and are    *)
(* one number here.  The worker is the only user of the storage while one  *)
(* instance runs, so its operations on it are the single steps of          *)
(* AtomicStore, which CaddyUpstream is shown to implement.  Every one of   *)
(* them may fail, at the start as well; the code goes on as if it had not. *)
(***************************************************************************)
EXTENDS AccountStore, FiniteSets, SequencesExt

CONSTANTS
    Keys,           \* users
    Admins,         \* goroutines of admin requests
    Tunnels,        \* goroutines of proxied connections
    App,            \* the goroutine that provisions the app
    Users,          \* users the configuration may name (app.Users); it may
                    \* be changed between one start and the next
    Stored,         \* users already in the storage when the system first starts
    Amounts,        \* traffic one connection may report
    Cap,            \* capacity of ch (16 in the code)
    MaxTotal,       \* bound on a user's traffic, in memory and ever reported
    PersistModes,   \* {TRUE}: "persist" configured; {FALSE}: not; or both
    NoKey           \* a goroutine that has no tunnel open

Callers == Admins \cup Tunnels \cup {App}

ASSUME ConstantsAssumption ==
    /\ IsFiniteSet(Keys) /\ IsFiniteSet(Callers)
    /\ App \notin Admins \cup Tunnels /\ Admins \cap Tunnels = {}
    /\ Users \subseteq Keys /\ Stored \subseteq Keys /\ NoKey \notin Keys
    /\ Amounts \subseteq Nat /\ MaxTotal \in Nat
    /\ Cap \in Nat \ {0}
    /\ PersistModes \subseteq BOOLEAN

Task == [type : {"Add", "Delete", "Consume"}, key : Keys, amount : Nat]
NoTask == [type |-> "None"]
MkTask(type, k, n) == [type |-> type, key |-> k, amount |-> n]

VARIABLES
    life,       \* the stage of the process, one of Stages
    mm,         \* MemoryUpstream.mm: traffic of each user known in memory
    up,         \* u.up # nil
    chan,       \* u.ch: "nil", "open" or "closed"
    ch,         \* the tasks buffered in u.ch
    worker,     \* the persistence goroutine: "none", "receiving", "busy", "done"
    task,       \* the task the worker applies
    todo,       \* users Provision or App.Provision has still to go through
    pending,    \* pending[c]: the task caller c is about to send
    tun,        \* tun[c]: the user of the tunnel that goroutine c serves
    storage,    \* traffic of each user in the persistent upstream
    consumed,   \* ghost: traffic ever reported for each user
    lost,       \* ghost: the part of it that was given up, and no more is owed
    deleted,    \* ghost: users whose last admin operation was Delete
    failed      \* ghost: users whose record the storage failed to read, or
                \* whose last Add or Delete it failed to carry out

ghosts == <<consumed, lost, deleted, failed>>
vars == <<life, mm, up, chan, ch, worker, task, todo, pending, tun, storage,
          ghosts>>

IsTotals(m) == DOMAIN m \subseteq Keys /\ m \in [DOMAIN m -> Nat]
Stages == {"down", "restoring", "loading", "boot", "up", "failed", "closed"}

TypeOK ==
    /\ life \in Stages
    /\ IsTotals(mm) /\ IsTotals(storage)
    /\ up \in BOOLEAN
    /\ chan \in {"nil", "open", "closed"}
    /\ ch \in Seq(Task)
    /\ worker \in {"none", "receiving", "busy", "done"}
    /\ task \in Task \cup {NoTask}
    /\ todo \in SUBSET Keys
    /\ pending \in [Callers -> Task \cup {NoTask}]
    /\ tun \in [Callers -> Keys \cup {NoKey}]
    /\ consumed \in [Keys -> Nat] /\ lost \in [Keys -> Nat]
    /\ deleted \in SUBSET Keys /\ failed \in SUBSET Keys

Init ==
    /\ life = "down" /\ up = FALSE /\ chan = "nil" /\ worker = "none"
    /\ mm = [k \in {} |-> 0]
    /\ storage = [k \in Stored |-> 0]
    /\ ch = <<>> /\ task = NoTask /\ todo = {}
    /\ pending = [c \in Callers |-> NoTask]
    /\ tun = [c \in Callers |-> NoKey]
    /\ consumed = [k \in Keys |-> 0] /\ lost = [k \in Keys |-> 0]
    /\ deleted = {} /\ failed = {}

-----------------------------------------------------------------------------
(* The map operations of MemoryUpstream, each done under u.mu.             *)

\* AddKey: a fresh record, whether or not the user is known.
AddKey(m, k) == Set(m, k, 0)

\* Mutant: traffic is taken off instead of added.
ConsumeKeySubtracting(m, k, n) == Set(m, k, Total(m, k) - n)

\* Consume: a missing key reads as the zero Traffic and is written back.
ConsumeKey(m, k, n) == Set(m, k, Total(m, k) + n)

-----------------------------------------------------------------------------
(* Where tasks are.                                                        *)

InFlight == {pending[c] : c \in Callers} \cup ToSet(ch) \cup {task}
UnderWay(type, k) == \E t \in InFlight : t.type = type /\ t.key = k
Amount(t, k) == IF t.type = "Consume" /\ t.key = k THEN t.amount ELSE 0

AmountsIn(f, k) == SumFunction([x \in DOMAIN f |-> Amount(f[x], k)])

\* Traffic of k that is on its way to the storage.
Unsaved(k) == Amount(task, k) + AmountsIn(ch, k) + AmountsIn(pending, k)

\* Traffic of k that the worker's operation gives up when it is carried out.
GivenUp(k) ==
    IF task.key # k THEN 0
    ELSE IF task.type = "Delete" THEN Total(storage, k)
    ELSE IF k \notin DOMAIN storage THEN Amount(task, k)
    ELSE 0

\* The persistent upstream carries out the worker's task ...
Done ==
    /\ storage' = CASE task.type = "Add" -> StoreAdd(storage, task.key)
                    [] task.type = "Delete" -> StoreDelete(storage, task.key)
                    [] OTHER -> StoreConsume(storage, task.key, task.amount)
    /\ lost' = [k \in Keys |-> lost[k] + GivenUp(k)]
    /\ failed' = IF task.type = "Consume" THEN failed ELSE failed \ {task.key}

\* ... or fails and leaves the record as it was.
NotDone ==
    /\ lost' = [k \in Keys |-> lost[k] + Amount(task, k)]
    /\ failed' = IF task.type = "Consume" THEN failed
                 ELSE failed \cup {task.key}
    /\ UNCHANGED storage

-----------------------------------------------------------------------------
(* Provisioning.                                                           *)

\* Mutant: u.up and u.ch are assigned before up.Range.
ProvisionUpFirst(persist) ==
    /\ life = "down"
    /\ mm' = [k \in {} |-> 0]
    /\ up' = persist /\ chan' = "open"
    /\ life' = IF persist THEN "restoring" ELSE "loading"
    /\ todo' = IF persist THEN DOMAIN storage ELSE {}
    /\ UNCHANGED <<ch, worker, task, pending, tun, storage, ghosts>>

\* MemoryUpstream.Provision up to up.Range: with no persistent upstream the
\* function returns at once, with a channel that nobody receives from.
Provision(persist) ==
    /\ life = "down"
    /\ mm' = [k \in {} |-> 0]
    /\ IF persist
       THEN life' = "restoring" /\ todo' = DOMAIN storage /\ chan' = "nil"
       ELSE life' = "loading" /\ chan' = "open" /\ UNCHANGED todo
    /\ UNCHANGED <<up, ch, worker, task, pending, tun, storage, ghosts>>

\* The callback of up.Range for one stored user: AddKey, then Consume with
\* the stored total.  Consume forwards a task only when u.up is set.
RestoreKey(k) ==
    /\ life = "restoring" /\ k \in todo
    /\ todo' = todo \ {k}
    /\ mm' = ConsumeKey(AddKey(mm, k), k, storage[k])
    /\ ch' = IF up THEN Append(ch, MkTask("Consume", k, storage[k])) ELSE ch
    /\ UNCHANGED <<life, up, chan, worker, task, pending, tun, storage,
                   ghosts>>

\* Range skips records it cannot load or decode: one of them, or all of them
\* when it cannot list them.
SkipKeys(S) ==
    /\ life = "restoring" /\ S \subseteq todo /\ S # {}
    /\ todo' = todo \ S
    /\ failed' = failed \cup S
    /\ UNCHANGED <<life, mm, up, chan, ch, worker, task, pending, tun, storage,
                   consumed, lost, deleted>>

\* Range is over: u.up and u.ch are set, and the worker starts.
Restored ==
    /\ life = "restoring" /\ todo = {}
    /\ life' = "loading" /\ UNCHANGED todo
    /\ up' = TRUE /\ chan' = "open" /\ worker' = "receiving"
    /\ UNCHANGED <<mm, ch, task, pending, tun, storage, ghosts>>

\* App.Provision loads the proxies and goes on to add the configured users ...
LoadProxies ==
    /\ life = "loading"
    /\ life' = "boot" /\ todo' \in SUBSET Users
    /\ UNCHANGED <<mm, up, chan, ch, worker, task, pending, tun, storage,
                   ghosts>>

\* ... or returns their error: Caddy drops the configuration.
LoadProxiesFails ==
    /\ life = "loading"
    /\ life' = "failed"
    /\ UNCHANGED <<mm, up, chan, ch, worker, task, todo, pending, tun, storage,
                   ghosts>>

\* The loop over app.Users is over and its last send has returned.
Booted ==
    /\ life = "boot" /\ todo = {} /\ pending[App] = NoTask
    /\ life' = "up"
    /\ UNCHANGED <<mm, up, chan, ch, worker, task, todo, pending, tun, storage,
                   ghosts>>

-----------------------------------------------------------------------------
(* Calls.  In-flight calls outlive Cleanup, so "closed" also serves them.  *)

Serving == life \in {"up", "closed"}
Free(c) == pending[c] = NoTask /\ tun[c] = NoKey

\* What a call leaves for sendTask: nothing when there is no persistence.
Forward(c, t) == pending' = [pending EXCEPT ![c] = IF up THEN t ELSE NoTask]

\* Add: AddKey under the mutex, then the task.
Add(c, k) ==
    /\ Free(c)
    /\ mm' = AddKey(mm, k)
    /\ Forward(c, MkTask("Add", k, 0))
    /\ deleted' = deleted \ {k}
    /\ UNCHANGED <<life, up, chan, ch, worker, task, tun, storage, consumed,
                   lost, failed>>

\* App.Provision adding one configured user.
BootAdd(k) ==
    /\ life = "boot" /\ k \in todo
    /\ todo' = todo \ {k}
    /\ Add(App, k)

\* An admin request that adds a user.
AdminAdd(c, k) == Serving /\ Add(c, k) /\ UNCHANGED todo

\* An admin request that deletes a user; an unknown key is not an error.
Delete(c, k) ==
    /\ Serving /\ Free(c)
    /\ mm' = DropKey(mm, k)
    /\ Forward(c, MkTask("Delete", k, 0))
    /\ deleted' = deleted \cup {k}
    /\ UNCHANGED <<life, up, chan, ch, worker, task, todo, tun, storage,
                   consumed, lost, failed>>

\* A connection whose header names user k is let in by Validate.
Validate(c, k) ==
    /\ Serving /\ Free(c)
    /\ k \in DOMAIN mm
    /\ tun' = [tun EXCEPT ![c] = k]
    /\ UNCHANGED <<life, mm, up, chan, ch, worker, task, todo, pending, storage,
                   ghosts>>

\* The tunnel of c ends and its goroutine reports n bytes.
Consume(c, n) ==
    LET k == tun[c] IN
    /\ Serving /\ pending[c] = NoTask
    /\ k # NoKey
    /\ consumed[k] + n <= MaxTotal /\ Total(mm, k) + n <= MaxTotal
    /\ mm' = ConsumeKey(mm, k, n)
    /\ Forward(c, MkTask("Consume", k, n))
    /\ tun' = [tun EXCEPT ![c] = NoKey]
    /\ consumed' = [consumed EXCEPT ![k] = IF up THEN @ + n ELSE @]
    /\ UNCHANGED <<life, up, chan, ch, worker, task, todo, storage, lost,
                   deleted, failed>>

\* sendTask: the send succeeds when the buffer has room ...
Send(c) ==
    /\ pending[c] # NoTask
    /\ chan = "open" /\ Len(ch) < Cap
    /\ ch' = Append(ch, pending[c])
    /\ pending' = [pending EXCEPT ![c] = NoTask]
    /\ UNCHANGED <<life, mm, up, chan, worker, task, todo, tun, storage,
                   ghosts>>

\* ... and panics on a closed channel, a sender blocked there included: the
\* panic is recovered and the task is dropped.
SendOnClosed(c) ==
    /\ pending[c] # NoTask
    /\ chan = "closed"
    /\ pending' = [pending EXCEPT ![c] = NoTask]
    /\ lost' = [k \in Keys |-> lost[k] + Amount(pending[c], k)]
    /\ UNCHANGED <<life, mm, up, chan, ch, worker, task, todo, tun, storage,
                   consumed, deleted, failed>>

-----------------------------------------------------------------------------
(* The worker goroutine, shutdown and crash.                               *)

\* A closed channel still delivers what it buffers.
Receive ==
    /\ worker = "receiving" /\ ch # <<>>
    /\ worker' = "busy"
    /\ task' = Head(ch)
    /\ ch' = Tail(ch)
    /\ UNCHANGED <<life, mm, up, chan, todo, pending, tun, storage, ghosts>>

\* Mutant: the worker returns when an operation fails.
ApplyOrReturn ==
    /\ worker = "busy"
    /\ \/ Done /\ worker' = "receiving"
       \/ NotDone /\ worker' = "done"
    /\ task' = NoTask
    /\ UNCHANGED <<life, mm, up, chan, ch, todo, pending, tun, consumed, deleted>>

\* One operation of the persistent upstream; its error is ignored.
Apply ==
    /\ worker = "busy"
    /\ Done \/ NotDone
    /\ worker' = "receiving"
    /\ task' = NoTask
    /\ UNCHANGED <<life, mm, up, chan, ch, todo, pending, tun, consumed, deleted>>

WorkerExit ==
    /\ worker = "receiving" /\ ch = <<>> /\ chan = "closed"
    /\ worker' = "done"
    /\ UNCHANGED <<life, mm, up, chan, ch, task, todo, pending, tun, storage,
                   ghosts>>

\* Of the running configuration, or of one that failed to load.
Cleanup ==
    /\ life \in {"up", "failed"}
    /\ life' = "closed" /\ chan' = "closed"
    /\ UNCHANGED <<mm, up, ch, worker, task, todo, pending, tun, storage,
                   ghosts>>

\* The process ends: memory, channel and goroutines are lost, storage stays.
Crash ==
    /\ life # "down"
    /\ life' = "down" /\ up' = FALSE /\ chan' = "nil" /\ worker' = "none"
    /\ mm' = [k \in {} |-> 0] /\ ch' = <<>> /\ task' = NoTask /\ todo' = {}
    /\ pending' = [c \in Callers |-> NoTask]
    /\ tun' = [c \in Callers |-> NoKey]
    /\ deleted' = {} /\ failed' = {}
    /\ lost' = [k \in Keys |-> lost[k] + Unsaved(k)]
    /\ UNCHANGED <<storage, consumed>>

Next ==
    \/ \E persist \in PersistModes : Provision(persist)
    \/ \E k \in Keys : RestoreKey(k) \/ SkipKeys({k}) \/ BootAdd(k)
    \/ SkipKeys(todo) \/ Restored \/ LoadProxies \/ LoadProxiesFails \/ Booted
    \/ \E c \in Admins, k \in Keys : AdminAdd(c, k) \/ Delete(c, k)
    \/ \E c \in Tunnels : \/ \E k \in Keys : Validate(c, k)
                          \/ \E n \in Amounts : Consume(c, n)
    \/ \E c \in Callers : Send(c) \/ SendOnClosed(c)
    \/ Receive \/ Apply \/ WorkerExit
    \/ Cleanup \/ Crash

Spec == Init /\ [][Next]_vars

\* Goroutines that can run do run.  Senders blocked on a channel are served
\* in arrival order by the Go runtime, hence strong fairness of each Send.
Fairness ==
    /\ WF_vars(Receive) /\ WF_vars(Apply) /\ WF_vars(WorkerExit)
    /\ WF_vars(\E k \in Keys : RestoreKey(k) \/ BootAdd(k))
    /\ WF_vars(Restored) /\ WF_vars(LoadProxies \/ LoadProxiesFails)
    /\ WF_vars(Booted)
    /\ \A c \in Callers : SF_vars(Send(c)) /\ WF_vars(SendOnClosed(c))

FairSpec == Spec /\ Fairness

-----------------------------------------------------------------------------
(* Properties.                                                             *)

\* Every byte that connections report for a persisted user is accounted for
\* exactly once: it is in the user's stored record, on its way there, or it was
\* given up (dropped on the closed channel, lost in a crash, refused by the
\* storage, reported for a user who has no record, or deleted with the record).
\* It holds over restarts, where Provision replays the stored totals through
\* Consume without queueing them again, and when a user who has a record is
\* added again.
TrafficAccountedFor ==
    \A k \in Keys : Total(storage, k) + Unsaved(k) + lost[k] = consumed[k]

\* Once the app serves, memory and storage agree on who is a user, but for
\* tasks that are on their way.  A user who is in the storage is let in from
\* memory or has a Delete under way, so that no record brings a deleted user
\* back at the next start; a user who is let in is in the storage or has an Add
\* under way, so that none is forgotten at the next start.  Exempt are the users
\* whose last Add or Delete failed or whose record could not be read, and those
\* that a tunnel wrote back to memory after their Delete.
UsersAgree ==
    life = "up" /\ up => \A k \in Keys \ failed :
        /\ k \in DOMAIN storage =>
             (k \in DOMAIN mm /\ k \notin deleted) \/ UnderWay("Delete", k)
        /\ k \in DOMAIN mm =>
             k \in DOMAIN storage \cup deleted \/ UnderWay("Add", k)

\* A deleted user is not let in again until the user is added again.
DeletedStaysOut == deleted \cap DOMAIN mm = {}

\* Every call of Add, Delete and Consume returns, also when it is blocked on
\* the full channel while Cleanup closes it; and after Cleanup the worker works
\* off what was queued, whatever the storage answers, and then ends.
CallsReturnAndDrain ==
    /\ \A c \in Callers : pending[c] # NoTask ~> pending[c] = NoTask
    /\ chan = "closed" /\ worker # "none" ~>
         (ch = <<>> /\ worker = "done") \/ life = "down"
=============================================================================

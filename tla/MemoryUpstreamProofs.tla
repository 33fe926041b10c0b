------------------------ MODULE MemoryUpstreamProofs ------------------------
(***************************************************************************)
(* Proofs about MemoryUpstream, for any number of users, admin requests    *)
(* and connections, any capacity of the channel, with and without a        *)
(* persistent upstream, and over any number of crashes.                    *)
(***************************************************************************)
EXTENDS MemoryUpstream, SumTheorems

-----------------------------------------------------------------------------
(* Accounts and tasks.                                                     *)

LEMMA EmptyAccount ==
  IsTotals([k \in {} |-> 0]) /\ DOMAIN [k \in {} |-> 0] = {}
<1> DEFINE m == [k \in {} |-> 0]
<1>1. DOMAIN m = {} /\ m \in [{} -> Nat]
  OBVIOUS
<1> HIDE DEF m
<1>2. IsTotals(m) /\ DOMAIN m = {}
  BY <1>1 DEF IsTotals
<1> QED BY <1>2 DEF m

LEMMA SetAccount ==
  ASSUME NEW m, IsTotals(m), NEW k \in Keys, NEW n \in Nat
  PROVE  /\ IsTotals(Set(m, k, n))
         /\ DOMAIN Set(m, k, n) = DOMAIN m \cup {k}
         /\ \A j : Total(Set(m, k, n), j) = IF j = k THEN n ELSE Total(m, j)
BY DEF IsTotals, Set, Total

LEMMA DropAccount ==
  ASSUME NEW m, IsTotals(m), NEW k \in Keys
  PROVE  /\ IsTotals(DropKey(m, k))
         /\ DOMAIN DropKey(m, k) = DOMAIN m \ {k}
         /\ \A j : Total(DropKey(m, k), j) = IF j = k THEN 0 ELSE Total(m, j)
BY DEF IsTotals, DropKey, Total

LEMMA TotalType ==
  ASSUME NEW m, IsTotals(m), NEW k
  PROVE  Total(m, k) \in Nat
BY DEF IsTotals, Total

\* What an operation that the persistent upstream carries out leaves.
LEMMA StoreAddAccount ==
  ASSUME NEW m, IsTotals(m), NEW k \in Keys
  PROVE  /\ IsTotals(StoreAdd(m, k))
         /\ DOMAIN StoreAdd(m, k) = DOMAIN m \cup {k}
         /\ \A j : Total(StoreAdd(m, k), j) = Total(m, j)
<1>1. CASE k \in DOMAIN m
  BY <1>1 DEF StoreAdd
<1>2. CASE k \notin DOMAIN m
  <2>1. StoreAdd(m, k) = Set(m, k, 0)
    BY <1>2 DEF StoreAdd
  <2>2. /\ IsTotals(Set(m, k, 0)) /\ DOMAIN Set(m, k, 0) = DOMAIN m \cup {k}
        /\ \A j : Total(Set(m, k, 0), j) = IF j = k THEN 0 ELSE Total(m, j)
    <3>1. ASSUME NEW n \in Nat
          PROVE  /\ IsTotals(Set(m, k, n)) /\ DOMAIN Set(m, k, n) = DOMAIN m \cup {k}
                 /\ \A j : Total(Set(m, k, n), j) = IF j = k THEN n ELSE Total(m, j)
      BY SetAccount
    <3>2. 0 \in Nat
      OBVIOUS
    <3> QED BY <3>1, <3>2
  <2> QED BY <1>2, <2>1, <2>2 DEF Total
<1> QED BY <1>1, <1>2

LEMMA StoreDeleteAccount ==
  ASSUME NEW m, IsTotals(m), NEW k \in Keys
  PROVE  /\ IsTotals(StoreDelete(m, k))
         /\ DOMAIN StoreDelete(m, k) = DOMAIN m \ {k}
         /\ \A j : Total(StoreDelete(m, k), j) = IF j = k THEN 0 ELSE Total(m, j)
<1>1. CASE k \in DOMAIN m
  BY <1>1, DropAccount DEF StoreDelete
<1>2. CASE k \notin DOMAIN m
  BY <1>2 DEF StoreDelete, Total
<1> QED BY <1>1, <1>2

LEMMA StoreConsumeAccount ==
  ASSUME NEW m, IsTotals(m), NEW k \in Keys, NEW n \in Nat
  PROVE  /\ IsTotals(StoreConsume(m, k, n))
         /\ DOMAIN StoreConsume(m, k, n) = DOMAIN m
         /\ \A j : Total(StoreConsume(m, k, n), j) =
                     Total(m, j) + IF j = k /\ k \in DOMAIN m THEN n ELSE 0
<1>1. \A j : Total(m, j) \in Nat
  BY TotalType
<1>2. CASE k \in DOMAIN m
  <2>1. m[k] = Total(m, k) /\ m[k] + n \in Nat
    BY <1>1, <1>2 DEF Total
  <2>2. StoreConsume(m, k, n) = Set(m, k, m[k] + n)
    BY <1>2 DEF StoreConsume
  <2>3. /\ IsTotals(Set(m, k, m[k] + n))
        /\ DOMAIN Set(m, k, m[k] + n) = DOMAIN m \cup {k}
        /\ \A j : Total(Set(m, k, m[k] + n), j) =
                    IF j = k THEN m[k] + n ELSE Total(m, j)
    BY <2>1, SetAccount
  <2>4. \A j : Total(StoreConsume(m, k, n), j) =
                Total(m, j) + IF j = k THEN n ELSE 0
    BY <1>1, <2>1, <2>2, <2>3
  <2>5. IsTotals(StoreConsume(m, k, n)) /\ DOMAIN StoreConsume(m, k, n) = DOMAIN m
    BY <1>2, <2>2, <2>3
  <2> QED BY <1>2, <2>4, <2>5
<1>3. CASE k \notin DOMAIN m
  BY <1>1, <1>3 DEF StoreConsume
<1> QED BY <1>2, <1>3

\* No task is taken for the absence of one.
LEMMA TaskType ==
  /\ NoTask \notin Task
  /\ NoTask.type = "None"
  /\ \A t \in Task : /\ t.type \in {"Add", "Delete", "Consume"}
                     /\ t.key \in Keys /\ t.amount \in Nat
  /\ \A T \in {"Add", "Delete", "Consume"}, k \in Keys, n \in Nat :
       /\ MkTask(T, k, n) \in Task
       /\ MkTask(T, k, n).type = T
       /\ MkTask(T, k, n).key = k /\ MkTask(T, k, n).amount = n
BY DEF Task, NoTask, MkTask

LEMMA AmountType ==
  ASSUME NEW t \in Task \cup {NoTask}, NEW k
  PROVE  Amount(t, k) \in Nat
BY TaskType DEF Amount

LEMMA AmountNoTask == \A k : Amount(NoTask, k) = 0
BY DEF Amount, NoTask

-----------------------------------------------------------------------------
(* The traffic of a user in a set of tasks.                                *)

MaybeTask == Task \cup {NoTask}

AmountOf(f, k) == [x \in DOMAIN f |-> Amount(f[x], k)]

LEMMA AmountsInType ==
  ASSUME NEW D, IsFiniteSet(D), NEW f \in [D -> MaybeTask], NEW k
  PROVE  /\ AmountsIn(f, k) \in Nat
         /\ AmountOf(f, k) \in [D -> Nat]
<1> DEFINE w == AmountOf(f, k)
<1>1. w \in [D -> Nat]
  BY AmountType DEF MaybeTask, AmountOf
<1> HIDE DEF w
<1>2. SumFunction(w) \in Nat
  BY <1>1, SumType
<1> QED BY <1>1, <1>2 DEF w, AmountOf, AmountsIn

LEMMA AmountsInNone ==
  ASSUME NEW D, IsFiniteSet(D), NEW f \in [D -> MaybeTask], NEW k,
         \A x \in D : f[x] = NoTask
  PROVE  AmountsIn(f, k) = 0
<1> DEFINE w == AmountOf(f, k)
<1>1. w \in [D -> Nat] /\ \A x \in D : w[x] = 0
  BY AmountsInType, AmountNoTask DEF AmountOf
<1> HIDE DEF w
<1>2. w \in [D -> Int]
  BY <1>1
<1>3. SumFunction(w) = 0
  BY <1>1, <1>2, SumZero
<1> QED BY <1>3 DEF w, AmountOf, AmountsIn

LEMMA AmountsInChanged ==
  ASSUME NEW D, IsFiniteSet(D), NEW f \in [D -> MaybeTask], NEW k,
         NEW g \in [D -> MaybeTask], NEW c \in D, \A x \in D \ {c} : g[x] = f[x]
  PROVE  AmountsIn(g, k) = AmountsIn(f, k) - Amount(f[c], k) + Amount(g[c], k)
<1> DEFINE w == AmountOf(f, k)
           v == AmountOf(g, k)
<1>1. /\ w[c] = Amount(f[c], k) /\ v[c] = Amount(g[c], k)
      /\ \A x \in D \ {c} : v[x] = w[x]
  BY DEF AmountOf
<1>2. w \in [D -> Nat]
  BY AmountsInType
<1>3. v \in [D -> Nat]
  BY AmountsInType
<1> HIDE DEF w, v
<1>4. SumFunction(v) = SumFunction(w) - w[c] + v[c]
  <2>1. w \in [D -> Int] /\ v \in [D -> Int]
    BY <1>2, <1>3
  <2> QED BY <1>1, <2>1, SumChange
<1>5. AmountsIn(f, k) = SumFunction(w) /\ AmountsIn(g, k) = SumFunction(v)
  BY DEF w, v, AmountOf, AmountsIn
<1> QED BY <1>1, <1>4, <1>5

LEMMA QueueAmounts ==
  ASSUME NEW q \in Seq(Task), NEW k
  PROVE  /\ Len(q) \in Nat
         /\ AmountsIn(q, k) \in Nat
         /\ AmountOf(q, k) \in [1..Len(q) -> Int]
<1>1. DOMAIN q = 1..Len(q) /\ Len(q) \in Nat
  OBVIOUS
<1>2. IsFiniteSet(1..Len(q))
  BY <1>1, FS_Interval
<1>3. q \in [1..Len(q) -> MaybeTask]
  BY <1>1 DEF MaybeTask
<1>4. /\ AmountsIn(q, k) \in Nat
      /\ AmountOf(q, k) \in [1..Len(q) -> Nat]
  BY <1>2, <1>3, AmountsInType
<1> QED BY <1>1, <1>4

LEMMA AmountsInAppended ==
  ASSUME NEW q \in Seq(Task), NEW t \in Task, NEW k
  PROVE  AmountsIn(Append(q, t), k) = AmountsIn(q, k) + Amount(t, k)
<1> DEFINE p == Append(q, t)
           n == Len(q)
           w == AmountOf(q, k)
           v == AmountOf(p, k)
<1>1. /\ n \in Nat /\ DOMAIN q = 1..n /\ DOMAIN p = 1..(n + 1) /\ Len(p) = n + 1
      /\ p[n + 1] = t /\ p \in Seq(Task) /\ \A i \in 1..n : p[i] = q[i]
  OBVIOUS
<1> HIDE DEF p
<1>2. v[n + 1] = Amount(t, k) /\ \A i \in 1..n : v[i] = w[i]
  BY <1>1 DEF AmountOf
<1>3. w \in [1..n -> Int]
  BY QueueAmounts
<1>4. v \in [1..(n + 1) -> Int]
  BY <1>1, QueueAmounts
<1> HIDE DEF n, w, v
<1>5. SumFunction(v) = SumFunction(w) + v[n + 1]
  BY <1>1, <1>2, <1>3, <1>4, SumAppended
<1> QED BY <1>2, <1>5 DEF p, w, v, AmountOf, AmountsIn

LEMMA AmountsInTail ==
  ASSUME NEW q \in Seq(Task), q # <<>>, NEW k
  PROVE  AmountsIn(Tail(q), k) = AmountsIn(q, k) - Amount(Head(q), k)
<1> DEFINE p == Tail(q)
           n == Len(q) - 1
           w == AmountOf(q, k)
           v == AmountOf(p, k)
<1>1. /\ n \in Nat /\ DOMAIN q = 1..(n + 1) /\ Len(q) = n + 1
      /\ DOMAIN p = 1..n /\ Len(p) = n
      /\ Head(q) = q[1] /\ p \in Seq(Task) /\ \A i \in 1..n : p[i] = q[i + 1]
  OBVIOUS
<1> HIDE DEF p, n
<1>2. w[1] = Amount(Head(q), k) /\ \A i \in 1..n : v[i] = w[i + 1]
  BY <1>1 DEF AmountOf
<1>3. w \in [1..(n + 1) -> Int]
  BY <1>1, QueueAmounts
<1>4. v \in [1..n -> Int]
  BY <1>1, QueueAmounts
<1> HIDE DEF w, v
<1>5. SumFunction(v) = SumFunction(w) - w[1]
  BY <1>1, <1>2, <1>3, <1>4, SumShifted
<1> QED BY <1>2, <1>5 DEF p, w, v, AmountOf, AmountsIn

-----------------------------------------------------------------------------
(* Type correctness, with what each stage of the process allows.           *)

\* The worker holds a task exactly while it is busy.
WorkerInv ==
  /\ worker = "busy" => task \in Task
  /\ worker # "busy" => task = NoTask

\* Until the app serves, the only caller is the goroutine that provisions it,
\* and until the stored users are read there is neither worker nor task.
StageInv ==
  /\ life \in {"down", "restoring"} =>
       ~up /\ ch = <<>> /\ worker = "none" /\ pending[App] = NoTask
  /\ life = "restoring" => todo \subseteq DOMAIN storage
  /\ life \in {"down", "restoring", "loading", "boot"} =>
       /\ deleted = {}
       /\ \A c \in Admins \cup Tunnels : pending[c] = NoTask /\ tun[c] = NoKey
  /\ life \in {"loading", "boot", "up"} => chan = "open"
  /\ life # "boot" => pending[App] = NoTask
  /\ tun[App] = NoKey
  /\ \A c \in Tunnels : pending[c].type \in {"Consume", "None"}

TypeInv == TypeOK /\ WorkerInv /\ StageInv

LEMMA UnsavedType ==
  ASSUME TypeOK, NEW k
  PROVE  /\ Unsaved(k) \in Nat
         /\ Amount(task, k) \in Nat /\ AmountsIn(ch, k) \in Nat
         /\ AmountsIn(pending, k) \in Nat
<1>1. Amount(task, k) \in Nat
  BY AmountType DEF TypeOK
<1>2. AmountsIn(ch, k) \in Nat
  BY QueueAmounts DEF TypeOK
<1>3. AmountsIn(pending, k) \in Nat
  BY AmountsInType, ConstantsAssumption DEF TypeOK, MaybeTask
<1> QED BY <1>1, <1>2, <1>3 DEF Unsaved

LEMMA GivenUpType ==
  ASSUME TypeOK, task \in Task, NEW k \in Keys
  PROVE  GivenUp(k) \in Nat
BY TotalType, AmountType DEF TypeOK, GivenUp

\* What carrying out a task, or failing to, makes of the storage.
LEMMA StorageType ==
  ASSUME TypeOK, task \in Task, Done \/ NotDone
  PROVE  /\ IsTotals(storage)'
         /\ lost' \in [Keys -> Nat]
         /\ failed' \in SUBSET Keys
<1>1. task.key \in Keys /\ task.amount \in Nat
  BY TaskType
<1>2. \A k \in Keys : lost[k] \in Nat /\ GivenUp(k) \in Nat
                      /\ Amount(task, k) \in Nat
  BY GivenUpType, UnsavedType DEF TypeOK
<1>3. CASE Done
  <2>1. IsTotals(storage')
    <3>1. storage' \in {StoreAdd(storage, task.key),
                        StoreDelete(storage, task.key),
                        StoreConsume(storage, task.key, task.amount)}
      BY <1>3 DEF Done
    <3>2. IsTotals(storage)
      BY DEF TypeOK
    <3>3. /\ IsTotals(StoreAdd(storage, task.key))
          /\ IsTotals(StoreDelete(storage, task.key))
          /\ IsTotals(StoreConsume(storage, task.key, task.amount))
      BY <1>1, <3>2, StoreAddAccount, StoreDeleteAccount, StoreConsumeAccount
    <3> QED BY <3>1, <3>3
  <2>2. lost' \in [Keys -> Nat]
    BY <1>2, <1>3 DEF Done
  <2>3. failed' \in SUBSET Keys
    BY <1>3 DEF Done, TypeOK
  <2> QED BY <2>1, <2>2, <2>3 DEF IsTotals
<1>4. CASE NotDone
  <2>1. lost' \in [Keys -> Nat]
    BY <1>2, <1>4 DEF NotDone
  <2> QED BY <1>1, <1>4, <2>1 DEF NotDone, TypeOK, IsTotals
<1> QED BY <1>3, <1>4

LEMMA TypeInit == Init => TypeInv
<1> SUFFICES ASSUME Init PROVE TypeInv
  OBVIOUS
<1>1. IsTotals(mm)
  BY EmptyAccount DEF Init
<1>2. IsTotals(storage)
  BY ConstantsAssumption DEF Init, IsTotals
<1>3. ch \in Seq(Task)
  BY DEF Init
<1>4. TypeOK
  BY <1>1, <1>2, <1>3 DEF Init, TypeOK, Stages
<1> QED BY <1>4, TaskType DEF Init, TypeInv, WorkerInv, StageInv, Callers

\* Add, for the goroutine that provisions the app and for an admin request.
LEMMA AddType ==
  ASSUME TypeOK, NEW c \in Callers, NEW k \in Keys, Add(c, k)
  PROVE  /\ IsTotals(mm') /\ DOMAIN mm' = DOMAIN mm \cup {k}
         /\ deleted' \in SUBSET Keys
         /\ pending' \in [Callers -> Task \cup {NoTask}]
<1>1. MkTask("Add", k, 0) \in Task
  BY TaskType
<1>2. IsTotals(mm') /\ DOMAIN mm' = DOMAIN mm \cup {k}
  <2>1. 0 \in Nat
    OBVIOUS
  <2> QED BY <2>1, SetAccount DEF Add, AddKey, TypeOK
<1>3. pending' \in [Callers -> Task \cup {NoTask}]
  BY <1>1 DEF Add, Forward, TypeOK
<1> QED BY <1>2, <1>3 DEF Add, TypeOK

LEMMA TypeNext == TypeInv /\ [Next]_vars => TypeInv'
<1> SUFFICES ASSUME TypeInv, [Next]_vars PROVE TypeInv'
  OBVIOUS
<1> USE DEF TypeInv, Stages
<1>0. TypeOK /\ WorkerInv /\ StageInv
  OBVIOUS
<1>1. ASSUME NEW persist \in PersistModes, Provision(persist)
      PROVE  TypeInv'
  <2>1. IsTotals(mm') /\ todo' \in SUBSET Keys
    BY <1>1, EmptyAccount DEF Provision, TypeOK, IsTotals
  <2>2. TypeOK'
    BY <1>1, <2>1 DEF Provision, TypeOK, IsTotals, ghosts
  <2> QED BY <1>1, <2>2 DEF Provision, WorkerInv, StageInv, ghosts
<1>2. ASSUME NEW k \in Keys, RestoreKey(k)
      PROVE  TypeInv'
  <2>1. storage[k] \in Nat
    BY <1>2 DEF RestoreKey, StageInv, TypeOK, IsTotals
  <2>2. IsTotals(mm')
    <3>1. IsTotals(AddKey(mm, k))
      <4>1. 0 \in Nat
        OBVIOUS
      <4> QED BY <4>1, SetAccount DEF AddKey, TypeOK
    <3>2. Total(AddKey(mm, k), k) + storage[k] \in Nat
      BY <2>1, <3>1, TotalType
    <3> QED BY <1>2, <3>1, <3>2, SetAccount DEF RestoreKey, ConsumeKey
  <2>3. ch' = <<>> /\ ch' = ch
    BY <1>2 DEF RestoreKey, StageInv
  <2>4. TypeOK'
    BY <1>2, <2>2, <2>3 DEF RestoreKey, TypeOK, IsTotals, ghosts
  <2> QED BY <1>2, <2>3, <2>4 DEF RestoreKey, WorkerInv, StageInv, ghosts
<1>3. ASSUME NEW S \in SUBSET todo, SkipKeys(S)
      PROVE  TypeInv'
  <2>1. TypeOK'
    BY <1>3 DEF SkipKeys, TypeOK, IsTotals
  <2> QED BY <1>3, <2>1 DEF SkipKeys, WorkerInv, StageInv
<1>4. ASSUME NEW k \in Keys, BootAdd(k)
      PROVE  TypeInv'
  <2>1. Add(App, k) /\ App \in Callers
    BY <1>4 DEF BootAdd, Callers
  <2>2. TypeOK'
    BY <1>4, <2>1, AddType DEF BootAdd, Add, TypeOK, IsTotals
  <2>3. \A c \in Admins \cup Tunnels : pending'[c] = pending[c]
    BY <2>1, ConstantsAssumption DEF Add, Forward, TypeOK, Callers
  <2> QED BY <1>4, <2>1, <2>2, <2>3 DEF BootAdd, Add, WorkerInv, StageInv
<1>5. CASE Restored
  <2>1. TypeOK'
    BY <1>5 DEF Restored, TypeOK, IsTotals, ghosts
  <2> QED BY <1>5, <2>1 DEF Restored, WorkerInv, StageInv, ghosts
<1>6. CASE LoadProxies \/ LoadProxiesFails
  <2>1. TypeOK'
    BY <1>6, ConstantsAssumption
       DEF LoadProxies, LoadProxiesFails, TypeOK, IsTotals, ghosts
  <2> QED BY <1>6, <2>1
          DEF LoadProxies, LoadProxiesFails, WorkerInv, StageInv, ghosts
<1>7. CASE Booted
  <2>1. TypeOK'
    BY <1>7 DEF Booted, TypeOK, IsTotals, ghosts
  <2> QED BY <1>7, <2>1 DEF Booted, WorkerInv, StageInv, ghosts
<1>8. ASSUME NEW c \in Admins, NEW k \in Keys, AdminAdd(c, k)
      PROVE  TypeInv'
  <2>1. Add(c, k) /\ c \in Callers /\ life \in {"up", "closed"}
    BY <1>8 DEF AdminAdd, Serving, Callers
  <2>2. TypeOK'
    BY <1>8, <2>1, AddType DEF AdminAdd, Add, TypeOK, IsTotals
  <2>3. \A d \in {App} \cup Tunnels : pending'[d] = pending[d]
    BY <2>1, ConstantsAssumption DEF Add, Forward, TypeOK, Callers
  <2> QED BY <1>8, <2>1, <2>2, <2>3 DEF AdminAdd, Add, WorkerInv, StageInv
<1>9. ASSUME NEW c \in Admins, NEW k \in Keys, Delete(c, k)
      PROVE  TypeInv'
  <2>1. c \in Callers /\ life \in {"up", "closed"}
    BY <1>9 DEF Delete, Serving, Callers
  <2>2. MkTask("Delete", k, 0) \in Task
    BY TaskType
  <2>3. IsTotals(mm')
    BY <1>9, DropAccount DEF Delete, TypeOK
  <2>4. TypeOK'
    BY <1>9, <2>1, <2>2, <2>3 DEF Delete, Forward, TypeOK, IsTotals
  <2>5. \A d \in {App} \cup Tunnels : pending'[d] = pending[d]
    BY <1>9, <2>1, ConstantsAssumption DEF Delete, Forward, TypeOK, Callers
  <2> QED BY <1>9, <2>1, <2>4, <2>5 DEF Delete, WorkerInv, StageInv
<1>10. ASSUME NEW c \in Tunnels, NEW k \in Keys, Validate(c, k)
       PROVE  TypeInv'
  <2>1. TypeOK'
    BY <1>10 DEF Validate, TypeOK, IsTotals, ghosts, Callers
  <2> QED BY <1>10, <2>1, ConstantsAssumption
          DEF Validate, Serving, WorkerInv, StageInv, TypeOK, Callers, ghosts
<1>11. ASSUME NEW c \in Tunnels, NEW n \in Amounts, Consume(c, n)
       PROVE  TypeInv'
  <2> DEFINE k == tun[c]
  <2>1. /\ k \in Keys /\ n \in Nat /\ c \in Callers
        /\ life \in {"up", "closed"}
    BY <1>11, ConstantsAssumption DEF Consume, Serving, TypeOK, Callers
  <2>2. MkTask("Consume", k, n) \in Task /\ MkTask("Consume", k, n).type = "Consume"
    BY <2>1, TaskType
  <2>3. IsTotals(mm')
    <3>1. Total(mm, k) + n \in Nat
      BY <2>1, TotalType DEF TypeOK
    <3> QED BY <1>11, <2>1, <3>1, SetAccount DEF Consume, ConsumeKey, TypeOK
  <2>4. pending' \in [Callers -> Task \cup {NoTask}]
    BY <1>11, <2>1, <2>2 DEF Consume, Forward, TypeOK
  <2>5. consumed' \in [Keys -> Nat] /\ tun' \in [Callers -> Keys \cup {NoKey}]
    BY <1>11, <2>1 DEF Consume, TypeOK
  <2>6. TypeOK'
    BY <1>11, <2>3, <2>4, <2>5 DEF Consume, TypeOK, IsTotals
  <2>7. /\ pending'[c].type \in {"Consume", "None"}
        /\ \A d \in Callers \ {c} : pending'[d] = pending[d] /\ tun'[d] = tun[d]
    BY <1>11, <2>1, <2>2, TaskType DEF Consume, Forward, TypeOK
  <2>8. App \in Callers \ {c} /\ Tunnels \subseteq Callers
    BY ConstantsAssumption DEF Callers
  <2> QED BY <1>11, <2>1, <2>6, <2>7, <2>8 DEF Consume, WorkerInv, StageInv
<1>12. ASSUME NEW c \in Callers, Send(c)
       PROVE  TypeInv'
  <2>1. pending[c] \in Task
    BY <1>12 DEF Send, TypeOK
  <2>2. ch' \in Seq(Task)
    BY <1>12, <2>1 DEF Send, TypeOK
  <2>3. TypeOK'
    BY <1>12, <2>2 DEF Send, TypeOK, IsTotals, ghosts
  <2>4. \A d \in Callers : pending'[d] \in {pending[d], NoTask}
    BY <1>12 DEF Send, TypeOK
  <2>5. life \notin {"down", "restoring"}
    BY <1>12 DEF Send, StageInv, Callers
  <2> QED BY <1>12, <2>3, <2>4, <2>5, TaskType
          DEF Send, WorkerInv, StageInv, Callers, ghosts
<1>13. ASSUME NEW c \in Callers, SendOnClosed(c)
       PROVE  TypeInv'
  <2>1. lost' \in [Keys -> Nat]
    <3>1. \A k \in Keys : lost[k] \in Nat /\ Amount(pending[c], k) \in Nat
      BY AmountType DEF TypeOK
    <3> QED BY <1>13, <3>1 DEF SendOnClosed
  <2>2. TypeOK'
    BY <1>13, <2>1 DEF SendOnClosed, TypeOK, IsTotals
  <2>3. \A d \in Callers : pending'[d] \in {pending[d], NoTask}
    BY <1>13 DEF SendOnClosed, TypeOK
  <2> QED BY <1>13, <2>2, <2>3, TaskType
          DEF SendOnClosed, WorkerInv, StageInv, Callers
<1>14. CASE Receive
  <2>1. task' \in Task /\ ch' \in Seq(Task)
    BY <1>14 DEF Receive, TypeOK
  <2>2. TypeOK'
    BY <1>14, <2>1 DEF Receive, TypeOK, IsTotals, ghosts
  <2> QED BY <1>14, <2>1, <2>2 DEF Receive, WorkerInv, StageInv, ghosts
<1>15. CASE Apply
  <2>1. task \in Task
    BY <1>15 DEF Apply, WorkerInv
  <2>2. IsTotals(storage)' /\ lost' \in [Keys -> Nat] /\ failed' \in SUBSET Keys
    BY <1>15, <2>1, StorageType DEF Apply
  <2>3. TypeOK'
    BY <1>15, <2>2 DEF Apply, TypeOK, IsTotals
  <2> QED BY <1>15, <2>3 DEF Apply, WorkerInv, StageInv
<1>16. CASE WorkerExit
  <2>1. TypeOK'
    BY <1>16 DEF WorkerExit, TypeOK, IsTotals, ghosts
  <2> QED BY <1>16, <2>1 DEF WorkerExit, WorkerInv, StageInv, ghosts
<1>17. CASE Cleanup
  <2>1. TypeOK'
    BY <1>17 DEF Cleanup, TypeOK, IsTotals, ghosts
  <2> QED BY <1>17, <2>1 DEF Cleanup, WorkerInv, StageInv, ghosts
<1>18. CASE Crash
  <2>1. lost' \in [Keys -> Nat]
    BY <1>18, UnsavedType DEF Crash, TypeOK
  <2>2. ch' \in Seq(Task) /\ IsTotals(mm')
    BY <1>18, EmptyAccount DEF Crash
  <2>3. TypeOK'
    BY <1>18, <2>1, <2>2 DEF Crash, TypeOK, IsTotals
  <2> QED BY <1>18, <2>3, TaskType DEF Crash, WorkerInv, StageInv, Callers
<1>19. CASE UNCHANGED vars
  <2>1. TypeOK'
    BY <1>19 DEF vars, ghosts, TypeOK, IsTotals
  <2> QED BY <1>19, <2>1 DEF vars, ghosts, WorkerInv, StageInv
<1>20. \A k \in Keys : SkipKeys({k}) => TypeInv'
  BY <1>3 DEF SkipKeys
<1>21. SkipKeys(todo) => TypeInv'
  BY <1>3
<1> QED
  BY <1>1, <1>2, <1>4, <1>5, <1>6, <1>7, <1>8, <1>9, <1>10, <1>11, <1>12,
     <1>13, <1>14, <1>15, <1>16, <1>17, <1>18, <1>19, <1>20, <1>21 DEF Next

LEMMA TypeInvariant == Spec => []TypeInv
<1>1. Init => TypeInv
  BY TypeInit
<1>2. TypeInv /\ [Next]_vars => TypeInv'
  BY TypeNext
<1> QED BY <1>1, <1>2, PTL DEF Spec

\* The state of the user store stays well-typed in every behaviour: no operation
\* works on a task, a user or a record that is not there.
THEOREM TypeCorrect == Spec => []TypeOK
<1>1. TypeInv => TypeOK
  BY DEF TypeInv
<1> QED BY <1>1, TypeInvariant, PTL

-----------------------------------------------------------------------------
(* Traffic is accounted for.                                               *)

Balanced(k) == Total(storage, k) + Unsaved(k) + lost[k] = consumed[k]

\* What each place holds is a number, before and after a step.
LEMMA PlacesType ==
  ASSUME TypeOK, NEW k \in Keys
  PROVE  /\ Total(storage, k) \in Nat /\ lost[k] \in Nat /\ consumed[k] \in Nat
         /\ Amount(task, k) \in Nat /\ AmountsIn(ch, k) \in Nat
         /\ AmountsIn(pending, k) \in Nat
         /\ Unsaved(k) = Amount(task, k) + AmountsIn(ch, k) + AmountsIn(pending, k)
BY UnsavedType, TotalType DEF TypeOK, Unsaved

LEMMA UnsavedNext ==
  \A k : Unsaved(k)' = Amount(task', k) + AmountsIn(ch', k) + AmountsIn(pending', k)
BY DEF Unsaved

\* A call leaves its task, if the app has a persistent upstream.
LEMMA Forwarded ==
  ASSUME TypeOK, NEW c \in Callers, pending[c] = NoTask, NEW t \in Task,
         Forward(c, t), NEW k
  PROVE  AmountsIn(pending', k) =
           AmountsIn(pending, k) + IF up THEN Amount(t, k) ELSE 0
<1>1. /\ pending \in [Callers -> MaybeTask] /\ pending' \in [Callers -> MaybeTask]
      /\ \A d \in Callers \ {c} : pending'[d] = pending[d]
      /\ pending'[c] = IF up THEN t ELSE NoTask
      /\ IsFiniteSet(Callers)
  BY ConstantsAssumption DEF Forward, MaybeTask, TypeOK
<1>2. /\ Amount(pending[c], k) = 0 /\ Amount(t, k) \in Nat
      /\ Amount(pending'[c], k) = IF up THEN Amount(t, k) ELSE 0
  BY <1>1, AmountNoTask, AmountType
<1>3. AmountsIn(pending, k) \in Nat
  BY UnsavedType
<1>4. AmountsIn(pending', k) =
        AmountsIn(pending, k) - Amount(pending[c], k) + Amount(pending'[c], k)
  BY <1>1, AmountsInChanged
<1> QED BY <1>2, <1>3, <1>4

\* The task of caller c is gone.
Taken(c) == pending' = [pending EXCEPT ![c] = NoTask]

LEMMA TaskTaken ==
  ASSUME TypeOK, NEW c \in Callers, Taken(c), NEW k
  PROVE  AmountsIn(pending', k) = AmountsIn(pending, k) - Amount(pending[c], k)
         /\ Amount(pending[c], k) \in Nat
<1>1. /\ pending \in [Callers -> MaybeTask] /\ pending' \in [Callers -> MaybeTask]
      /\ \A d \in Callers \ {c} : pending'[d] = pending[d]
      /\ pending'[c] = NoTask
      /\ IsFiniteSet(Callers)
  BY ConstantsAssumption DEF Taken, MaybeTask, TypeOK
<1>2. Amount(pending[c], k) \in Nat /\ Amount(pending'[c], k) = 0
  BY <1>1, AmountNoTask, AmountType DEF TypeOK
<1>3. AmountsIn(pending, k) \in Nat
  BY UnsavedType
<1>4. AmountsIn(pending', k) =
        AmountsIn(pending, k) - Amount(pending[c], k) + Amount(pending'[c], k)
  BY <1>1, AmountsInChanged
<1> QED BY <1>2, <1>3, <1>4

\* A task of the worker that is carried out, or fails: what leaves the task is
\* in the storage or given up, and what leaves the storage is given up.
LEMMA AppliedAccount ==
  ASSUME TypeOK, task \in Task, Done \/ NotDone, NEW k \in Keys
  PROVE  Total(storage', k) + lost'[k] =
           Total(storage, k) + lost[k] + Amount(task, k)
<1>1. task.key \in Keys /\ task.amount \in Nat
      /\ task.type \in {"Add", "Delete", "Consume"}
  BY TaskType
<1>2. /\ Total(storage, k) \in Nat /\ lost[k] \in Nat /\ Amount(task, k) \in Nat
      /\ IsTotals(storage)
  BY PlacesType DEF TypeOK
<1>3. CASE Done /\ task.type = "Add"
  <2>1. Total(storage', k) = Total(storage, k)
    <3>1. storage' = StoreAdd(storage, task.key)
      BY <1>3 DEF Done
    <3>2. Total(StoreAdd(storage, task.key), k) = Total(storage, k)
      BY <1>1, <1>2, StoreAddAccount
    <3> QED BY <3>1, <3>2
  <2>2. GivenUp(k) = 0 /\ Amount(task, k) = 0
    BY <1>3 DEF GivenUp, Amount
  <2>3. lost'[k] = lost[k] + GivenUp(k)
    BY <1>3 DEF Done
  <2> QED BY <1>2, <2>1, <2>2, <2>3
<1>4. CASE Done /\ task.type = "Delete"
  <2>1. Total(storage', k) = IF k = task.key THEN 0 ELSE Total(storage, k)
    <3>1. storage' = StoreDelete(storage, task.key)
      BY <1>4 DEF Done
    <3>2. Total(StoreDelete(storage, task.key), k) =
            IF k = task.key THEN 0 ELSE Total(storage, k)
      BY <1>1, <1>2, StoreDeleteAccount
    <3> QED BY <3>1, <3>2
  <2>2. /\ GivenUp(k) = IF k = task.key THEN Total(storage, k) ELSE 0
        /\ Amount(task, k) = 0
    BY <1>4 DEF GivenUp, Amount
  <2>3. lost'[k] = lost[k] + GivenUp(k)
    BY <1>4 DEF Done
  <2> QED BY <1>2, <2>1, <2>2, <2>3
<1>5. CASE Done /\ task.type = "Consume"
  <2>1. Total(storage', k) = Total(storage, k)
          + IF k = task.key /\ task.key \in DOMAIN storage THEN task.amount ELSE 0
    <3>1. storage' = StoreConsume(storage, task.key, task.amount)
      BY <1>5 DEF Done
    <3>2. Total(StoreConsume(storage, task.key, task.amount), k) =
            Total(storage, k) + IF k = task.key /\ task.key \in DOMAIN storage
                                THEN task.amount ELSE 0
      <4>1. ASSUME NEW q \in Keys, NEW n \in Nat
            PROVE  \A j : Total(StoreConsume(storage, q, n), j) =
                     Total(storage, j) + IF j = q /\ q \in DOMAIN storage THEN n ELSE 0
        BY <1>2, StoreConsumeAccount
      <4> QED BY <1>1, <4>1, Zenon
    <3> QED BY <3>1, <3>2
  <2>2. /\ GivenUp(k) = IF k = task.key /\ k \notin DOMAIN storage
                        THEN Amount(task, k) ELSE 0
        /\ Amount(task, k) = IF k = task.key THEN task.amount ELSE 0
    BY <1>5 DEF GivenUp, Amount
  <2>3. lost'[k] = lost[k] + GivenUp(k)
    BY <1>5 DEF Done
  <2> QED BY <1>1, <1>2, <2>1, <2>2, <2>3
<1>6. CASE NotDone
  BY <1>2, <1>6 DEF NotDone
<1> QED BY <1>1, <1>3, <1>4, <1>5, <1>6

LEMMA BalancedInit ==
  ASSUME Init, NEW k \in Keys
  PROVE  Balanced(k)
<1>1. TypeInv
  BY TypeInit
<1>2. AmountsIn(pending, k) = 0
  BY <1>1, AmountsInNone, ConstantsAssumption DEF Init, TypeInv, TypeOK, MaybeTask
<1>3. AmountsIn(ch, k) = 0
  <2>1. ch \in [{} -> MaybeTask] /\ IsFiniteSet({})
    BY FS_EmptySet DEF Init
  <2> QED BY <2>1, AmountsInNone
<1>4. Amount(task, k) = 0 /\ Total(storage, k) = 0
  BY AmountNoTask DEF Init, Total
<1>5. lost[k] = 0 /\ consumed[k] = 0
  BY DEF Init
<1> QED BY <1>2, <1>3, <1>4, <1>5 DEF Balanced, Unsaved

LEMMA BalancedNext ==
  ASSUME TypeInv, [Next]_vars, NEW k \in Keys, Balanced(k)
  PROVE  Balanced(k)'
<1> USE DEF TypeInv, Balanced
<1>0. TypeOK /\ WorkerInv /\ StageInv
  OBVIOUS
<1>1. ASSUME UNCHANGED <<storage, lost, consumed, task, ch, pending>>
      PROVE  Balanced(k)'
  BY <1>1 DEF Unsaved
<1>2. CASE \/ \E persist \in PersistModes : Provision(persist)
           \/ \E j \in Keys : SkipKeys({j})
           \/ SkipKeys(todo) \/ Restored \/ LoadProxies \/ LoadProxiesFails
           \/ Booted
           \/ \E c \in Tunnels, j \in Keys : Validate(c, j)
           \/ WorkerExit \/ Cleanup \/ UNCHANGED vars
  BY <1>1, <1>2 DEF Provision, SkipKeys, Restored, LoadProxies,
     LoadProxiesFails, Booted, Validate, WorkerExit, Cleanup, vars, ghosts
<1>3. ASSUME NEW j \in Keys, RestoreKey(j)
      PROVE  Balanced(k)'
  BY <1>1, <1>3 DEF RestoreKey, StageInv, ghosts
<1>4. ASSUME NEW c \in Callers, NEW j \in Keys,
             Add(c, j) \/ (c \in Admins /\ Delete(c, j))
      PROVE  Balanced(k)'
  <2>1. \E T \in {"Add", "Delete"} :
          pending[c] = NoTask /\ Forward(c, MkTask(T, j, 0))
    BY <1>4 DEF Add, Delete, Free
  <2>2. AmountsIn(pending', k) = AmountsIn(pending, k)
    <3>1. PICK T \in {"Add", "Delete"} :
            pending[c] = NoTask /\ Forward(c, MkTask(T, j, 0))
      BY <2>1
    <3>2. MkTask(T, j, 0) \in Task /\ Amount(MkTask(T, j, 0), k) = 0
      BY TaskType DEF Amount
    <3>3. AmountsIn(pending', k) = AmountsIn(pending, k) + 0
      BY <3>1, <3>2, Forwarded
    <3> QED BY <3>3, PlacesType
  <2>3. UNCHANGED <<storage, lost, consumed, task, ch>>
    BY <1>4 DEF Add, Delete
  <2> QED BY <2>2, <2>3 DEF Unsaved
<1>5. ASSUME NEW c \in Tunnels, NEW n \in Amounts, Consume(c, n)
      PROVE  Balanced(k)'
  <2> DEFINE j == tun[c]
             t == MkTask("Consume", j, n)
             d == IF up /\ j = k THEN n ELSE 0
  <2>1. j \in Keys /\ n \in Nat /\ c \in Callers /\ pending[c] = NoTask
    BY <1>5, ConstantsAssumption DEF Consume, TypeOK, Callers
  <2>2. t \in Task /\ Amount(t, k) = IF j = k THEN n ELSE 0
    BY <2>1, TaskType DEF Amount
  <2>3. AmountsIn(pending', k) = AmountsIn(pending, k) + d
    <3>1. Forward(c, t)
      BY <1>5 DEF Consume
    <3> HIDE DEF t
    <3>2. AmountsIn(pending', k) =
            AmountsIn(pending, k) + IF up THEN Amount(t, k) ELSE 0
      BY <2>1, <2>2, <3>1, Forwarded
    <3> QED BY <2>2, <3>2
  <2>4. consumed'[k] = consumed[k] + d
    BY <1>5, <2>1 DEF Consume, TypeOK
  <2>5. UNCHANGED <<storage, lost, task, ch>>
    BY <1>5 DEF Consume
  <2>6. d \in Nat
    BY <2>1
  <2> HIDE DEF d
  <2> QED BY <2>3, <2>4, <2>5, <2>6, PlacesType, UnsavedNext
<1>6. ASSUME NEW c \in Callers, Send(c)
      PROVE  Balanced(k)'
  <2>1. /\ AmountsIn(pending', k) = AmountsIn(pending, k) - Amount(pending[c], k)
        /\ Amount(pending[c], k) \in Nat
    BY <1>6, TaskTaken DEF Send, Taken
  <2>2. AmountsIn(ch', k) = AmountsIn(ch, k) + Amount(pending[c], k)
    <3>1. pending[c] \in Task /\ ch \in Seq(Task) /\ ch' = Append(ch, pending[c])
      BY <1>6 DEF Send, TypeOK
    <3> QED BY <3>1, AmountsInAppended
  <2>3. UNCHANGED <<storage, lost, consumed, task>>
    BY <1>6 DEF Send, ghosts
  <2> QED BY <2>1, <2>2, <2>3, PlacesType, UnsavedNext
<1>7. ASSUME NEW c \in Callers, SendOnClosed(c)
      PROVE  Balanced(k)'
  <2>1. /\ AmountsIn(pending', k) = AmountsIn(pending, k) - Amount(pending[c], k)
        /\ Amount(pending[c], k) \in Nat
    BY <1>7, TaskTaken DEF SendOnClosed, Taken
  <2>2. lost'[k] = lost[k] + Amount(pending[c], k)
    BY <1>7 DEF SendOnClosed
  <2>3. UNCHANGED <<storage, consumed, task, ch>>
    BY <1>7 DEF SendOnClosed
  <2> QED BY <2>1, <2>2, <2>3, PlacesType, UnsavedNext
<1>8. CASE Receive
  <2>1. /\ AmountsIn(ch', k) = AmountsIn(ch, k) - Amount(Head(ch), k)
        /\ Amount(task', k) = Amount(Head(ch), k)
        /\ Amount(Head(ch), k) \in Nat
    <3>1. ch \in Seq(Task) /\ ch # <<>> /\ Head(ch) \in Task
      BY <1>8 DEF Receive, TypeOK
    <3> QED BY <1>8, <3>1, AmountsInTail, AmountType DEF Receive
  <2>2. Amount(task, k) = 0
    BY <1>8, AmountNoTask DEF Receive, WorkerInv
  <2>3. UNCHANGED <<storage, lost, consumed, pending>>
    BY <1>8 DEF Receive, ghosts
  <2> QED BY <2>1, <2>2, <2>3, PlacesType, UnsavedNext
<1>9. CASE Apply
  <2>1. task \in Task /\ (Done \/ NotDone)
    BY <1>9 DEF Apply, WorkerInv
  <2>2. Total(storage', k) + lost'[k] =
          Total(storage, k) + lost[k] + Amount(task, k)
    BY <2>1, AppliedAccount
  <2>3. Amount(task', k) = 0
    BY <1>9, AmountNoTask DEF Apply
  <2>4. Total(storage', k) \in Nat /\ lost'[k] \in Nat
    BY <2>1, StorageType, TotalType DEF IsTotals
  <2>5. UNCHANGED <<ch, pending, consumed>>
    BY <1>9 DEF Apply
  <2> QED BY <2>2, <2>3, <2>4, <2>5, PlacesType, UnsavedNext
<1>10. CASE Crash
  <2>1. AmountsIn(pending', k) = 0 /\ AmountsIn(ch', k) = 0
    <3>1. pending' \in [Callers -> MaybeTask] /\ \A c \in Callers : pending'[c] = NoTask
      BY <1>10 DEF Crash, MaybeTask
    <3>2. ch' \in [{} -> MaybeTask] /\ IsFiniteSet({})
      BY <1>10, FS_EmptySet DEF Crash
    <3>3. AmountsIn(pending', k) = 0
      BY <3>1, AmountsInNone, ConstantsAssumption
    <3> QED BY <3>2, <3>3, AmountsInNone
  <2>2. Amount(task', k) = 0 /\ lost'[k] = lost[k] + Unsaved(k)
    BY <1>10, AmountNoTask DEF Crash
  <2>3. UNCHANGED <<storage, consumed>>
    BY <1>10 DEF Crash
  <2> QED BY <2>1, <2>2, <2>3, PlacesType, UnsavedNext
<1>11. \A j \in Keys : BootAdd(j) => Balanced(k)'
  BY <1>4 DEF BootAdd, Callers
<1>12. \A c \in Admins, j \in Keys :
         AdminAdd(c, j) \/ Delete(c, j) => Balanced(k)'
  BY <1>4 DEF AdminAdd, Callers
<1> QED
  BY <1>2, <1>3, <1>5, <1>6, <1>7, <1>8, <1>9, <1>10, <1>11, <1>12 DEF Next

\* Every byte reported for a persisted user is in the user's record, on its way
\* there, or given up, and nowhere twice: however calls, the channel, failures
\* of the storage, shutdowns and crashes follow one another.
THEOREM TrafficIsAccountedFor == Spec => []TrafficAccountedFor
<1> DEFINE Inv == TypeInv /\ TrafficAccountedFor
<1>1. TrafficAccountedFor <=> \A k \in Keys : Balanced(k)
  BY DEF TrafficAccountedFor, Balanced
<1>2. Init => Inv
  BY <1>1, TypeInit, BalancedInit
<1>3. Inv /\ [Next]_vars => Inv'
  <2> SUFFICES ASSUME Inv, [Next]_vars PROVE Inv'
    OBVIOUS
  <2>1. \A k \in Keys : Balanced(k)'
    BY <1>1, BalancedNext
  <2>2. TrafficAccountedFor'
    BY <2>1 DEF TrafficAccountedFor, Balanced
  <2> QED BY <2>2, TypeNext
<1>4. Inv => TrafficAccountedFor
  OBVIOUS
<1> HIDE DEF Inv
<1> QED BY <1>2, <1>3, <1>4, PTL DEF Spec

-----------------------------------------------------------------------------
(* Tasks that add or delete a user.  They are waiting at calls (p), in the *)
(* queue (q) or with the worker (t), and are carried out in the order      *)
(* t, q, p.                                                                *)

Is(t, T, k) == t.type = T /\ t.key = k
Changes(t, k) == Is(t, "Add", k) \/ Is(t, "Delete", k)

AtCall(p, k) == \E c \in Callers : Changes(p[c], k)
InQueue(q, k) == \E i \in DOMAIN q : Changes(q[i], k)

\* The last task of the queue that changes k is of type T.
LastInQueue(q, T, k) ==
  \E i \in DOMAIN q : /\ Is(q[i], T, k)
                      /\ \A j \in DOMAIN q : j > i => ~Changes(q[j], k)

\* The last task of all that changes k is of type T ...
Latest(p, q, t, T, k) ==
  \/ \E c \in Callers : Is(p[c], T, k)
  \/ ~AtCall(p, k) /\ LastInQueue(q, T, k)
  \/ ~AtCall(p, k) /\ ~InQueue(q, k) /\ Is(t, T, k)

\* ... or no task changes k.
Nothing(p, q, t, k) == ~AtCall(p, k) /\ ~InQueue(q, k) /\ ~Changes(t, k)

\* At most one call at a time is about to send an Add or Delete of a user.
Undisputed ==
  \A c, d \in Callers, k \in Keys :
    Changes(pending[c], k) /\ Changes(pending[d], k) => c = d

ChangeTypes == {"Add", "Delete"}

LEMMA NoTaskChangesNothing ==
  \A k : \A T \in ChangeTypes : ~Is(NoTask, T, k) /\ ~Changes(NoTask, k)
BY DEF NoTask, Is, Changes, ChangeTypes

\* A call about to send an Add or Delete of a user speaks for that user.
LEMMA CallIsLatest ==
  ASSUME TypeOK, NEW c \in Callers, pending[c] = NoTask, up,
         NEW T \in ChangeTypes, NEW k \in Keys, Forward(c, MkTask(T, k, 0))
  PROVE  /\ \A q, t : Latest(pending', q, t, T, k)
         /\ \A q, t, j : \A U \in ChangeTypes : j # k /\ Latest(pending, q, t, U, j) =>
              Latest(pending', q, t, U, j)
         /\ \A q, t, j : j # k /\ Nothing(pending, q, t, j) =>
              Nothing(pending', q, t, j)
<1> DEFINE n == MkTask(T, k, 0)
<1>1. /\ pending'[c] = n
      /\ \A d \in Callers \ {c} : pending'[d] = pending[d]
  BY DEF Forward, TypeOK
<1>2. /\ Is(n, T, k)
      /\ \A U, j : j # k => ~Is(n, U, j) /\ ~Changes(n, j)
  BY TaskType DEF Is, Changes, ChangeTypes, MkTask
<1> HIDE DEF n
<1>3. \A j : j # k => (AtCall(pending', j) <=> AtCall(pending, j))
  BY <1>1, <1>2, NoTaskChangesNothing DEF AtCall
<1>4. \A q, t : Latest(pending', q, t, T, k)
  BY <1>1, <1>2 DEF Latest
<1>5. ASSUME NEW j, j # k, NEW U \in ChangeTypes, NEW d \in Callers,
             Is(pending[d], U, j)
      PROVE  Is(pending'[d], U, j)
  BY <1>1, <1>5, NoTaskChangesNothing
<1>6. ASSUME NEW q, NEW t, NEW j, j # k, NEW U \in ChangeTypes,
             Latest(pending, q, t, U, j)
      PROVE  Latest(pending', q, t, U, j)
  BY <1>3, <1>5, <1>6 DEF Latest
<1>7. ASSUME NEW q, NEW t, NEW j, j # k, Nothing(pending, q, t, j)
      PROVE  Nothing(pending', q, t, j)
  BY <1>3, <1>7 DEF Nothing
<1> QED BY <1>4, <1>6, <1>7

\* A call about to send a Consume changes nobody.
LEMMA ConsumeChangesNothing ==
  ASSUME TypeOK, NEW c \in Callers, pending[c] = NoTask,
         NEW n, n.type = "Consume", Forward(c, n)
  PROVE  /\ \A q, t, j : \A U \in ChangeTypes : Latest(pending, q, t, U, j) =>
              Latest(pending', q, t, U, j)
         /\ \A q, t, j : Nothing(pending, q, t, j) => Nothing(pending', q, t, j)
<1>1. /\ pending'[c] \in {n, NoTask}
      /\ \A d \in Callers \ {c} : pending'[d] = pending[d]
  BY DEF Forward, TypeOK
<1>2. /\ \A j : \A U \in ChangeTypes : ~Is(n, U, j)
      /\ \A j : ~Changes(n, j) /\ ~Changes(NoTask, j)
  BY DEF Is, Changes, ChangeTypes, NoTask
<1>3. \A j : AtCall(pending', j) <=> AtCall(pending, j)
  <2>1. \A j : ~Changes(pending'[c], j) /\ ~Changes(pending[c], j)
    BY <1>1, <1>2
  <2> QED BY <1>1, <2>1 DEF AtCall
<1>4. ASSUME NEW j, NEW U \in ChangeTypes, NEW d \in Callers, Is(pending[d], U, j)
      PROVE  Is(pending'[d], U, j)
  BY <1>1, <1>4, NoTaskChangesNothing
<1>5. ASSUME NEW q, NEW t, NEW j, NEW U \in ChangeTypes,
             Latest(pending, q, t, U, j)
      PROVE  Latest(pending', q, t, U, j)
  BY <1>3, <1>4, <1>5 DEF Latest
<1>6. ASSUME NEW q, NEW t, NEW j, Nothing(pending, q, t, j)
      PROVE  Nothing(pending', q, t, j)
  BY <1>3, <1>6 DEF Nothing
<1> QED BY <1>5, <1>6

\* What a queue says of k, with one more task and without the first.
LEMMA QueueAppended ==
  ASSUME NEW q \in Seq(Task), NEW t \in Task, NEW k
  PROVE  /\ InQueue(Append(q, t), k) <=> InQueue(q, k) \/ Changes(t, k)
         /\ \A T \in ChangeTypes :
              Is(t, T, k) => LastInQueue(Append(q, t), T, k)
         /\ \A T \in ChangeTypes : LastInQueue(q, T, k) /\ ~Changes(t, k) =>
              LastInQueue(Append(q, t), T, k)
<1> DEFINE p == Append(q, t)
           n == Len(q)
<1>1. /\ n \in Nat /\ DOMAIN q = 1..n /\ DOMAIN p = 1..(n + 1)
      /\ p[n + 1] = t /\ \A i \in 1..n : p[i] = q[i]
  OBVIOUS
<1> HIDE DEF p, n
<1>2. InQueue(p, k) <=> InQueue(q, k) \/ Changes(t, k)
  BY <1>1 DEF InQueue
<1>3. \A T \in ChangeTypes : Is(t, T, k) => LastInQueue(p, T, k)
  BY <1>1 DEF LastInQueue
<1>4. \A T \in ChangeTypes : LastInQueue(q, T, k) /\ ~Changes(t, k) =>
        LastInQueue(p, T, k)
  BY <1>1 DEF LastInQueue
<1> QED BY <1>2, <1>3, <1>4 DEF p

LEMMA QueueTail ==
  ASSUME NEW q \in Seq(Task), q # <<>>, NEW k
  PROVE  /\ InQueue(q, k) <=> InQueue(Tail(q), k) \/ Changes(Head(q), k)
         /\ \A T \in ChangeTypes : LastInQueue(q, T, k) =>
              LastInQueue(Tail(q), T, k)
                \/ (~InQueue(Tail(q), k) /\ Is(Head(q), T, k))
<1> DEFINE p == Tail(q)
           n == Len(q) - 1
<1>1. /\ n \in Nat /\ DOMAIN q = 1..(n + 1) /\ DOMAIN p = 1..n
      /\ Head(q) = q[1] /\ \A i \in 1..n : p[i] = q[i + 1]
  OBVIOUS
<1> HIDE DEF p, n
<1>2. \A i \in 1..(n + 1) : i # 1 => i - 1 \in 1..n /\ p[i - 1] = q[i]
  BY <1>1
<1>3. InQueue(q, k) <=> InQueue(p, k) \/ Changes(Head(q), k)
  <2>1. ASSUME InQueue(q, k) PROVE InQueue(p, k) \/ Changes(Head(q), k)
    BY <1>1, <1>2, <2>1 DEF InQueue
  <2>2. ASSUME InQueue(p, k) \/ Changes(Head(q), k) PROVE InQueue(q, k)
    BY <1>1, <2>2 DEF InQueue
  <2> QED BY <2>1, <2>2
<1>4. ASSUME NEW T \in ChangeTypes, LastInQueue(q, T, k)
      PROVE  LastInQueue(p, T, k) \/ (~InQueue(p, k) /\ Is(Head(q), T, k))
  <2>1. PICK i \in 1..(n + 1) :
          Is(q[i], T, k) /\ \A j \in 1..(n + 1) : j > i => ~Changes(q[j], k)
    BY <1>1, <1>4 DEF LastInQueue
  <2>2. CASE i = 1
    BY <1>1, <2>1, <2>2 DEF InQueue
  <2>3. CASE i # 1
    <3>1. PICK m \in 1..n : m + 1 = i
      BY <1>1, <2>3
    <3>2. Is(p[m], T, k)
      BY <1>1, <2>1, <3>1
    <3>3. ASSUME NEW j \in 1..n, j > m PROVE ~Changes(p[j], k)
      <4>1. j + 1 \in 1..(n + 1) /\ j + 1 > i
        BY <1>1, <3>1, <3>3
      <4> QED BY <1>1, <2>1, <4>1
    <3> QED BY <1>1, <3>1, <3>2, <3>3 DEF LastInQueue
  <2> QED BY <2>2, <2>3
<1> QED BY <1>3, <1>4 DEF p

\* Sending a task moves it from the call to the end of the queue.
LEMMA SendKeepsOrder ==
  ASSUME TypeOK, Undisputed, NEW c \in Callers, pending[c] \in Task, Taken(c),
         NEW k \in Keys
  PROVE  /\ \A t : \A T \in ChangeTypes : Latest(pending, ch, t, T, k) =>
              Latest(pending', Append(ch, pending[c]), t, T, k)
         /\ \A t : Nothing(pending, ch, t, k) =>
              Nothing(pending', Append(ch, pending[c]), t, k)
<1> DEFINE n == pending[c]
<1>1. pending'[c] = NoTask /\ \A d \in Callers \ {c} : pending'[d] = pending[d]
  BY DEF Taken, TypeOK
<1>2. /\ InQueue(Append(ch, n), k) <=> InQueue(ch, k) \/ Changes(n, k)
      /\ \A T \in ChangeTypes : Is(n, T, k) => LastInQueue(Append(ch, n), T, k)
      /\ \A T \in ChangeTypes : LastInQueue(ch, T, k) /\ ~Changes(n, k) =>
           LastInQueue(Append(ch, n), T, k)
  BY QueueAppended DEF TypeOK
<1>3. /\ \A d \in Callers :
           Changes(pending'[d], k) <=> d # c /\ Changes(pending[d], k)
      /\ \A d \in Callers, T \in ChangeTypes :
           Is(pending'[d], T, k) <=> d # c /\ Is(pending[d], T, k)
  BY <1>1, NoTaskChangesNothing DEF ChangeTypes
<1>4. \A x : \A T \in ChangeTypes : Is(x, T, k) => Changes(x, k)
  BY DEF Changes, ChangeTypes
<1>5. Changes(n, k) => ~AtCall(pending', k)
  BY <1>3 DEF Undisputed, AtCall
<1>6. ~Changes(n, k) => (AtCall(pending', k) <=> AtCall(pending, k))
  BY <1>3 DEF AtCall
<1>7. Changes(n, k) => AtCall(pending, k)
  BY DEF AtCall
<1>8. ASSUME NEW t, NEW T \in ChangeTypes, Latest(pending, ch, t, T, k)
      PROVE  Latest(pending', Append(ch, n), t, T, k)
  <2>1. CASE Changes(n, k)
    <3>1. PICK d \in Callers : Is(pending[d], T, k)
      BY <1>7, <1>8, <2>1 DEF Latest
    <3>2. d = c
      BY <1>4, <2>1, <3>1 DEF Undisputed
    <3> QED BY <1>2, <1>5, <2>1, <3>1, <3>2 DEF Latest
  <2>2. CASE ~Changes(n, k)
    <3>1. CASE \E d \in Callers : Is(pending[d], T, k)
      <4>1. PICK d \in Callers : Is(pending[d], T, k)
        BY <3>1
      <4>2. d # c
        BY <1>4, <2>2, <4>1
      <4> QED BY <1>3, <4>1, <4>2 DEF Latest
    <3>2. CASE ~AtCall(pending, k) /\ LastInQueue(ch, T, k)
      BY <1>2, <1>6, <2>2, <3>2 DEF Latest
    <3>3. CASE ~AtCall(pending, k) /\ ~InQueue(ch, k) /\ Is(t, T, k)
      BY <1>2, <1>6, <2>2, <3>3 DEF Latest
    <3> QED BY <1>8, <3>1, <3>2, <3>3 DEF Latest
  <2> QED BY <2>1, <2>2
<1>9. ASSUME NEW t, Nothing(pending, ch, t, k)
      PROVE  Nothing(pending', Append(ch, n), t, k)
  BY <1>2, <1>6, <1>7, <1>9 DEF Nothing
<1> QED BY <1>8, <1>9

\* The worker's next task is the first of the queue.
LEMMA ReceiveKeepsOrder ==
  ASSUME NEW p, NEW q \in Seq(Task), q # <<>>, NEW k
  PROVE  /\ \A T \in ChangeTypes : Latest(p, q, NoTask, T, k) =>
              Latest(p, Tail(q), Head(q), T, k)
         /\ Nothing(p, q, NoTask, k) => Nothing(p, Tail(q), Head(q), k)
BY QueueTail, NoTaskChangesNothing DEF Latest, Nothing

\* A task that is applied was the latest that changes k, or another one is.
LEMMA ApplyKeepsOrder ==
  ASSUME NEW p, NEW q, NEW t, NEW k
  PROVE  /\ \A T \in ChangeTypes : Latest(p, q, t, T, k) =>
              \/ Latest(p, q, NoTask, T, k)
              \/ Is(t, T, k) /\ Nothing(p, q, NoTask, k)
         /\ Nothing(p, q, t, k) => Nothing(p, q, NoTask, k)
<1>1. ~Changes(NoTask, k)
  BY DEF NoTask, Is, Changes
<1>2. ASSUME NEW T \in ChangeTypes, Latest(p, q, t, T, k)
      PROVE  \/ Latest(p, q, NoTask, T, k)
             \/ Is(t, T, k) /\ Nothing(p, q, NoTask, k)
  BY <1>1, <1>2 DEF Latest, Nothing
<1>3. Nothing(p, q, t, k) => Nothing(p, q, NoTask, k)
  BY <1>1 DEF Nothing
<1> QED BY <1>2, <1>3

-----------------------------------------------------------------------------
(* Memory and storage agree on who is a user.                              *)

\* A tunnel serves a user who is in memory or was deleted since.
TunnelInv == \A c \in Callers : tun[c] # NoKey => tun[c] \in DOMAIN mm \cup deleted

\* No task changes k, and the storage knows k as it should, unless it failed.
Settled(k, known) ==
  /\ Nothing(pending, ch, task, k)
  /\ k \in failed \/ (k \in DOMAIN storage <=> known)

\* A deleted user's last task is the Delete, and that of another user in memory
\* the Add, if there is a task, and if there is none the storage says the same.
AgreesOn(k) ==
  /\ k \in deleted =>
       Latest(pending, ch, task, "Delete", k) \/ Settled(k, FALSE)
  /\ k \in DOMAIN mm \ deleted =>
       Latest(pending, ch, task, "Add", k) \/ Settled(k, TRUE)
  /\ k \notin DOMAIN mm \cup deleted => Settled(k, FALSE)

\* While the stored users are read, memory has those that were read.
RestoredOn(k) ==
  /\ k \in DOMAIN storage => k \in todo \cup DOMAIN mm \cup failed
  /\ k \in DOMAIN mm => k \in DOMAIN storage

Running == up /\ life \in {"loading", "boot", "up"}

Agreement(k) == /\ life = "restoring" => RestoredOn(k)
                /\ Running => AgreesOn(k)

AgreementInv == TunnelInv /\ \A k \in Keys : Agreement(k)

LEMMA AgreementInit == Init => AgreementInv
BY DEF Init, AgreementInv, Agreement, TunnelInv, Running

LEMMA TunnelNext ==
  ASSUME TypeInv, TunnelInv, [Next]_vars
  PROVE  TunnelInv'
<1> USE DEF TunnelInv, TypeInv
<1>1. ASSUME UNCHANGED tun, DOMAIN mm \cup deleted \subseteq DOMAIN mm' \cup deleted'
      PROVE  TunnelInv'
  BY <1>1
<1>2. ASSUME life = "down" \/ life = "restoring", UNCHANGED tun
      PROVE  TunnelInv'
  BY <1>2 DEF StageInv, Callers
<1>3. CASE \/ \E persist \in PersistModes : Provision(persist)
           \/ \E k \in Keys : RestoreKey(k)
  BY <1>2, <1>3 DEF Provision, RestoreKey, ghosts
<1>4. CASE \/ \E k \in Keys : SkipKeys({k})
           \/ SkipKeys(todo) \/ Restored \/ LoadProxies \/ LoadProxiesFails
           \/ Booted \/ (\E c \in Callers : Send(c) \/ SendOnClosed(c))
           \/ Receive \/ Apply \/ WorkerExit \/ Cleanup \/ UNCHANGED vars
  BY <1>1, <1>4 DEF SkipKeys, Restored, LoadProxies, LoadProxiesFails, Booted,
     Send, SendOnClosed, Receive, Apply, WorkerExit, Cleanup, vars, ghosts
<1>5. ASSUME NEW c \in Callers, NEW k \in Keys, Add(c, k)
      PROVE  TunnelInv'
  <2>1. DOMAIN mm' = DOMAIN mm \cup {k} /\ deleted' = deleted \ {k}
        /\ UNCHANGED tun
    BY <1>5, AddType DEF Add
  <2> QED BY <1>1, <2>1
<1>6. ASSUME NEW c \in Admins, NEW k \in Keys, Delete(c, k)
      PROVE  TunnelInv'
  <2>1. DOMAIN mm' = DOMAIN mm \ {k} /\ deleted' = deleted \cup {k}
        /\ UNCHANGED tun
    BY <1>6, DropAccount DEF Delete, TypeOK
  <2> QED BY <1>1, <2>1
<1>7. ASSUME NEW c \in Tunnels, NEW k \in Keys, Validate(c, k)
      PROVE  TunnelInv'
  BY <1>7 DEF Validate, TypeOK, Callers, ghosts
<1>8. ASSUME NEW c \in Tunnels, NEW n \in Amounts, Consume(c, n)
      PROVE  TunnelInv'
  <2>1. DOMAIN mm' = DOMAIN mm \cup {tun[c]} /\ UNCHANGED deleted
    BY <1>8 DEF Consume, ConsumeKey, Set
  <2>2. \A d \in Callers : tun'[d] \in {tun[d], NoKey}
    BY <1>8 DEF Consume, TypeOK
  <2> QED BY <2>1, <2>2
<1>9. CASE Crash
  BY <1>9 DEF Crash
<1> QED
  BY <1>3, <1>4, <1>5, <1>6, <1>7, <1>8, <1>9 DEF Next, BootAdd, AdminAdd, Callers

\* Until the app serves there is nothing to carry out.
LEMMA NothingWhileRestoring ==
  ASSUME TypeInv, life \in {"down", "restoring"}, NEW k \in Keys
  PROVE  Nothing(pending, ch, task, k) /\ deleted = {} /\ ~up
<1>1. ch = <<>> /\ worker = "none" /\ deleted = {} /\ ~up
  BY DEF TypeInv, StageInv
<1>2. \A c \in Callers : pending[c] = NoTask
  BY DEF TypeInv, StageInv, Callers
<1>3. task = NoTask
  BY <1>1 DEF TypeInv, WorkerInv
<1>4. ~InQueue(ch, k)
  BY <1>1 DEF InQueue
<1> QED BY <1>1, <1>2, <1>3, <1>4, NoTaskChangesNothing
        DEF Nothing, AtCall, ChangeTypes

\* Steps that concern neither a user nor a task.
LEMMA AgreementFrame ==
  ASSUME NEW k \in Keys, Agreement(k),
         UNCHANGED <<mm, deleted, pending, ch, task, storage, failed>>,
         Running' => Running,
         life' = "restoring" => life = "restoring" /\ UNCHANGED todo
  PROVE  Agreement(k)'
BY DEF Agreement, RestoredOn, AgreesOn, Settled

\* Adding a user, and what it means for the others.
LEMMA AgreementAdd ==
  ASSUME TypeInv, NEW k \in Keys, Agreement(k), NEW c \in Callers, NEW j \in Keys,
         Add(c, j), life' = life, life # "restoring"
  PROVE  Agreement(k)'
<1>1. /\ DOMAIN mm' = DOMAIN mm \cup {j} /\ deleted' = deleted \ {j}
      /\ UNCHANGED <<up, ch, task, storage, failed>>
  BY AddType DEF Add, TypeInv
<1> SUFFICES ASSUME Running PROVE AgreesOn(k)'
  BY <1>1 DEF Agreement, Running
<1>2. AgreesOn(k)
  BY DEF Agreement
<1>3. /\ Latest(pending', ch, task, "Add", j)
      /\ \A T \in ChangeTypes : k # j /\ Latest(pending, ch, task, T, k) =>
           Latest(pending', ch, task, T, k)
      /\ k # j /\ Nothing(pending, ch, task, k) => Nothing(pending', ch, task, k)
  BY CallIsLatest DEF Add, Free, Running, TypeInv, ChangeTypes
<1>4. CASE k = j
  BY <1>1, <1>3, <1>4 DEF AgreesOn
<1>5. CASE k # j
  <2>1. (k \in DOMAIN mm' <=> k \in DOMAIN mm) /\ (k \in deleted' <=> k \in deleted)
    BY <1>1, <1>5
  <2> QED BY <1>1, <1>2, <1>3, <1>5, <2>1 DEF AgreesOn, Settled, ChangeTypes
<1> QED BY <1>4, <1>5

LEMMA AgreementDelete ==
  ASSUME TypeInv, NEW k \in Keys, Agreement(k), NEW c \in Admins, NEW j \in Keys,
         Delete(c, j)
  PROVE  Agreement(k)'
<1>1. /\ DOMAIN mm' = DOMAIN mm \ {j} /\ deleted' = deleted \cup {j}
      /\ UNCHANGED <<life, up, ch, task, storage, failed>>
      /\ c \in Callers /\ life # "restoring"
  BY DropAccount DEF Delete, TypeInv, TypeOK, Callers, Serving
<1> SUFFICES ASSUME Running PROVE AgreesOn(k)'
  BY <1>1 DEF Agreement, Running
<1>2. AgreesOn(k)
  BY DEF Agreement
<1>3. /\ Latest(pending', ch, task, "Delete", j)
      /\ \A T \in ChangeTypes : k # j /\ Latest(pending, ch, task, T, k) =>
           Latest(pending', ch, task, T, k)
      /\ k # j /\ Nothing(pending, ch, task, k) => Nothing(pending', ch, task, k)
  BY <1>1, CallIsLatest DEF Delete, Free, Running, TypeInv, ChangeTypes
<1>4. CASE k = j
  BY <1>1, <1>3, <1>4 DEF AgreesOn
<1>5. CASE k # j
  <2>1. (k \in DOMAIN mm' <=> k \in DOMAIN mm) /\ (k \in deleted' <=> k \in deleted)
    BY <1>1, <1>5
  <2> QED BY <1>1, <1>2, <1>3, <1>5, <2>1 DEF AgreesOn, Settled, ChangeTypes
<1> QED BY <1>4, <1>5

\* A tunnel's traffic may bring its user back to memory, but only a deleted one.
LEMMA AgreementConsume ==
  ASSUME TypeInv, TunnelInv, NEW k \in Keys, Agreement(k),
         NEW c \in Tunnels, NEW n \in Amounts, Consume(c, n)
  PROVE  Agreement(k)'
<1>1. /\ DOMAIN mm' = DOMAIN mm \cup {tun[c]} /\ tun[c] \in DOMAIN mm \cup deleted
      /\ UNCHANGED <<life, up, ch, task, storage, failed, deleted>>
      /\ c \in Callers /\ life # "restoring"
  BY DEF Consume, ConsumeKey, Set, Callers, Serving, TunnelInv
<1> SUFFICES ASSUME Running PROVE AgreesOn(k)'
  BY <1>1 DEF Agreement, Running
<1>2. AgreesOn(k)
  BY DEF Agreement
<1>3. /\ \A T \in ChangeTypes : Latest(pending, ch, task, T, k) =>
           Latest(pending', ch, task, T, k)
      /\ Nothing(pending, ch, task, k) => Nothing(pending', ch, task, k)
  <2> DEFINE t == MkTask("Consume", tun[c], n)
  <2>1. t.type = "Consume" /\ Forward(c, t) /\ pending[c] = NoTask
    BY DEF Consume, MkTask
  <2> HIDE DEF t
  <2> QED BY <1>1, <2>1, ConsumeChangesNothing DEF TypeInv
<1>4. /\ k \in DOMAIN mm' \ deleted' <=> k \in DOMAIN mm \ deleted
      /\ k \notin DOMAIN mm' \cup deleted' => k \notin DOMAIN mm \cup deleted
      /\ k \in deleted' <=> k \in deleted
  BY <1>1
<1> QED BY <1>1, <1>2, <1>3, <1>4 DEF AgreesOn, Settled, ChangeTypes

LEMMA AgreementSend ==
  ASSUME TypeInv, Undisputed, NEW k \in Keys, Agreement(k),
         NEW c \in Callers, Send(c)
  PROVE  Agreement(k)'
<1>1. /\ UNCHANGED <<life, mm, up, task, todo, storage, deleted, failed>>
      /\ pending[c] \in Task /\ Taken(c) /\ ch' = Append(ch, pending[c])
  BY DEF Send, Taken, TypeInv, TypeOK, ghosts
<1>2. /\ \A T \in ChangeTypes : Latest(pending, ch, task, T, k) =>
           Latest(pending', ch', task, T, k)
      /\ Nothing(pending, ch, task, k) => Nothing(pending', ch', task, k)
  BY <1>1, SendKeepsOrder DEF TypeInv
<1> QED BY <1>1, <1>2
        DEF Agreement, Running, RestoredOn, AgreesOn, Settled, ChangeTypes

LEMMA AgreementReceive ==
  ASSUME TypeInv, NEW k \in Keys, Agreement(k), Receive
  PROVE  Agreement(k)'
<1>1. /\ UNCHANGED <<life, mm, up, todo, pending, storage, deleted, failed>>
      /\ task = NoTask /\ ch \in Seq(Task) /\ ch # <<>>
      /\ ch' = Tail(ch) /\ task' = Head(ch)
  BY DEF Receive, TypeInv, TypeOK, WorkerInv, ghosts
<1>2. /\ \A T \in ChangeTypes : Latest(pending, ch, task, T, k) =>
           Latest(pending, ch', task', T, k)
      /\ Nothing(pending, ch, task, k) => Nothing(pending, ch', task', k)
  BY <1>1, ReceiveKeepsOrder
<1> QED BY <1>1, <1>2
        DEF Agreement, Running, RestoredOn, AgreesOn, Settled, ChangeTypes

\* The task that is applied settles its user, or fails and is noted.
LEMMA AgreementApply ==
  ASSUME TypeInv, NEW k \in Keys, Agreement(k), Apply
  PROVE  Agreement(k)'
<1>1. /\ UNCHANGED <<life, mm, up, ch, todo, pending, deleted>>
      /\ task \in Task /\ task' = NoTask /\ IsTotals(storage)
      /\ worker = "busy" /\ (Done \/ NotDone)
  BY DEF Apply, TypeInv, TypeOK, WorkerInv
<1>2. life # "restoring"
  BY <1>1 DEF TypeInv, StageInv
<1> SUFFICES ASSUME Running PROVE AgreesOn(k)'
  BY <1>1, <1>2 DEF Agreement, Running
<1>3. AgreesOn(k)
  BY DEF Agreement
<1>4. /\ \A T \in ChangeTypes : Latest(pending, ch, task, T, k) =>
           \/ Latest(pending, ch, NoTask, T, k)
           \/ Is(task, T, k) /\ Nothing(pending, ch, NoTask, k)
      /\ Nothing(pending, ch, task, k) => Nothing(pending, ch, NoTask, k)
  BY ApplyKeepsOrder
<1>5. /\ task.type \in {"Add", "Delete", "Consume"} /\ task.key \in Keys
      /\ task.amount \in Nat
  BY <1>1, TaskType
<1>6. /\ DOMAIN StoreAdd(storage, task.key) = DOMAIN storage \cup {task.key}
      /\ DOMAIN StoreDelete(storage, task.key) = DOMAIN storage \ {task.key}
      /\ DOMAIN StoreConsume(storage, task.key, task.amount) = DOMAIN storage
  BY <1>1, <1>5, StoreAddAccount, StoreDeleteAccount, StoreConsumeAccount
<1>7. Is(task, "Add", k) => k \in failed' \cup DOMAIN storage'
  BY <1>1, <1>6 DEF Done, NotDone, Is
<1>8. Is(task, "Delete", k) => k \in failed' \/ k \notin DOMAIN storage'
  BY <1>1, <1>6 DEF Done, NotDone, Is
<1>9. ~Changes(task, k) => /\ k \in DOMAIN storage' <=> k \in DOMAIN storage
                           /\ k \in failed' <=> k \in failed
  BY <1>1, <1>5, <1>6 DEF Done, NotDone, Changes, Is
<1>10. ASSUME NEW known \in BOOLEAN, Settled(k, known)
       PROVE  Settled(k, known)'
  BY <1>1, <1>4, <1>9, <1>10 DEF Settled, Nothing
<1>11. Latest(pending, ch, task, "Add", k) =>
         Latest(pending, ch, task, "Add", k)' \/ Settled(k, TRUE)'
  BY <1>1, <1>4, <1>7 DEF Settled, ChangeTypes
<1>12. Latest(pending, ch, task, "Delete", k) =>
         Latest(pending, ch, task, "Delete", k)' \/ Settled(k, FALSE)'
  BY <1>1, <1>4, <1>8 DEF Settled, ChangeTypes
<1> QED BY <1>1, <1>3, <1>10, <1>11, <1>12 DEF AgreesOn

LEMMA AgreementNext ==
  ASSUME TypeInv, TunnelInv, Undisputed, [Next]_vars, NEW k \in Keys, Agreement(k)
  PROVE  Agreement(k)'
<1>1. ASSUME NEW persist \in PersistModes, Provision(persist)
      PROVE  Agreement(k)'
  <2>1. ~up' /\ DOMAIN mm' = {} /\ UNCHANGED storage
    BY <1>1 DEF Provision, TypeInv, StageInv
  <2>2. life' = "restoring" => todo' = DOMAIN storage
    BY <1>1 DEF Provision
  <2> QED BY <2>1, <2>2 DEF Agreement, RestoredOn, Running
<1>2. ASSUME NEW j \in Keys, RestoreKey(j)
      PROVE  Agreement(k)'
  <2>1. /\ life = "restoring" /\ life' = "restoring" /\ ~up'
        /\ j \in DOMAIN storage /\ todo' = todo \ {j}
        /\ UNCHANGED <<storage, failed>>
    BY <1>2 DEF RestoreKey, TypeInv, StageInv, ghosts
  <2>2. DOMAIN mm' = DOMAIN mm \cup {j}
    BY <1>2 DEF RestoreKey, ConsumeKey, AddKey, Set
  <2> QED BY <2>1, <2>2 DEF Agreement, RestoredOn, Running
<1>3. ASSUME NEW S, SkipKeys(S)
      PROVE  Agreement(k)'
  <2>1. /\ life = "restoring" /\ life' = "restoring" /\ ~up'
        /\ todo' = todo \ S /\ failed' = failed \cup S
        /\ UNCHANGED <<storage, mm>>
    BY <1>3 DEF SkipKeys, TypeInv, StageInv
  <2> QED BY <2>1 DEF Agreement, RestoredOn, Running
<1>4. CASE Restored
  <2>1. /\ life = "restoring" /\ todo = {} /\ life' = "loading"
        /\ UNCHANGED <<mm, deleted, pending, ch, task, storage, failed>>
    BY <1>4 DEF Restored, ghosts
  <2>2. Nothing(pending, ch, task, k) /\ deleted = {}
    BY <2>1, NothingWhileRestoring
  <2>3. /\ k \in DOMAIN storage => k \in DOMAIN mm \cup failed
        /\ k \in DOMAIN mm => k \in DOMAIN storage
    BY <2>1 DEF Agreement, RestoredOn
  <2> QED BY <2>1, <2>2, <2>3 DEF Agreement, AgreesOn, Settled
<1>5. CASE \/ LoadProxies \/ LoadProxiesFails \/ Booted
           \/ (\E c \in Tunnels, j \in Keys : Validate(c, j))
           \/ WorkerExit \/ Cleanup \/ UNCHANGED vars
  BY <1>5, AgreementFrame DEF LoadProxies, LoadProxiesFails, Booted, Validate,
     WorkerExit, Cleanup, Running, vars, ghosts
<1>6. ASSUME NEW j \in Keys, BootAdd(j)
      PROVE  Agreement(k)'
  <2>1. Add(App, j) /\ App \in Callers /\ life' = life /\ life # "restoring"
    BY <1>6 DEF BootAdd, Add, Callers
  <2> QED BY <2>1, AgreementAdd
<1>7. ASSUME NEW c \in Admins, NEW j \in Keys, AdminAdd(c, j)
      PROVE  Agreement(k)'
  <2>1. Add(c, j) /\ c \in Callers /\ life' = life /\ life # "restoring"
    BY <1>7 DEF AdminAdd, Serving, Add, Callers
  <2> QED BY <2>1, AgreementAdd
<1>8. ASSUME NEW c \in Callers, SendOnClosed(c)
      PROVE  Agreement(k)'
  <2>1. life \notin {"restoring", "loading", "boot", "up"} /\ life' = life
    BY <1>8 DEF SendOnClosed, TypeInv, StageInv, Callers
  <2> QED BY <2>1 DEF Agreement, Running
<1>9. CASE Crash
  BY <1>9 DEF Crash, Agreement, Running
<1> QED
  BY <1>1, <1>2, <1>3, <1>4, <1>5, <1>6, <1>7, <1>8, <1>9, AgreementDelete,
     AgreementConsume, AgreementSend, AgreementReceive, AgreementApply DEF Next

LEMMA AgreementInvariant == Spec /\ []Undisputed => []AgreementInv
<1> DEFINE Inv == TypeInv /\ AgreementInv
<1>1. Init => Inv
  BY TypeInit, AgreementInit
<1>2. Inv /\ Undisputed /\ [Next]_vars => Inv'
  <2> SUFFICES ASSUME Inv, Undisputed, [Next]_vars PROVE Inv'
    OBVIOUS
  <2>1. TunnelInv'
    BY TunnelNext DEF AgreementInv
  <2>2. \A k \in Keys : Agreement(k)'
    BY AgreementNext DEF AgreementInv
  <2> QED BY <2>1, <2>2, TypeNext DEF AgreementInv
<1>3. Inv => AgreementInv
  OBVIOUS
<1> HIDE DEF Inv
<1> QED BY <1>1, <1>2, <1>3, PTL DEF Spec

\* A task that is the latest to change a user is under way.
LEMMA LatestIsUnderWay ==
  ASSUME TypeOK, NEW k \in Keys, NEW T \in ChangeTypes,
         Latest(pending, ch, task, T, k)
  PROVE  UnderWay(T, k)
<1>1. \A i \in DOMAIN ch : ch[i] \in InFlight
  BY DEF InFlight, ToSet
<1>2. \A c \in Callers : pending[c] \in InFlight
  BY DEF InFlight
<1>3. task \in InFlight
  BY DEF InFlight
<1> QED BY <1>1, <1>2, <1>3 DEF Latest, LastInQueue, UnderWay, Is

LEMMA AgreementImplies ==
  ASSUME TypeOK, AgreementInv
  PROVE  UsersAgree
<1> SUFFICES ASSUME life = "up", up, NEW k \in Keys \ failed
             PROVE  /\ k \in DOMAIN storage =>
                         \/ k \in DOMAIN mm /\ k \notin deleted
                         \/ UnderWay("Delete", k)
                    /\ k \in DOMAIN mm =>
                         k \in DOMAIN storage \cup deleted \/ UnderWay("Add", k)
  BY DEF UsersAgree
<1>1. AgreesOn(k)
  BY DEF AgreementInv, Agreement, Running
<1>2. \A T \in ChangeTypes : Latest(pending, ch, task, T, k) => UnderWay(T, k)
  BY LatestIsUnderWay
<1> QED BY <1>1, <1>2 DEF AgreesOn, Settled, ChangeTypes

\* However many admin requests there are: as long as no two of them are about to
\* send an Add or Delete of the same user at a time, memory and storage agree on
\* who is a user.
THEOREM UsersAgreeWhileUndisputed == Spec /\ []Undisputed => []UsersAgree
<1>1. TypeInv /\ AgreementInv => UsersAgree
  BY AgreementImplies DEF TypeInv
<1> QED BY <1>1, TypeInvariant, AgreementInvariant, PTL

\* With one admin request at a time no user is disputed: while the configured
\* users are added there are no admin requests.
LEMMA OneAdminUndisputed ==
  ASSUME TypeInv, \A a, b \in Admins : a = b
  PROVE  Undisputed
<1> SUFFICES ASSUME NEW c \in Callers, NEW d \in Callers, NEW k \in Keys,
                    Changes(pending[c], k), Changes(pending[d], k)
             PROVE  c = d
  BY DEF Undisputed
<1>1. pending[c] # NoTask /\ pending[d] # NoTask
  BY NoTaskChangesNothing DEF ChangeTypes
<1>2. c \notin Tunnels /\ d \notin Tunnels
  BY DEF TypeInv, StageInv, Changes, Is
<1>3. c = App <=> life = "boot"
  BY <1>1, <1>2 DEF TypeInv, StageInv, Callers
<1>4. d = App <=> life = "boot"
  BY <1>1, <1>2 DEF TypeInv, StageInv, Callers
<1> QED BY <1>2, <1>3, <1>4 DEF Callers

\* With one admin request at a time, memory and storage agree on who is a user.
THEOREM UsersAgreeWithOneAdmin ==
  ASSUME \A a, b \in Admins : a = b
  PROVE  Spec => []UsersAgree
<1>1. TypeInv => Undisputed
  BY OneAdminUndisputed
<1> QED BY <1>1, TypeInvariant, UsersAgreeWhileUndisputed, PTL

-----------------------------------------------------------------------------
(* The storage changes as AtomicStore does, the abstract store that        *)
(* CaddyUpstream implements.                                               *)

Atomic == INSTANCE AtomicStore WITH store <- storage

\* Traffic on its way to the storage is what one connection reported: the totals
\* that are read from the storage at the start are not sent back to it.
Reported(t) == t.type = "Consume" => t.amount \in Amounts

ReportedInv ==
  /\ \A c \in Callers : Reported(pending[c])
  /\ \A i \in DOMAIN ch : Reported(ch[i])
  /\ Reported(task)

LEMMA ReportedTasks ==
  /\ Reported(NoTask)
  /\ \A k \in Keys : \A T \in ChangeTypes : Reported(MkTask(T, k, 0))
  /\ \A k \in Keys, n \in Amounts : Reported(MkTask("Consume", k, n))
BY DEF Reported, NoTask, MkTask, ChangeTypes

LEMMA ReportedNext ==
  ASSUME TypeInv, ReportedInv, [Next]_vars
  PROVE  ReportedInv'
<1> USE ReportedTasks DEF ReportedInv
<1>1. ASSUME UNCHANGED <<pending, ch, task>>
      PROVE  ReportedInv'
  BY <1>1
<1>2. CASE \/ \E persist \in PersistModes : Provision(persist)
           \/ \E j \in Keys : SkipKeys({j})
           \/ SkipKeys(todo) \/ Restored \/ LoadProxies \/ LoadProxiesFails
           \/ Booted
           \/ \E c \in Tunnels, j \in Keys : Validate(c, j)
           \/ WorkerExit \/ Cleanup \/ UNCHANGED vars
  BY <1>1, <1>2 DEF Provision, SkipKeys, Restored, LoadProxies,
     LoadProxiesFails, Booted, Validate, WorkerExit, Cleanup, vars, ghosts
<1>3. ASSUME NEW k \in Keys, RestoreKey(k)
      PROVE  ReportedInv'
  BY <1>1, <1>3 DEF RestoreKey, TypeInv, StageInv
<1>4. ASSUME NEW c \in Callers, NEW t, Reported(t), Forward(c, t),
             UNCHANGED <<ch, task>>
      PROVE  ReportedInv'
  <2>1. \A d \in Callers : pending'[d] \in {pending[d], t, NoTask}
    BY <1>4 DEF Forward, TypeInv, TypeOK
  <2> QED BY <1>4, <2>1
<1>5. ASSUME NEW c \in Callers, NEW k \in Keys,
             Add(c, k) \/ (c \in Admins /\ Delete(c, k))
      PROVE  ReportedInv'
  BY <1>4, <1>5 DEF Add, Delete, ChangeTypes
<1>6. ASSUME NEW c \in Tunnels, NEW n \in Amounts, Consume(c, n)
      PROVE  ReportedInv'
  <2>1. tun[c] \in Keys /\ c \in Callers
    BY <1>6 DEF Consume, TypeInv, TypeOK, Callers
  <2> QED BY <1>4, <1>6, <2>1 DEF Consume
<1>7. ASSUME NEW c \in Callers, Send(c) \/ SendOnClosed(c)
      PROVE  ReportedInv'
  <2>1. \A d \in Callers : pending'[d] \in {pending[d], NoTask}
    BY <1>7 DEF Send, SendOnClosed, TypeInv, TypeOK
  <2>2. \A i \in DOMAIN ch' : Reported(ch'[i])
    <3>1. CASE SendOnClosed(c)
      BY <3>1 DEF SendOnClosed
    <3>2. CASE Send(c)
      <4>1. /\ pending[c] \in Task /\ ch \in Seq(Task)
            /\ ch' = Append(ch, pending[c])
        BY <3>2 DEF Send, TypeInv, TypeOK
      <4>2. \A i \in DOMAIN ch' : IF i \in DOMAIN ch THEN ch'[i] = ch[i]
                                  ELSE ch'[i] = pending[c]
        BY <4>1
      <4> QED BY <4>2
    <3> QED BY <1>7, <3>1, <3>2
  <2> QED BY <1>7, <2>1, <2>2 DEF Send, SendOnClosed
<1>8. CASE Receive
  <2>1. ch \in Seq(Task) /\ ch # <<>> /\ ch' = Tail(ch) /\ task' = Head(ch)
        /\ UNCHANGED pending
    BY <1>8 DEF Receive, TypeInv, TypeOK
  <2>2. 1 \in DOMAIN ch /\ task' = ch[1]
    BY <2>1
  <2>3. \A i \in DOMAIN ch' : i + 1 \in DOMAIN ch /\ ch'[i] = ch[i + 1]
    BY <2>1
  <2> QED BY <2>1, <2>2, <2>3
<1>9. CASE Apply
  BY <1>9 DEF Apply
<1>10. CASE Crash
  BY <1>10 DEF Crash
<1>11. \A k \in Keys : BootAdd(k) => ReportedInv'
  BY <1>5 DEF BootAdd, Callers
<1>12. \A c \in Admins, k \in Keys : AdminAdd(c, k) \/ Delete(c, k) => ReportedInv'
  BY <1>5 DEF AdminAdd, Callers
<1> QED
  BY <1>2, <1>3, <1>6, <1>7, <1>8, <1>9, <1>10, <1>11, <1>12 DEF Next

\* Only the worker writes to the storage, and each of its tasks is one operation
\* of AtomicStore, or none when it fails.
LEMMA StorageStep ==
  ASSUME TypeInv, ReportedInv, [Next]_vars
  PROVE  \/ storage' = storage
         \/ \E k \in Keys :
              \/ storage' = StoreAdd(storage, k)
              \/ storage' = StoreDelete(storage, k)
              \/ \E n \in Amounts : storage' = StoreConsume(storage, k, n)
<1>1. CASE Apply
  <2>1. /\ task \in Task /\ Reported(task)
        /\ task.key \in Keys /\ task.type \in {"Add", "Delete", "Consume"}
    BY <1>1, TaskType DEF Apply, TypeInv, WorkerInv, ReportedInv
  <2>2. CASE Done
    <3>1. \/ storage' = StoreAdd(storage, task.key)
          \/ storage' = StoreDelete(storage, task.key)
          \/ /\ task.type = "Consume"
             /\ storage' = StoreConsume(storage, task.key, task.amount)
      BY <2>1, <2>2 DEF Done
    <3> QED BY <2>1, <3>1 DEF Reported
  <2> QED BY <1>1, <2>2 DEF Apply, NotDone
<1>2. CASE ~Apply
  BY <1>2 DEF Next, Provision, RestoreKey, SkipKeys, BootAdd, Restored,
     LoadProxies, LoadProxiesFails, Booted, AdminAdd, Add, Delete, Validate,
     Consume, Send, SendOnClosed, Receive, WorkerExit, Cleanup, Crash, vars
<1> QED BY <1>1, <1>2

\* The store asks nothing of its persistent upstream but the operations of
\* AtomicStore on users and amounts of the system, one at a time, over any number
\* of crashes and restarts: what CaddyUpstream is shown to implement is what the
\* other theorems of this module are about.
THEOREM StorageIsAtomic == Spec => Atomic!Spec
<1>1. Init => Atomic!Init
  BY ConstantsAssumption DEF Init, Atomic!Init
<1>2. Init => ReportedInv
  BY ReportedTasks DEF Init, ReportedInv
<1>3. TypeInv /\ ReportedInv /\ [Next]_vars => ReportedInv'
  BY ReportedNext
<1>4. TypeInv /\ ReportedInv /\ [Next]_vars => [Atomic!Next]_storage
  BY StorageStep DEF Atomic!Next, Atomic!StoreAdd, Atomic!StoreDelete,
     Atomic!StoreConsume, Atomic!Set, Atomic!DropKey, StoreAdd, StoreDelete,
     StoreConsume, Set, DropKey
<1> QED BY <1>1, <1>2, <1>3, <1>4, TypeInvariant, PTL DEF Spec, Atomic!Spec

-----------------------------------------------------------------------------
(* No task is abandoned.                                                   *)

\* Someone is there for every task while the process lives: a call that is about
\* to send finds the channel closed, so that it returns, or has a worker that
\* receives from it; and the worker does not end before the channel is empty, nor
\* does it come to be sent to after that.
TasksAreServed ==
  /\ \A c \in Callers : pending[c] # NoTask =>
       chan = "closed" \/ (chan = "open" /\ worker \in {"receiving", "busy"})
  /\ ch # <<>> => worker \in {"receiving", "busy"}

\* u.up, u.ch and the worker are there together: until then no call leaves a task,
\* and the worker ends only when the channel is closed and empty.
ServedInv ==
  /\ up <=> worker # "none"
  /\ up => chan # "nil"
  /\ worker = "done" => chan = "closed" /\ ch = <<>>
  /\ ~up => ch = <<>> /\ \A c \in Callers : pending[c] = NoTask

LEMMA ServedNext ==
  ASSUME TypeInv, ServedInv, [Next]_vars
  PROVE  ServedInv'
<1> USE DEF ServedInv
<1>1. CASE \/ \E persist \in PersistModes : Provision(persist)
           \/ \E k \in Keys : SkipKeys({k})
           \/ SkipKeys(todo) \/ LoadProxies \/ LoadProxiesFails \/ Booted
           \/ \E c \in Tunnels, k \in Keys : Validate(c, k)
           \/ WorkerExit \/ Cleanup \/ UNCHANGED vars
  BY <1>1 DEF Provision, SkipKeys, LoadProxies, LoadProxiesFails, Booted, Validate,
     WorkerExit, Cleanup, vars, ghosts, TypeInv, StageInv
<1>2. ASSUME NEW k \in Keys, RestoreKey(k)
      PROVE  ServedInv'
  BY <1>2 DEF RestoreKey, TypeInv, StageInv
<1>3. CASE Restored
  BY <1>3 DEF Restored, TypeInv, StageInv, ghosts
<1>4. ASSUME NEW c \in Callers, NEW t, Forward(c, t), UNCHANGED <<up, worker, chan, ch>>
      PROVE  ServedInv'
  <2>1. ~up => \A d \in Callers : pending'[d] = NoTask
    BY <1>4 DEF Forward, TypeInv, TypeOK
  <2> QED BY <1>4, <2>1
<1>5. ASSUME NEW c \in Callers, NEW k \in Keys,
             Add(c, k) \/ (c \in Admins /\ Delete(c, k))
      PROVE  ServedInv'
  BY <1>4, <1>5 DEF Add, Delete
<1>6. ASSUME NEW c \in Tunnels, NEW n \in Amounts, Consume(c, n)
      PROVE  ServedInv'
  BY <1>4, <1>6 DEF Consume, Callers
<1>7. ASSUME NEW c \in Callers, Send(c) \/ SendOnClosed(c)
      PROVE  ServedInv'
  <2>1. up /\ UNCHANGED <<up, worker, chan>>
    BY <1>7 DEF Send, SendOnClosed
  <2>2. worker = "done" => ch' = ch
    BY <1>7 DEF Send, SendOnClosed
  <2> QED BY <2>1, <2>2
<1>8. CASE Receive
  BY <1>8 DEF Receive
<1>9. CASE Apply
  BY <1>9 DEF Apply
<1>10. CASE Crash
  BY <1>10 DEF Crash
<1>11. \A k \in Keys : BootAdd(k) => ServedInv'
  BY <1>5 DEF BootAdd, Callers
<1>12. \A c \in Admins, k \in Keys : AdminAdd(c, k) \/ Delete(c, k) => ServedInv'
  BY <1>5 DEF AdminAdd, Callers
<1> QED
  BY <1>1, <1>2, <1>3, <1>6, <1>7, <1>8, <1>9, <1>10, <1>11, <1>12 DEF Next

\* What CallsReturnAndDrain rests on, for any number of callers and any capacity of
\* the channel, whatever the storage answers and wherever a start fails: no call
\* waits at a channel that nobody will receive from, and no queued task is left
\* behind by the worker.
THEOREM NoTaskIsAbandoned == Spec => []TasksAreServed
<1>1. Init => ServedInv
  BY DEF Init, ServedInv
<1>2. TypeInv /\ ServedInv /\ [Next]_vars => ServedInv'
  BY ServedNext
<1>3. TypeInv /\ ServedInv => TasksAreServed
  BY DEF TypeInv, TypeOK, ServedInv, TasksAreServed
<1> QED BY <1>1, <1>2, <1>3, TypeInvariant, PTL DEF Spec
=============================================================================

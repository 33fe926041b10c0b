---------------------------- MODULE AccountStore ----------------------------
(***************************************************************************)
(* Accounts of traffic: functions from the users that are known to their   *)
(* totals, and what the operations of a persistent upstream do to one.     *)
(* MemoryUpstream keeps one in memory and uses another as its storage;     *)
(* AtomicStore is the specification of that storage, which CaddyUpstream   *)
(* implements.                                                             *)
(***************************************************************************)
EXTENDS Integers

Set(m, k, n) == [j \in DOMAIN m \cup {k} |-> IF j = k THEN n ELSE m[j]]
DropKey(m, k) == [j \in DOMAIN m \ {k} |-> m[j]]
Total(m, k) == IF k \in DOMAIN m THEN m[k] ELSE 0

\* Add: a user who has a record keeps it.
StoreAdd(s, k) == IF k \in DOMAIN s THEN s ELSE Set(s, k, 0)

StoreDelete(s, k) == IF k \in DOMAIN s THEN DropKey(s, k) ELSE s

\* Mutant: a missing record is created, as MemoryUpstream.Consume does.
StoreConsumeCreating(s, k, n) == Set(s, k, Total(s, k) + n)

\* Consume: a user without a record is an error and nothing is written.
StoreConsume(s, k, n) == IF k \in DOMAIN s THEN Set(s, k, s[k] + n) ELSE s
=============================================================================

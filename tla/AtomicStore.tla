----------------------------- MODULE AtomicStore -----------------------------
(***************************************************************************)
(* What a persistent upstream promises to MemoryUpstream: accounts on      *)
(* which Add, Delete and Consume act in one step or, when they fail, not   *)
(* at all.                                                                 *)
(***************************************************************************)
EXTENDS AccountStore

CONSTANTS
    Keys,           \* users
    Amounts         \* traffic one Consume may report

VARIABLE store

Init == \E S \in SUBSET Keys : store = [k \in S |-> 0]

Next ==
    \E k \in Keys :
        \/ store' = StoreAdd(store, k)
        \/ store' = StoreDelete(store, k)
        \/ \E n \in Amounts : store' = StoreConsume(store, k, n)

Spec == Init /\ [][Next]_store
=============================================================================

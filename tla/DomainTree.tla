----------------------------- MODULE DomainTree -----------------------------
(***************************************************************************)
(* The tree of blocked domains of pkgs/domaintree, as BlockDomain of       *)
(* app/proxy.go uses it: Provision puts the entries of the configuration's *)
(* list one by one, and each Dial asks for a name.                         *)
(*                                                                         *)
(* A domain is the sequence of its labels as strings.Split leaves them,    *)
(* never empty.  The tree is walked from the last label to the first.  A   *)
(* node is a function from labels to nodes; "**" at the front of an entry  *)
(* is stored as a nil node.                                                *)
(***************************************************************************)
EXTENDS Integers, SequencesExt

CONSTANTS
    Labels,         \* labels of the entries
    Others,         \* labels that only names have
    MaxLabels,      \* bound on the labels of a domain
    MaxEntries,     \* bound on the entries of the list
    Nil             \* the nil node

VARIABLES
    node,           \* the root
    listed,         \* ghost: the entries put so far
    panicked        \* a nil node was dereferenced

vars == <<node, listed, panicked>>

Domains(L) == UNION {[1 .. n -> L] : n \in 1 .. MaxLabels}
Entries == Domains(Labels \cup {"*", "**"})
Names == Domains(Labels \cup Others \cup {"*", "**"})

NewNode == [l \in {} |-> Nil]
With(nd, k, v) == [l \in DOMAIN nd \cup {k} |-> IF l = k THEN v ELSE nd[l]]
NextOf(nd, k) == IF k \in DOMAIN nd THEN nd[k] ELSE NewNode

\* Mutant: an entry replaces the node of a longer one.
RECURSIVE StoreOver(_, _)
StoreOver(nd, ks) ==
    LET k == Last(ks) IN
    IF Len(ks) > 1 THEN With(nd, k, StoreOver(NextOf(nd, k), Front(ks)))
    ELSE With(nd, k, IF k = "**" THEN Nil ELSE NewNode)

\* Mutant: the node of a shared label is made anew.
RECURSIVE StoreAnew(_, _)
StoreAnew(nd, ks) ==
    LET k == Last(ks) IN
    IF Len(ks) > 1 THEN With(nd, k, StoreAnew(NewNode, Front(ks)))
    ELSE With(nd, k, IF k = "**" THEN Nil ELSE NextOf(nd, k))

RECURSIVE store(_, _)
store(nd, ks) ==
    LET k == Last(ks) IN
    IF Len(ks) > 1 THEN With(nd, k, store(NextOf(nd, k), Front(ks)))
    ELSE With(nd, k, IF k = "**" THEN Nil ELSE NextOf(nd, k))

\* The way of ks leads to a nil node and on.
RECURSIVE ThroughNil(_, _)
ThroughNil(nd, ks) ==
    \/ nd = Nil
    \/ Len(ks) > 1 /\ Last(ks) \in DOMAIN nd /\ ThroughNil(nd[Last(ks)], Front(ks))

\* Mutant: a wildcard goes before an exact label.
RECURSIVE LoadStarFirst(_, _)
LoadStarFirst(nd, ks) ==
    LET k == Last(ks) IN
    CASE nd = Nil -> "panic"
      [] nd # Nil /\ Len(ks) > 1 /\ "*" \in DOMAIN nd -> LoadStarFirst(nd["*"], Front(ks))
      [] nd # Nil /\ Len(ks) > 1 /\ "*" \notin DOMAIN nd /\ k \in DOMAIN nd ->
            LoadStarFirst(nd[k], Front(ks))
      [] OTHER -> IF DOMAIN nd \cap {k, "*", "**"} = {} THEN "free" ELSE "blocked"

\* No way back: once an exact label is taken, a wildcard beside it is not tried.
RECURSIVE load(_, _)
load(nd, ks) ==
    LET k == Last(ks) IN
    CASE nd = Nil -> "panic"
      [] nd # Nil /\ Len(ks) > 1 /\ k \in DOMAIN nd -> load(nd[k], Front(ks))
      [] nd # Nil /\ Len(ks) > 1 /\ k \notin DOMAIN nd /\ "*" \in DOMAIN nd ->
            load(nd["*"], Front(ks))
      [] OTHER -> IF DOMAIN nd \cap {k, "*", "**"} = {} THEN "free" ELSE "blocked"

Get(name) == load(node, name)

Init == node = NewNode /\ listed = {} /\ panicked = FALSE

Put(domain) ==
    /\ ~panicked /\ Cardinality(listed \cup {domain}) <= MaxEntries
    /\ listed' = listed \cup {domain}
    /\ panicked' = ThroughNil(node, domain)
    /\ node' = IF panicked' THEN node ELSE store(node, domain)

Next == \E domain \in Entries : Put(domain)

Spec == Init /\ [][Next]_vars

-----------------------------------------------------------------------------
(* Reference: the list alone, entries read from the last label.            *)

Ways == {Reverse(e) : e \in listed}
Hidden(q) == \E w \in Ways : Last(w) = "**" /\ IsStrictPrefix(w, q)

\* What the list spells out, less what is below an entry that begins with "**".
Known == {q \in UNION {{SubSeq(w, 1, i) : i \in 1 .. Len(w)} : w \in Ways} : ~Hidden(q)}

\* q leads along r, at each label by the most specific way that is known.
Leads(q, r) ==
    /\ Len(q) <= Len(r)
    /\ \A i \in 1 .. Len(q) :
        LET Has(k) == Append(SubSeq(q, 1, i - 1), k) \in Known IN
        \/ q[i] = r[i]
        \/ q[i] = "*" /\ ~Has(r[i])
        \/ q[i] = "**" /\ ~Has(r[i]) /\ ~Has("*") /\ i = Len(q)

Reaches(q, r) == Leads(q, r) /\ (Len(q) = Len(r) \/ (Last(q) = "**" /\ r[Len(q)] # "**"))

-----------------------------------------------------------------------------
(* Properties.                                                             *)

RECURSIVE Paths(_)
Paths(nd) ==
    IF nd = Nil THEN {}
    ELSE UNION {{<<k>>} \cup {<<k>> \o q : q \in Paths(nd[k])} : k \in DOMAIN nd}

\* The tree holds what its entries spell out and nothing else, whatever the order
\* in which they were put; building it fails only on an entry below "**" (put before
\* its "**" such an entry is overwritten instead).
TreeIsTheList ==
    IF panicked THEN \E w \in Ways : Hidden(w) ELSE Paths(node) = Known

\* A name is blocked when the most specific way that the list has along its labels
\* reaches its first label or ends in "**"; and a lookup goes wrong only for a
\* name that itself has a label "**".
MostSpecificDecides ==
    ~panicked => \A name \in Names :
        LET r == Reverse(name) IN
        /\ (Get(name) = "blocked") = \E q \in Known : Reaches(q, r)
        /\ Get(name) = "panic" => \E i \in 1 .. Len(r) : r[i] = "**"

\* One more entry lets a blocked name through only where it passes the name's
\* wildcard on a more specific way: it spells the same labels up to the wildcard
\* and then the name's own label, or "*" for "**".
FreedByMoreSpecificOnly ==
    [][~panicked' => \A name \in Names :
        Get(name) = "blocked" /\ Get(name)' = "free" =>
            LET r == Reverse(name) IN
            \E e \in listed' \ listed, q \in Known, i \in 1 .. Len(r) :
                LET w == Reverse(e) IN
                /\ Reaches(q, r) /\ i <= Len(q) /\ i <= Len(w)
                /\ SubSeq(w, 1, i - 1) = SubSeq(q, 1, i - 1)
                /\ q[i] \in {"*", "**"} /\ w[i] # q[i] /\ w[i] \in {r[i], "*"}]_vars
=============================================================================

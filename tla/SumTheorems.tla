---------------------------- MODULE SumTheorems ----------------------------
(***************************************************************************)
(* The sum of a function with a finite domain (SumFunction of the          *)
(* community module Functions): what it is for a function that is zero     *)
(* everywhere, and how it changes with one value, with an element at the   *)
(* end of a sequence and with the loss of the first.                       *)
(*                                                                         *)
(* Inductions are made with sets: a set of naturals has a least element    *)
(* (WFMin of the library), so one that holds 0 and every successor of an   *)
(* element is all of Nat.                                                  *)
(***************************************************************************)
EXTENDS Integers, Sequences, Functions, FiniteSetTheorems, WellFoundedInduction,
        TLAPS

-----------------------------------------------------------------------------
(* Induction.                                                              *)

\* A set of naturals that is not empty has a least element.
LEMMA LeastNatural ==
    ASSUME NEW T \in SUBSET Nat, T # {}
    PROVE  \E x \in T : \A y \in T : x <= y
<1> DEFINE R == OpToRel(<, Nat)
<1>1. IsWellFoundedOn(R, Nat)
    BY NatLessThanWellFounded
<1>2. \A x, y \in Nat : y < x => <<y, x>> \in R
    BY DEF OpToRel
<1> HIDE DEF R
<1>3. PICK x \in T : \A y \in T : ~(<<y, x>> \in R)
    BY <1>1, WFMin
<1>4. ASSUME NEW y \in T PROVE x <= y
    <2>1. x \in Nat /\ y \in Nat
        OBVIOUS
    <2>2. ~(y < x)
        BY <1>2, <1>3, <2>1
    <2> QED
        BY <2>1, <2>2
<1> QED
    BY <1>4

\* Induction over the naturals, for a property given as a set.
LEMMA NatSetInduction ==
    ASSUME NEW S \in SUBSET Nat, 0 \in S, \A n \in S : n + 1 \in S
    PROVE  S = Nat
<1> SUFFICES ASSUME Nat \ S # {} PROVE FALSE
    OBVIOUS
<1>1. PICK x \in Nat \ S : \A y \in Nat \ S : x <= y
    <2> Nat \ S \in SUBSET Nat
        OBVIOUS
    <2> QED
        BY LeastNatural
<1>2. x # 0 /\ x - 1 \in Nat
    BY <1>1
<1>3. x - 1 \in S
    BY <1>1, <1>2
<1>4. (x - 1) + 1 \in S
    BY <1>3
<1> QED
    BY <1>1, <1>4

\* Induction over the finite subsets of a finite set D, for a property given as
\* the set of subsets that have it: if a subset has it whenever those with one
\* element less do, all subsets do.
LEMMA SubsetInduction ==
    ASSUME NEW D, IsFiniteSet(D), NEW G \in SUBSET (SUBSET D), {} \in G,
           \A s \in SUBSET D : s # {} /\ (\A x \in s : s \ {x} \in G) => s \in G
    PROVE  G = SUBSET D
<1> DEFINE N == {n \in Nat : \A s \in SUBSET D : Cardinality(s) = n => s \in G}
<1>1. \A s \in SUBSET D : IsFiniteSet(s) /\ Cardinality(s) \in Nat
    BY FS_Subset, FS_CardinalityType
<1>2. 0 \in N
    BY <1>1, FS_EmptySet
<1>3. ASSUME NEW n \in N PROVE n + 1 \in N
    <2> SUFFICES ASSUME NEW s \in SUBSET D, Cardinality(s) = n + 1 PROVE s \in G
        OBVIOUS
    <2>1. s # {}
        BY <1>1, FS_EmptySet
    <2>2. ASSUME NEW x \in s PROVE s \ {x} \in G
        <3>1. Cardinality(s \ {x}) = Cardinality(s) - 1
            BY <1>1, FS_RemoveElement
        <3> QED
            BY <3>1
    <2> QED
        BY <2>1, <2>2
<1> HIDE DEF N
<1>4. N \in SUBSET Nat
    BY DEF N
<1>5. N = Nat
    BY <1>2, <1>3, <1>4, NatSetInduction
<1>6. ASSUME NEW s \in SUBSET D PROVE s \in G
    BY <1>1, <1>5 DEF N
<1> QED
    BY <1>6

-----------------------------------------------------------------------------
(* SumFunction as a recursive function.                                    *)

Pick(s) == CHOOSE x \in s : TRUE

\* g is the function by which SumFunction(w) is defined, on the sets of S.
IsIter(g, w, S) ==
    g = [s \in S |-> IF s = {} THEN 0 ELSE w[Pick(s)] + g[s \ {Pick(s)}]]

\* The sum of w over a subset of its domain.
PartialSum(w) == CHOOSE g : IsIter(g, w, SUBSET DOMAIN w)

LEMMA SumIsPartialSum ==
    ASSUME NEW w
    PROVE  SumFunction(w) = PartialSum(w)[DOMAIN w]
BY DEF SumFunction, SumFunctionOnSet, FoldFunctionOnSet, MapThenFoldSet,
       PartialSum, IsIter, Pick

\* There is such a function: on the sets of at most n elements for every n.
LEMMA IterExists ==
    ASSUME NEW w, IsFiniteSet(DOMAIN w)
    PROVE  \E g : IsIter(g, w, SUBSET DOMAIN w)
<1> DEFINE Small(n) == {s \in SUBSET DOMAIN w : Cardinality(s) <= n}
           N == {n \in Nat : \E g : IsIter(g, w, Small(n))}
<1>1. \A s \in SUBSET DOMAIN w : IsFiniteSet(s) /\ Cardinality(s) \in Nat
    BY FS_Subset, FS_CardinalityType
<1>2. \A s \in SUBSET DOMAIN w : s # {} => Pick(s) \in s
    BY DEF Pick
<1>3. 0 \in N
    <2>1. Small(0) = {{}}
        BY <1>1, FS_EmptySet
    <2>2. IsIter([s \in {{}} |-> 0], w, {{}})
        BY DEF IsIter
    <2> QED
        BY <2>1, <2>2
<1>4. ASSUME NEW n \in N PROVE n + 1 \in N
    <2>1. PICK g : IsIter(g, w, Small(n))
        OBVIOUS
    <2> DEFINE F(f) == [s \in Small(n + 1) |->
                          IF s = {} THEN 0 ELSE w[Pick(s)] + f[s \ {Pick(s)}]]
               h == F(g)
    <2>2. Small(n) \subseteq Small(n + 1)
        BY <1>1
    <2>3. ASSUME NEW s \in Small(n + 1), s # {}
          PROVE  h[s \ {Pick(s)}] = g[s \ {Pick(s)}]
        <3> DEFINE t == s \ {Pick(s)}
        <3>1. Cardinality(t) = Cardinality(s) - 1
            BY <1>1, <1>2, <2>3, FS_RemoveElement
        <3>2. t \in Small(n)
            BY <1>1, <3>1
        <3>3. g[t] = IF t = {} THEN 0 ELSE w[Pick(t)] + g[t \ {Pick(t)}]
            <4> HIDE DEF Small, t
            <4> QED
                BY <2>1, <3>2 DEF IsIter
        <3>4. h[t] = IF t = {} THEN 0 ELSE w[Pick(t)] + g[t \ {Pick(t)}]
            <4>1. t \in Small(n + 1)
                BY <2>2, <3>2
            <4> HIDE DEF Small, t
            <4> QED
                BY <4>1
        <3> QED
            BY <3>3, <3>4
    <2>4. h = F(h)
        <3> HIDE DEF Small
        <3> QED
            BY <2>3
    <2>5. IsIter(h, w, Small(n + 1))
        BY <2>4 DEF IsIter
    <2>6. \E f : IsIter(f, w, Small(n + 1))
        <3> HIDE DEF h, Small
        <3> QED
            BY <2>5
    <2> QED
        BY <2>6
<1>5. N = Nat
    <2> HIDE DEF N
    <2>1. N \in SUBSET Nat
        BY DEF N
    <2> QED
        BY <1>3, <1>4, <2>1, NatSetInduction
<1>6. Cardinality(DOMAIN w) \in N
    BY <1>1, <1>5
<1>7. Small(Cardinality(DOMAIN w)) = SUBSET DOMAIN w
    BY FS_Subset, FS_CardinalityType
<1> QED
    BY <1>6, <1>7

\* The sum over a set, by its definition.
LEMMA PartialSumDef ==
    ASSUME NEW w, IsFiniteSet(DOMAIN w)
    PROVE  /\ PartialSum(w)[{}] = 0
           /\ \A s \in SUBSET DOMAIN w : s # {} =>
                PartialSum(w)[s] = w[Pick(s)] + PartialSum(w)[s \ {Pick(s)}]
<1> DEFINE g == PartialSum(w)
<1>1. IsIter(g, w, SUBSET DOMAIN w)
    BY IterExists DEF PartialSum
<1>2. \A s \in SUBSET DOMAIN w :
        g[s] = IF s = {} THEN 0 ELSE w[Pick(s)] + g[s \ {Pick(s)}]
    <2> HIDE DEF g
    <2> QED
        BY <1>1 DEF IsIter
<1> QED
    BY <1>2

-----------------------------------------------------------------------------
(* Sums of integers over the subsets of a domain.                          *)

\* Sums of integers are integers, and sums of naturals are naturals.
LEMMA PartialSumType ==
    ASSUME NEW D, IsFiniteSet(D), NEW T \in {Nat, Int}, NEW w \in [D -> T]
    PROVE  \A s \in SUBSET D : PartialSum(w)[s] \in T
<1> DEFINE p == PartialSum(w)
           G == {s \in SUBSET D : p[s] \in T}
<1>0. DOMAIN w = D
    OBVIOUS
<1>1. p[{}] = 0 /\ \A s \in SUBSET D : s # {} =>
        p[s] = w[Pick(s)] + p[s \ {Pick(s)}]
    BY <1>0, PartialSumDef
<1>2. \A s \in SUBSET D : s # {} => Pick(s) \in s
    BY DEF Pick
<1> HIDE DEF p
<1>3. {} \in G
    <2>1. 0 \in T
        <3>1. CASE T = Nat BY <3>1
        <3>2. CASE T = Int BY <3>2
        <3> QED BY <3>1, <3>2
    <2> QED
        BY <1>1, <2>1
<1>4. ASSUME NEW s \in SUBSET D, s # {}, \A x \in s : s \ {x} \in G
      PROVE  s \in G
    <2>1. w[Pick(s)] \in T /\ p[s \ {Pick(s)}] \in T
        BY <1>2, <1>4
    <2>2. \A a, b \in T : a + b \in T
        <3>1. CASE T = Nat BY <3>1
        <3>2. CASE T = Int BY <3>2
        <3> QED BY <3>1, <3>2
    <2>3. p[s] \in T
        BY <1>1, <1>4, <2>1, <2>2
    <2> QED
        BY <2>3
<1> HIDE DEF G
<1>5. G \in SUBSET (SUBSET D)
    BY DEF G
<1>6. G = SUBSET D
    BY <1>3, <1>4, <1>5, SubsetInduction
<1>7. \A s \in SUBSET D : p[s] \in T
    BY <1>6 DEF G
<1> QED
    BY <1>7 DEF p

\* Any element may be taken off first.
LEMMA PartialSumElement ==
    ASSUME NEW D, IsFiniteSet(D), NEW w \in [D -> Int],
           NEW s \in SUBSET D, NEW x \in s
    PROVE  PartialSum(w)[s] = w[x] + PartialSum(w)[s \ {x}]
<1> DEFINE p == PartialSum(w)
           G == {t \in SUBSET D : \A y \in t : p[t] = w[y] + p[t \ {y}]}
<1>0. DOMAIN w = D
    OBVIOUS
<1>1. \A t \in SUBSET D : t # {} => p[t] = w[Pick(t)] + p[t \ {Pick(t)}]
    BY <1>0, PartialSumDef
<1>2. \A t \in SUBSET D : t # {} => Pick(t) \in t
    BY DEF Pick
<1>3. \A t \in SUBSET D : p[t] \in Int
    BY PartialSumType
<1> HIDE DEF p
<1>4. {} \in G
    OBVIOUS
<1>5. ASSUME NEW t \in SUBSET D, t # {}, \A y \in t : t \ {y} \in G
      PROVE  t \in G
    <2> SUFFICES ASSUME NEW y \in t PROVE p[t] = w[y] + p[t \ {y}]
        OBVIOUS
    <2> DEFINE z == Pick(t)
    <2>1. z \in t /\ p[t] = w[z] + p[t \ {z}]
        BY <1>1, <1>2, <1>5
    <2> HIDE DEF z
    <2>2. CASE y = z
        BY <2>1, <2>2
    <2>3. CASE y # z
        <3> DEFINE r == t \ {y, z}
        <3>1. (t \ {y}) \ {z} = r /\ (t \ {z}) \ {y} = r
            OBVIOUS
        <3>2. p[t \ {z}] = w[y] + p[r]
            <4>1. t \ {z} \in G /\ y \in t \ {z}
                BY <1>5, <2>1, <2>3
            <4> QED
                BY <3>1, <4>1
        <3>3. p[t \ {y}] = w[z] + p[r]
            <4>1. t \ {y} \in G /\ z \in t \ {y}
                BY <1>5, <2>1, <2>3
            <4> QED
                BY <3>1, <4>1
        <3>4. w[y] \in Int /\ w[z] \in Int /\ p[r] \in Int
            BY <1>3, <2>1
        <3> QED
            BY <2>1, <3>2, <3>3, <3>4
    <2> QED
        BY <2>2, <2>3
<1> HIDE DEF G
<1>6. G \in SUBSET (SUBSET D)
    BY DEF G
<1>7. G = SUBSET D
    BY <1>4, <1>5, <1>6, SubsetInduction
<1>8. \A y \in s : p[s] = w[y] + p[s \ {y}]
    BY <1>7 DEF G
<1> QED
    BY <1>8 DEF p

\* Functions that agree on a set have the same sum over it.
LEMMA PartialSumAgrees ==
    ASSUME NEW w, NEW v, IsFiniteSet(DOMAIN w), IsFiniteSet(DOMAIN v),
           NEW D, D \subseteq DOMAIN w, D \subseteq DOMAIN v,
           \A x \in D : w[x] = v[x]
    PROVE  PartialSum(w)[D] = PartialSum(v)[D]
<1> DEFINE p == PartialSum(w)
           q == PartialSum(v)
           G == {s \in SUBSET D : p[s] = q[s]}
<1>1. /\ p[{}] = 0 /\ q[{}] = 0
      /\ \A s \in SUBSET D : s # {} =>
           /\ p[s] = w[Pick(s)] + p[s \ {Pick(s)}]
           /\ q[s] = v[Pick(s)] + q[s \ {Pick(s)}]
    BY PartialSumDef
<1>2. \A s \in SUBSET D : s # {} => Pick(s) \in s
    BY DEF Pick
<1>3. IsFiniteSet(D)
    BY FS_Subset
<1> HIDE DEF p, q
<1>4. {} \in G
    BY <1>1
<1>5. ASSUME NEW s \in SUBSET D, s # {}, \A x \in s : s \ {x} \in G
      PROVE  s \in G
    BY <1>1, <1>2, <1>5
<1> HIDE DEF G
<1>6. G \in SUBSET (SUBSET D)
    BY DEF G
<1>7. G = SUBSET D
    BY <1>3, <1>4, <1>5, <1>6, SubsetInduction
<1>8. p[D] = q[D]
    BY <1>7 DEF G
<1> QED
    BY <1>8 DEF p, q

-----------------------------------------------------------------------------
(* What other modules cite.                                                *)

LEMMA SumType ==
    ASSUME NEW D, IsFiniteSet(D), NEW T \in {Nat, Int}, NEW w \in [D -> T]
    PROVE  SumFunction(w) \in T
<1>1. DOMAIN w = D /\ D \in SUBSET D
    OBVIOUS
<1> QED
    BY <1>1, SumIsPartialSum, PartialSumType

\* Functions that are zero everywhere.
LEMMA SumZero ==
    ASSUME NEW D, IsFiniteSet(D), NEW w \in [D -> Int], \A x \in D : w[x] = 0
    PROVE  SumFunction(w) = 0
<1> DEFINE p == PartialSum(w)
           G == {s \in SUBSET D : p[s] = 0}
<1>1. /\ p[{}] = 0
      /\ \A s \in SUBSET D : \A x \in s : p[s] = w[x] + p[s \ {x}]
    BY PartialSumDef, PartialSumElement
<1> HIDE DEF p
<1>2. {} \in G
    BY <1>1
<1>3. ASSUME NEW s \in SUBSET D, s # {}, \A x \in s : s \ {x} \in G
      PROVE  s \in G
    <2>1. PICK x \in s : TRUE
        BY <1>3
    <2>2. p[s] = 0 + 0
        BY <1>1, <1>3, <2>1
    <2> QED
        BY <2>2
<1> HIDE DEF G
<1>4. G \in SUBSET (SUBSET D)
    BY DEF G
<1>5. G = SUBSET D
    BY <1>2, <1>3, <1>4, SubsetInduction
<1>6. p[D] = 0 /\ DOMAIN w = D
    BY <1>5 DEF G
<1> QED
    BY <1>6, SumIsPartialSum DEF p

\* One element apart.
LEMMA SumElement ==
    ASSUME NEW D, IsFiniteSet(D), NEW w \in [D -> Int], NEW c \in D
    PROVE  /\ SumFunction(w) = w[c] + PartialSum(w)[D \ {c}]
           /\ w[c] \in Int /\ PartialSum(w)[D \ {c}] \in Int
<1>1. D \in SUBSET D /\ D \ {c} \in SUBSET D /\ DOMAIN w = D
    OBVIOUS
<1>2. SumFunction(w) = PartialSum(w)[D]
    BY <1>1, SumIsPartialSum
<1>3. PartialSum(w)[D] = w[c] + PartialSum(w)[D \ {c}]
    BY <1>1, PartialSumElement
<1>4. PartialSum(w)[D \ {c}] \in Int /\ w[c] \in Int
    BY <1>1, PartialSumType
<1> QED
    BY <1>2, <1>3, <1>4

\* One value changes.
LEMMA SumChange ==
    ASSUME NEW D, IsFiniteSet(D), NEW w \in [D -> Int], NEW v \in [D -> Int],
           NEW c \in D, \A x \in D \ {c} : v[x] = w[x]
    PROVE  SumFunction(v) = SumFunction(w) - w[c] + v[c]
<1> DEFINE r == D \ {c}
<1>1. DOMAIN w = D /\ DOMAIN v = D /\ r \subseteq D
    OBVIOUS
<1>2. PartialSum(w)[r] = PartialSum(v)[r]
    BY <1>1, PartialSumAgrees
<1>3. /\ SumFunction(w) = w[c] + PartialSum(w)[r] /\ w[c] \in Int
      /\ PartialSum(w)[r] \in Int
    BY SumElement
<1>4. SumFunction(v) = v[c] + PartialSum(v)[r] /\ v[c] \in Int
    BY SumElement
<1> HIDE DEF r
<1> QED
    BY <1>2, <1>3, <1>4

\* v is w with one more element.
Extends(v, w, c) ==
    /\ IsFiniteSet(DOMAIN v) /\ c \in DOMAIN v /\ DOMAIN w = DOMAIN v \ {c}
    /\ v \in [DOMAIN v -> Int] /\ w \in [DOMAIN w -> Int]
    /\ \A x \in DOMAIN w : v[x] = w[x]

LEMMA SumExtend ==
    ASSUME NEW v, NEW w, NEW c, Extends(v, w, c)
    PROVE  SumFunction(v) = SumFunction(w) + v[c]
<1> DEFINE D == DOMAIN v
           r == DOMAIN w
<1>1. /\ IsFiniteSet(D) /\ IsFiniteSet(r) /\ r \subseteq D /\ r = D \ {c}
      /\ c \in D /\ v \in [D -> Int] /\ \A x \in r : v[x] = w[x]
    BY FS_Subset DEF Extends
<1>2. PartialSum(v)[r] = PartialSum(w)[r]
    BY <1>1, PartialSumAgrees
<1>3. SumFunction(w) = PartialSum(w)[r]
    BY <1>1, SumIsPartialSum
<1> HIDE DEF D, r
<1>4. /\ SumFunction(v) = v[c] + PartialSum(v)[r]
      /\ v[c] \in Int /\ PartialSum(v)[r] \in Int
    BY <1>1, SumElement
<1> QED
    BY <1>2, <1>3, <1>4

\* Other names of the elements.
LEMMA SumRenamed ==
    ASSUME NEW D, IsFiniteSet(D), NEW r, IsFiniteSet(r), NEW f \in [r -> D],
           \A i, j \in r : f[i] = f[j] => i = j,
           NEW w \in [D -> Int], NEW v \in [r -> Int], \A i \in r : v[i] = w[f[i]]
    PROVE  SumFunction(v) = PartialSum(w)[{f[i] : i \in r}]
<1> DEFINE p == PartialSum(w)
           q == PartialSum(v)
           Image(s) == {f[i] : i \in s}
           G == {s \in SUBSET r : q[s] = p[Image(s)]}
<1>1. p[{}] = 0 /\ q[{}] = 0
    BY PartialSumDef
<1>2. ASSUME NEW s \in SUBSET r, NEW i \in s
      PROVE  /\ q[s] = v[i] + q[s \ {i}]
             /\ p[Image(s)] = w[f[i]] + p[Image(s) \ {f[i]}]
             /\ Image(s \ {i}) = Image(s) \ {f[i]}
    <2>1. Image(s) \in SUBSET D /\ f[i] \in Image(s)
        OBVIOUS
    <2>2. Image(s \ {i}) = Image(s) \ {f[i]}
        OBVIOUS
    <2>3. q[s] = v[i] + q[s \ {i}]
        BY PartialSumElement
    <2> HIDE DEF Image
    <2>4. p[Image(s)] = w[f[i]] + p[Image(s) \ {f[i]}]
        BY <2>1, PartialSumElement
    <2> QED
        BY <2>2, <2>3, <2>4
<1> HIDE DEF p, q
<1>3. {} \in G
    <2>1. Image({}) = {}
        OBVIOUS
    <2> QED
        BY <1>1, <2>1
<1>4. ASSUME NEW s \in SUBSET r, s # {}, \A i \in s : s \ {i} \in G
      PROVE  s \in G
    <2>1. PICK i \in s : TRUE
        BY <1>4
    <2>2. q[s \ {i}] = p[Image(s \ {i})]
        BY <1>4, <2>1
    <2>3. v[i] = w[f[i]]
        BY <2>1
    <2> HIDE DEF Image
    <2>4. q[s] = v[i] + q[s \ {i}]
        BY <1>2, <2>1
    <2>5. p[Image(s)] = w[f[i]] + p[Image(s) \ {f[i]}]
        BY <1>2, <2>1
    <2>6. Image(s \ {i}) = Image(s) \ {f[i]}
        BY <1>2, <2>1
    <2>7. q[s] = p[Image(s)]
        BY <2>2, <2>3, <2>4, <2>5, <2>6
    <2> QED
        BY <2>7
<1> HIDE DEF G
<1>5. G \in SUBSET (SUBSET r)
    BY DEF G
<1>6. G = SUBSET r
    BY <1>3, <1>4, <1>5, SubsetInduction
<1>7. q[r] = p[Image(r)]
    BY <1>6 DEF G
<1>8. SumFunction(v) = q[r]
    BY SumIsPartialSum DEF q
<1> QED
    BY <1>7, <1>8 DEF p

\* v is w without an element, the others renamed: v[i] is w[f[i]].
Shrinks(v, w, c, f) ==
    /\ IsFiniteSet(DOMAIN w) /\ IsFiniteSet(DOMAIN v) /\ c \in DOMAIN w
    /\ f \in [DOMAIN v -> DOMAIN w]
    /\ \A i, j \in DOMAIN v : f[i] = f[j] => i = j
    /\ {f[i] : i \in DOMAIN v} = DOMAIN w \ {c}
    /\ v \in [DOMAIN v -> Int] /\ w \in [DOMAIN w -> Int]
    /\ \A i \in DOMAIN v : v[i] = w[f[i]]

LEMMA SumShrink ==
    ASSUME NEW v, NEW w, NEW c, NEW f, Shrinks(v, w, c, f)
    PROVE  SumFunction(v) = SumFunction(w) - w[c]
<1> DEFINE D == DOMAIN w
           r == DOMAIN v
<1>1. /\ IsFiniteSet(D) /\ IsFiniteSet(r) /\ c \in D /\ f \in [r -> D]
      /\ \A i, j \in r : f[i] = f[j] => i = j
      /\ {f[i] : i \in r} = D \ {c}
      /\ v \in [r -> Int] /\ w \in [D -> Int]
      /\ \A i \in r : v[i] = w[f[i]]
    BY DEF Shrinks
<1> HIDE DEF D, r
<1>2. SumFunction(v) = PartialSum(w)[{f[i] : i \in r}]
    BY <1>1, SumRenamed
<1>3. SumFunction(v) = PartialSum(w)[D \ {c}]
    BY <1>1, <1>2
<1>4. /\ SumFunction(w) = w[c] + PartialSum(w)[D \ {c}]
      /\ w[c] \in Int /\ PartialSum(w)[D \ {c}] \in Int
    BY <1>1, SumElement
<1> QED
    BY <1>3, <1>4

\* One more element at the end of a sequence.
LEMMA SumAppended ==
    ASSUME NEW n \in Nat, NEW w, NEW v, w \in [1..n -> Int],
           v \in [1..(n + 1) -> Int], \A i \in 1..n : v[i] = w[i]
    PROVE  SumFunction(v) = SumFunction(w) + v[n + 1]
<1>1. DOMAIN v = 1..(n + 1) /\ DOMAIN w = 1..n /\ n + 1 \in 1..(n + 1)
    OBVIOUS
<1>2. 1..n = (1..(n + 1)) \ {n + 1}
    OBVIOUS
<1>3. IsFiniteSet(1..(n + 1))
    BY FS_Interval
<1>4. Extends(v, w, n + 1)
    BY <1>1, <1>2, <1>3 DEF Extends
<1> QED
    BY <1>4, SumExtend

\* The first element of a sequence goes, and the others move up.
LEMMA SumShifted ==
    ASSUME NEW n \in Nat, NEW w, NEW v, w \in [1..(n + 1) -> Int],
           v \in [1..n -> Int], \A i \in 1..n : v[i] = w[i + 1]
    PROVE  SumFunction(v) = SumFunction(w) - w[1]
<1> DEFINE f == [i \in 1..n |-> i + 1]
<1>1. DOMAIN v = 1..n /\ DOMAIN w = 1..(n + 1) /\ 1 \in 1..(n + 1)
    OBVIOUS
<1>2. IsFiniteSet(1..n) /\ IsFiniteSet(1..(n + 1))
    BY FS_Interval
<1>3. {f[i] : i \in 1..n} = (1..(n + 1)) \ {1}
    <2>1. ASSUME NEW x \in (1..(n + 1)) \ {1} PROVE x \in {f[i] : i \in 1..n}
        <3>1. x - 1 \in 1..n
            OBVIOUS
        <3>2. f[x - 1] = x
            BY <3>1
        <3> QED
            BY <3>1, <3>2
    <2>2. \A i \in 1..n : f[i] \in (1..(n + 1)) \ {1}
        OBVIOUS
    <2> HIDE DEF f
    <2> QED
        BY <2>1, <2>2, Zenon
<1>4. /\ f \in [1..n -> 1..(n + 1)]
      /\ \A i, j \in 1..n : f[i] = f[j] => i = j
      /\ \A i \in 1..n : v[i] = w[f[i]]
    OBVIOUS
<1> HIDE DEF f
<1>5. Shrinks(v, w, 1, f)
    BY <1>1, <1>2, <1>3, <1>4 DEF Shrinks
<1> QED
    BY <1>5, SumShrink
=============================================================================

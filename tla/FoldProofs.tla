----------------------------- MODULE FoldProofs -----------------------------
(***************************************************************************)
(* What FoldLeft computes, and induction, as facts about any operator and  *)
(* any predicate: these are parameters of the module, given by the         *)
(* instance that needs the fact.  The first argument of Inv is whatever    *)
(* the predicate depends on beside the number of elements folded so far    *)
(* and the value they were folded to.                                      *)
(***************************************************************************)
EXTENDS Integers, SequencesExt, WellFoundedInduction, TLAPS

CONSTANTS Op(_, _), Inv(_, _, _)

\* A non-empty set of natural numbers has a least element.
LEMMA LeastElement ==
    ASSUME NEW T, T \subseteq Nat, T # {}
    PROVE  \E m \in T : \A n \in T : m <= n
<1>1. PICK m \in T : \A n \in T : ~ (<<n, m>> \in OpToRel(<, Nat))
    BY NatLessThanWellFounded, WFMin
<1>2. ASSUME NEW n \in T, n < m
      PROVE  <<n, m>> \in OpToRel(<, Nat)
    BY <1>2 DEF OpToRel
<1>3. \A n \in T : ~ (n < m)
    <2> HIDE DEF OpToRel
    <2> QED BY <1>1, <1>2, Zenon
<1> QED BY <1>3

\* One step of the iteration that defines a fold: the set t of indices, from
\* what the iteration is for smaller sets
Step(base, s, g, t) ==
    IF t = {} THEN base ELSE Op(g[t \ {Max(t)}], s[Max(t)])

IsIteration(base, s, g, k) ==
    g = [t \in SUBSET (1 .. k) |-> Step(base, s, g, t)]

\* The greatest element of a set of numbers that has one.
LEMMA MaxIs ==
    ASSUME NEW k \in Int, NEW t \in SUBSET (1 .. k), k \in t
    PROVE  Max(t) = k
<1>1. \A y \in t : k >= y
    OBVIOUS
<1>2. \E x \in t : \A y \in t : x >= y
    BY <1>1
<1> DEFINE m == Max(t)
<1>3. m \in t /\ \A y \in t : m >= y
    BY <1>2 DEF Max
<1> HIDE DEF m
<1>4. m \in 1 .. k /\ m >= k
    BY <1>3
<1>5. m = k
    BY <1>4
<1> QED BY <1>5 DEF m

\* The iteration exists for the indices up to any number.
LEMMA IterationExists ==
    ASSUME NEW base, NEW s, NEW k \in Nat
    PROVE  \E g : IsIteration(base, s, g, k)
<1> DEFINE Without == {n \in Nat : ~ \E g : IsIteration(base, s, g, n)}
<1> SUFFICES ASSUME Without # {} PROVE FALSE
    OBVIOUS
<1>1. PICK m \in Without : \A n \in Without : m <= n
    BY LeastElement
<1>2. m # 0
    <2> SUFFICES \E g : IsIteration(base, s, g, 0)
        BY <1>1
    <2> DEFINE g == [t \in {{}} |-> base]
    <2>1. SUBSET (1 .. 0) = {{}}
        OBVIOUS
    <2>2. \A t \in {{}} : Step(base, s, g, t) = base
        BY DEF Step
    <2>3. g = [t \in SUBSET (1 .. 0) |-> Step(base, s, g, t)]
        BY <2>1, <2>2
    <2> QED BY <2>3 DEF IsIteration
<1>3. PICK g : IsIteration(base, s, g, m - 1)
    BY <1>1, <1>2
<1> DEFINE low  == SUBSET (1 .. m - 1)
           all  == SUBSET (1 .. m)
           next == [t \in all |-> IF m \in t THEN Op(g[t \ {m}], s[m])
                                             ELSE g[t]]
<1>4. low \subseteq all /\ \A t \in all : m \notin t => t \in low
    BY <1>1
<1>5. \A t \in all : Step(base, s, next, t) = next[t]
    <2> SUFFICES ASSUME NEW t \in all PROVE Step(base, s, next, t) = next[t]
        OBVIOUS
    <2>1. CASE m \in t
        <3>1. Max(t) = m
            BY <2>1, <1>1, MaxIs
        <3>2. t \ {m} \in all /\ m \notin t \ {m} /\ t # {}
            BY <2>1
        <3>3. next[t \ {m}] = g[t \ {m}]
            BY <3>2
        <3>4. next[t] = Op(g[t \ {m}], s[m])
            BY <2>1
        <3> HIDE DEF next
        <3> QED BY <3>1, <3>2, <3>3, <3>4 DEF Step
    <2>2. CASE m \notin t
        <3>1. t \in low /\ next[t] = g[t]
            BY <2>2, <1>4
        <3>2. g[t] = Step(base, s, g, t)
            BY <3>1, <1>3 DEF IsIteration
        <3>3. t \ {Max(t)} \in low /\ m \notin t \ {Max(t)}
            BY <3>1, <2>2
        <3>4. next[t \ {Max(t)}] = g[t \ {Max(t)}]
            BY <3>3, <1>4
        <3> HIDE DEF next
        <3> QED BY <3>1, <3>2, <3>4 DEF Step
    <2> QED BY <2>1, <2>2
<1>6. next = [t \in all |-> Step(base, s, next, t)]
    BY <1>5
<1> QED BY <1>6, <1>1 DEF IsIteration

Fold(base, s) == FoldLeft(Op, base, s)

(***************************************************************************)
(* What holds of the first value and is kept by every element holds of the *)
(* fold of the whole sequence.                                             *)
(***************************************************************************)
THEOREM FoldInvariant ==
    ASSUME NEW c, NEW base, NEW s, NEW n \in Nat, DOMAIN s = 1 .. n,
           Inv(c, 0, base),
           \A i \in 1 .. n : \A acc :
               Inv(c, i - 1, acc) => Inv(c, i, Op(acc, s[i]))
    PROVE  Inv(c, n, Fold(base, s))
<1> DEFINE iter == CHOOSE g : IsIteration(base, s, g, n)
<1>1. Fold(base, s) = iter[1 .. n]
    BY DEF Fold, FoldLeft, MapThenFoldSet, IsIteration, Step
<1>2. IsIteration(base, s, iter, n)
    BY IterationExists
<1> HIDE DEF iter
<1>3. \A k \in 0 .. n : Inv(c, k, iter[1 .. k])
    <2> DEFINE Without == {k \in 0 .. n : ~ Inv(c, k, iter[1 .. k])}
    <2> SUFFICES ASSUME Without # {} PROVE FALSE
        OBVIOUS
    <2>0. Without \subseteq Nat
        OBVIOUS
    <2>1. PICK m \in Without : \A k \in Without : m <= k
        <3> HIDE DEF Without
        <3> QED BY <2>0, LeastElement
    <2>2. m # 0
        <3>1. 1 .. 0 = {} /\ {} \in SUBSET (1 .. n)
            OBVIOUS
        <3>2. iter[{}] = base
            BY <3>1, <1>2 DEF IsIteration, Step
        <3> QED BY <3>1, <3>2, <2>1
    <2>3. m \in 1 .. n /\ m - 1 \in 0 .. n /\ Inv(c, m - 1, iter[1 .. m - 1])
        BY <2>1, <2>2
    <2>4. 1 .. m \in SUBSET (1 .. n) /\ 1 .. m # {} /\ Max(1 .. m) = m
          /\ (1 .. m) \ {m} = 1 .. m - 1
        <3>1. m \in Int /\ 1 .. m \in SUBSET (1 .. m) /\ m \in 1 .. m
            BY <2>3
        <3>2. Max(1 .. m) = m
            BY <3>1, MaxIs
        <3>3. 1 .. m \in SUBSET (1 .. n) /\ 1 .. m # {}
            BY <2>3
        <3>4. (1 .. m) \ {m} = 1 .. m - 1
            BY <2>3
        <3> QED BY <3>2, <3>3, <3>4
    <2>5. iter[1 .. m] = Op(iter[1 .. m - 1], s[m])
        BY <2>4, <1>2 DEF IsIteration, Step
    <2> QED BY <2>1, <2>3, <2>5
<1>4. Inv(c, n, iter[1 .. n])
    BY <1>3
<1> QED BY <1>1, <1>4
=============================================================================

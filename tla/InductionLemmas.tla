---------------------------- MODULE InductionLemmas ----------------------------
(***************************************************************************)
(* Induction in the form of sets, and what it gives for the operators on   *)
(* sequences that the modules use.  The induction theorems of the library  *)
(* quantify over predicates; these quantify over the set of values that    *)
(* satisfy the predicate.                                                  *)
(***************************************************************************)
EXTENDS Integers, Sequences, FiniteSets, SequencesExt, FiniteSetTheorems,
        NaturalsInduction, WellFoundedInduction, TLAPS

\* A set with 0, and with n + 1 for every n of it, has all natural numbers.
LEMMA NatSet ==
    ASSUME NEW T \in SUBSET Nat, 0 \in T, \A n \in T : n + 1 \in T
    PROVE  T = Nat
<1> DEFINE R == {ss \in Nat \X Nat : ss[1] < ss[2]}
<1>1. IsWellFoundedOn(R, Nat)
    BY NatLessThanWellFounded DEF OpToRel
<1>2. SUFFICES ASSUME Nat \ T # {} PROVE FALSE
    OBVIOUS
<1>3. PICK x \in Nat \ T : \A y \in Nat \ T : <<y, x>> \notin R
    <2> HIDE DEF R
    <2>1. Nat \ T \subseteq Nat
        OBVIOUS
    <2>2. QED
        BY <1>1, <1>2, <2>1, WFMin
<1>4. x - 1 \in Nat /\ <<x - 1, x>> \in R
    OBVIOUS
<1>5. x - 1 \notin T
    <2>1. x \in Nat /\ x \notin T /\ (x - 1) + 1 = x
        OBVIOUS
    <2>2. QED
        BY <2>1
<1>6. QED
    BY <1>3, <1>4, <1>5

\* A set of the numbers up to n with 0, and with i + 1 for every i < n of it, has them all.
LEMMA UpToSet ==
    ASSUME NEW n \in Nat, NEW T, 0 \in T, \A i \in T : i \in Nat /\ i < n => i + 1 \in T
    PROVE  0 .. n \subseteq T
<1> DEFINE U == {i \in Nat : i <= n => i \in T}
<1>1. 0 \in U
    OBVIOUS
<1>2. ASSUME NEW i \in U PROVE i + 1 \in U
    <2>1. i \in Nat /\ i + 1 \in Nat
        OBVIOUS
    <2>2. CASE i + 1 <= n
        BY <2>1, <2>2
    <2>3. CASE ~(i + 1 <= n)
        BY <2>1, <2>3
    <2>4. QED
        BY <2>2, <2>3
<1>3. U = Nat
    <2> HIDE DEF U
    <2>1. U \subseteq Nat
        BY DEF U
    <2>2. QED
        BY <1>1, <1>2, <2>1, NatSet
<1>4. QED
    BY <1>3

\* A non-empty set of subsets of a finite set has a minimal one.
LEMMA MinimalSubset ==
    ASSUME NEW S, IsFiniteSet(S), NEW T \in SUBSET SUBSET S, T # {}
    PROVE  \E x \in T : \A y \in T : y \subseteq x => y = x
<1>1. IsWellFoundedOn(StrictSubsetOrdering(S), SUBSET S)
    BY FS_StrictSubsetOrderingWellFounded, FS_FiniteSubsetsOfFinite
<1>2. PICK x \in T : \A y \in T : <<y, x>> \notin StrictSubsetOrdering(S)
    BY <1>1, WFMin
<1>3. QED
    BY <1>2 DEF StrictSubsetOrdering

\* A non-empty set of natural numbers has a smallest one, ...
LEMMA MinOf ==
    ASSUME NEW S \in SUBSET Nat, S # {}
    PROVE  Min(S) \in S /\ \A y \in S : Min(S) <= y
<1> DEFINE T == {n \in Nat : \A m \in 0 .. n : m \notin S}
<1>1. PICK k \in S : \A m \in S : k <= m
    <2>1. SUFFICES ASSUME \A k \in S : \E m \in S : m < k PROVE FALSE
        OBVIOUS
    <2>2. 0 \in T
        BY <2>1
    <2>3. ASSUME NEW n \in T PROVE n + 1 \in T
        <3>1. \A m \in 0 .. n + 1 : m \in 0 .. n \/ m = n + 1
            OBVIOUS
        <3>2. n + 1 \notin S
            <4>1. \A m \in S : m < n + 1 => m \in 0 .. n
                OBVIOUS
            <4>2. QED
                BY <2>1, <4>1
        <3>3. QED
            BY <3>1, <3>2
    <2>4. T = Nat
        <3> HIDE DEF T
        <3>1. T \subseteq Nat
            BY DEF T
        <3>2. QED
            BY <2>2, <2>3, <3>1, NatSet
    <2>5. PICK k \in S : TRUE
        OBVIOUS
    <2>6. k \in T /\ k \in 0 .. k
        BY <2>4
    <2>7. QED
        BY <2>6
<1>2. QED
    BY <1>1 DEF Min

\* ... one of tristates a greatest one.
LEMMA MaxOf ==
    ASSUME NEW S \in SUBSET (0 .. 2), S # {}
    PROVE  Max(S) \in S /\ \A y \in S : y <= Max(S)
<1>1. \E x \in S : \A y \in S : x >= y
    <2>1. CASE 2 \in S
        BY <2>1
    <2>2. CASE 2 \notin S /\ 1 \in S
        BY <2>2
    <2>3. CASE 2 \notin S /\ 1 \notin S
        <3>1. \A x \in S : x \in 0 .. 2 /\ x # 1 /\ x # 2
            BY <2>3
        <3>2. \A x \in S : x = 0
            BY <3>1
        <3>3. PICK x \in S : x = 0
            BY <3>2
        <3>4. 0 \in S /\ \A y \in S : 0 >= y
            BY <3>2, <3>3
        <3>5. QED
            BY <3>4
    <2>4. QED
        BY <2>1, <2>2, <2>3
<1>2. QED
    BY <1>1 DEF Max

-----------------------------------------------------------------------------
(* Sequences *)

\* A sequence has no more values than places.
LEMMA RangeSmall ==
    ASSUME NEW S, NEW s \in Seq(S)
    PROVE  /\ IsFiniteSet(Range(s)) /\ Range(s) \subseteq S
           /\ Cardinality(Range(s)) \in Nat /\ Cardinality(Range(s)) <= Len(s)
<1>1. /\ IsFiniteSet(1 .. Len(s)) /\ Cardinality(1 .. Len(s)) = Len(s)
      /\ DOMAIN s = 1 .. Len(s) /\ Len(s) \in Nat
    <2>1. Len(s) \in Nat /\ DOMAIN s = 1 .. Len(s)
        OBVIOUS
    <2>2. QED
        BY <2>1, FS_Interval
<1>2. s \in Surjection(1 .. Len(s), Range(s))
    BY <1>1 DEF Surjection, Range
<1>3. QED
    BY <1>1, <1>2, FS_Surjection, FS_CardinalityType DEF Range

\* A sequence has the same values backwards.
LEMMA ReverseValues ==
    ASSUME NEW S, NEW s \in Seq(S)
    PROVE  DOMAIN Reverse(s) = DOMAIN s /\ ToSet(Reverse(s)) = ToSet(s)
<1> DEFINE n == Len(s)
           r == Reverse(s)
<1>1. n \in Nat /\ DOMAIN s = 1 .. n
    OBVIOUS
<1>2. r = [i \in 1 .. n |-> s[(n - i) + 1]]
    BY DEF Reverse
<1>3. DOMAIN r = 1 .. n /\ \A i \in 1 .. n : r[i] = s[(n - i) + 1]
    BY <1>2
<1> HIDE DEF n, r
<1>4. \A i \in 1 .. n : (n - i) + 1 \in 1 .. n /\ (n - ((n - i) + 1)) + 1 = i
    BY <1>1
<1>5. \A i \in 1 .. n : r[(n - i) + 1] = s[i]
    BY <1>3, <1>4
<1>6. {r[i] : i \in 1 .. n} = {s[i] : i \in 1 .. n}
    BY <1>3, <1>4, <1>5
<1>7. QED
    BY <1>1, <1>3, <1>6 DEF ToSet, r

\* A function on 1 .. n is a sequence.
LEMMA FunctionIsSeq ==
    ASSUME NEW S, NEW n \in Nat, NEW f \in [1 .. n -> S]
    PROVE  f \in Seq(S) /\ Len(f) = n
OBVIOUS

\* The first n places of a sequence of sequences, flattened: the steps of FlattenSeq.
LOCAL Flattens(g, ss, n) == g = [i \in 1 .. n |-> IF i = 1 THEN ss[i] ELSE g[i - 1] \o ss[i]]

\* FlattenSeq follows these steps to the last place.
LEMMA FlattenSteps ==
    ASSUME NEW S, NEW ss \in Seq(Seq(S)), ss # << >>
    PROVE  \E g : Flattens(g, ss, Len(ss)) /\ FlattenSeq(ss) = g[Len(ss)]
<1> DEFINE T == {n \in Nat : n < Len(ss) => \E g : Flattens(g, ss, n + 1)}
<1>1. Len(ss) \in Nat \ {0}
    OBVIOUS
<1>2. 0 \in T
    <2>1. Flattens([i \in 1 .. 1 |-> ss[1]], ss, 1)
        BY DEF Flattens
    <2>2. QED
        BY <2>1
<1>3. ASSUME NEW n \in T PROVE n + 1 \in T
    <2>1. SUFFICES ASSUME n + 1 < Len(ss) PROVE \E g : Flattens(g, ss, n + 2)
        BY <1>1
    <2>2. PICK g : Flattens(g, ss, n + 1)
        BY <1>1, <2>1
    <2> DEFINE h == [i \in 1 .. n + 2 |-> IF i = n + 2 THEN g[n + 1] \o ss[n + 2] ELSE g[i]]
    <2>3. \A i \in 1 .. n + 2 : h[i] = IF i = 1 THEN ss[i] ELSE h[i - 1] \o ss[i]
        <3>1. n \in Nat
            OBVIOUS
        <3>2. \A i \in 1 .. n + 1 : h[i] = g[i] /\ (i # 1 => h[i - 1] = g[i - 1])
            BY <3>1
        <3>3. \A i \in 1 .. n + 1 : g[i] = IF i = 1 THEN ss[i] ELSE g[i - 1] \o ss[i]
            BY <2>2, <3>1 DEF Flattens
        <3>4. h[n + 2] = h[n + 1] \o ss[n + 2] /\ n + 2 # 1 /\ (n + 2) - 1 = n + 1
            <4>1. /\ n + 2 \in 1 .. n + 2 /\ n + 1 \in 1 .. n + 1
                  /\ n + 2 # 1 /\ (n + 2) - 1 = n + 1
                BY <3>1
            <4>2. h[n + 2] = g[n + 1] \o ss[n + 2]
                BY <4>1
            <4> HIDE DEF h
            <4>3. QED
                BY <3>2, <4>1, <4>2
        <3>5. \A i \in 1 .. n + 2 : i \in 1 .. n + 1 \/ i = n + 2
            BY <3>1
        <3> HIDE DEF h
        <3>6. QED
            BY <3>2, <3>3, <3>4, <3>5
    <2>4. Flattens(h, ss, n + 2)
        BY <2>3 DEF Flattens
    <2>5. QED
        BY <2>4
<1>4. T = Nat
    <2> HIDE DEF T
    <2>1. T \subseteq Nat
        BY DEF T
    <2>2. QED
        BY <1>2, <1>3, <2>1, NatSet
<1>5. \E g : Flattens(g, ss, Len(ss))
    <2>1. Len(ss) - 1 \in T /\ (Len(ss) - 1) + 1 = Len(ss)
        BY <1>1, <1>4
    <2>2. QED
        BY <1>1, <2>1
<1>6. QED
    BY <1>1, <1>5 DEF FlattenSeq, Flattens

-----------------------------------------------------------------------------
\* The values of two sequences, one after the other.
LEMMA RangeConcat ==
    ASSUME NEW S, NEW s \in Seq(S), NEW t \in Seq(S)
    PROVE  s \o t \in Seq(S) /\ Range(s \o t) = Range(s) \cup Range(t)
<1>1. /\ s \o t \in Seq(S) /\ Len(s \o t) = Len(s) + Len(t)
      /\ Len(s) \in Nat /\ Len(t) \in Nat
      /\ DOMAIN s = 1 .. Len(s) /\ DOMAIN t = 1 .. Len(t) /\ DOMAIN (s \o t) = 1 .. Len(s) + Len(t)
    OBVIOUS
<1>2. \A i \in 1 .. Len(s) + Len(t) : (s \o t)[i] = IF i <= Len(s) THEN s[i] ELSE t[i - Len(s)]
    OBVIOUS
<1>3. \A i \in 1 .. Len(s) : i \in 1 .. Len(s) + Len(t) /\ (s \o t)[i] = s[i]
    BY <1>1, <1>2
<1>4. \A i \in 1 .. Len(t) : Len(s) + i \in 1 .. Len(s) + Len(t) /\ (s \o t)[Len(s) + i] = t[i]
    BY <1>1, <1>2
<1>5. \A i \in 1 .. Len(s) + Len(t) : i \in 1 .. Len(s) \/ i - Len(s) \in 1 .. Len(t)
    BY <1>1
<1>6. Range(s \o t) \subseteq Range(s) \cup Range(t)
    BY <1>1, <1>2, <1>5 DEF Range
<1>7. Range(s) \cup Range(t) \subseteq Range(s \o t)
    BY <1>1, <1>3, <1>4 DEF Range
<1>8. QED
    BY <1>1, <1>6, <1>7

\* FlattenSeq keeps every value and adds none.
LEMMA FlattenValues ==
    ASSUME NEW S, NEW ss \in Seq(Seq(S))
    PROVE  /\ FlattenSeq(ss) \in Seq(S)
           /\ Range(FlattenSeq(ss)) = UNION {Range(ss[i]) : i \in DOMAIN ss}
<1>1. CASE ss = << >>
    BY <1>1 DEF FlattenSeq, Range
<1>2. CASE ss # << >>
    <2>1. PICK g : Flattens(g, ss, Len(ss)) /\ FlattenSeq(ss) = g[Len(ss)]
        BY <1>2, FlattenSteps
    <2>2. Len(ss) \in Nat \ {0} /\ DOMAIN ss = 1 .. Len(ss)
        BY <1>2
    <2>3. \A i \in 1 .. Len(ss) : ss[i] \in Seq(S) /\ g[i] = IF i = 1 THEN ss[i] ELSE g[i - 1] \o ss[i]
        <3>1. \A i \in 1 .. Len(ss) : ss[i] \in Seq(S)
            OBVIOUS
        <3>2. g = [i \in 1 .. Len(ss) |-> IF i = 1 THEN ss[i] ELSE g[i - 1] \o ss[i]]
            BY <2>1 DEF Flattens
        <3>3. QED
            BY <3>1, <3>2, Zenon
    <2> DEFINE P(n) == /\ g[n + 1] \in Seq(S)
                       /\ Range(g[n + 1]) = UNION {Range(ss[i]) : i \in 1 .. n + 1}
               T == {n \in Nat : n < Len(ss) => P(n)}
    <2>4. 0 \in T
        BY <2>2, <2>3
    <2>5. ASSUME NEW n \in T PROVE n + 1 \in T
        <3>1. SUFFICES ASSUME n + 1 < Len(ss) PROVE P(n + 1)
            OBVIOUS
        <3>2. P(n) /\ n \in Nat /\ n + 2 \in 1 .. Len(ss) /\ (n + 1) + 1 = n + 2 /\ (n + 2) - 1 = n + 1
            BY <2>2, <3>1
        <3> HIDE DEF T, P
        <3>3. g[n + 2] = g[n + 1] \o ss[n + 2] /\ ss[n + 2] \in Seq(S)
            <4>1. n + 2 # 1
                BY <3>2
            <4>2. g[n + 2] = g[(n + 2) - 1] \o ss[n + 2] /\ ss[n + 2] \in Seq(S)
                BY <2>3, <3>2, <4>1, Zenon
            <4>3. QED
                BY <3>2, <4>2, Zenon
        <3>4. g[n + 2] \in Seq(S) /\ Range(g[n + 2]) = Range(g[n + 1]) \cup Range(ss[n + 2])
            <4>1. g[n + 1] \in Seq(S)
                BY <3>2 DEF P
            <4>2. ss[n + 2] \in Seq(S)
                BY <3>3
            <4>3. /\ g[n + 1] \o ss[n + 2] \in Seq(S)
                  /\ Range(g[n + 1] \o ss[n + 2]) = Range(g[n + 1]) \cup Range(ss[n + 2])
                BY <4>1, <4>2, RangeConcat
            <4>4. QED
                BY <3>3, <4>3, Zenon
        <3>5. 1 .. n + 2 = (1 .. n + 1) \cup {n + 2}
            BY <3>2
        <3>6. UNION {Range(ss[i]) : i \in 1 .. n + 2}
                  = (UNION {Range(ss[i]) : i \in 1 .. n + 1}) \cup Range(ss[n + 2])
            BY <3>5
        <3>7. QED
            BY <3>2, <3>4, <3>6 DEF P
    <2>6. T = Nat
        <3> HIDE DEF T
        <3>1. T \subseteq Nat
            BY DEF T
        <3>2. QED
            BY <2>4, <2>5, <3>1, NatSet
    <2>7. Len(ss) - 1 \in T /\ (Len(ss) - 1) + 1 = Len(ss) /\ Len(ss) - 1 < Len(ss)
        <3> HIDE DEF T
        <3>1. QED
            BY <2>2, <2>6
    <2>8. P(Len(ss) - 1)
        BY <2>7
    <2>9. QED
        BY <2>1, <2>2, <2>7, <2>8
<1>3. QED
    BY <1>1, <1>2
================================================================================

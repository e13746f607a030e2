---------------------------- MODULE Joins_proofs ----------------------------
(***************************************************************************)
(* What Joins promises, for every side, combination and step above them.   *)
(***************************************************************************)
EXTENDS Joins, SequenceTheorems, WellFoundedInduction, TLAPS

(***************************************************************************)
(* Induction, with sets.                                                   *)
(***************************************************************************)
\* A set of numbers that is not empty has a least one.
LEMMA LeastNumber ==
    ASSUME NEW T, T \subseteq Nat, T # {}
    PROVE  \E m \in T : \A n \in T : m <= n
<1> DEFINE R == OpToRel(<, Nat)
<1>1. IsWellFoundedOn(R, Nat)
  BY NatLessThanWellFounded, Zenon
<1>2. \A m, n \in Nat : n < m => <<n, m>> \in R
  BY Zenon DEF OpToRel
<1> HIDE DEF R
<1>3. PICK m \in T : \A n \in T : <<n, m>> \notin R
  BY <1>1, WFMin
<1>4. \A n \in T : ~(n < m)
  BY <1>2, <1>3
<1>5. QED
  BY <1>4

\* What holds of a number, and of the next when it holds of one, holds of all from there on.
LEMMA StepByStep ==
    ASSUME NEW T, NEW a \in Nat, a \in T, \A n \in Nat : n >= a /\ n \in T => n + 1 \in T
    PROVE  \A n \in Nat : n >= a => n \in T
<1> DEFINE Out == {n \in Nat : n >= a /\ n \notin T}
<1>1. SUFFICES ASSUME Out # {} PROVE FALSE
  OBVIOUS
<1>2. PICK n \in Out : \A m \in Out : n <= m
  BY <1>1, LeastNumber
<1>3. n # a /\ n - 1 \in Nat /\ n - 1 >= a /\ n - 1 \notin Out
  BY <1>2
<1>4. (n - 1) + 1 = n /\ n - 1 \in T
  BY <1>2, <1>3
<1>5. QED
  BY <1>2, <1>3, <1>4

(***************************************************************************)
(* What is computed step by step is what its definition says.              *)
(***************************************************************************)
AreAscending(S, n, at) ==
    at = [k \in 0 .. n |->
             IF k = 0 THEN <<>> ELSE IF k \in S THEN Append(at[k - 1], k) ELSE at[k - 1]]

\* Ascending's places, one number after another.
LEMMA AscendingExist ==
    ASSUME NEW S, NEW n \in Nat
    PROVE  \E at : AreAscending(S, n, at) /\ Ascending(S, n) = at[n]
<1> DEFINE T == {m \in Nat : \E at : AreAscending(S, m, at)}
<1>1. 0 \in T
  <2> DEFINE at == [k \in 0 .. 0 |-> <<>>]
  <2>1. AreAscending(S, 0, at)
    BY DEF AreAscending
  <2>2. QED
    BY <2>1
<1>2. ASSUME NEW m \in Nat, m \in T PROVE m + 1 \in T
  <2>1. PICK at : AreAscending(S, m, at)
    BY <1>2
  <2> DEFINE next == IF m + 1 \in S THEN Append(at[m], m + 1) ELSE at[m]
             new == [k \in 0 .. m + 1 |-> IF k = m + 1 THEN next ELSE at[k]]
             Value(k) == IF k = 0 THEN <<>> ELSE IF k \in S THEN Append(new[k - 1], k) ELSE new[k - 1]
  <2>2. ASSUME NEW k \in 0 .. m + 1 PROVE new[k] = Value(k)
    <3>1. CASE k = m + 1
      <4>1. k # 0 /\ k - 1 = m /\ new[k] = next /\ new[k - 1] = at[m]
        BY <3>1
      <4> HIDE DEF new
      <4>2. QED
        BY <3>1, <4>1
    <3>2. CASE k # m + 1
      <4>1. k \in 0 .. m /\ new[k] = at[k] /\ (k # 0 => new[k - 1] = at[k - 1])
        BY <3>2
      <4> HIDE DEF new
      <4>2. QED
        BY <2>1, <4>1 DEF AreAscending
    <3>3. QED
      BY <3>1, <3>2
  <2>3. AreAscending(S, m + 1, new)
    BY <2>2 DEF AreAscending
  <2>4. QED
    BY <2>3
<1>3. n \in T
  <2> HIDE DEF T
  <2>1. QED
    BY <1>1, <1>2, StepByStep
<1>4. AreAscending(S, n, CHOOSE at : AreAscending(S, n, at))
  BY <1>3
<1>5. Ascending(S, n) = (CHOOSE at : AreAscending(S, n, at))[n]
  BY DEF Ascending, AreAscending
<1>6. QED
  BY <1>4, <1>5

\* A sequence with one more at its end has that in its range.
LEMMA RangeAppend ==
    ASSUME NEW S, NEW s \in Seq(S), NEW e
    PROVE  Range(Append(s, e)) = Range(s) \cup {e}
<1> DEFINE t == Append(s, e)
<1>1. /\ DOMAIN t = 1 .. Len(s) + 1 /\ \A i \in 1 .. Len(s) : t[i] = s[i]
      /\ t[Len(s) + 1] = e
  <2>1. s \in Seq(S \cup {e}) /\ e \in S \cup {e}
    OBVIOUS
  <2>2. /\ t \in Seq(S \cup {e}) /\ Len(t) = Len(s) + 1
        /\ \A i \in 1 .. Len(s) : t[i] = s[i]
        /\ t[Len(s) + 1] = e
    BY <2>1, AppendProperties
  <2>3. QED
    BY <2>2, LenProperties
<1>2. Len(s) \in Nat /\ DOMAIN s = 1 .. Len(s)
  BY LenProperties
<1> HIDE DEF t
<1>3. ASSUME NEW v \in Range(t) PROVE v \in Range(s) \cup {e}
  BY <1>1, <1>2, <1>3 DEF Range
<1>4. ASSUME NEW v \in Range(s) PROVE v \in Range(t)
  <2>1. PICK i \in 1 .. Len(s) : v = s[i]
    BY <1>2, <1>4 DEF Range
  <2>2. i \in DOMAIN t /\ t[i] = v
    BY <1>1, <1>2, <2>1
  <2>3. QED
    BY <2>2 DEF Range
<1>5. e \in Range(t)
  <2>1. Len(s) + 1 \in DOMAIN t /\ t[Len(s) + 1] = e
    BY <1>1, <1>2
  <2>2. QED
    BY <2>1 DEF Range
<1>6. QED
  BY <1>3, <1>4, <1>5 DEF t

\* Two sequences one after the other have the members of both.
LEMMA RangeConcat ==
    ASSUME NEW s, s \in Seq(Range(s)), NEW t, t \in Seq(Range(t))
    PROVE  /\ s \o t \in Seq(Range(s \o t)) /\ Range(s \o t) = Range(s) \cup Range(t)
           /\ Len(s \o t) = Len(s) + Len(t)
           /\ \A i \in 1 .. Len(s) : (s \o t)[i] = s[i]
           /\ \A i \in 1 .. Len(t) : (s \o t)[Len(s) + i] = t[i]
<1> DEFINE u == s \o t
<1>1. /\ Len(s) \in Nat /\ DOMAIN s = 1 .. Len(s)
      /\ Len(t) \in Nat /\ DOMAIN t = 1 .. Len(t)
  BY LenProperties
<1>2. s \in Seq(Range(s) \cup Range(t)) /\ t \in Seq(Range(s) \cup Range(t))
  BY <1>1
<1>3. /\ u \in Seq(Range(s) \cup Range(t)) /\ Len(u) = Len(s) + Len(t)
      /\ DOMAIN u = 1 .. Len(s) + Len(t)
      /\ \A i \in 1 .. Len(s) : u[i] = s[i]
      /\ \A i \in 1 .. Len(t) : u[Len(s) + i] = t[i]
  <2>1. u \in Seq(Range(s) \cup Range(t))
    BY <1>2, ConcatProperties
  <2>2. /\ Len(u) = Len(s) + Len(t)
        /\ \A i \in 1 .. Len(s) + Len(t) : u[i] = IF i <= Len(s) THEN s[i] ELSE t[i - Len(s)]
    BY <1>2, ConcatProperties
  <2>3. DOMAIN u = 1 .. Len(s) + Len(t)
    BY <2>1, <2>2, LenProperties
  <2>4. \A i \in 1 .. Len(s) : u[i] = s[i]
    BY <1>1, <2>2
  <2>5. ASSUME NEW i \in 1 .. Len(t) PROVE u[Len(s) + i] = t[i]
    <3>1. Len(s) + i \in 1 .. Len(s) + Len(t) /\ ~(Len(s) + i <= Len(s)) /\ (Len(s) + i) - Len(s) = i
      BY <1>1
    <3>2. QED
      BY <2>2, <3>1, Zenon
  <2>6. QED
    BY <2>1, <2>2, <2>3, <2>4, <2>5
<1> HIDE DEF u
<1>4. Range(u) \subseteq Range(s) \cup Range(t)
  <2>1. SUFFICES ASSUME NEW k \in 1 .. Len(s) + Len(t) PROVE u[k] \in Range(s) \cup Range(t)
    BY <1>3 DEF Range
  <2>2. CASE k \in 1 .. Len(s)
    BY <1>1, <1>3, <2>2 DEF Range
  <2>3. CASE k \notin 1 .. Len(s)
    <3>1. k - Len(s) \in 1 .. Len(t) /\ k = Len(s) + (k - Len(s))
      BY <1>1, <2>3
    <3>2. QED
      BY <1>1, <1>3, <3>1 DEF Range
  <2>4. QED
    BY <2>2, <2>3
<1>5. ASSUME NEW v \in Range(s) PROVE v \in Range(u)
  <2>1. PICK i \in 1 .. Len(s) : v = s[i]
    BY <1>1, <1>5 DEF Range
  <2>2. i \in DOMAIN u /\ u[i] = v
    BY <1>1, <1>3, <2>1
  <2>3. QED
    BY <2>2 DEF Range
<1>6. ASSUME NEW v \in Range(t) PROVE v \in Range(u)
  <2>1. PICK i \in 1 .. Len(t) : v = t[i]
    BY <1>1, <1>6 DEF Range
  <2>2. Len(s) + i \in DOMAIN u /\ u[Len(s) + i] = v
    BY <1>1, <1>3, <2>1
  <2>3. QED
    BY <2>2 DEF Range
<1>7. Range(u) = Range(s) \cup Range(t)
  BY <1>4, <1>5, <1>6
<1>8. QED
  BY <1>3, <1>7 DEF u

\* Chosen takes members at the chosen places, and all of them.
LEMMA ChosenRange ==
    ASSUME NEW s, s \in Seq(Range(s)), NEW places, places \subseteq DOMAIN s
    PROVE  /\ Chosen(s, places) \in Seq(Range(s))
           /\ Range(Chosen(s, places)) = {s[i] : i \in places}
<1> DEFINE n == Len(s)
<1>1. n \in Nat /\ DOMAIN s = 1 .. n
  BY LenProperties
<1>2. PICK at : AreAscending(places, n, at) /\ Ascending(places, n) = at[n]
  BY <1>1, AscendingExist
<1> DEFINE Right(k) == /\ at[k] \in Seq(1 .. k)
                       /\ Range(at[k]) = places \cap (1 .. k)
           T == {k \in Nat : k <= n => Right(k)}
<1>3. 0 \in T
  <2>1. at[0] = <<>>
    BY <1>1, <1>2 DEF AreAscending
  <2>2. at[0] \in Seq(1 .. 0) /\ Range(at[0]) = {}
    BY <2>1, EmptySeq DEF Range
  <2>3. QED
    BY <2>2
<1>4. ASSUME NEW k \in Nat, k \in T PROVE k + 1 \in T
  <2>1. SUFFICES ASSUME k + 1 <= n PROVE Right(k + 1)
    OBVIOUS
  <2>2. at[k + 1] = IF k + 1 \in places THEN Append(at[k], k + 1) ELSE at[k]
    <3>1. k + 1 \in 0 .. n /\ k + 1 # 0 /\ (k + 1) - 1 = k
      BY <1>1, <2>1
    <3>2. QED
      BY <1>2, <3>1, Zenon DEF AreAscending
  <2>3. at[k] \in Seq(1 .. k + 1) /\ Range(at[k]) = places \cap (1 .. k)
    <3>1. 1 .. k \subseteq 1 .. k + 1
      OBVIOUS
    <3>2. Seq(1 .. k) \subseteq Seq(1 .. k + 1)
      BY <3>1
    <3>3. QED
      BY <1>4, <2>1, <3>2
  <2>4. CASE k + 1 \in places
    <3>1. at[k + 1] = Append(at[k], k + 1)
      BY <2>2, <2>4
    <3>2. at[k + 1] \in Seq(1 .. k + 1)
      BY <2>3, <3>1, AppendProperties
    <3>3. Range(at[k + 1]) = Range(at[k]) \cup {k + 1}
      BY <2>3, <3>1, RangeAppend
    <3>4. QED
      BY <2>3, <2>4, <3>2, <3>3
  <2>5. CASE k + 1 \notin places
    BY <2>2, <2>3, <2>5
  <2>6. QED
    BY <2>4, <2>5
<1>5. Right(n)
  <2>1. \A k \in Nat : k >= 0 => k \in T
    <3> HIDE DEF T
    <3>1. QED
      BY <1>3, <1>4, StepByStep
  <2>2. QED
    BY <1>1, <2>1
<1> DEFINE chosen == Ascending(places, n)
<1>6. /\ Chosen(s, places) = [k \in DOMAIN chosen |-> s[chosen[k]]]
      /\ chosen \in Seq(1 .. n) /\ Range(chosen) = places
  BY <1>1, <1>2, <1>5 DEF Chosen
<1> HIDE DEF chosen
<1>7. DOMAIN chosen = 1 .. Len(chosen) /\ Len(chosen) \in Nat
  BY <1>6, LenProperties
<1>8. \A k \in DOMAIN chosen : chosen[k] \in 1 .. n
  BY <1>6
<1>9. \A k \in DOMAIN chosen : s[chosen[k]] \in Range(s)
  BY <1>1, <1>8 DEF Range
<1>10. Chosen(s, places) \in Seq(Range(s))
  BY <1>6, <1>7, <1>9
<1>11. Range(Chosen(s, places)) = {s[i] : i \in places}
  BY <1>6 DEF Range
<1>12. QED
  BY <1>10, <1>11

CopyStep(t, c, source, copied) ==
    IF source \in copied /\ OutputOf(c) # source THEN LocalWithColumn(t, OutputOf(c), source) ELSE t

AreOutputs(p, n, f) ==
    f = [i \in 1 .. n |-> IF i = 1 THEN OutputsOfSide(p[1].side) ELSE Above(f[i - 1], p[i])]

\* What a plan is known to produce, step by step.
LEMMA OutputsAre ==
    ASSUME NEW p, Len(p) \in Nat \ {0}
    PROVE  /\ OutputsUpTo(p)[1] = OutputsOfSide(p[1].side)
           /\ \A i \in 2 .. Len(p) : OutputsUpTo(p)[i] = Above(OutputsUpTo(p)[i - 1], p[i])
<1> DEFINE T == {m \in Nat : \E f : AreOutputs(p, m, f)}
<1>1. 1 \in T
  <2> DEFINE f == [i \in 1 .. 1 |-> OutputsOfSide(p[1].side)]
  <2>1. \A i \in 1 .. 1 : f[i] = IF i = 1 THEN OutputsOfSide(p[1].side) ELSE Above(f[i - 1], p[i])
    OBVIOUS
  <2>2. AreOutputs(p, 1, f)
    BY <2>1 DEF AreOutputs
  <2>3. QED
    BY <2>2
<1>2. ASSUME NEW m \in Nat, m >= 1, m \in T PROVE m + 1 \in T
  <2>1. PICK f : AreOutputs(p, m, f)
    BY <1>2
  <2> DEFINE next == Above(f[m], p[m + 1])
             g == [i \in 1 .. m + 1 |-> IF i = m + 1 THEN next ELSE f[i]]
  <2>2. ASSUME NEW i \in 1 .. m + 1
       PROVE  g[i] = IF i = 1 THEN OutputsOfSide(p[1].side) ELSE Above(g[i - 1], p[i])
    <3>1. CASE i = m + 1
      <4>1. i # 1 /\ i - 1 = m /\ g[i] = next /\ g[i - 1] = f[m]
        BY <1>2, <3>1
      <4> HIDE DEF g
      <4>2. QED
        BY <3>1, <4>1
    <3>2. CASE i # m + 1
      <4>1. i \in 1 .. m /\ g[i] = f[i] /\ (i # 1 => g[i - 1] = f[i - 1])
        BY <3>2
      <4> HIDE DEF g
      <4>2. QED
        BY <2>1, <4>1 DEF AreOutputs
    <3>3. QED
      BY <3>1, <3>2
  <2>3. AreOutputs(p, m + 1, g)
    BY <2>2 DEF AreOutputs
  <2>4. QED
    BY <2>3
<1>3. Len(p) \in T
  <2> HIDE DEF T
  <2>1. QED
    BY <1>1, <1>2, StepByStep
<1> DEFINE u == CHOOSE f : AreOutputs(p, Len(p), f)
<1>4. AreOutputs(p, Len(p), u)
  BY <1>3
<1>5. OutputsUpTo(p) = u
  BY DEF OutputsUpTo, AreOutputs
<1> HIDE DEF u
<1>6. u[1] = OutputsOfSide(p[1].side)
  BY <1>4 DEF AreOutputs
<1>7. ASSUME NEW i \in 2 .. Len(p) PROVE u[i] = Above(u[i - 1], p[i])
  <2>1. i \in 1 .. Len(p) /\ i # 1
    OBVIOUS
  <2>2. QED
    BY <1>4, <2>1 DEF AreOutputs
<1>8. QED
  BY <1>5, <1>6, <1>7

AreSplits(p, n, f) ==
    f = [i \in 1 .. n |-> IF i = 1 THEN SideFrame(p[1].side) ELSE SplitStep(f[i - 1], p[i], Required(p, i))]

\* What a plan is split into, step by step.
LEMMA SplitsAre ==
    ASSUME NEW p, Len(p) \in Nat \ {0}
    PROVE  /\ SplitUpTo(p)[1] = SideFrame(p[1].side)
           /\ \A i \in 2 .. Len(p) : SplitUpTo(p)[i] = SplitStep(SplitUpTo(p)[i - 1], p[i], Required(p, i))
<1> DEFINE T == {m \in Nat : \E f : AreSplits(p, m, f)}
<1>1. 1 \in T
  <2> DEFINE f == [i \in 1 .. 1 |-> SideFrame(p[1].side)]
  <2>1. \A i \in 1 .. 1 :
           f[i] = IF i = 1 THEN SideFrame(p[1].side) ELSE SplitStep(f[i - 1], p[i], Required(p, i))
    OBVIOUS
  <2>2. AreSplits(p, 1, f)
    BY <2>1 DEF AreSplits
  <2>3. QED
    BY <2>2
<1>2. ASSUME NEW m \in Nat, m >= 1, m \in T PROVE m + 1 \in T
  <2>1. PICK f : AreSplits(p, m, f)
    BY <1>2
  <2> DEFINE next == SplitStep(f[m], p[m + 1], Required(p, m + 1))
             g == [i \in 1 .. m + 1 |-> IF i = m + 1 THEN next ELSE f[i]]
  <2>2. ASSUME NEW i \in 1 .. m + 1
       PROVE  g[i] = IF i = 1 THEN SideFrame(p[1].side) ELSE SplitStep(g[i - 1], p[i], Required(p, i))
    <3>1. CASE i = m + 1
      <4>1. i # 1 /\ i - 1 = m /\ g[i] = next /\ g[i - 1] = f[m]
        BY <1>2, <3>1
      <4> HIDE DEF g
      <4>2. QED
        BY <3>1, <4>1
    <3>2. CASE i # m + 1
      <4>1. i \in 1 .. m /\ g[i] = f[i] /\ (i # 1 => g[i - 1] = f[i - 1])
        BY <3>2
      <4> HIDE DEF g
      <4>2. QED
        BY <2>1, <4>1 DEF AreSplits
    <3>3. QED
      BY <3>1, <3>2
  <2>3. AreSplits(p, m + 1, g)
    BY <2>2 DEF AreSplits
  <2>4. QED
    BY <2>3
<1>3. Len(p) \in T
  <2> HIDE DEF T
  <2>1. QED
    BY <1>1, <1>2, StepByStep
<1> DEFINE u == CHOOSE f : AreSplits(p, Len(p), f)
<1>4. AreSplits(p, Len(p), u)
  BY <1>3
<1>5. SplitUpTo(p) = u
  BY DEF SplitUpTo, AreSplits
<1> HIDE DEF u
<1>6. u[1] = SideFrame(p[1].side)
  BY <1>4 DEF AreSplits
<1>7. ASSUME NEW i \in 2 .. Len(p) PROVE u[i] = SplitStep(u[i - 1], p[i], Required(p, i))
  <2>1. i \in 1 .. Len(p) /\ i # 1
    OBVIOUS
  <2>2. QED
    BY <1>4, <2>1 DEF AreSplits
<1>8. QED
  BY <1>5, <1>6, <1>7

AreMeanings(p, n, f) ==
    f = [i \in 1 .. n |-> IF i = 1 THEN MeantSide(p[1].side) ELSE MeantStep(f[i - 1], p[i])]

\* What a plan means, step by step.
LEMMA MeaningsAre ==
    ASSUME NEW p, Len(p) \in Nat \ {0}
    PROVE  /\ MeaningUpTo(p)[1] = MeantSide(p[1].side)
           /\ \A i \in 2 .. Len(p) : MeaningUpTo(p)[i] = MeantStep(MeaningUpTo(p)[i - 1], p[i])
<1> DEFINE T == {m \in Nat : \E f : AreMeanings(p, m, f)}
<1>1. 1 \in T
  <2> DEFINE f == [i \in 1 .. 1 |-> MeantSide(p[1].side)]
  <2>1. \A i \in 1 .. 1 : f[i] = IF i = 1 THEN MeantSide(p[1].side) ELSE MeantStep(f[i - 1], p[i])
    OBVIOUS
  <2>2. AreMeanings(p, 1, f)
    BY <2>1 DEF AreMeanings
  <2>3. QED
    BY <2>2
<1>2. ASSUME NEW m \in Nat, m >= 1, m \in T PROVE m + 1 \in T
  <2>1. PICK f : AreMeanings(p, m, f)
    BY <1>2
  <2> DEFINE next == MeantStep(f[m], p[m + 1])
             g == [i \in 1 .. m + 1 |-> IF i = m + 1 THEN next ELSE f[i]]
  <2>2. ASSUME NEW i \in 1 .. m + 1
       PROVE  g[i] = IF i = 1 THEN MeantSide(p[1].side) ELSE MeantStep(g[i - 1], p[i])
    <3>1. CASE i = m + 1
      <4>1. i # 1 /\ i - 1 = m /\ g[i] = next /\ g[i - 1] = f[m]
        BY <1>2, <3>1
      <4> HIDE DEF g
      <4>2. QED
        BY <3>1, <4>1
    <3>2. CASE i # m + 1
      <4>1. i \in 1 .. m /\ g[i] = f[i] /\ (i # 1 => g[i - 1] = f[i - 1])
        BY <3>2
      <4> HIDE DEF g
      <4>2. QED
        BY <2>1, <4>1 DEF AreMeanings
    <3>3. QED
      BY <3>1, <3>2
  <2>3. AreMeanings(p, m + 1, g)
    BY <2>2 DEF AreMeanings
  <2>4. QED
    BY <2>3
<1>3. Len(p) \in T
  <2> HIDE DEF T
  <2>1. QED
    BY <1>1, <1>2, StepByStep
<1> DEFINE u == CHOOSE f : AreMeanings(p, Len(p), f)
<1>4. AreMeanings(p, Len(p), u)
  BY <1>3
<1>5. MeaningUpTo(p) = u
  BY DEF MeaningUpTo, AreMeanings
<1> HIDE DEF u
<1>6. u[1] = MeantSide(p[1].side)
  BY <1>4 DEF AreMeanings
<1>7. ASSUME NEW i \in 2 .. Len(p) PROVE u[i] = MeantStep(u[i - 1], p[i])
  <2>1. i \in 1 .. Len(p) /\ i # 1
    OBVIOUS
  <2>2. QED
    BY <1>4, <2>1 DEF AreMeanings
<1>8. QED
  BY <1>5, <1>6, <1>7

AreCopies(t, cols, sources, n, f) ==
    f = [i \in 0 .. n |-> IF i = 0 THEN t ELSE CopyStep(f[i - 1], cols[i], sources[i], Copied(sources))]

\* What is copied for a select(), column by column.
LEMMA CopiesAre ==
    ASSUME NEW t, NEW cols, Len(cols) \in Nat, NEW sources
    PROVE  /\ CopiesUpTo(t, cols, sources)[0] = t
           /\ \A i \in 1 .. Len(cols) :
                 CopiesUpTo(t, cols, sources)[i] =
                    CopyStep(CopiesUpTo(t, cols, sources)[i - 1], cols[i], sources[i], Copied(sources))
<1> DEFINE T == {m \in Nat : \E f : AreCopies(t, cols, sources, m, f)}
<1>1. 0 \in T
  <2> DEFINE f == [i \in 0 .. 0 |-> t]
  <2>1. \A i \in 0 .. 0 : f[i] = IF i = 0 THEN t ELSE CopyStep(f[i - 1], cols[i], sources[i], Copied(sources))
    OBVIOUS
  <2>2. AreCopies(t, cols, sources, 0, f)
    BY <2>1 DEF AreCopies
  <2>3. QED
    BY <2>2
<1>2. ASSUME NEW m \in Nat, m >= 0, m \in T PROVE m + 1 \in T
  <2>1. PICK f : AreCopies(t, cols, sources, m, f)
    BY <1>2
  <2> DEFINE next == CopyStep(f[m], cols[m + 1], sources[m + 1], Copied(sources))
             g == [i \in 0 .. m + 1 |-> IF i = m + 1 THEN next ELSE f[i]]
  <2>2. ASSUME NEW i \in 0 .. m + 1
       PROVE  g[i] = IF i = 0 THEN t ELSE CopyStep(g[i - 1], cols[i], sources[i], Copied(sources))
    <3>1. CASE i = m + 1
      <4>1. i # 0 /\ i - 1 = m /\ g[i] = next /\ g[i - 1] = f[m]
        BY <1>2, <3>1
      <4> HIDE DEF g
      <4>2. QED
        BY <3>1, <4>1
    <3>2. CASE i # m + 1
      <4>1. i \in 0 .. m /\ g[i] = f[i] /\ (i # 0 => g[i - 1] = f[i - 1])
        BY <3>2
      <4> HIDE DEF g
      <4>2. QED
        BY <2>1, <4>1 DEF AreCopies
    <3>3. QED
      BY <3>1, <3>2
  <2>3. AreCopies(t, cols, sources, m + 1, g)
    BY <2>2 DEF AreCopies
  <2>4. QED
    BY <2>3
<1>3. Len(cols) \in T
  <2> HIDE DEF T
  <2>1. QED
    BY <1>1, <1>2, StepByStep
<1> DEFINE u == CHOOSE f : AreCopies(t, cols, sources, Len(cols), f)
<1>4. AreCopies(t, cols, sources, Len(cols), u)
  BY <1>3
<1>5. CopiesUpTo(t, cols, sources) = u
  BY DEF CopiesUpTo, CopyStep, AreCopies
<1> HIDE DEF u
<1>6. u[0] = t
  BY <1>4 DEF AreCopies
<1>7. ASSUME NEW i \in 1 .. Len(cols) PROVE u[i] = CopyStep(u[i - 1], cols[i], sources[i], Copied(sources))
  <2>1. i \in 0 .. Len(cols) /\ i # 0
    OBVIOUS
  <2>2. QED
    BY <1>4, <2>1 DEF AreCopies
<1>8. QED
  BY <1>5, <1>6, <1>7

(***************************************************************************)
(* Columns.                                                                *)
(***************************************************************************)
\* A sequence is one of its members.
LEMMA MembersAre ==
    ASSUME NEW S, NEW s, s \in Seq(S)
    PROVE  /\ s \in Seq(Range(s))
           /\ Len(s) \in Nat
           /\ DOMAIN s = 1 .. Len(s)
           /\ \A i \in 1 .. Len(s) : s[i] \in Range(s)
           /\ \A v \in Range(s) : \E i \in 1 .. Len(s) : s[i] = v
           /\ s # <<>> => Len(s) >= 1
           /\ Len(s) >= 1 => s # <<>>
<1>1. Len(s) \in Nat /\ DOMAIN s = 1 .. Len(s) /\ s = [i \in 1 .. Len(s) |-> s[i]]
  BY LenProperties
<1>2. \A i \in 1 .. Len(s) : s[i] \in Range(s)
  BY <1>1 DEF Range
<1>3. s \in Seq(Range(s))
  BY <1>1, <1>2
<1>4. \A v \in Range(s) : \E i \in 1 .. Len(s) : s[i] = v
  BY <1>1 DEF Range
<1>5. s # <<>> => Len(s) >= 1
  BY <1>1, EmptySeq
<1>6. Len(s) >= 1 => s # <<>>
  BY <1>1, EmptySeq
<1>7. QED
  BY <1>1, <1>2, <1>3, <1>4, <1>5, <1>6

\* The columns of a side that are no key.
LEMMA OthersAre ==
    ASSUME NEW names, names \in Seq(Range(names)), NEW on
    PROVE  /\ Others(names, on) \in Seq(Range(Others(names, on)))
           /\ Range(Others(names, on)) = Range(names) \ Range(on)
<1> DEFINE places == {i \in DOMAIN names : names[i] \notin Range(on)}
<1>1. /\ Chosen(names, places) \in Seq(Range(names))
      /\ Range(Chosen(names, places)) = {names[i] : i \in places}
  BY ChosenRange
<1>2. {names[i] : i \in places} = Range(names) \ Range(on)
  BY DEF Range
<1>3. QED
  BY <1>1, <1>2, MembersAre DEF Others

\* The columns of a join: the keys and what either side has.
LEMMA JoinColumnsAre ==
    ASSUME NEW on, on \in Seq(Range(on)), NEW left, left \in Seq(Range(left)),
           NEW right, right \in Seq(Range(right))
    PROVE  LET names == JoinColumns(on, left, right)
           IN  /\ names \in Seq(Range(names))
               /\ Range(names) = Range(on) \cup Range(left) \cup Range(right)
               /\ on # <<>> => names # <<>>
<1> DEFINE l == Others(left, on)
           r == Others(right, on)
<1>1. /\ l \in Seq(Range(l)) /\ Range(l) = Range(left) \ Range(on)
      /\ r \in Seq(Range(r)) /\ Range(r) = Range(right) \ Range(on)
  BY OthersAre
<1> HIDE DEF l, r
<1>2. /\ on \o l \in Seq(Range(on \o l)) /\ Range(on \o l) = Range(on) \cup Range(l)
      /\ Len(on \o l) = Len(on) + Len(l)
  BY <1>1, RangeConcat
<1>3. /\ (on \o l) \o r \in Seq(Range((on \o l) \o r))
      /\ Range((on \o l) \o r) = Range(on \o l) \cup Range(r)
      /\ Len((on \o l) \o r) = Len(on \o l) + Len(r)
  BY <1>1, <1>2, RangeConcat
<1>4. on # <<>> => (on \o l) \o r # <<>>
  BY <1>1, <1>2, <1>3, MembersAre
<1>5. JoinColumns(on, left, right) = (on \o l) \o r
  BY DEF JoinColumns, l, r
<1>6. QED
  BY <1>1, <1>2, <1>3, <1>4, <1>5

(***************************************************************************)
(* Types.                                                                  *)
(***************************************************************************)
\* The kinds of types, one by one.
LEMMA KindsAre ==
    Kinds = {"null", "int32", "int64", "decimal", "double", "string", "large_string", "date",
             "timestamp"}
<1> DEFINE A == <<"null", "int32", "int64", "decimal", "double">>
           B == <<"null", "string", "large_string">>
           C == <<"null", "date", "timestamp">>
<1>1. Range(A) = {"null", "int32", "int64", "decimal", "double"}
  <2>1. DOMAIN A = {1, 2, 3, 4, 5}
    OBVIOUS
  <2>2. QED
    BY <2>1 DEF Range
<1>2. Range(B) = {"null", "string", "large_string"}
  <2>1. DOMAIN B = {1, 2, 3}
    OBVIOUS
  <2>2. QED
    BY <2>1 DEF Range
<1>3. Range(C) = {"null", "date", "timestamp"}
  <2>1. DOMAIN C = {1, 2, 3}
    OBVIOUS
  <2>2. QED
    BY <2>1 DEF Range
<1>4. Kinds = Range(A) \cup Range(B) \cup Range(C)
  BY DEF Kinds, Chains
<1>5. QED
  BY <1>1, <1>2, <1>3, <1>4

\* Which type is wider than which.
LEMMA WiderIs ==
    ASSUME NEW w, NEW n
    PROVE  Wider(w, n) <=>
              \/ n = "null" /\ w \in {"int32", "int64", "decimal", "double", "string", "large_string",
                                      "date", "timestamp"}
              \/ n = "int32" /\ w \in {"int64", "decimal", "double"}
              \/ n = "int64" /\ w \in {"decimal", "double"}
              \/ n = "decimal" /\ w = "double"
              \/ n = "string" /\ w = "large_string"
              \/ n = "date" /\ w = "timestamp"
<1> DEFINE A == <<"null", "int32", "int64", "decimal", "double">>
           B == <<"null", "string", "large_string">>
           C == <<"null", "date", "timestamp">>
           In(chain) == \E i, j \in DOMAIN chain : i < j /\ chain[i] = n /\ chain[j] = w
<1>1. Wider(w, n) <=> In(A) \/ In(B) \/ In(C)
  BY DEF Wider, Chains
<1>2. In(A) <=> \/ n = "null" /\ w \in {"int32", "int64", "decimal", "double"}
                \/ n = "int32" /\ w \in {"int64", "decimal", "double"}
                \/ n = "int64" /\ w \in {"decimal", "double"}
                \/ n = "decimal" /\ w = "double"
  <2>1. /\ DOMAIN A = {1, 2, 3, 4, 5} /\ A[1] = "null" /\ A[2] = "int32" /\ A[3] = "int64"
        /\ A[4] = "decimal" /\ A[5] = "double"
    OBVIOUS
  <2> HIDE DEF A
  <2>2. QED
    BY <2>1
<1>3. In(B) <=> \/ n = "null" /\ w \in {"string", "large_string"}
                \/ n = "string" /\ w = "large_string"
  <2>1. DOMAIN B = {1, 2, 3} /\ B[1] = "null" /\ B[2] = "string" /\ B[3] = "large_string"
    OBVIOUS
  <2> HIDE DEF B
  <2>2. QED
    BY <2>1
<1>4. In(C) <=> \/ n = "null" /\ w \in {"date", "timestamp"}
                \/ n = "date" /\ w = "timestamp"
  <2>1. DOMAIN C = {1, 2, 3} /\ C[1] = "null" /\ C[2] = "date" /\ C[3] = "timestamp"
    OBVIOUS
  <2> HIDE DEF C
  <2>2. QED
    BY <2>1
<1> HIDE DEF In
<1>5. QED
  BY <1>1, <1>2, <1>3, <1>4

\* A key is cast to the narrowest type that holds the values of both sides, when there is one.
LEMMA PromotedIsWidest ==
    ASSUME NEW l \in Kinds, NEW r \in Kinds
    PROVE  /\ Promoted(l, r) = Widest(l, r)
           /\ Promoted(l, r) \in Kinds \cup {NoType}
           /\ NoType \notin Kinds
<1>1. Promoted(l, r) = Widest(l, r)
  <2>1. CASE l = r \/ r = "null"
    BY <2>1, KindsAre, WiderIs DEF Promoted, Widest
  <2>2. CASE l # r /\ r # "null" /\ l = "null"
    BY <2>2, KindsAre, WiderIs DEF Promoted, Widest
  <2>3. CASE l # r /\ "null" \notin {l, r}
    <3> DEFINE W == IF Widened(l, r) # NoType THEN Widened(l, r) ELSE Widened(r, l)
    <3>1. Promoted(l, r) = W
      BY <2>3 DEF Promoted
    <3>2. W = Widest(l, r)
      BY <2>3, KindsAre, WiderIs DEF Widest, Widened, Integers64, Text, NoType
    <3>3. QED
      BY <3>1, <3>2
  <2>4. QED
    BY <2>1, <2>2, <2>3
<1>2. Widest(l, r) \in Kinds \cup {NoType}
  BY DEF Widest
<1>3. NoType \notin Kinds
  BY KindsAre DEF NoType
<1>4. QED
  BY <1>1, <1>2, <1>3

(***************************************************************************)
(* Tables, and the rows of a join.                                         *)
(***************************************************************************)
\* What a table is made of.
LEMMA TableIs ==
    ASSUME NEW t, IsTable(t)
    PROVE  /\ t.ok
           /\ t.names \in Seq(Range(t.names))
           /\ t.names # <<>>
           /\ t.types \in [Range(t.names) -> Kinds]
           /\ t.rows \in [DOMAIN t.rows -> [Range(t.names) -> Nat]]
           /\ NoRow \notin DOMAIN t.rows
           /\ t = Table(t.names, t.types, t.rows)
BY DEF IsTable, Table

\* What is made of the parts of a table is one.
LEMMA TableMade ==
    ASSUME NEW names, names \in Seq(Range(names)), names # <<>>,
           NEW types, types \in [Range(names) -> Kinds],
           NEW rows, rows \in [DOMAIN rows -> [Range(names) -> Nat]], NoRow \notin DOMAIN rows
    PROVE  /\ IsTable(Table(names, types, rows))
           /\ Table(names, types, rows).ok
           /\ Table(names, types, rows).names = names
           /\ Table(names, types, rows).types = types
           /\ Table(names, types, rows).rows = rows
<1> DEFINE t == Table(names, types, rows)
<1>1. t.ok /\ t.names = names /\ t.types = types /\ t.rows = rows
  BY DEF Table
<1> HIDE DEF t
<1>2. t = Table(t.names, t.types, t.rows)
  BY <1>1 DEF t
<1>3. QED
  BY <1>1, <1>2 DEF IsTable, t

Cells(l, r, p, names) ==
    [n \in Range(names) |->
        IF p[1] # NoRow /\ n \in Range(l.names) THEN l.rows[p[1]][n]
        ELSE IF p[2] # NoRow /\ n \in Range(r.names) THEN r.rows[p[2]][n] ELSE Null]

AllCells(l, r, places, names) == [p \in places |-> Cells(l, r, p, names)]

\* A row of one side beside one of the other, or beside none, padded to the names of both.
LEMMA BesideIs ==
    ASSUME NEW l, IsTable(l), NEW r, IsTable(r), NEW names,
           Range(names) = Range(l.names) \cup Range(r.names),
           NEW left, NEW right, NEW p,
           p[1] # NoRow => p[1] \in DOMAIN l.rows /\ left[p[1]] = l.rows[p[1]],
           p[2] # NoRow => p[2] \in DOMAIN r.rows /\ right[p[2]] = r.rows[p[2]]
    PROVE  /\ Padded(Beside(left, right, p), names) = Cells(l, r, p, names)
           /\ Cells(l, r, p, names) \in [Range(names) -> Nat]
<1> DEFINE u == IF p[1] = NoRow THEN <<>> ELSE left[p[1]]
           v == IF p[2] = NoRow THEN <<>> ELSE right[p[2]]
           A == IF p[1] = NoRow THEN {} ELSE Range(l.names)
           B == IF p[2] = NoRow THEN {} ELSE Range(r.names)
<1>1. DOMAIN u = A /\ \A n \in A : u[n] = l.rows[p[1]][n] /\ l.rows[p[1]][n] \in Nat
  <2>1. CASE p[1] = NoRow
    BY <2>1
  <2>2. CASE p[1] # NoRow
    BY <2>2, TableIs
  <2>3. QED
    BY <2>1, <2>2
<1>2. DOMAIN v = B /\ \A n \in B : v[n] = r.rows[p[2]][n] /\ r.rows[p[2]][n] \in Nat
  <2>1. CASE p[2] = NoRow
    BY <2>1
  <2>2. CASE p[2] # NoRow
    BY <2>2, TableIs
  <2>3. QED
    BY <2>1, <2>2
<1>3. Beside(left, right, p) = Over(u, v)
  BY DEF Beside
<1> HIDE DEF u, v
<1> DEFINE w == Over(u, v)
<1>4. DOMAIN w = A \cup B /\ \A n \in A \cup B : w[n] = IF n \in A THEN u[n] ELSE v[n]
  BY <1>1, <1>2 DEF Over
<1> HIDE DEF w
<1>5. Padded(w, names) = [n \in Range(names) |-> IF n \in A \cup B THEN w[n] ELSE Null]
  BY <1>4 DEF Padded
<1>6. ASSUME NEW n \in Range(names)
      PROVE  /\ (IF n \in A \cup B THEN w[n] ELSE Null) = Cells(l, r, p, names)[n]
             /\ Cells(l, r, p, names)[n] \in Nat
  <2> DEFINE cell == IF p[1] # NoRow /\ n \in Range(l.names) THEN l.rows[p[1]][n]
                     ELSE IF p[2] # NoRow /\ n \in Range(r.names) THEN r.rows[p[2]][n] ELSE Null
  <2>1. Cells(l, r, p, names)[n] = cell
    BY DEF Cells
  <2>2. (IF n \in A \cup B THEN w[n] ELSE Null) = cell
    BY <1>1, <1>2, <1>4
  <2>3. cell \in Nat
    BY <1>1, <1>2 DEF Null
  <2>4. QED
    BY <2>1, <2>2, <2>3
<1>7. Padded(w, names) = Cells(l, r, p, names)
  BY <1>5, <1>6 DEF Cells
<1>8. Cells(l, r, p, names) \in [Range(names) -> Nat]
  BY <1>6 DEF Cells
<1>9. QED
  BY <1>3, <1>7, <1>8 DEF w

Met(l, r, L, R, on) == {p \in L \X R : Matches(l.rows[p[1]], r.rows[p[2]], on)}
Kept(l, r, L, R, on, how) ==
    LET pairs == Met(l, r, L, R, on)
        left == IF how \in KeepsLeft THEN L \ {p[1] : p \in pairs} ELSE {}
        right == IF how \in KeepsRight THEN R \ {p[2] : p \in pairs} ELSE {}
    IN  (left \X {NoRow}) \cup ({NoRow} \X right)

\* The merge of some of the rows of two tables: those that match side by side, and of the
\* sides that keep them those that match none.
LEMMA MergeIs ==
    ASSUME NEW l, IsTable(l), NEW r, IsTable(r), NEW names,
           Range(names) = Range(l.names) \cup Range(r.names), NEW on, NEW how,
           NEW left, DOMAIN left \subseteq DOMAIN l.rows,
           \A i \in DOMAIN left : left[i] = l.rows[i],
           NEW right, DOMAIN right \subseteq DOMAIN r.rows,
           \A j \in DOMAIN right : right[j] = r.rows[j]
    PROVE  Merge(left, right, on, how, names) =
               AllCells(l, r, Met(l, r, DOMAIN left, DOMAIN right, on)
                              \cup Kept(l, r, DOMAIN left, DOMAIN right, on, how), names)
<1> DEFINE L == DOMAIN left
           R == DOMAIN right
           pairs == {p \in L \X R : Matches(left[p[1]], right[p[2]], on)}
           onlyLeft == IF how \in KeepsLeft THEN L \ {p[1] : p \in pairs} ELSE {}
           onlyRight == IF how \in KeepsRight THEN R \ {p[2] : p \in pairs} ELSE {}
           places == pairs \cup (onlyLeft \X {NoRow}) \cup ({NoRow} \X onlyRight)
<1>1. pairs = Met(l, r, L, R, on)
  BY DEF Met
<1>2. (onlyLeft \X {NoRow}) \cup ({NoRow} \X onlyRight) = Kept(l, r, L, R, on, how)
  BY <1>1 DEF Kept
<1>3. ASSUME NEW p \in places PROVE Padded(Beside(left, right, p), names) = Cells(l, r, p, names)
  <2>1. p[1] \in L \cup {NoRow} /\ p[2] \in R \cup {NoRow}
    OBVIOUS
  <2>2. /\ p[1] # NoRow => p[1] \in DOMAIN l.rows /\ left[p[1]] = l.rows[p[1]]
        /\ p[2] # NoRow => p[2] \in DOMAIN r.rows /\ right[p[2]] = r.rows[p[2]]
    BY <2>1
  <2>3. QED
    BY <2>2, BesideIs
<1>4. Merge(left, right, on, how, names) = [p \in places |-> Padded(Beside(left, right, p), names)]
  BY DEF Merge
<1>5. [p \in places |-> Padded(Beside(left, right, p), names)] = [p \in places |-> Cells(l, r, p, names)]
  BY <1>3
<1>6. places = Met(l, r, L, R, on) \cup Kept(l, r, L, R, on, how)
  BY <1>1, <1>2
<1>7. QED
  BY <1>4, <1>5, <1>6 DEF AllCells

MeantPlaces(l, r, on, how) ==
    LET pairs == Pairs(l, r, on)
        left == IF how \in KeepsLeft THEN DOMAIN l.rows \ {p[1] : p \in pairs} ELSE {}
        right == IF how \in KeepsRight THEN DOMAIN r.rows \ {p[2] : p \in pairs} ELSE {}
    IN  pairs \cup (left \X {NoRow}) \cup ({NoRow} \X right)

\* What is meant by a join, its rows in the words of the local one's.
LEMMA MeantJoinIs ==
    ASSUME NEW l, NEW r, NEW on, NEW how, Joinable(l, r, on)
    PROVE  MeantJoin(l, r, on, how) =
               Table(JoinColumns(on, l.names, r.names), MeantTypes(l, r, Range(on)),
                     AllCells(l, r, MeantPlaces(l, r, on, how), JoinColumns(on, l.names, r.names)))
BY DEF MeantJoin, JoinColumns, MeantPlaces, AllCells, Cells, KeepsLeft, KeepsRight

HeldOf(t, on) == {i \in DOMAIN t.rows : Held(t.rows[i], on)}
FreeOf(t, on) == Restrict(t.rows, DOMAIN t.rows \ HeldOf(t, on))
Joined(l, r, on, how) ==
    Over(Merge(FreeOf(l, on), FreeOf(r, on), on, how, JoinColumns(on, l.names, r.names)),
         [p \in ((IF how \in KeepsLeft THEN HeldOf(l, on) ELSE {}) \X {NoRow})
                \cup ({NoRow} \X IF how \in KeepsRight THEN HeldOf(r, on) ELSE {}) |->
             Padded(Beside(l.rows, r.rows, p), JoinColumns(on, l.names, r.names))])

\* A local join is refused, or its rows are what is joined.
LEMMA LocalJoinIs ==
    ASSUME NEW l, NEW r, NEW on, NEW how
    PROVE  \/ LocalJoin(l, r, on, how) = Fails
           \/ /\ l.ok /\ r.ok
              /\ Range(on) \subseteq Range(l.names) \cap Range(r.names)
              /\ Overlap(on, l.names, r.names) = {}
              /\ \A n \in Range(on) : Promoted(l.types[n], r.types[n]) # NoType
              /\ LocalJoin(l, r, on, how) =
                     Table(JoinColumns(on, l.names, r.names), JoinTypes(l, r, on), Joined(l, r, on, how))
BY DEF LocalJoin, Joined, HeldOf, FreeOf

\* The rows of a local join are those that are meant: null-keyed rows match nothing and come
\* back on the sides that keep their unmatched rows.
LEMMA JoinedIs ==
    ASSUME NEW l, IsTable(l), NEW r, IsTable(r), NEW on, on \in Seq(Range(on)), NEW how,
           Range(on) \subseteq Range(l.names) \cap Range(r.names)
    PROVE  Joined(l, r, on, how) =
               AllCells(l, r, MeantPlaces(l, r, on, how), JoinColumns(on, l.names, r.names))
<1> DEFINE names == JoinColumns(on, l.names, r.names)
           L == DOMAIN l.rows \ HeldOf(l, on)
           R == DOMAIN r.rows \ HeldOf(r, on)
           left == IF how \in KeepsLeft THEN HeldOf(l, on) ELSE {}
           right == IF how \in KeepsRight THEN HeldOf(r, on) ELSE {}
           held == (left \X {NoRow}) \cup ({NoRow} \X right)
           free == Met(l, r, L, R, on) \cup Kept(l, r, L, R, on, how)
           merged == Merge(FreeOf(l, on), FreeOf(r, on), on, how, names)
           back == [p \in held |-> Padded(Beside(l.rows, r.rows, p), names)]
<1>1. Range(names) = Range(l.names) \cup Range(r.names)
  BY TableIs, JoinColumnsAre
<1> HIDE DEF names
<1>2. /\ DOMAIN FreeOf(l, on) = L /\ \A i \in L : FreeOf(l, on)[i] = l.rows[i]
      /\ DOMAIN FreeOf(r, on) = R /\ \A j \in R : FreeOf(r, on)[j] = r.rows[j]
  BY DEF FreeOf, Restrict
<1>3. merged = AllCells(l, r, free, names)
  <2> DEFINE fl == FreeOf(l, on)
             fr == FreeOf(r, on)
  <2>1. /\ DOMAIN fl \subseteq DOMAIN l.rows /\ \A i \in DOMAIN fl : fl[i] = l.rows[i]
        /\ DOMAIN fr \subseteq DOMAIN r.rows /\ \A j \in DOMAIN fr : fr[j] = r.rows[j]
    BY <1>2
  <2>2. DOMAIN fl = L /\ DOMAIN fr = R
    BY <1>2
  <2> HIDE DEF fl, fr, L, R
  <2>3. Merge(fl, fr, on, how, names) =
            AllCells(l, r, Met(l, r, DOMAIN fl, DOMAIN fr, on)
                           \cup Kept(l, r, DOMAIN fl, DOMAIN fr, on, how), names)
    BY <1>1, <2>1, MergeIs
  <2>4. QED
    BY <2>2, <2>3 DEF fl, fr
<1>4. back = [p \in held |-> Cells(l, r, p, names)]
  <2>1. ASSUME NEW p \in held PROVE Padded(Beside(l.rows, r.rows, p), names) = Cells(l, r, p, names)
    <3> DEFINE left1 == l.rows
               right1 == r.rows
    <3>1. /\ p[1] # NoRow => p[1] \in DOMAIN l.rows /\ left1[p[1]] = l.rows[p[1]]
          /\ p[2] # NoRow => p[2] \in DOMAIN r.rows /\ right1[p[2]] = r.rows[p[2]]
      BY DEF HeldOf
    <3> HIDE DEF left1, right1
    <3>2. Padded(Beside(left1, right1, p), names) = Cells(l, r, p, names)
      BY <1>1, <3>1, BesideIs
    <3>3. QED
      BY <3>2 DEF left1, right1
  <2>2. QED
    BY <2>1
<1> HIDE DEF merged, back
<1>5. Over(merged, back) = [p \in free \cup held |-> Cells(l, r, p, names)]
  BY <1>3, <1>4 DEF Over, AllCells
<1>6. Met(l, r, L, R, on) = Pairs(l, r, on)
  BY DEF Met, Pairs, Matches, HeldOf, Held
<1>7. free \cup held = MeantPlaces(l, r, on, how)
  <2> DEFINE pairs == Pairs(l, r, on)
             freeLeft == IF how \in KeepsLeft THEN L \ {p[1] : p \in pairs} ELSE {}
             freeRight == IF how \in KeepsRight THEN R \ {p[2] : p \in pairs} ELSE {}
             allLeft == IF how \in KeepsLeft THEN DOMAIN l.rows \ {p[1] : p \in pairs} ELSE {}
             allRight == IF how \in KeepsRight THEN DOMAIN r.rows \ {p[2] : p \in pairs} ELSE {}
  <2>1. \A p \in pairs : p[1] \in L /\ p[2] \in R
    BY <1>6 DEF Met
  <2>2. HeldOf(l, on) \subseteq DOMAIN l.rows /\ HeldOf(r, on) \subseteq DOMAIN r.rows
    BY DEF HeldOf
  <2> HIDE DEF pairs
  <2>3. allLeft = freeLeft \cup left
    BY <2>1, <2>2
  <2>4. allRight = freeRight \cup right
    BY <2>1, <2>2
  <2>5. free = pairs \cup (freeLeft \X {NoRow}) \cup ({NoRow} \X freeRight)
    BY <1>6 DEF Kept, pairs
  <2>6. MeantPlaces(l, r, on, how) = pairs \cup (allLeft \X {NoRow}) \cup ({NoRow} \X allRight)
    BY DEF MeantPlaces, pairs
  <2> HIDE DEF free, freeLeft, freeRight, allLeft, allRight, left, right
  <2>7. QED
    BY <2>3, <2>4, <2>5, <2>6 DEF held
<1>8. Joined(l, r, on, how) = Over(merged, back)
  BY DEF Joined, merged, back, names
<1>9. QED
  BY <1>5, <1>7, <1>8 DEF names, AllCells

\* A refusal of the local engine is no table.
LEMMA FailsIsNone == ~Fails.ok
BY DEF Fails

\* What a local join makes of two tables, when it makes one.
LEMMA JoinMakes ==
    ASSUME NEW l, l.ok => IsTable(l), NEW r, r.ok => IsTable(r), NEW on, on \in Seq(Range(on)),
           on # <<>>, NEW how, LocalJoin(l, r, on, how).ok
    PROVE  LET t == LocalJoin(l, r, on, how)
           IN  /\ l.ok /\ r.ok /\ IsTable(l) /\ IsTable(r) /\ IsTable(t)
               /\ Range(on) \subseteq Range(l.names) \cap Range(r.names)
               /\ Overlap(on, l.names, r.names) = {}
               /\ \A n \in Range(on) : Promoted(l.types[n], r.types[n]) # NoType
               /\ t.names = JoinColumns(on, l.names, r.names)
               /\ Range(t.names) = Range(l.names) \cup Range(r.names)
               /\ t.types = JoinTypes(l, r, on)
               /\ t.rows = AllCells(l, r, MeantPlaces(l, r, on, how), t.names)
<1> DEFINE t == LocalJoin(l, r, on, how)
           names == JoinColumns(on, l.names, r.names)
           rows == AllCells(l, r, MeantPlaces(l, r, on, how), names)
<1>1. /\ l.ok /\ r.ok
      /\ Range(on) \subseteq Range(l.names) \cap Range(r.names)
      /\ Overlap(on, l.names, r.names) = {}
      /\ \A n \in Range(on) : Promoted(l.types[n], r.types[n]) # NoType
      /\ t = Table(names, JoinTypes(l, r, on), Joined(l, r, on, how))
  <2>1. t # Fails
    BY FailsIsNone
  <2>2. QED
    BY <2>1, LocalJoinIs, Zenon
<1>2. IsTable(l) /\ IsTable(r)
  BY <1>1
<1> HIDE DEF t
<1>3. Joined(l, r, on, how) = rows
  BY <1>1, <1>2, JoinedIs
<1>4. /\ names \in Seq(Range(names)) /\ names # <<>>
      /\ Range(names) = Range(l.names) \cup Range(r.names)
  BY <1>1, <1>2, TableIs, JoinColumnsAre
<1> HIDE DEF names
<1>5. JoinTypes(l, r, on) \in [Range(names) -> Kinds]
  <2>1. ASSUME NEW n \in Range(l.names) \cup Range(r.names)
        PROVE  /\ n \in Range(on) => Promoted(l.types[n], r.types[n]) \in Kinds
               /\ n \in Range(l.names) => l.types[n] \in Kinds
               /\ n \in Range(r.names) => r.types[n] \in Kinds
    <3>1. /\ n \in Range(l.names) => l.types[n] \in Kinds
          /\ n \in Range(r.names) => r.types[n] \in Kinds
      BY <1>2, TableIs
    <3>2. CASE n \in Range(on)
      <4>1. l.types[n] \in Kinds /\ r.types[n] \in Kinds
        BY <1>1, <3>1, <3>2
      <4>2. Promoted(l.types[n], r.types[n]) \in Kinds \cup {NoType}
        BY <4>1, PromotedIsWidest
      <4>3. QED
        BY <1>1, <3>1, <3>2, <4>2
    <3>3. QED
      BY <3>1, <3>2
  <2>2. QED
    BY <1>4, <2>1 DEF JoinTypes
<1>6. rows \in [DOMAIN rows -> [Range(names) -> Nat]] /\ NoRow \notin DOMAIN rows
  <2>1. DOMAIN rows = MeantPlaces(l, r, on, how)
    BY DEF AllCells
  <2>2. ASSUME NEW p \in MeantPlaces(l, r, on, how)
        PROVE  p # NoRow /\ Cells(l, r, p, names) \in [Range(names) -> Nat]
    <3>1. /\ p # NoRow
          /\ p[1] # NoRow => p[1] \in DOMAIN l.rows
          /\ p[2] # NoRow => p[2] \in DOMAIN r.rows
      BY DEF MeantPlaces, Pairs, NoRow
    <3> DEFINE left == l.rows
               right == r.rows
    <3>2. /\ p[1] # NoRow => p[1] \in DOMAIN l.rows /\ left[p[1]] = l.rows[p[1]]
          /\ p[2] # NoRow => p[2] \in DOMAIN r.rows /\ right[p[2]] = r.rows[p[2]]
      BY <3>1
    <3> HIDE DEF left, right
    <3>3. Cells(l, r, p, names) \in [Range(names) -> Nat]
      BY <1>2, <1>4, <3>2, BesideIs
    <3>4. QED
      BY <3>1, <3>3
  <2>3. QED
    BY <2>1, <2>2 DEF AllCells
<1> DEFINE types == JoinTypes(l, r, on)
<1>7. /\ types \in [Range(names) -> Kinds] /\ t = Table(names, types, rows)
      /\ rows \in [DOMAIN rows -> [Range(names) -> Nat]] /\ NoRow \notin DOMAIN rows
      /\ names \in Seq(Range(names)) /\ names # <<>>
  BY <1>1, <1>3, <1>4, <1>5, <1>6
<1> HIDE DEF types, rows
<1>8. IsTable(t) /\ t.names = names /\ t.types = types /\ t.rows = rows
  BY <1>7, TableMade
<1>9. QED
  BY <1>1, <1>2, <1>4, <1>8 DEF t, names, types, rows

\* What a local union makes of two tables, when it makes one.
LEMMA UnionMakes ==
    ASSUME NEW l, l.ok => IsTable(l), NEW r, r.ok => IsTable(r), LocalUnion(l, r).ok
    PROVE  LET t == LocalUnion(l, r)
           IN  /\ l.ok /\ r.ok /\ IsTable(l) /\ IsTable(r) /\ IsTable(t)
               /\ l.names = r.names /\ t.names = l.names
               /\ \A n \in Range(l.names) : Promoted(l.types[n], r.types[n]) # NoType
               /\ t.types = [n \in Range(l.names) |-> Promoted(l.types[n], r.types[n])]
               /\ t.rows = Stacked(l.rows, r.rows)
<1> DEFINE t == LocalUnion(l, r)
           types == [n \in Range(l.names) |-> Promoted(l.types[n], r.types[n])]
           rows == Stacked(l.rows, r.rows)
<1>1. /\ l.ok /\ r.ok /\ l.names = r.names
      /\ \A n \in Range(l.names) : Promoted(l.types[n], r.types[n]) # NoType
      /\ t = Table(l.names, types, rows)
  BY FailsIsNone DEF LocalUnion
<1> HIDE DEF t
<1>2. IsTable(l) /\ IsTable(r)
  BY <1>1
<1>3. types \in [Range(l.names) -> Kinds]
  <2>1. ASSUME NEW n \in Range(l.names) PROVE Promoted(l.types[n], r.types[n]) \in Kinds
    <3>1. l.types[n] \in Kinds /\ r.types[n] \in Kinds
      BY <1>1, <1>2, TableIs
    <3>2. Promoted(l.types[n], r.types[n]) \in Kinds \cup {NoType}
      BY <3>1, PromotedIsWidest
    <3>3. QED
      BY <1>1, <3>2
  <2>2. QED
    BY <2>1
<1>4. rows \in [DOMAIN rows -> [Range(l.names) -> Nat]] /\ NoRow \notin DOMAIN rows
  <2>1. DOMAIN rows = ({1} \X DOMAIN l.rows) \cup ({2} \X DOMAIN r.rows)
    BY DEF Stacked
  <2>2. ASSUME NEW p \in DOMAIN rows PROVE p # NoRow /\ rows[p] \in [Range(l.names) -> Nat]
    <3>1. CASE p \in {1} \X DOMAIN l.rows
      <4>1. p # NoRow /\ rows[p] = l.rows[p[2]] /\ p[2] \in DOMAIN l.rows
        BY <2>1, <3>1 DEF Stacked, NoRow
      <4>2. QED
        BY <1>2, <4>1, TableIs
    <3>2. CASE p \in {2} \X DOMAIN r.rows
      <4>1. p # NoRow /\ rows[p] = r.rows[p[2]] /\ p[2] \in DOMAIN r.rows
        BY <2>1, <3>2 DEF Stacked, NoRow
      <4>2. QED
        BY <1>1, <1>2, <4>1, TableIs
    <3>3. QED
      BY <2>1, <3>1, <3>2
  <2>3. \E D : rows = [p \in D |-> rows[p]]
    BY DEF Stacked
  <2> HIDE DEF rows
  <2>4. QED
    BY <2>2, <2>3
<1> DEFINE names == l.names
<1>5. names \in Seq(Range(names)) /\ names # <<>>
  BY <1>2, TableIs
<1>6. /\ types \in [Range(names) -> Kinds] /\ t = Table(names, types, rows)
      /\ rows \in [DOMAIN rows -> [Range(names) -> Nat]] /\ NoRow \notin DOMAIN rows
  BY <1>1, <1>3, <1>4
<1> HIDE DEF names, types, rows
<1>7. IsTable(t) /\ t.names = names /\ t.types = types /\ t.rows = rows
  BY <1>5, <1>6, TableMade
<1>8. QED
  BY <1>1, <1>2, <1>7 DEF t, names, types, rows

\* What a local filter makes of a table, when it makes one.
LEMMA FilterMakes ==
    ASSUME NEW t, t.ok => IsTable(t), NEW n, LocalFilter(t, n).ok
    PROVE  LET u == LocalFilter(t, n)
           IN  /\ t.ok /\ IsTable(t) /\ n \in Range(t.names) /\ IsTable(u)
               /\ u.names = t.names /\ u.types = t.types /\ u.rows = Passing(t.rows, n)
<1> DEFINE u == LocalFilter(t, n)
           rows == Passing(t.rows, n)
           names == t.names
           types == t.types
<1>1. t.ok /\ IsTable(t) /\ n \in Range(t.names) /\ u = Table(names, types, rows)
  BY DEF LocalFilter, Fails
<1>2. rows \in [DOMAIN rows -> [Range(names) -> Nat]] /\ NoRow \notin DOMAIN rows
  BY <1>1, TableIs DEF Passing, Restrict
<1>3. /\ types \in [Range(names) -> Kinds] /\ names \in Seq(Range(names)) /\ names # <<>>
      /\ rows \in [DOMAIN rows -> [Range(names) -> Nat]] /\ NoRow \notin DOMAIN rows
  BY <1>1, <1>2, TableIs
<1> HIDE DEF u, rows, names, types
<1>4. IsTable(u) /\ u.names = names /\ u.types = types /\ u.rows = rows
  BY <1>1, <1>3, TableMade
<1>5. QED
  BY <1>1, <1>4 DEF u, rows, names, types

\* A filter over a column that is there makes a table.
LEMMA FilterWorks ==
    ASSUME NEW t, IsTable(t), NEW n \in Range(t.names)
    PROVE  LocalFilter(t, n).ok
BY TableIs DEF LocalFilter, Table

Among(f, name, from) == Over([n \in {name} |-> f[from]], f)

\* A column made of another, over the one of its name.
LEMMA CopyMakes ==
    ASSUME NEW t, t.ok => IsTable(t), NEW name, NEW from, LocalWithColumn(t, name, from).ok
    PROVE  LET u == LocalWithColumn(t, name, from)
           IN  /\ t.ok /\ IsTable(t) /\ from \in Range(t.names) /\ IsTable(u)
               /\ Range(u.names) = Range(t.names) \cup {name}
               /\ u.types = Among(t.types, name, from)
               /\ u.rows = [i \in DOMAIN t.rows |-> Among(t.rows[i], name, from)]
<1> DEFINE u == LocalWithColumn(t, name, from)
           names == IF name \in Range(t.names) THEN t.names ELSE Append(t.names, name)
           types == Among(t.types, name, from)
           rows == [i \in DOMAIN t.rows |-> Among(t.rows[i], name, from)]
<1>1. /\ t.ok /\ IsTable(t) /\ from \in Range(t.names)
      /\ u = Table(names, types, rows)
  BY DEF LocalWithColumn, Fails, Among
<1> DEFINE old == t.names
<1>2. old \in Seq(Range(old)) /\ old # <<>>
  BY <1>1, TableIs
<1>3. /\ names \in Seq(Range(names)) /\ names # <<>> /\ Range(names) = Range(t.names) \cup {name}
  <2>1. CASE name \in Range(old)
    BY <1>2, <2>1
  <2>2. CASE name \notin Range(old)
    <3> DEFINE all == Range(old) \cup {name}
    <3> HIDE DEF old
    <3>1. old \in Seq(all)
      BY <1>2
    <3>2. Append(old, name) \in Seq(all) /\ Append(old, name) # <<>>
      BY <3>1, AppendProperties
    <3>3. Range(Append(old, name)) = all
      BY <1>2, RangeAppend
    <3>4. names = Append(old, name)
      BY <2>2 DEF old
    <3>5. QED
      BY <3>2, <3>3, <3>4 DEF old
  <2>3. QED
    BY <2>1, <2>2
<1> HIDE DEF names
<1>4. types \in [Range(names) -> Kinds]
  <2>1. t.types \in [Range(t.names) -> Kinds]
    BY <1>1, TableIs
  <2>2. QED
    BY <1>1, <1>3, <2>1 DEF Among, Over
<1>5. rows \in [DOMAIN rows -> [Range(names) -> Nat]] /\ NoRow \notin DOMAIN rows
  <2>1. t.rows \in [DOMAIN t.rows -> [Range(t.names) -> Nat]] /\ NoRow \notin DOMAIN t.rows
    BY <1>1, TableIs
  <2>2. ASSUME NEW row \in [Range(t.names) -> Nat] PROVE Among(row, name, from) \in [Range(names) -> Nat]
    BY <1>1, <1>3 DEF Among, Over
  <2>3. \A i \in DOMAIN t.rows : Among(t.rows[i], name, from) \in [Range(names) -> Nat]
    BY <2>1, <2>2
  <2>4. QED
    BY <2>1, <2>3
<1>6. /\ types \in [Range(names) -> Kinds] /\ names \in Seq(Range(names)) /\ names # <<>>
      /\ rows \in [DOMAIN rows -> [Range(names) -> Nat]] /\ NoRow \notin DOMAIN rows
  BY <1>3, <1>4, <1>5
<1> HIDE DEF u, types, rows
<1>7. IsTable(u) /\ u.names = names /\ u.types = types /\ u.rows = rows
  BY <1>1, <1>6, TableMade
<1>8. QED
  BY <1>1, <1>3, <1>7 DEF u, types, rows

\* A column can be made of any that is there.
LEMMA CopyWorks ==
    ASSUME NEW t, IsTable(t), NEW name, NEW from \in Range(t.names)
    PROVE  LocalWithColumn(t, name, from).ok
BY TableIs DEF LocalWithColumn, Table

From(names, from, n) == from[CHOOSE i \in DOMAIN names : names[i] = n]

IsPicked(u, t, names, from) ==
    /\ u.names = names
    /\ u.types = [n \in Range(names) |-> t.types[From(names, from, n)]]
    /\ u.rows = [k \in DOMAIN t.rows |-> [n \in Range(names) |-> t.rows[k][From(names, from, n)]]]

\* Columns read from others, when they are all there.
LEMMA PickedMakes ==
    ASSUME NEW t, t.ok => IsTable(t), NEW names, names \in Seq(Range(names)), names # <<>>,
           NEW from, DOMAIN from = DOMAIN names, Picked(t, names, from).ok
    PROVE  LET u == Picked(t, names, from)
           IN  /\ t.ok /\ IsTable(t) /\ Range(from) \subseteq Range(t.names) /\ IsTable(u)
               /\ IsPicked(u, t, names, from)
<1> DEFINE u == Picked(t, names, from)
           types == [n \in Range(names) |-> t.types[From(names, from, n)]]
           rows == [i \in DOMAIN t.rows |-> [n \in Range(names) |-> t.rows[i][From(names, from, n)]]]
<1>1. /\ t.ok /\ IsTable(t) /\ Range(from) \subseteq Range(t.names)
      /\ u = Table(names, types, rows)
  BY DEF Picked, Fails, From
<1>2. ASSUME NEW n \in Range(names) PROVE From(names, from, n) \in Range(t.names)
  <2>1. \E i \in DOMAIN names : names[i] = n
    BY DEF Range
  <2>2. \E i \in DOMAIN from : From(names, from, n) = from[i]
    BY <2>1 DEF From
  <2>3. QED
    BY <1>1, <2>2 DEF Range
<1>3. /\ types \in [Range(names) -> Kinds]
      /\ rows \in [DOMAIN rows -> [Range(names) -> Nat]] /\ NoRow \notin DOMAIN rows
  <2>1. /\ t.types \in [Range(t.names) -> Kinds]
        /\ t.rows \in [DOMAIN t.rows -> [Range(t.names) -> Nat]] /\ NoRow \notin DOMAIN t.rows
    BY <1>1, TableIs
  <2>2. \A i \in DOMAIN t.rows : [n \in Range(names) |-> t.rows[i][From(names, from, n)]] \in [Range(names) -> Nat]
    BY <1>2, <2>1
  <2>3. QED
    BY <1>2, <2>1, <2>2
<1> HIDE DEF u, types, rows
<1>4. IsTable(u) /\ u.names = names /\ u.types = types /\ u.rows = rows
  BY <1>1, <1>3, TableMade
<1>5. IsPicked(u, t, names, from)
  BY <1>4 DEF types, rows, IsPicked
<1>6. QED
  BY <1>1, <1>4, <1>5 DEF u

\* They can be read when they are there.
LEMMA PickedWorks ==
    ASSUME NEW t, IsTable(t), NEW names, NEW from, Range(from) \subseteq Range(t.names)
    PROVE  Picked(t, names, from).ok
BY TableIs DEF Picked, Table

(***************************************************************************)
(* Plans.                                                                  *)
(***************************************************************************)
IsStep(step) ==
    \/ IsCombination(step)
    \/ step.op = "filter"
    \/ step.op = "select" /\ IsSelection(step.cols) /\ ~AliasRefused(step.cols)

IsPlan(p) ==
    /\ p \in Seq(Range(p)) /\ Len(p) >= 1
    /\ p[1].op = "side" /\ IsSide(p[1].side)
    /\ \A i \in 2 .. Len(p) : IsStep(p[i])
    /\ Len(p) >= 2 => Combines(p[2])
    /\ \A i, j \in 1 .. Len(p) :
          i < j /\ p[i].op = "select" /\ p[j].op = "select" => \E c \in i .. j : Combines(p[c])

\* The halves of an aggregate line up one to one, the null group with the null group.
LEMMA HalvesMeet ==
    ASSUME NEW halves, NEW on, NEW result, IsTable(result), AreHalves(halves, on, result)
    PROVE  AlignJoin(halves[1], halves[2], on) = result
<1> DEFINE l == halves[1]
           r == halves[2]
           names == JoinColumns(on, l.names, r.names)
           groups == {<<g, g>> : g \in DOMAIN l.rows}
<1>1. /\ IsTable(l) /\ IsTable(r) /\ on \in Seq(Range(on))
      /\ Range(on) = Range(l.names) \cap Range(r.names)
      /\ result.names = names
      /\ DOMAIN l.rows = DOMAIN r.rows /\ DOMAIN result.rows = groups
      /\ \A g, h \in DOMAIN l.rows : Matches(l.rows[g], l.rows[h], on) => g = h
      /\ \A n \in Range(l.names) :
            /\ result.types[n] = l.types[n]
            /\ \A g \in DOMAIN l.rows : result.rows[<<g, g>>][n] = l.rows[g][n]
      /\ \A n \in Range(r.names) :
            /\ result.types[n] = r.types[n]
            /\ \A g \in DOMAIN l.rows : result.rows[<<g, g>>][n] = r.rows[g][n]
  BY DEF AreHalves
<1> HIDE DEF l, r
<1>2. Range(names) = Range(l.names) \cup Range(r.names)
  <2>1. l.names \in Seq(Range(l.names)) /\ r.names \in Seq(Range(r.names))
    BY <1>1, TableIs
  <2>2. on \in Seq(Range(on))
    BY <1>1
  <2>3. Range(names) = Range(on) \cup Range(l.names) \cup Range(r.names)
    BY <2>1, <2>2, JoinColumnsAre
  <2>4. QED
    BY <1>1, <2>3
<1> HIDE DEF names
<1>3. Met(l, r, DOMAIN l.rows, DOMAIN r.rows, on) = groups
  <2>1. ASSUME NEW g \in DOMAIN l.rows, NEW h \in DOMAIN r.rows
        PROVE  Matches(l.rows[g], r.rows[h], on) <=> g = h
    <3>1. \A n \in Range(on) : r.rows[h][n] = l.rows[h][n]
      BY <1>1
    <3>2. Matches(l.rows[g], r.rows[h], on) <=> Matches(l.rows[g], l.rows[h], on)
      BY <3>1 DEF Matches
    <3>3. g = h => Matches(l.rows[g], l.rows[h], on)
      BY DEF Matches
    <3>4. QED
      BY <1>1, <3>2, <3>3
  <2>2. Met(l, r, DOMAIN l.rows, DOMAIN r.rows, on) \subseteq groups
    BY <1>1, <2>1 DEF Met
  <2>3. groups \subseteq Met(l, r, DOMAIN l.rows, DOMAIN r.rows, on)
    BY <1>1, <2>1 DEF Met
  <2>4. QED
    BY <2>2, <2>3
<1>4. Kept(l, r, DOMAIN l.rows, DOMAIN r.rows, on, "outer") = {}
  <2>1. \A g \in DOMAIN l.rows : <<g, g>> \in groups /\ <<g, g>>[1] = g /\ <<g, g>>[2] = g
    OBVIOUS
  <2>2. /\ \A g \in DOMAIN l.rows : g \in {p[1] : p \in groups}
        /\ \A g \in DOMAIN r.rows : g \in {p[2] : p \in groups}
    <3> HIDE DEF groups
    <3>1. QED
      BY <1>1, <2>1
  <2>3. QED
    BY <1>3, <2>2 DEF Kept
<1>5. Merge(l.rows, r.rows, on, "outer", names) = AllCells(l, r, groups, names)
  <2> DEFINE left == l.rows
             right == r.rows
             how == "outer"
  <2>1. /\ DOMAIN left \subseteq DOMAIN l.rows /\ \A i \in DOMAIN left : left[i] = l.rows[i]
        /\ DOMAIN right \subseteq DOMAIN r.rows /\ \A i \in DOMAIN right : right[i] = r.rows[i]
    OBVIOUS
  <2>2. Met(l, r, DOMAIN left, DOMAIN right, on) \cup Kept(l, r, DOMAIN left, DOMAIN right, on, how) = groups
    BY <1>3, <1>4
  <2> HIDE DEF left, right, groups, how
  <2>3. Merge(left, right, on, how, names) =
            AllCells(l, r, Met(l, r, DOMAIN left, DOMAIN right, on)
                           \cup Kept(l, r, DOMAIN left, DOMAIN right, on, how), names)
    BY <1>1, <1>2, <2>1, MergeIs
  <2>4. QED
    BY <2>2, <2>3 DEF left, right, how
<1>6. AllCells(l, r, groups, names) = result.rows
  <2>1. result.rows = [p \in groups |-> result.rows[p]]
    BY <1>1, TableIs
  <2>2. ASSUME NEW p \in groups PROVE Cells(l, r, p, names) = result.rows[p]
    <3>1. PICK g \in DOMAIN l.rows : p = <<g, g>> /\ p[1] = g /\ p[2] = g /\ g # NoRow
      BY <1>1, TableIs
    <3>2. result.rows[p] \in [Range(names) -> Nat]
      BY <1>1, TableIs
    <3>3. ASSUME NEW n \in Range(names) PROVE Cells(l, r, p, names)[n] = result.rows[p][n]
      BY <1>1, <1>2, <3>1 DEF Cells
    <3>4. /\ DOMAIN Cells(l, r, p, names) = Range(names)
          /\ Cells(l, r, p, names) = [n \in Range(names) |-> Cells(l, r, p, names)[n]]
      BY DEF Cells
    <3>5. result.rows[p] = [n \in Range(names) |-> result.rows[p][n]]
      BY <3>2
    <3>6. QED
      BY <3>3, <3>4, <3>5
  <2>3. QED
    BY <2>1, <2>2 DEF AllCells
<1>7. JoinTypes(l, r, on) = result.types
  <2>1. ASSUME NEW n \in Range(names) PROVE JoinTypes(l, r, on)[n] = result.types[n]
    <3>1. n \in Range(on) => Promoted(l.types[n], r.types[n]) = result.types[n]
      BY <1>1 DEF Promoted
    <3>2. QED
      BY <1>1, <1>2, <3>1 DEF JoinTypes
  <2>2. JoinTypes(l, r, on) = [n \in Range(names) |-> JoinTypes(l, r, on)[n]]
    BY <1>2 DEF JoinTypes
  <2>3. result.types = [n \in Range(names) |-> result.types[n]]
    BY <1>1, TableIs
  <2>4. QED
    BY <2>1, <2>2, <2>3
<1>8. AlignJoin(l, r, on) = Table(names, JoinTypes(l, r, on), Merge(l.rows, r.rows, on, "outer", names))
  BY DEF AlignJoin, names
<1>9. result = Table(names, result.types, result.rows)
  BY <1>1, TableIs
<1>10. QED
  BY <1>5, <1>6, <1>7, <1>8, <1>9 DEF l, r

\* What is fetched for a side is the table it is the query of.
LEMMA FetchedIs ==
    ASSUME NEW side, IsSide(side)
    PROVE  Fetched(side) = side.result /\ IsTable(side.result)
<1>1. IsTable(side.result)
  BY DEF IsSide
<1>2. CASE side.halves = <<side.result>>
  BY <1>1, <1>2 DEF Fetched
<1>3. CASE side.halves # <<side.result>>
  <2>1. AreHalves(side.halves, side.on, side.result)
    BY <1>3 DEF IsSide
  <2>2. Len(side.halves) = 2
    BY <2>1 DEF AreHalves
  <2>3. Fetched(side) = AlignJoin(side.halves[1], side.halves[2], side.on)
    BY <2>2 DEF Fetched
  <2>4. QED
    BY <1>1, <2>1, <2>3, HalvesMeet
<1>4. QED
  BY <1>2, <1>3

\* What holds of the first step of a plan, and of a step when of the one below, holds of all.
LEMMA AlongAPlan ==
    ASSUME NEW n \in Nat, n >= 1, NEW T, 1 \in T, \A i \in 2 .. n : i - 1 \in T => i \in T
    PROVE  \A i \in 1 .. n : i \in T
<1> DEFINE U == {i \in Nat : i <= n => i \in T}
<1>1. 1 \in U
  OBVIOUS
<1>2. ASSUME NEW i \in Nat, i >= 1, i \in U PROVE i + 1 \in U
  <2>1. SUFFICES ASSUME i + 1 <= n PROVE i + 1 \in T
    OBVIOUS
  <2>2. i + 1 \in 2 .. n /\ (i + 1) - 1 = i /\ i \in T
    BY <1>2, <2>1
  <2>3. QED
    BY <2>2
<1> HIDE DEF U
<1>3. \A i \in Nat : i >= 1 => i \in U
  BY <1>1, <1>2, StepByStep
<1>4. QED
  BY <1>3 DEF U

\* A function of the first numbers is a sequence.
LEMMA SequenceMade ==
    ASSUME NEW f, NEW n \in Nat, f = [i \in 1 .. n |-> f[i]]
    PROVE  f \in Seq(Range(f)) /\ Len(f) = n
<1>1. DOMAIN f = 1 .. n /\ \A i \in 1 .. n : f[i] \in Range(f)
  BY DEF Range
<1>2. f \in [1 .. n -> Range(f)]
  BY <1>1
<1>3. f \in Seq(Range(f))
  BY <1>2, IsASeq
<1>4. QED
  BY <1>1, <1>3, LenProperties

\* The columns of a select() as a sequence of names.
LEMMA SelectionIs ==
    ASSUME NEW cols, IsSelection(cols)
    PROVE  /\ Len(cols) \in Nat /\ Len(cols) >= 1 /\ DOMAIN cols = 1 .. Len(cols)
           /\ DOMAIN OutputsOf(cols) = 1 .. Len(cols)
           /\ OutputsOf(cols) \in Seq(Range(OutputsOf(cols))) /\ OutputsOf(cols) # <<>>
           /\ Len(OutputsOf(cols)) = Len(cols)
           /\ \A i \in 1 .. Len(cols) : OutputsOf(cols)[i] = OutputOf(cols[i]) /\ KeyOf(cols[i]) = cols[i].ref
<1>1. cols \in Seq(Range(cols)) /\ cols # <<>> /\ \A c \in Range(cols) : c.calc = 0
  BY DEF IsSelection
<1>2. /\ Len(cols) \in Nat /\ Len(cols) >= 1 /\ DOMAIN cols = 1 .. Len(cols)
      /\ \A i \in 1 .. Len(cols) : cols[i] \in Range(cols)
  BY <1>1, MembersAre
<1> DEFINE s == OutputsOf(cols)
           n == Len(cols)
<1>3. s = [i \in 1 .. n |-> OutputOf(cols[i])]
  BY <1>2 DEF OutputsOf
<1>4. DOMAIN s = 1 .. n /\ s = [i \in 1 .. n |-> s[i]]
  BY <1>3
<1>5. s \in Seq(Range(s)) /\ Len(s) = n
  <2> HIDE DEF s, n
  <2>1. n \in Nat
    BY <1>2 DEF n
  <2>2. QED
    BY <1>4, <2>1, SequenceMade
<1>6. s # <<>>
  BY <1>2, <1>5, MembersAre
<1>7. \A i \in 1 .. n : KeyOf(cols[i]) = cols[i].ref
  BY <1>1, <1>2 DEF KeyOf
<1>8. QED
  BY <1>2, <1>3, <1>4, <1>5, <1>6, <1>7

\* What rides along is some of the columns below.
LEMMA CarriedAre ==
    ASSUME NEW named, NEW required, NEW f, f.columns \in Seq(Range(f.columns))
    PROVE  LET carried == Carried(named, required, f)
           IN  /\ carried \in Seq(Range(carried))
               /\ Range(carried) = Range(f.columns) \cap (required \ Range(named))
<1> DEFINE s == f.columns
           places == {i \in DOMAIN s : s[i] \in required \ Range(named)}
<1>1. s \in Seq(Range(s)) /\ places \subseteq DOMAIN s
  OBVIOUS
<1>2. {s[i] : i \in places} = Range(s) \cap (required \ Range(named))
  BY DEF Range
<1>3. Carried(named, required, f) = Chosen(s, places)
  BY DEF Carried
<1> HIDE DEF s, places
<1>4. Chosen(s, places) \in Seq(Range(s)) /\ Range(Chosen(s, places)) = {s[i] : i \in places}
  BY <1>1, ChosenRange
<1>5. QED
  BY <1>2, <1>3, <1>4, MembersAre DEF s

\* The same of what they make together.
LEMMA TogetherAre ==
    ASSUME NEW s, s \in Seq(Range(s)), NEW t, t \in Seq(Range(t)), NEW u, u = s \o t
    PROVE  /\ u \in Seq(Range(u)) /\ Range(u) = Range(s) \cup Range(t)
           /\ Len(u) = Len(s) + Len(t)
BY RangeConcat

\* Where each member of the two is.
LEMMA TogetherAt ==
    ASSUME NEW s, s \in Seq(Range(s)), NEW t, t \in Seq(Range(t)), NEW u, u = s \o t, NEW i
    PROVE  /\ i \in 1 .. Len(s) => u[i] = s[i]
           /\ i \in 1 .. Len(t) => u[Len(s) + i] = t[i]
BY RangeConcat

Named(f, cols) ==
    LET sources == Sources(f, cols)
    IN  [i \in DOMAIN cols |-> IF sources[i] \in Copied(sources) THEN OutputOf(cols[i]) ELSE sources[i]]
Riding(f, cols, required) == Carried(Named(f, cols), required, f)

\* A select() refuses nothing, and its renames are those of its own columns.
LEMMA ProjectKeeps ==
    ASSUME NEW f, NEW cols, NEW required
    PROVE  /\ ProjectFrame(f, cols, required).refused = f.refused
           /\ ProjectFrame(f, cols, required).renames = Produced(cols)
BY DEF ProjectFrame, Frame

\* A select(): its outputs and what rides along, read from the columns below and their copies.
LEMMA ProjectIs ==
    ASSUME NEW f, f.columns \in Seq(Range(f.columns)), NEW cols, IsSelection(cols), NEW required
    PROVE  LET g == ProjectFrame(f, cols, required)
               outputs == OutputsOf(cols) \o Riding(f, cols, required)
               from == Named(f, cols) \o Riding(f, cols, required)
           IN  /\ g.refused = f.refused /\ g.columns = outputs /\ g.renames = Produced(cols)
               /\ g.table = Picked(CopyEach(f.table, cols, Sources(f, cols)), outputs, from)
               /\ outputs \in Seq(Range(outputs)) /\ outputs # <<>> /\ DOMAIN from = DOMAIN outputs
               /\ Range(outputs) = Range(OutputsOf(cols)) \cup Range(Riding(f, cols, required))
               /\ Range(from) = Range(Named(f, cols)) \cup Range(Riding(f, cols, required))
               /\ \A i \in 1 .. Len(cols) : outputs[i] = OutputOf(cols[i]) /\ from[i] = Named(f, cols)[i]
               /\ \A i \in 1 .. Len(Riding(f, cols, required)) :
                     /\ outputs[Len(cols) + i] = Riding(f, cols, required)[i]
                     /\ from[Len(cols) + i] = Riding(f, cols, required)[i]
               /\ DOMAIN outputs = 1 .. Len(cols) + Len(Riding(f, cols, required))
<1> DEFINE s == OutputsOf(cols)
           named == Named(f, cols)
           carried == Riding(f, cols, required)
           g == ProjectFrame(f, cols, required)
           n == Len(cols)
<1>1. /\ g.refused = f.refused /\ g.columns = s \o carried /\ g.renames = Produced(cols)
      /\ g.table = Picked(CopyEach(f.table, cols, Sources(f, cols)), s \o carried, named \o carried)
  BY DEF ProjectFrame, Frame, Named, Riding
<1>2. /\ n \in Nat /\ n >= 1 /\ DOMAIN cols = 1 .. n /\ s \in Seq(Range(s)) /\ s # <<>> /\ Len(s) = n
      /\ \A i \in 1 .. n : s[i] = OutputOf(cols[i])
  BY SelectionIs
<1>3. carried \in Seq(Range(carried))
  BY CarriedAre DEF Riding
<1>4. named = [i \in 1 .. n |-> named[i]]
  BY <1>2 DEF Named
<1> HIDE DEF s, named, carried, g, n
<1>5. named \in Seq(Range(named)) /\ Len(named) = n
  BY <1>2, <1>4, SequenceMade
<1>6. Len(carried) \in Nat
  BY <1>3, LenProperties
<1> DEFINE m == Len(carried)
           outputs == s \o carried
           from == named \o carried
<1>7. /\ outputs \in Seq(Range(outputs)) /\ Range(outputs) = Range(s) \cup Range(carried)
      /\ Len(outputs) = n + m
      /\ \A i \in 1 .. n : outputs[i] = s[i]
      /\ \A i \in 1 .. m : outputs[n + i] = carried[i]
  <2>1. s \in Seq(Range(s)) /\ carried \in Seq(Range(carried)) /\ outputs = s \o carried
    BY <1>2, <1>3
  <2> HIDE DEF outputs
  <2>2. /\ outputs \in Seq(Range(outputs)) /\ Range(outputs) = Range(s) \cup Range(carried)
        /\ Len(outputs) = Len(s) + Len(carried)
    BY <2>1, TogetherAre
  <2>3. ASSUME NEW i \in 1 .. Len(s) PROVE outputs[i] = s[i]
    BY <2>1, TogetherAt
  <2>4. ASSUME NEW i \in 1 .. Len(carried) PROVE outputs[Len(s) + i] = carried[i]
    BY <2>1, TogetherAt
  <2>5. Len(s) = n
    BY <1>2
  <2>6. QED
    BY <2>2, <2>3, <2>4, <2>5
<1>8. /\ from \in Seq(Range(from)) /\ Range(from) = Range(named) \cup Range(carried)
      /\ Len(from) = n + m
      /\ \A i \in 1 .. n : from[i] = named[i]
      /\ \A i \in 1 .. m : from[n + i] = carried[i]
  <2>1. named \in Seq(Range(named)) /\ carried \in Seq(Range(carried)) /\ from = named \o carried
    BY <1>3, <1>5
  <2> HIDE DEF from
  <2>2. /\ from \in Seq(Range(from)) /\ Range(from) = Range(named) \cup Range(carried)
        /\ Len(from) = Len(named) + Len(carried)
    BY <2>1, TogetherAre
  <2>3. ASSUME NEW i \in 1 .. Len(named) PROVE from[i] = named[i]
    BY <2>1, TogetherAt
  <2>4. ASSUME NEW i \in 1 .. Len(carried) PROVE from[Len(named) + i] = carried[i]
    BY <2>1, TogetherAt
  <2>5. Len(named) = n
    BY <1>5
  <2>6. QED
    BY <2>2, <2>3, <2>4, <2>5
<1> HIDE DEF outputs, from
<1>9. DOMAIN outputs = 1 .. n + m /\ DOMAIN from = 1 .. n + m /\ outputs # <<>>
  <2>1. n + m \in Nat /\ n + m >= 1
    BY <1>2, <1>6
  <2>2. QED
    BY <1>7, <1>8, <2>1, MembersAre
<1>10. \A i \in 1 .. n : outputs[i] = OutputOf(cols[i]) /\ from[i] = named[i]
  BY <1>2, <1>7, <1>8
<1>11. QED
  BY <1>1, <1>7, <1>8, <1>9, <1>10 DEF s, named, carried, g, n, m, outputs, from

\* However many columns are made of others, a table they make is one.
LEMMA CopiesAreTables ==
    ASSUME NEW t, t.ok => IsTable(t), NEW cols, Len(cols) \in Nat, NEW sources
    PROVE  CopyEach(t, cols, sources).ok => IsTable(CopyEach(t, cols, sources))
<1> DEFINE n == Len(cols)
           upTo == CopiesUpTo(t, cols, sources)
           T == {k \in Nat : k <= n => (upTo[k].ok => IsTable(upTo[k]))}
<1>1. /\ upTo[0] = t
      /\ \A i \in 1 .. n : upTo[i] = CopyStep(upTo[i - 1], cols[i], sources[i], Copied(sources))
  BY CopiesAre
<1> HIDE DEF upTo
<1>2. 0 \in T
  BY <1>1
<1>3. ASSUME NEW k \in Nat, k >= 0, k \in T PROVE k + 1 \in T
  <2>1. SUFFICES ASSUME k + 1 <= n, upTo[k + 1].ok PROVE IsTable(upTo[k + 1])
    OBVIOUS
  <2> DEFINE u == upTo[k]
             name == OutputOf(cols[k + 1])
             from == sources[k + 1]
  <2>2. u.ok => IsTable(u)
    BY <1>3, <2>1
  <2>3. upTo[k + 1] = CopyStep(u, cols[k + 1], from, Copied(sources))
    <3>1. k + 1 \in 1 .. n /\ (k + 1) - 1 = k
      BY <2>1
    <3>2. QED
      BY <1>1, <3>1
  <2>4. upTo[k + 1] = LocalWithColumn(u, name, from) \/ upTo[k + 1] = u
    BY <2>3 DEF CopyStep
  <2>5. LocalWithColumn(u, name, from).ok => IsTable(LocalWithColumn(u, name, from))
    <3> HIDE DEF u, name, from
    <3>1. QED
      BY <2>2, CopyMakes
  <2>6. QED
    BY <2>1, <2>2, <2>4, <2>5
<1>4. \A k \in Nat : k >= 0 => k \in T
  <2> HIDE DEF T
  <2>1. QED
    BY <1>2, <1>3, StepByStep
<1>5. QED
  BY <1>4 DEF CopyEach, upTo

\* What each step of a plan becomes.
LEMMA StepsAre ==
    ASSUME NEW step, IsStep(step), NEW f, NEW required, NEW out, NEW m
    PROVE  /\ step.op \in {"join", "union", "filter", "select"}
           /\ IsCombination(step) <=> step.op \in {"join", "union"}
           /\ Combines(step) <=> step.op \in {"join", "union"}
           /\ step.op = "select" => IsSelection(step.cols) /\ ~AliasRefused(step.cols)
           /\ step.op = "join" =>
                 /\ SplitStep(f, step, required) = JoinFrames(f, SideFrame(step.side), step.on, step.how, required)
                 /\ Above(out, step) =
                       IF out.known /\ step.side.planned # <<>>
                       THEN Known(JoinColumns(step.on, out.names, step.side.planned), {}) ELSE Unknown
                 /\ MeantStep(m, step) = MeantJoin(Only(m, m.names), MeantSide(step.side), step.on, step.how)
                 /\ IsSide(step.side) /\ step.on \in Seq(Range(step.on)) /\ step.on # <<>>
           /\ step.op = "union" =>
                 /\ SplitStep(f, step, required) = UnionFrames(f, SideFrame(step.side), required)
                 /\ Above(out, step) = out
                 /\ MeantStep(m, step) = MeantUnion(Only(m, m.names), MeantSide(step.side))
                 /\ IsSide(step.side)
           /\ step.op = "filter" =>
                 /\ SplitStep(f, step, required) = FilterFrame(f, step.ref)
                 /\ Above(out, step) = out
                 /\ MeantStep(m, step) = MeantFilter(m, step.ref)
           /\ step.op = "select" =>
                 /\ SplitStep(f, step, required) = ProjectFrame(f, step.cols, required)
                 /\ Above(out, step) = Known(OutputsOf(step.cols), DOMAIN Produced(step.cols))
                 /\ MeantStep(m, step) = MeantSelect(m, step.cols)
<1>1. /\ step.op \in {"join", "union", "filter", "select"}
      /\ IsCombination(step) <=> step.op \in {"join", "union"}
      /\ Combines(step) <=> step.op \in {"join", "union"}
      /\ step.op = "select" => IsSelection(step.cols) /\ ~AliasRefused(step.cols)
  BY DEF IsStep, IsCombination, Combines
<1>2. step.op = "join" =>
          /\ SplitStep(f, step, required) = JoinFrames(f, SideFrame(step.side), step.on, step.how, required)
          /\ Above(out, step) =
                IF out.known /\ step.side.planned # <<>>
                THEN Known(JoinColumns(step.on, out.names, step.side.planned), {}) ELSE Unknown
          /\ MeantStep(m, step) = MeantJoin(Only(m, m.names), MeantSide(step.side), step.on, step.how)
  BY DEF SplitStep, Above, MeantStep
<1>3. step.op = "join" => IsSide(step.side) /\ step.on \in Seq(Range(step.on)) /\ step.on # <<>>
  BY <1>1 DEF IsCombination
<1>4. step.op = "union" =>
          /\ SplitStep(f, step, required) = UnionFrames(f, SideFrame(step.side), required)
          /\ Above(out, step) = out
          /\ MeantStep(m, step) = MeantUnion(Only(m, m.names), MeantSide(step.side))
          /\ IsSide(step.side)
  BY <1>1 DEF SplitStep, Above, MeantStep, IsCombination
<1>5. step.op = "filter" =>
          /\ SplitStep(f, step, required) = FilterFrame(f, step.ref)
          /\ Above(out, step) = out
          /\ MeantStep(m, step) = MeantFilter(m, step.ref)
  BY DEF SplitStep, Above, MeantStep
<1>6. step.op = "select" =>
          /\ SplitStep(f, step, required) = ProjectFrame(f, step.cols, required)
          /\ Above(out, step) = Known(OutputsOf(step.cols), DOMAIN Produced(step.cols))
          /\ MeantStep(m, step) = MeantSelect(m, step.cols)
  BY DEF SplitStep, Above, MeantStep
<1>7. QED
  BY <1>1, <1>2, <1>3, <1>4, <1>5, <1>6

WellShaped(f) == f.columns \in Seq(Range(f.columns)) /\ (f.table.ok => IsTable(f.table))

\* A side's frame: what it plans, and the table that arrives.
LEMMA SideFrameIs ==
    ASSUME NEW side, IsSide(side)
    PROVE  LET f == SideFrame(side)
           IN  /\ ~f.refused /\ f.columns = side.planned /\ f.renames = side.renames
               /\ f.table = side.result /\ f.table.ok /\ IsTable(f.table) /\ WellShaped(f)
               /\ Range(f.renames) \subseteq Range(f.columns)
<1>1. /\ Fetched(side) = side.result /\ IsTable(side.result)
      /\ side.planned \in Seq(Range(side.planned))
      /\ Range(side.renames) \subseteq Range(side.planned)
  BY FetchedIs DEF IsSide
<1>2. QED
  BY <1>1, TableIs DEF SideFrame, Frame, WellShaped

\* What a step makes of a well-shaped frame is one.
LEMMA StepsKeepShape ==
    ASSUME NEW step, IsStep(step), NEW f, WellShaped(f), NEW required
    PROVE  WellShaped(SplitStep(f, step, required))
<1> DEFINE g == SplitStep(f, step, required)
           r == SideFrame(step.side)
<1>1. CASE step.op = "join"
  <2>1. /\ g = JoinFrames(f, r, step.on, step.how, required)
        /\ IsSide(step.side) /\ step.on \in Seq(Range(step.on)) /\ step.on # <<>>
    BY <1>1, StepsAre
  <2>2. WellShaped(r)
    BY <2>1, SideFrameIs
  <2> DEFINE on == step.on
             how == step.how
             lc == f.columns
             rc == r.columns
             lt == f.table
             rt == r.table
  <2>3. g.columns = JoinColumns(on, lc, rc) /\ g.table = LocalJoin(lt, rt, on, how)
    BY <2>1 DEF JoinFrames, Frame
  <2>4. /\ on \in Seq(Range(on)) /\ on # <<>> /\ lc \in Seq(Range(lc)) /\ rc \in Seq(Range(rc))
        /\ lt.ok => IsTable(lt)
        /\ rt.ok => IsTable(rt)
    BY <2>1, <2>2 DEF WellShaped
  <2> HIDE DEF g, r, on, how, lc, rc, lt, rt
  <2>5. JoinColumns(on, lc, rc) \in Seq(Range(JoinColumns(on, lc, rc)))
    BY <2>4, JoinColumnsAre
  <2>6. LocalJoin(lt, rt, on, how).ok => IsTable(LocalJoin(lt, rt, on, how))
    BY <2>4, JoinMakes
  <2>7. WellShaped(g)
    BY <2>3, <2>5, <2>6 DEF WellShaped
  <2>8. QED
    BY <2>7 DEF g
<1>2. CASE step.op = "union"
  <2>1. g = UnionFrames(f, r, required) /\ IsSide(step.side)
    BY <1>2, StepsAre
  <2>2. WellShaped(r)
    BY <2>1, SideFrameIs
  <2> DEFINE lt == f.table
             rt == r.table
  <2>3. g.columns = f.columns /\ g.table = LocalUnion(lt, rt)
    BY <2>1 DEF UnionFrames, Frame
  <2>4. /\ lt.ok => IsTable(lt)
        /\ rt.ok => IsTable(rt)
    BY <2>1, <2>2 DEF WellShaped
  <2> HIDE DEF g, r, lt, rt
  <2>5. LocalUnion(lt, rt).ok => IsTable(LocalUnion(lt, rt))
    BY <2>4, UnionMakes
  <2>6. WellShaped(g)
    BY <2>3, <2>5 DEF WellShaped
  <2>7. QED
    BY <2>6 DEF g
<1>3. CASE step.op = "filter"
  <2> DEFINE n == Resolve(step.ref, f.renames)
             t == f.table
  <2>1. g = Frame(f.refused, f.columns, f.renames, LocalFilter(t, n))
    BY <1>3, StepsAre DEF FilterFrame
  <2>2. g.columns = f.columns /\ g.table = LocalFilter(t, n)
    BY <2>1 DEF Frame
  <2>3. t.ok => IsTable(t)
    BY DEF WellShaped
  <2> HIDE DEF g, n, t
  <2>4. LocalFilter(t, n).ok => IsTable(LocalFilter(t, n))
    BY <2>3, FilterMakes
  <2>5. WellShaped(g)
    BY <2>2, <2>4 DEF WellShaped
  <2>6. QED
    BY <2>5 DEF g
<1>4. CASE step.op = "select"
  <2> DEFINE cols == step.cols
             outputs == OutputsOf(cols) \o Riding(f, cols, required)
             from == Named(f, cols) \o Riding(f, cols, required)
             t == CopyEach(f.table, cols, Sources(f, cols))
  <2>1. g = ProjectFrame(f, cols, required) /\ IsSelection(cols)
    BY <1>4, StepsAre
  <2>2. /\ g.columns = outputs /\ g.table = Picked(t, outputs, from)
        /\ outputs \in Seq(Range(outputs)) /\ outputs # <<>> /\ DOMAIN from = DOMAIN outputs
    BY <2>1, ProjectIs DEF WellShaped
  <2>3. t.ok => IsTable(t)
    BY <2>1, CopiesAreTables, SelectionIs DEF WellShaped
  <2> HIDE DEF g, cols, outputs, from, t
  <2>4. Picked(t, outputs, from).ok => IsTable(Picked(t, outputs, from))
    BY <2>2, <2>3, PickedMakes
  <2>5. WellShaped(g)
    BY <2>2, <2>4 DEF WellShaped
  <2>6. QED
    BY <2>5 DEF g
<1>5. QED
  BY <1>1, <1>2, <1>3, <1>4, StepsAre

\* Every frame of a plan is well shaped, and what is known of its columns is some of them.
LEMMA ShapesAre ==
    ASSUME NEW p, IsPlan(p)
    PROVE  /\ Len(p) \in Nat \ {0} /\ DOMAIN p = 1 .. Len(p)
           /\ \A i \in 1 .. Len(p) : WellShaped(SplitUpTo(p)[i])
           /\ \A i \in 1 .. Len(p) : OutputsUpTo(p)[i].names \in Seq(Range(OutputsUpTo(p)[i].names))
           /\ \A i \in 1 .. Len(p) : OutputsUpTo(p)[i].known => OutputsUpTo(p)[i].names # <<>>
<1> DEFINE n == Len(p)
           F == SplitUpTo(p)
           O == OutputsUpTo(p)
           GoodOut(out) == out.names \in Seq(Range(out.names)) /\ (out.known => out.names # <<>>)
           T == {i \in 1 .. n : WellShaped(F[i]) /\ GoodOut(O[i])}
<1>1. n \in Nat \ {0} /\ n \in Nat /\ n >= 1 /\ DOMAIN p = 1 .. n
  BY LenProperties DEF IsPlan
<1>2. /\ F[1] = SideFrame(p[1].side)
      /\ \A i \in 2 .. n : F[i] = SplitStep(F[i - 1], p[i], Required(p, i))
  BY <1>1, SplitsAre
<1>3. /\ O[1] = OutputsOfSide(p[1].side)
      /\ \A i \in 2 .. n : O[i] = Above(O[i - 1], p[i])
  BY <1>1, OutputsAre
<1> HIDE DEF F, O
<1>4. 1 \in T
  <2>1. IsSide(p[1].side)
    BY DEF IsPlan
  <2>2. WellShaped(F[1])
    BY <1>2, <2>1, SideFrameIs
  <2>3. p[1].side.planned \in Seq(Range(p[1].side.planned))
    BY <2>1 DEF IsSide
  <2>4. GoodOut(O[1])
    <3>1. CASE p[1].side.planned = <<>>
      <4>1. O[1].names = <<>> /\ ~O[1].known
        BY <1>3, <3>1 DEF OutputsOfSide, Unknown
      <4>2. QED
        BY <4>1, EmptySeq
    <3>2. CASE p[1].side.planned # <<>>
      <4>1. O[1].names = p[1].side.planned
        BY <1>3, <3>2 DEF OutputsOfSide, Known
      <4>2. QED
        BY <2>3, <3>2, <4>1
    <3>3. QED
      BY <3>1, <3>2
  <2>5. QED
    BY <1>1, <2>2, <2>4
<1>5. ASSUME NEW i \in 2 .. n, i - 1 \in T PROVE i \in T
  <2> DEFINE step == p[i]
             f == F[i - 1]
             out == O[i - 1]
  <2>1. IsStep(step) /\ WellShaped(f) /\ GoodOut(out)
    BY <1>5 DEF IsPlan
  <2>2. F[i] = SplitStep(f, step, Required(p, i)) /\ O[i] = Above(out, step)
    BY <1>2, <1>3
  <2> HIDE DEF step, f, out
  <2>3. WellShaped(F[i])
    BY <2>1, <2>2, StepsKeepShape
  <2>4. GoodOut(O[i])
    <3>1. CASE step.op = "join" /\ out.known /\ step.side.planned # <<>>
      <4> DEFINE on == step.on
                 left == out.names
                 right == step.side.planned
      <4>1. O[i].names = JoinColumns(on, left, right)
        BY <2>1, <2>2, <3>1, StepsAre DEF Known
      <4>2. on \in Seq(Range(on)) /\ on # <<>> /\ IsSide(step.side)
        BY <2>1, <3>1, StepsAre
      <4>3. left \in Seq(Range(left)) /\ right \in Seq(Range(right))
        BY <2>1, <4>2 DEF IsSide
      <4> HIDE DEF on, left, right
      <4>4. QED
        BY <4>1, <4>2, <4>3, JoinColumnsAre
    <3>2. CASE step.op = "join" /\ ~(out.known /\ step.side.planned # <<>>)
      <4>1. O[i].names = <<>> /\ ~O[i].known
        BY <2>1, <2>2, <3>2, StepsAre DEF Unknown
      <4>2. QED
        BY <4>1, EmptySeq
    <3>3. CASE step.op = "union" \/ step.op = "filter"
      <4>1. O[i] = out
        BY <2>1, <2>2, <3>3, StepsAre
      <4>2. QED
        BY <2>1, <4>1
    <3>4. CASE step.op = "select"
      <4>1. O[i].names = OutputsOf(step.cols) /\ IsSelection(step.cols)
        BY <2>1, <2>2, <3>4, StepsAre DEF Known
      <4>2. QED
        BY <4>1, SelectionIs
    <3>5. QED
      BY <2>1, <3>1, <3>2, <3>3, <3>4, StepsAre
  <2>5. QED
    BY <2>3, <2>4
<1>6. \A i \in 1 .. n : i \in T
  <2> HIDE DEF T, n
  <2>1. QED
    BY <1>1, <1>4, <1>5, AlongAPlan
<1>7. QED
  BY <1>1, <1>6 DEF F, O

(***************************************************************************)
(* The frame is a plan, and what came back of it is what it was split      *)
(* into.                                                                   *)
(***************************************************************************)
IInv ==
    /\ IsPlan(frame) /\ frame[1].side \in Sides /\ totals \in BOOLEAN
    /\ outcome = None \/ (Len(frame) >= 2 /\ outcome = Run(frame, Split(frame)))

\* A plan with a step more: on top of a combination any, on a side alone a combination.
LEMMA PlanGrows ==
    ASSUME NEW p, IsPlan(p), NEW step, IsStep(step),
           Combines(step) \/ \E i \in DOMAIN p : Combines(p[i]),
           step.op = "select" =>
               \A i \in DOMAIN p : p[i].op = "select" => \E c \in DOMAIN p : i < c /\ Combines(p[c])
    PROVE  IsPlan(Append(p, step)) /\ Append(p, step)[1] = p[1]
<1> DEFINE n == Len(p)
           q == Append(p, step)
           S == Range(p) \cup {step}
<1>1. n \in Nat /\ n >= 1 /\ DOMAIN p = 1 .. n /\ p \in Seq(Range(p))
  BY LenProperties DEF IsPlan
<1>2. p \in Seq(S) /\ step \in S
  BY <1>1
<1>3. /\ q \in Seq(S) /\ Len(q) = n + 1 /\ q[n + 1] = step
      /\ \A i \in 1 .. n : q[i] = p[i]
  <2> HIDE DEF S
  <2>1. QED
    BY <1>2, AppendProperties
<1> HIDE DEF q, S
<1>4. q \in Seq(Range(q)) /\ Len(q) >= 1
  BY <1>1, <1>3, MembersAre
<1>5. q[1] = p[1]
  BY <1>1, <1>3
<1>6. ASSUME NEW i \in 2 .. Len(q) PROVE IsStep(q[i])
  <2>1. CASE i = n + 1
    BY <1>3, <2>1
  <2>2. CASE i # n + 1
    <3>1. i \in 2 .. n /\ q[i] = p[i]
      BY <1>1, <1>3, <2>2
    <3>2. QED
      BY <3>1 DEF IsPlan
  <2>3. QED
    BY <2>1, <2>2
<1>7. Combines(q[2])
  <2>1. CASE n >= 2
    <3>1. q[2] = p[2]
      BY <1>1, <1>3, <2>1
    <3>2. QED
      BY <2>1, <3>1 DEF IsPlan
  <2>2. CASE n < 2
    <3>1. n = 1 /\ q[2] = step
      BY <1>1, <1>3, <2>2
    <3>2. ~Combines(p[1])
      BY DEF IsPlan, Combines
    <3>3. QED
      BY <1>1, <3>1, <3>2
  <2>3. QED
    BY <1>1, <2>1, <2>2
<1>8. ASSUME NEW i \in 1 .. Len(q), NEW j \in 1 .. Len(q), i < j, q[i].op = "select", q[j].op = "select"
      PROVE  \E c \in i .. j : Combines(q[c])
  <2>1. i \in 1 .. n /\ q[i] = p[i]
    BY <1>1, <1>3, <1>8
  <2>2. CASE j = n + 1
    <3>1. PICK c \in DOMAIN p : i < c /\ Combines(p[c])
      BY <1>1, <1>3, <1>8, <2>1, <2>2
    <3>2. c \in i .. j /\ q[c] = p[c]
      BY <1>1, <1>3, <2>2, <3>1
    <3>3. QED
      BY <3>1, <3>2
  <2>3. CASE j # n + 1
    <3>1. j \in 1 .. n /\ q[j] = p[j]
      BY <1>1, <1>3, <2>3
    <3>2. PICK c \in i .. j : Combines(p[c])
      BY <1>8, <2>1, <3>1 DEF IsPlan
    <3>3. q[c] = p[c]
      BY <1>3, <2>1, <3>1, <3>2
    <3>4. QED
      BY <3>2, <3>3
  <2>4. QED
    BY <1>1, <1>3, <2>2, <2>3
<1>9. IsPlan(q)
  BY <1>4, <1>5, <1>6, <1>7, <1>8 DEF IsPlan
<1>10. QED
  BY <1>5, <1>9 DEF q

\* IInv holds of the frames there are to begin with.
LEMMA InitIInv == Init => IInv
<1>1. SUFFICES ASSUME Init PROVE IInv
  OBVIOUS
<1>2. PICK side \in Sides : frame = <<[op |-> "side", side |-> side]>>
  BY <1>1 DEF Init
<1> DEFINE first == [op |-> "side", side |-> side]
<1>3. frame[1] = first /\ Len(frame) = 1 /\ frame \in Seq({first})
  BY <1>2
<1>4. first.op = "side" /\ first.side = side /\ IsSide(side)
  BY JoinsAssumption
<1> HIDE DEF first
<1>5. frame \in Seq(Range(frame))
  BY <1>3, MembersAre
<1>6. IsPlan(frame)
  BY <1>3, <1>4, <1>5 DEF IsPlan
<1>7. QED
  BY <1>1, <1>3, <1>4, <1>6 DEF IInv, Init

\* Every step keeps IInv.
LEMMA NextIInv == IInv /\ [Next]_vars => IInv'
<1>1. SUFFICES ASSUME IInv, [Next]_vars PROVE IInv'
  OBVIOUS
<1>2. DOMAIN frame = 1 .. Len(frame) /\ Len(frame) \in Nat /\ Len(frame) >= 1
  BY <1>1, LenProperties DEF IInv, IsPlan
<1>3. ASSUME NEW step, Derive(step), IsStep(step), Combines(step) \/ Combined # {},
             step.op = "select" =>
                 \A i \in DOMAIN frame : frame[i].op = "select" => \E c \in Combined : i < c
      PROVE  IInv'
  <2>1. IsPlan(Append(frame, step)) /\ Append(frame, step)[1] = frame[1]
    BY <1>1, <1>3, PlanGrows DEF IInv, Combined
  <2>2. frame' = Append(frame, step) /\ totals' = totals /\ outcome' = None
    BY <1>3 DEF Derive
  <2>3. QED
    BY <1>1, <2>1, <2>2 DEF IInv
<1>4. ASSUME NEW op, Combine(op) PROVE IInv'
  <2>1. PICK step \in Combinations \cup Again : Derive(step)
    BY <1>4 DEF Combine
  <2>2. IsCombination(step)
    BY JoinsAssumption
  <2>3. IsStep(step) /\ Combines(step) /\ step.op # "select"
    BY <2>2 DEF IsStep, IsCombination, Combines
  <2>4. QED
    BY <1>3, <2>1, <2>3
<1>5. CASE Join
  BY <1>4, <1>5 DEF Join
<1>6. CASE Union
  BY <1>4, <1>6 DEF Union
<1>7. ASSUME NEW n \in Filtered, Filter(n) PROVE IInv'
  <2> DEFINE step == [op |-> "filter", ref |-> n]
  <2>1. Combined # {} /\ Derive(step)
    BY <1>7 DEF Filter
  <2>2. IsStep(step) /\ step.op # "select"
    BY DEF IsStep
  <2> HIDE DEF step
  <2>3. QED
    BY <1>3, <2>1, <2>2
<1>8. ASSUME NEW cols \in Selections, Select(cols) PROVE IInv'
  <2> DEFINE step == [op |-> "select", cols |-> cols]
  <2>1. /\ Combined # {} /\ Derive(step) /\ ~AliasRefused(cols)
        /\ \A i \in DOMAIN frame : frame[i].op = "select" => \E c \in Combined : i < c
    BY <1>8 DEF Select
  <2>2. IsSelection(cols)
    BY JoinsAssumption
  <2>3. IsStep(step)
    BY <2>1, <2>2 DEF IsStep
  <2> HIDE DEF step
  <2>4. QED
    BY <1>3, <2>1, <2>3
<1>9. CASE WithTotals
  BY <1>1, <1>9 DEF WithTotals, IInv
<1>10. CASE Collect
  <2>1. Len(frame) >= 2
    <3>1. PICK i \in DOMAIN frame : Combines(frame[i])
      BY <1>10 DEF Collect, Combined
    <3>2. ~Combines(frame[1])
      BY <1>1 DEF IInv, IsPlan, Combines
    <3>3. QED
      BY <1>2, <3>1, <3>2
  <2>2. outcome' = Run(frame, Split(frame)) /\ frame' = frame /\ totals' = totals
    BY <1>10 DEF Collect
  <2>3. Run(frame, Split(frame))' = Run(frame, Split(frame))
    BY <2>2 DEF Run
  <2>4. QED
    BY <1>1, <2>1, <2>2, <2>3 DEF IInv
<1>11. CASE UNCHANGED vars
  BY <1>1, <1>11 DEF IInv, vars, Run
<1>12. QED
  BY <1>1, <1>5, <1>6, <1>7, <1>8, <1>9, <1>10, <1>11 DEF Next

Answer(p) ==
    LET f == Split(p)
        out == Outputs(p)
    IN  IF out.known THEN Picked(f.table, out.names, out.names) ELSE f.table

\* What came back of a frame, by its kind.
LEMMA OutcomesAre ==
    ASSUME IInv
    PROVE  /\ outcome.kind \in {"none", "refused", "failed", "table"}
           /\ outcome.kind # "none" => Len(frame) >= 2
           /\ outcome.kind = "refused" => totals \/ Split(frame).refused
           /\ outcome.kind = "failed" => ~totals /\ ~Split(frame).refused /\ ~Answer(frame).ok
           /\ outcome.kind = "table" =>
                 /\ ~totals /\ ~Split(frame).refused /\ Answer(frame).ok
                 /\ outcome.table = Answer(frame)
BY DEF IInv, None, Run, Outcome, Answer

\* The last frame of a plan is the one it is split into.
LEMMA LastIs ==
    ASSUME NEW p
    PROVE  Split(p) = SplitUpTo(p)[Len(p)] /\ Outputs(p) = OutputsUpTo(p)[Len(p)]
           /\ Meaning(p) = MeaningUpTo(p)[Len(p)]
BY DEF Split, Outputs, Meaning

\* What is answered is a table.
LEMMA AnswersAreTables ==
    ASSUME NEW p, IsPlan(p), Answer(p).ok
    PROVE  IsTable(Answer(p)) /\ Split(p).table.ok /\ IsTable(Split(p).table)
<1> DEFINE t == Split(p).table
           names == Outputs(p).names
<1>1. Len(p) \in 1 .. Len(p)
  BY ShapesAre
<1>2. t.ok => IsTable(t)
  BY <1>1, ShapesAre, LastIs DEF WellShaped
<1>3. CASE Outputs(p).known
  <2>1. names \in Seq(Range(names)) /\ names # <<>>
    BY <1>1, <1>3, ShapesAre, LastIs
  <2>2. Answer(p) = Picked(t, names, names)
    BY <1>3 DEF Answer
  <2> DEFINE from == names
  <2>3. Picked(t, names, from).ok /\ DOMAIN from = DOMAIN names
    BY <2>2
  <2> HIDE DEF t, names, from
  <2>4. IsTable(Picked(t, names, from)) /\ t.ok
    BY <1>2, <2>1, <2>3, PickedMakes
  <2>5. QED
    BY <1>2, <2>2, <2>4 DEF t, from
<1>4. CASE ~Outputs(p).known
  BY <1>2, <1>4 DEF Answer
<1>5. QED
  BY <1>3, <1>4

\* In every state the outcome is of one of four kinds, and every row of an answer has the
\* columns of the answer and no other, whatever was combined, padded, copied or read away.
THEOREM JoinsTypeOK == Spec => []TypeOK
<1>1. IInv => TypeOK
  <2>1. SUFFICES ASSUME IInv PROVE TypeOK
    OBVIOUS
  <2>2. ASSUME outcome.kind = "table", NEW row \in Range(outcome.table.rows)
        PROVE  DOMAIN row = Range(outcome.table.names)
    <3>1. IsTable(outcome.table)
      BY <2>1, <2>2, OutcomesAre, AnswersAreTables DEF IInv
    <3>2. PICK i \in DOMAIN outcome.table.rows : row = outcome.table.rows[i]
      BY <2>2 DEF Range
    <3>3. QED
      BY <3>1, <3>2, TableIs
  <2>3. QED
    BY <2>1, <2>2, OutcomesAre DEF IInv, TypeOK
<1>2. QED
  BY InitIInv, NextIInv, <1>1, PTL DEF Spec

(***************************************************************************)
(* Above a combination, filters and at most one select() until the next.   *)
(***************************************************************************)
Plain(p, i) ==
    \E c \in 1 .. i : (c = 1 \/ Combines(p[c])) /\ \A k \in c + 1 .. i : p[k].op = "filter"
SelectedAt(p, s, i) ==
    s \in 2 .. i /\ p[s].op = "select" /\ \A k \in s + 1 .. i : p[k].op = "filter"

\* Every step of a plan is one or the other.
LEMMA StretchesAre ==
    ASSUME NEW p, IsPlan(p)
    PROVE  /\ Plain(p, 1)
           /\ \A i \in 1 .. Len(p) : Plain(p, i) \/ \E s \in 2 .. i : SelectedAt(p, s, i)
<1> DEFINE n == Len(p)
           T == {i \in 1 .. n : Plain(p, i) \/ \E s \in 2 .. i : SelectedAt(p, s, i)}
<1>1. n \in Nat /\ n >= 1
  BY ShapesAre
<1>2. Plain(p, 1)
  <2>1. \A k \in 1 + 1 .. 1 : p[k].op = "filter"
    OBVIOUS
  <2>2. QED
    BY <2>1 DEF Plain
<1>3. ASSUME NEW i \in 2 .. n, i - 1 \in T PROVE i \in T
  <2>1. IsStep(p[i])
    BY DEF IsPlan
  <2>2. CASE Combines(p[i])
    <3>1. \A k \in i + 1 .. i : p[k].op = "filter"
      OBVIOUS
    <3>2. Plain(p, i)
      BY <2>2, <3>1 DEF Plain
    <3>3. QED
      BY <3>2
  <2>3. CASE p[i].op = "select"
    <3>1. \A k \in i + 1 .. i : p[k].op = "filter"
      OBVIOUS
    <3>2. SelectedAt(p, i, i)
      BY <2>3, <3>1 DEF SelectedAt
    <3>3. QED
      BY <3>2
  <2>4. CASE p[i].op = "filter"
    <3>1. CASE Plain(p, i - 1)
      <4>1. PICK c \in 1 .. i - 1 : (c = 1 \/ Combines(p[c])) /\ \A k \in c + 1 .. i - 1 : p[k].op = "filter"
        BY <3>1 DEF Plain
      <4>2. c \in 1 .. i /\ \A k \in c + 1 .. i : p[k].op = "filter"
        BY <2>4, <4>1
      <4>3. Plain(p, i)
        BY <4>1, <4>2 DEF Plain
      <4>4. QED
        BY <4>3
    <3>2. CASE \E s \in 2 .. i - 1 : SelectedAt(p, s, i - 1)
      <4>1. PICK s \in 2 .. i - 1 : SelectedAt(p, s, i - 1)
        BY <3>2
      <4>2. s \in 2 .. i /\ \A k \in s + 1 .. i : p[k].op = "filter"
        BY <2>4, <4>1 DEF SelectedAt
      <4>3. SelectedAt(p, s, i)
        BY <4>1, <4>2 DEF SelectedAt
      <4>4. QED
        BY <4>2, <4>3
    <3>3. QED
      BY <1>3, <3>1, <3>2
  <2>5. QED
    BY <2>1, <2>2, <2>3, <2>4, StepsAre
<1>4. \A i \in 1 .. n : i \in T
  <2>1. 1 \in T
    BY <1>1, <1>2
  <2> HIDE DEF T, n
  <2>2. QED
    BY <1>1, <1>3, <2>1, AlongAPlan
<1>5. QED
  BY <1>2, <1>4

\* What a step finds below it, and what it leaves.
LEMMA StretchSteps ==
    ASSUME NEW p, IsPlan(p), NEW i \in 2 .. Len(p)
    PROVE  /\ Combines(p[i]) => Plain(p, i)
           /\ p[i].op = "filter" /\ Plain(p, i - 1) => Plain(p, i)
           /\ p[i].op = "filter" => \A s : SelectedAt(p, s, i - 1) => SelectedAt(p, s, i)
           /\ p[i].op = "select" => SelectedAt(p, i, i) /\ Plain(p, i - 1)
<1>1. Len(p) \in Nat
  BY ShapesAre
<1>2. \A k \in i + 1 .. i : p[k].op = "filter"
  OBVIOUS
<1>3. Combines(p[i]) => Plain(p, i)
  BY <1>2 DEF Plain
<1>4. ASSUME p[i].op = "filter", Plain(p, i - 1) PROVE Plain(p, i)
  <2>1. PICK c \in 1 .. i - 1 : (c = 1 \/ Combines(p[c])) /\ \A k \in c + 1 .. i - 1 : p[k].op = "filter"
    BY <1>4 DEF Plain
  <2>2. c \in 1 .. i /\ \A k \in c + 1 .. i : p[k].op = "filter"
    BY <1>4, <2>1
  <2>3. QED
    BY <2>1, <2>2 DEF Plain
<1>5. ASSUME p[i].op = "filter", NEW s, SelectedAt(p, s, i - 1) PROVE SelectedAt(p, s, i)
  <2>1. s \in 2 .. i /\ \A k \in s + 1 .. i : p[k].op = "filter"
    BY <1>5 DEF SelectedAt
  <2>2. QED
    BY <1>5, <2>1 DEF SelectedAt
<1>6. ASSUME p[i].op = "select" PROVE SelectedAt(p, i, i) /\ Plain(p, i - 1)
  <2>1. SelectedAt(p, i, i)
    BY <1>2, <1>6 DEF SelectedAt
  <2>2. ASSUME NEW s \in 2 .. i - 1, SelectedAt(p, s, i - 1) PROVE FALSE
    <3>1. s \in 1 .. Len(p) /\ i \in 1 .. Len(p) /\ s < i /\ p[s].op = "select"
      BY <1>1, <2>2 DEF SelectedAt
    <3>2. PICK c \in s .. i : Combines(p[c])
      BY <1>6, <3>1 DEF IsPlan
    <3>3. c = s \/ c = i \/ p[c].op = "filter"
      BY <2>2, <3>2 DEF SelectedAt
    <3>4. QED
      BY <1>6, <3>1, <3>2, <3>3 DEF Combines
  <2>3. i - 1 \in 1 .. Len(p)
    BY <1>1
  <2>4. QED
    BY <2>1, <2>2, <2>3, StretchesAre
<1>7. QED
  BY <1>3, <1>4, <1>5, <1>6

\* A plain stretch above the first combination starts with one.
LEMMA PlainIs ==
    ASSUME NEW p, IsPlan(p), NEW i \in 2 .. Len(p), Plain(p, i)
    PROVE  \E c \in 2 .. i : Combines(p[c]) /\ \A k \in c + 1 .. i : p[k].op = "filter"
<1>1. PICK c \in 1 .. i : (c = 1 \/ Combines(p[c])) /\ \A k \in c + 1 .. i : p[k].op = "filter"
  BY DEF Plain
<1>2. Combines(p[2])
  <2>1. Len(p) >= 2
    BY ShapesAre
  <2>2. QED
    BY <2>1 DEF IsPlan
<1>3. c # 1
  BY <1>1, <1>2 DEF Combines
<1>4. QED
  BY <1>1, <1>3

\* What is required of a step: what the one above asks for and what is required of that,
\* and nothing of one that is combined or that is the last.
LEMMA RequiredIs ==
    ASSUME NEW p, IsPlan(p), NEW i \in 1 .. Len(p)
    PROVE  /\ i = Len(p) \/ Combines(p[i + 1]) => Required(p, i) = {}
           /\ i < Len(p) /\ ~Combines(p[i + 1]) => Required(p, i) = Asks(p, i + 1) \cup Required(p, i + 1)
<1> DEFINE n == Len(p)
           Above1(m) == {j \in m + 1 .. n : \A k \in m + 1 .. j : ~Combines(p[k])}
<1>1. n \in Nat
  BY ShapesAre
<1>2. \A m : Required(p, m) = UNION {Asks(p, j) : j \in Above1(m)}
  BY DEF Required
<1>3. ASSUME i = n \/ Combines(p[i + 1]) PROVE Required(p, i) = {}
  <2>1. Above1(i) = {}
    BY <1>1, <1>3
  <2> HIDE DEF Above1
  <2>2. QED
    BY <1>2, <2>1
<1>4. ASSUME i < n, ~Combines(p[i + 1]) PROVE Required(p, i) = Asks(p, i + 1) \cup Required(p, i + 1)
  <2>1. Above1(i) = {i + 1} \cup Above1(i + 1)
    <3>1. ASSUME NEW j \in Above1(i), j # i + 1 PROVE j \in Above1(i + 1)
      BY <1>1, <3>1
    <3>2. ASSUME NEW j \in Above1(i + 1) PROVE j \in Above1(i)
      <4>1. ASSUME NEW k \in i + 1 .. j PROVE ~Combines(p[k])
        BY <1>1, <1>4, <3>2
      <4>2. QED
        BY <1>1, <3>2, <4>1
    <3>3. i + 1 \in Above1(i)
      BY <1>1, <1>4
    <3>4. QED
      BY <3>1, <3>2, <3>3
  <2> HIDE DEF Above1
  <2>2. QED
    BY <1>2, <2>1
<1>5. QED
  BY <1>3, <1>4

\* What is good about the columns of a select() that is not refused: one output has one
\* source, no alias is another's source, and a source has its alias for its new name.
LEMMA AliasesAre ==
    ASSUME NEW cols, IsSelection(cols), ~AliasRefused(cols)
    PROVE  /\ \A i, j \in 1 .. Len(cols) :
                 OutputOf(cols[i]) = OutputOf(cols[j]) => cols[i].ref = cols[j].ref
           /\ \A i, j \in 1 .. Len(cols) :
                 OutputOf(cols[i]) = cols[j].ref => cols[i].ref = cols[j].ref
           /\ \A n \in DOMAIN Produced(cols) : \E i \in 1 .. Len(cols) :
                 cols[i].ref = n /\ OutputOf(cols[i]) = Produced(cols)[n]
           /\ \A i \in 1 .. Len(cols) :
                 OutputOf(cols[i]) = cols[i].ref \/ cols[i].ref \in DOMAIN Produced(cols)
<1>1. DOMAIN cols = 1 .. Len(cols) /\ \A i \in 1 .. Len(cols) : KeyOf(cols[i]) = cols[i].ref
  BY SelectionIs
<1>2. \A i, j \in 1 .. Len(cols) :
         \/ cols[i].alias = NoAlias
         \/ /\ i # j => cols[j].alias # cols[i].alias
            /\ cols[i].alias # cols[i].ref => cols[j].ref # cols[i].alias
  BY <1>1 DEF AliasRefused
<1>3. \A i \in 1 .. Len(cols) :
         /\ cols[i].alias = NoAlias => OutputOf(cols[i]) = cols[i].ref
         /\ cols[i].alias # NoAlias => OutputOf(cols[i]) = cols[i].alias
  BY <1>1 DEF OutputOf
<1>4. \A i, j \in 1 .. Len(cols) :
         OutputOf(cols[i]) = cols[j].ref => cols[i].ref = cols[j].ref
  BY <1>2, <1>3
<1>5. ASSUME NEW i \in 1 .. Len(cols), NEW j \in 1 .. Len(cols),
             OutputOf(cols[i]) = OutputOf(cols[j])
      PROVE  cols[i].ref = cols[j].ref
  <2>1. CASE cols[i].alias = NoAlias
    BY <1>3, <1>4, <1>5, <2>1
  <2>2. CASE cols[j].alias = NoAlias
    BY <1>3, <1>4, <1>5, <2>2
  <2>3. CASE cols[i].alias # NoAlias /\ cols[j].alias # NoAlias
    BY <1>2, <1>3, <1>5, <2>3
  <2>4. QED
    BY <2>1, <2>2, <2>3
<1> DEFINE named == {i \in 1 .. Len(cols) : cols[i].alias \notin {NoAlias, cols[i].ref}}
<1>6. named = {i \in DOMAIN cols : cols[i].alias \notin {NoAlias, KeyOf(cols[i])}}
  BY <1>1
<1>7. \A i \in named : KeyOf(cols[i]) = cols[i].ref
  BY <1>1
<1>8. DOMAIN Produced(cols) = {cols[i].ref : i \in named}
  <2>1. DOMAIN Produced(cols) = {KeyOf(cols[i]) : i \in named}
    BY <1>6 DEF Produced
  <2> HIDE DEF named
  <2>2. QED
    BY <1>7, <2>1
<1>9. ASSUME NEW n \in DOMAIN Produced(cols)
      PROVE  \E i \in 1 .. Len(cols) : cols[i].ref = n /\ OutputOf(cols[i]) = Produced(cols)[n]
  <2>1. \E i \in named : KeyOf(cols[i]) = n
    BY <1>7, <1>8, <1>9
  <2> DEFINE at == CHOOSE i \in named : KeyOf(cols[i]) = n
  <2>2. at \in named /\ KeyOf(cols[at]) = n
    BY <2>1
  <2>3. Produced(cols)[n] = cols[at].alias
    <3>1. n \in {KeyOf(cols[i]) : i \in named}
      BY <2>1
    <3> HIDE DEF named
    <3>2. Produced(cols) = [m \in {KeyOf(cols[i]) : i \in named} |->
                               cols[CHOOSE i \in named : KeyOf(cols[i]) = m].alias]
      BY <1>6 DEF Produced
    <3>3. QED
      BY <3>1, <3>2
  <2> HIDE DEF at
  <2>4. QED
    BY <1>1, <1>3, <2>2, <2>3
<1>10. \A i \in 1 .. Len(cols) : OutputOf(cols[i]) = cols[i].ref \/ cols[i].ref \in DOMAIN Produced(cols)
  BY <1>3, <1>8
<1>11. QED
  BY <1>4, <1>5, <1>9, <1>10

\* Filters over a select() leave what it made of the names.
LEMMA SelectedIs ==
    ASSUME NEW p, IsPlan(p), NEW i \in 1 .. Len(p), NEW s, SelectedAt(p, s, i)
    PROVE  /\ s \in 2 .. Len(p) /\ s <= i /\ IsSelection(p[s].cols) /\ ~AliasRefused(p[s].cols)
           /\ OutputsUpTo(p)[i] = Known(OutputsOf(p[s].cols), DOMAIN Produced(p[s].cols))
           /\ SplitUpTo(p)[i].renames = Produced(p[s].cols)
<1> DEFINE n == Len(p)
           T == {k \in 1 .. i : k >= s =>
                    /\ OutputsUpTo(p)[k] = Known(OutputsOf(p[s].cols), DOMAIN Produced(p[s].cols))
                    /\ SplitUpTo(p)[k].renames = Produced(p[s].cols)}
<1>1. n \in Nat \ {0} /\ \A k \in 1 .. n : WellShaped(SplitUpTo(p)[k])
  BY ShapesAre
<1>2. s \in 2 .. n /\ s <= i /\ i \in Nat /\ i >= 1 /\ s \in 1 .. i /\ p[s].op = "select"
  BY <1>1 DEF SelectedAt
<1>3. IsStep(p[s]) /\ IsSelection(p[s].cols) /\ ~AliasRefused(p[s].cols)
  <2>1. IsStep(p[s])
    BY <1>2 DEF IsPlan
  <2>2. QED
    BY <1>2, <2>1, StepsAre
<1>4. ASSUME NEW k \in 2 .. i, k - 1 \in T PROVE k \in T
  <2>1. /\ k \in 2 .. n /\ k \in 1 .. i /\ k - 1 \in 1 .. n
        /\ OutputsUpTo(p)[k] = Above(OutputsUpTo(p)[k - 1], p[k])
        /\ SplitUpTo(p)[k] = SplitStep(SplitUpTo(p)[k - 1], p[k], Required(p, k))
    BY <1>1, <1>2, OutputsAre, SplitsAre
  <2>2. IsStep(p[k])
    BY <2>1 DEF IsPlan
  <2>3. CASE k < s
    BY <1>2, <2>1, <2>3
  <2>4. CASE k = s
    <3>1. OutputsUpTo(p)[k] = Known(OutputsOf(p[s].cols), DOMAIN Produced(p[s].cols))
      BY <1>2, <2>1, <2>2, <2>4, StepsAre
    <3>2. SplitUpTo(p)[k] = ProjectFrame(SplitUpTo(p)[k - 1], p[s].cols, Required(p, k))
      BY <1>2, <2>1, <2>2, <2>4, StepsAre
    <3>3. SplitUpTo(p)[k].renames = Produced(p[s].cols)
      BY <3>2, ProjectKeeps
    <3>4. QED
      BY <2>1, <3>1, <3>3
  <2>5. CASE k > s
    <3>1. p[k].op = "filter"
      BY <1>2, <2>5 DEF SelectedAt
    <3>2. OutputsUpTo(p)[k] = OutputsUpTo(p)[k - 1]
      BY <2>1, <2>2, <3>1, StepsAre
    <3>3. SplitUpTo(p)[k] = FilterFrame(SplitUpTo(p)[k - 1], p[k].ref)
      BY <2>1, <2>2, <3>1, StepsAre
    <3>4. SplitUpTo(p)[k].renames = SplitUpTo(p)[k - 1].renames
      BY <3>3 DEF FilterFrame, Frame
    <3>5. k - 1 >= s
      BY <1>2, <2>5
    <3>6. QED
      BY <1>4, <2>1, <3>2, <3>4, <3>5
  <2>6. QED
    BY <1>2, <2>3, <2>4, <2>5
<1>5. 1 \in T
  BY <1>2
<1>6. \A k \in 1 .. i : k \in T
  <2> HIDE DEF T
  <2>1. QED
    BY <1>2, <1>4, <1>5, AlongAPlan
<1>7. i \in T
  BY <1>2, <1>6
<1>8. QED
  BY <1>2, <1>3, <1>7

\* What is required of a select() is none of its outputs and nothing that it aliased.
LEMMA RequiredPast ==
    ASSUME NEW p, IsPlan(p), NEW s \in 2 .. Len(p), p[s].op = "select"
    PROVE  Required(p, s) \cap (Range(OutputsOf(p[s].cols)) \cup DOMAIN Produced(p[s].cols)) = {}
<1> DEFINE n == Len(p)
<1>1. n \in Nat \ {0} /\ DOMAIN p = 1 .. n
  BY ShapesAre
<1>2. ASSUME NEW j \in s + 1 .. n, \A k \in s + 1 .. j : ~Combines(p[k])
      PROVE  Asks(p, j) \cap (Range(OutputsOf(p[s].cols)) \cup DOMAIN Produced(p[s].cols)) = {}
  <2>1. ASSUME NEW k \in s + 1 .. j PROVE p[k].op = "filter"
    <3>1. k \in 2 .. n /\ IsStep(p[k]) /\ ~Combines(p[k]) /\ s \in 1 .. n /\ k \in 1 .. n /\ s < k
      BY <1>1, <1>2, <2>1 DEF IsPlan
    <3>2. p[k].op # "select"
      <4>1. SUFFICES ASSUME p[k].op = "select" PROVE FALSE
        OBVIOUS
      <4>2. PICK c \in s .. k : Combines(p[c])
        BY <3>1, <4>1 DEF IsPlan
      <4>3. c = s \/ c \in s + 1 .. j
        BY <1>1, <1>2, <2>1
      <4>4. QED
        BY <1>2, <4>2, <4>3 DEF Combines
    <3>3. QED
      BY <3>1, <3>2, StepsAre
  <2>2. SelectedAt(p, s, j - 1)
    BY <1>1, <2>1 DEF SelectedAt
  <2>3. j - 1 \in 1 .. n
    BY <1>1
  <2>4. OutputsUpTo(p)[j - 1] = Known(OutputsOf(p[s].cols), DOMAIN Produced(p[s].cols))
    BY <2>2, <2>3, SelectedIs
  <2>5. QED
    BY <2>4 DEF Asks, Known
<1>3. QED
  BY <1>2 DEF Required

\* What a plan is split into, known to produce and meant to be at each of its steps.
LEMMA StepAt ==
    ASSUME NEW p, IsPlan(p), NEW i \in 2 .. Len(p)
    PROVE  LET f == SplitUpTo(p)[i - 1]
               g == SplitUpTo(p)[i]
               o == OutputsUpTo(p)[i - 1]
               m == MeaningUpTo(p)[i - 1]
               step == p[i]
           IN  /\ Len(p) \in Nat /\ i \in 1 .. Len(p) /\ i - 1 \in 1 .. Len(p) /\ i - 1 < Len(p)
               /\ (i - 1) + 1 = i /\ DOMAIN p = 1 .. Len(p) /\ IsStep(step)
               /\ step.op \in {"join", "union", "filter", "select"}
               /\ Combines(step) <=> step.op \in {"join", "union"}
               /\ step.op = "join" =>
                     /\ g = JoinFrames(f, SideFrame(step.side), step.on, step.how, Required(p, i))
                     /\ OutputsUpTo(p)[i] =
                           IF o.known /\ step.side.planned # <<>>
                           THEN Known(JoinColumns(step.on, o.names, step.side.planned), {}) ELSE Unknown
                     /\ MeaningUpTo(p)[i] =
                           MeantJoin(Only(m, m.names), MeantSide(step.side), step.on, step.how)
                     /\ IsSide(step.side) /\ step.on \in Seq(Range(step.on)) /\ step.on # <<>>
               /\ step.op = "union" =>
                     /\ g = UnionFrames(f, SideFrame(step.side), Required(p, i))
                     /\ OutputsUpTo(p)[i] = o
                     /\ MeaningUpTo(p)[i] = MeantUnion(Only(m, m.names), MeantSide(step.side))
                     /\ IsSide(step.side)
               /\ step.op = "filter" =>
                     /\ g = FilterFrame(f, step.ref) /\ OutputsUpTo(p)[i] = o
                     /\ MeaningUpTo(p)[i] = MeantFilter(m, step.ref)
                     /\ Reads(step) = {step.ref}
               /\ step.op = "select" =>
                     /\ g = ProjectFrame(f, step.cols, Required(p, i))
                     /\ OutputsUpTo(p)[i] = Known(OutputsOf(step.cols), DOMAIN Produced(step.cols))
                     /\ MeaningUpTo(p)[i] = MeantSelect(m, step.cols)
                     /\ IsSelection(step.cols) /\ ~AliasRefused(step.cols)
                     /\ Reads(step) = {step.cols[j].ref : j \in 1 .. Len(step.cols)}
<1> DEFINE f == SplitUpTo(p)[i - 1]
           g == SplitUpTo(p)[i]
           o == OutputsUpTo(p)[i - 1]
           m == MeaningUpTo(p)[i - 1]
           step == p[i]
           required == Required(p, i)
<1>1. Len(p) \in Nat \ {0} /\ DOMAIN p = 1 .. Len(p)
  BY ShapesAre
<1>2. i \in 1 .. Len(p) /\ i - 1 \in 1 .. Len(p) /\ i - 1 < Len(p) /\ (i - 1) + 1 = i
  BY <1>1
<1>3. IsStep(step)
  BY DEF IsPlan
<1>4. /\ g = SplitStep(f, step, required) /\ OutputsUpTo(p)[i] = Above(o, step)
      /\ MeaningUpTo(p)[i] = MeantStep(m, step)
  BY <1>1, SplitsAre, OutputsAre, MeaningsAre
<1>5. step.op = "filter" => Reads(step) = {step.ref}
  BY DEF Reads, Combines
<1>6. ASSUME step.op = "select"
      PROVE  Reads(step) = {step.cols[j].ref : j \in 1 .. Len(step.cols)}
  <2>1. IsSelection(step.cols)
    BY <1>3, <1>6, StepsAre
  <2>2. DOMAIN step.cols = 1 .. Len(step.cols)
    BY <2>1, SelectionIs
  <2>3. Reads(step) = {step.cols[j].ref : j \in DOMAIN step.cols}
    BY <1>6 DEF Reads, Combines
  <2>4. QED
    BY <2>2, <2>3
<1> HIDE DEF f, g, o, m, required
<1>7. QED
  <2>1. /\ step.op \in {"join", "union", "filter", "select"}
        /\ Combines(step) <=> step.op \in {"join", "union"}
    BY <1>3, StepsAre
  <2>2. step.op = "join" =>
           /\ g = JoinFrames(f, SideFrame(step.side), step.on, step.how, required)
           /\ OutputsUpTo(p)[i] = IF o.known /\ step.side.planned # <<>>
                                  THEN Known(JoinColumns(step.on, o.names, step.side.planned), {})
                                  ELSE Unknown
           /\ MeaningUpTo(p)[i] = MeantJoin(Only(m, m.names), MeantSide(step.side), step.on, step.how)
           /\ IsSide(step.side) /\ step.on \in Seq(Range(step.on)) /\ step.on # <<>>
    BY <1>3, <1>4, StepsAre
  <2>3. step.op = "union" =>
           /\ g = UnionFrames(f, SideFrame(step.side), required)
           /\ OutputsUpTo(p)[i] = o
           /\ MeaningUpTo(p)[i] = MeantUnion(Only(m, m.names), MeantSide(step.side))
           /\ IsSide(step.side)
    <3>1. SUFFICES ASSUME step.op = "union"
                   PROVE  /\ SplitStep(f, step, required) = UnionFrames(f, SideFrame(step.side), required)
                          /\ Above(o, step) = o
                          /\ MeantStep(m, step) = MeantUnion(Only(m, m.names), MeantSide(step.side))
                          /\ IsSide(step.side)
      BY <1>4
    <3> HIDE DEF step
    <3>2. QED
      BY <1>3, <3>1, StepsAre
  <2>4. step.op = "filter" =>
           /\ g = FilterFrame(f, step.ref) /\ OutputsUpTo(p)[i] = o
           /\ MeaningUpTo(p)[i] = MeantFilter(m, step.ref)
    BY <1>3, <1>4, StepsAre
  <2>5. step.op = "select" =>
           /\ g = ProjectFrame(f, step.cols, required)
           /\ OutputsUpTo(p)[i] = Known(OutputsOf(step.cols), DOMAIN Produced(step.cols))
           /\ MeaningUpTo(p)[i] = MeantSelect(m, step.cols)
           /\ IsSelection(step.cols) /\ ~AliasRefused(step.cols)
    <3>1. SUFFICES ASSUME step.op = "select"
                   PROVE  /\ SplitStep(f, step, required) = ProjectFrame(f, step.cols, required)
                          /\ Above(o, step) = Known(OutputsOf(step.cols), DOMAIN Produced(step.cols))
                          /\ MeantStep(m, step) = MeantSelect(m, step.cols)
                          /\ IsSelection(step.cols) /\ ~AliasRefused(step.cols)
      BY <1>4
    <3> HIDE DEF step
    <3>2. QED
      BY <1>3, <3>1, StepsAre
  <2>6. QED
    BY <1>1, <1>2, <1>3, <1>5, <1>6, <2>1, <2>2, <2>3, <2>4, <2>5 DEF f, g, o, m, required

(***************************************************************************)
(* What can be refused before anything runs is.                            *)
(***************************************************************************)
ReadsAlias(p) ==
    \E c, i \in DOMAIN p :
        /\ Combines(p[c]) /\ c < i /\ \A k \in c + 1 .. i - 1 : p[k].op = "filter"
        /\ Reads(p[i]) \cap DOMAIN SplitUpTo(p)[i - 1].renames # {}

UnlikeAt(p, c) ==
    LET l == SplitUpTo(p)[c - 1].table
        r == Fetched(p[c].side)
    IN  \E n \in Range(l.names) \cap Range(r.names) : Widest(l.types[n], r.types[n]) = NoType

AsPlanned(p) ==
    /\ \A s \in SidesOf(p) : s.planned = s.result.names
    /\ \A c \in 2 .. Len(p) : Combines(p[c]) => ~UnlikeAt(p, c)

Sound(p, i) ==
    LET f == SplitUpTo(p)[i]
        out == OutputsUpTo(p)[i]
    IN  /\ f.table.ok /\ f.table.names = f.columns
        /\ out.known /\ Range(out.names) \subseteq Range(f.columns)
        /\ out.keys \subseteq DOMAIN f.renames /\ Range(f.renames) \subseteq Range(f.columns)
        /\ Required(p, i) \subseteq Range(f.columns)

\* Every copy can be made of columns that are there, and all stay there.
LEMMA CopiesWork ==
    ASSUME NEW t, IsTable(t), NEW cols, Len(cols) \in Nat, NEW sources,
           \A i \in 1 .. Len(cols) : sources[i] \in Range(t.names)
    PROVE  LET u == CopyEach(t, cols, sources)
           IN  /\ u.ok /\ IsTable(u) /\ Range(t.names) \subseteq Range(u.names)
               /\ \A i \in 1 .. Len(cols) :
                     sources[i] \in Copied(sources) => OutputOf(cols[i]) \in Range(u.names)
<1> DEFINE n == Len(cols)
           at == CopiesUpTo(t, cols, sources)
           T == {k \in 0 .. n :
                   /\ at[k].ok /\ IsTable(at[k]) /\ Range(t.names) \subseteq Range(at[k].names)
                   /\ \A i \in 1 .. k :
                         sources[i] \in Copied(sources) => OutputOf(cols[i]) \in Range(at[k].names)}
<1>1. /\ at[0] = t
      /\ \A k \in 1 .. n : at[k] = CopyStep(at[k - 1], cols[k], sources[k], Copied(sources))
  BY CopiesAre
<1>2. 0 \in T
  BY <1>1, TableIs
<1>3. ASSUME NEW k \in Nat, k >= 0, k \in T PROVE k + 1 \in T \/ k + 1 > n
  <2>1. SUFFICES ASSUME k + 1 <= n PROVE k + 1 \in T
    BY <1>3
  <2>2. /\ k + 1 \in 1 .. n /\ k + 1 \in 0 .. n
        /\ at[k + 1] = CopyStep(at[k], cols[k + 1], sources[k + 1], Copied(sources))
        /\ sources[k + 1] \in Range(at[k].names) /\ IsTable(at[k]) /\ at[k].ok
    BY <1>1, <1>3, <2>1
  <2>3. CASE sources[k + 1] \in Copied(sources) /\ OutputOf(cols[k + 1]) # sources[k + 1]
    <3>1. at[k + 1] = LocalWithColumn(at[k], OutputOf(cols[k + 1]), sources[k + 1])
      BY <2>2, <2>3 DEF CopyStep
    <3>2. at[k + 1].ok
      BY <2>2, <3>1, CopyWorks
    <3>3. IsTable(at[k + 1]) /\ Range(at[k + 1].names) = Range(at[k].names) \cup {OutputOf(cols[k + 1])}
      <4> DEFINE name == OutputOf(cols[k + 1])
                 from == sources[k + 1]
                 v == at[k]
      <4>1. /\ v.ok /\ IsTable(v) /\ LocalWithColumn(v, name, from).ok
            /\ at[k + 1] = LocalWithColumn(v, name, from)
        BY <2>2, <3>1, <3>2
      <4>2. IsTable(LocalWithColumn(v, name, from))
            /\ Range(LocalWithColumn(v, name, from).names) = Range(v.names) \cup {name}
        <5> HIDE DEF name, from, v
        <5>1. QED
          BY ZenonT(60), <4>1, CopyMakes
      <4>3. QED
        BY <4>1, <4>2
    <3>4. QED
      BY <1>3, <2>2, <3>2, <3>3
  <2>4. CASE ~(sources[k + 1] \in Copied(sources) /\ OutputOf(cols[k + 1]) # sources[k + 1])
    <3>1. at[k + 1] = at[k]
      BY <2>2, <2>4 DEF CopyStep
    <3>2. QED
      BY <1>3, <2>2, <2>4, <3>1
  <2>5. QED
    BY <2>3, <2>4
<1>4. n \in T
  <2> DEFINE S == {k \in Nat : k \in T \/ k > n}
  <2>1. 0 \in S
    BY <1>2
  <2>2. \A k \in Nat : k >= 0 /\ k \in S => k + 1 \in S
    <3> HIDE DEF T
    <3>1. QED
      BY <1>3
  <2>3. \A k \in Nat : k >= 0 => k \in S
    <3> HIDE DEF S
    <3>1. QED
      BY <2>1, <2>2, StepByStep
  <2>4. QED
    <3> HIDE DEF T
    <3>1. QED
      BY <2>3
<1>5. QED
  BY <1>4 DEF CopyEach

\* What a step above a combination names is a column of the frame below, under this name or
\* another.
LEMMA SoundReads ==
    ASSUME NEW p, IsPlan(p), NEW i \in 2 .. Len(p), ~Combines(p[i]), Sound(p, i - 1),
           NEW n \in Reads(p[i])
    PROVE  Resolve(n, SplitUpTo(p)[i - 1].renames) \in Range(SplitUpTo(p)[i - 1].columns)
<1> DEFINE f == SplitUpTo(p)[i - 1]
           out == OutputsUpTo(p)[i - 1]
<1>1. Len(p) \in Nat
  BY ShapesAre
<1>2. Asks(p, i) \subseteq Required(p, i - 1)
  <2>1. i - 1 \in 1 .. Len(p) /\ i - 1 < Len(p) /\ (i - 1) + 1 = i
    BY <1>1
  <2>2. QED
    BY <2>1, RequiredIs
<1>3. CASE n \in DOMAIN f.renames
  <2>1. f.renames[n] \in Range(f.renames)
    BY <1>3 DEF Range
  <2>2. QED
    BY <1>3, <2>1 DEF Resolve, Sound
<1>4. CASE n \notin DOMAIN f.renames
  <2>1. n \in Range(out.names) \/ n \in Asks(p, i)
    BY <1>4 DEF Asks, Sound
  <2>2. QED
    BY <1>2, <1>4, <2>1 DEF Resolve, Sound
<1>5. QED
  BY <1>3, <1>4

\* A join of two tables that have the keys, and nothing else, in common makes a table.
LEMMA JoinWorks ==
    ASSUME NEW l, IsTable(l), NEW r, IsTable(r), NEW on, NEW how,
           Range(on) \subseteq Range(l.names) \cap Range(r.names),
           Overlap(on, l.names, r.names) = {},
           \A n \in Range(on) : Promoted(l.types[n], r.types[n]) # NoType
    PROVE  LocalJoin(l, r, on, how).ok
<1>1. l.ok /\ r.ok
  BY TableIs
<1>2. ~(\/ ~l.ok \/ ~r.ok
        \/ ~(Range(on) \subseteq Range(l.names) \cap Range(r.names))
        \/ Overlap(on, l.names, r.names) # {}
        \/ \E n \in Range(on) : Promoted(l.types[n], r.types[n]) = NoType)
  BY <1>1
<1>3. QED
  BY <1>2 DEF LocalJoin, Table

\* A union of two tables of the same columns, of types that go together, makes a table.
LEMMA UnionWorks ==
    ASSUME NEW l, IsTable(l), NEW r, IsTable(r), l.names = r.names,
           \A n \in Range(l.names) : Promoted(l.types[n], r.types[n]) # NoType
    PROVE  LocalUnion(l, r).ok
<1>1. l.ok /\ r.ok
  BY TableIs
<1>2. QED
  BY <1>1 DEF LocalUnion, Table

\* The side of a combination, as it was planned.
LEMMA PlannedSide ==
    ASSUME NEW p, IsPlan(p), AsPlanned(p), NEW i \in 1 .. Len(p), i = 1 \/ Combines(p[i])
    PROVE  /\ IsSide(p[i].side) /\ p[i].side.planned = p[i].side.result.names
           /\ p[i].side.planned # <<>>
<1>1. Len(p) \in Nat \ {0} /\ DOMAIN p = 1 .. Len(p)
  BY ShapesAre
<1>2. p[i].side \in SidesOf(p)
  BY <1>1 DEF SidesOf
<1>3. IsSide(p[i].side)
  BY DEF IsPlan, IsStep, IsCombination, Combines
<1>4. IsTable(p[i].side.result)
  BY <1>3 DEF IsSide
<1>5. QED
  BY <1>2, <1>3, <1>4, TableIs DEF AsPlanned

\* Types that are not unlike go together.
LEMMA AlikeIs ==
    ASSUME NEW p, IsPlan(p), AsPlanned(p), NEW i \in 2 .. Len(p), Combines(p[i]),
           IsTable(SplitUpTo(p)[i - 1].table), NEW n,
           n \in Range(SplitUpTo(p)[i - 1].table.names), n \in Range(p[i].side.result.names)
    PROVE  Promoted(SplitUpTo(p)[i - 1].table.types[n], p[i].side.result.types[n]) # NoType
<1> DEFINE l == SplitUpTo(p)[i - 1].table
           r == p[i].side.result
<1>1. IsSide(p[i].side)
  <2>1. i \in 1 .. Len(p)
    BY ShapesAre
  <2>2. QED
    BY <2>1, PlannedSide
<1>2. Fetched(p[i].side) = r /\ IsTable(r)
  BY <1>1, FetchedIs
<1>3. Widest(l.types[n], r.types[n]) # NoType
  BY <1>2 DEF AsPlanned, UnlikeAt
<1>4. l.types[n] \in Kinds /\ r.types[n] \in Kinds
  BY <1>2, TableIs
<1>5. QED
  BY <1>3, <1>4, PromotedIsWidest

\* A join of sound frames, when it is not refused, is sound.
LEMMA SoundJoin ==
    ASSUME NEW p, IsPlan(p), AsPlanned(p), NEW i \in 2 .. Len(p), p[i].op = "join",
           Sound(p, i - 1), ~SplitUpTo(p)[i].refused
    PROVE  Sound(p, i)
<1> DEFINE f == SplitUpTo(p)[i - 1]
           g == SplitUpTo(p)[i]
           side == p[i].side
           on == p[i].on
           r == SideFrame(side)
           out == OutputsUpTo(p)[i - 1]
<1>1. /\ i \in 1 .. Len(p) /\ i - 1 \in 1 .. Len(p) /\ Combines(p[i]) /\ IsStep(p[i])
      /\ g = JoinFrames(f, r, on, p[i].how, Required(p, i))
      /\ OutputsUpTo(p)[i] = Above(out, p[i])
  <2>1. /\ Len(p) \in Nat \ {0} /\ i \in 1 .. Len(p) /\ i - 1 \in 1 .. Len(p) /\ Combines(p[i])
        /\ IsStep(p[i])
    BY ShapesAre DEF Combines, IsPlan
  <2>2. QED
    BY <2>1, StepsAre, SplitsAre, OutputsAre
<1>2. on \in Seq(Range(on)) /\ on # <<>>
  BY <1>1, StepsAre
<1>3. IsSide(side) /\ side.planned = side.result.names /\ side.planned # <<>>
  BY <1>1, PlannedSide
<1>4. /\ r.columns = side.planned /\ r.renames = side.renames /\ r.table = side.result
      /\ IsTable(r.table) /\ Range(r.renames) \subseteq Range(r.columns)
  BY <1>3, SideFrameIs
<1>5. IsTable(f.table) /\ f.columns \in Seq(Range(f.columns)) /\ f.columns # <<>>
  BY <1>1, ShapesAre, TableIs DEF WellShaped, Sound
<1>6. /\ g.columns = JoinColumns(on, f.columns, r.columns)
      /\ g.renames = Over(r.renames, f.renames)
      /\ g.table = LocalJoin(f.table, r.table, on, p[i].how)
      /\ ~KeysMissing(on, f, r) /\ Overlap(on, f.columns, r.columns) = {}
      /\ ~Missing(f, r, g.columns, Required(p, i))
  BY <1>1 DEF JoinFrames, Frame
<1>7. Range(on) \subseteq Range(f.columns) /\ Range(on) \subseteq Range(r.columns)
  BY <1>3, <1>4, <1>5, <1>6 DEF KeysMissing
<1>8. \A n \in Range(on) : Promoted(f.table.types[n], r.table.types[n]) # NoType
  BY <1>1, <1>3, <1>4, <1>5, <1>7, AlikeIs DEF Sound
<1>9. g.table.ok
  <2> DEFINE lt == f.table
             rt == r.table
             how == p[i].how
  <2>1. /\ IsTable(lt) /\ IsTable(rt) /\ Range(on) \subseteq Range(lt.names) \cap Range(rt.names)
        /\ Overlap(on, lt.names, rt.names) = {}
        /\ \A n \in Range(on) : Promoted(lt.types[n], rt.types[n]) # NoType
    BY <1>3, <1>4, <1>5, <1>6, <1>7, <1>8 DEF Sound
  <2>2. LocalJoin(lt, rt, on, how).ok
    <3> HIDE DEF lt, rt, on, how
    <3>1. QED
      BY <2>1, JoinWorks
  <2>3. QED
    BY <1>6, <2>2
<1>10. g.table.names = g.columns
  <2> DEFINE lt == f.table
             rt == r.table
             how == p[i].how
  <2>1. /\ IsTable(lt) /\ IsTable(rt) /\ LocalJoin(lt, rt, on, how).ok
        /\ on \in Seq(Range(on)) /\ on # <<>>
    BY <1>2, <1>4, <1>5, <1>6, <1>9
  <2>2. LocalJoin(lt, rt, on, how).names = JoinColumns(on, lt.names, rt.names)
    <3> HIDE DEF lt, rt, on, how
    <3>1. QED
      BY <2>1, JoinMakes
  <2>3. QED
    BY <1>3, <1>4, <1>6, <2>2 DEF Sound
<1>11. Range(g.columns) = Range(on) \cup Range(f.columns) \cup Range(r.columns)
  BY <1>2, <1>3, <1>4, <1>5, <1>6, JoinColumnsAre DEF IsSide
<1>12. /\ OutputsUpTo(p)[i].known /\ OutputsUpTo(p)[i].keys = {}
       /\ Range(OutputsUpTo(p)[i].names) \subseteq Range(g.columns)
  <2>1. OutputsUpTo(p)[i] = Known(JoinColumns(on, out.names, side.planned), {})
    BY <1>1, <1>3, StepsAre DEF Sound
  <2>2. out.names \in Seq(Range(out.names)) /\ Range(out.names) \subseteq Range(f.columns)
    BY <1>1, ShapesAre DEF Sound
  <2>3. Range(JoinColumns(on, out.names, side.planned))
            = Range(on) \cup Range(out.names) \cup Range(side.planned)
    BY <1>2, <1>3, <2>2, JoinColumnsAre DEF IsSide
  <2>4. QED
    BY <1>4, <1>11, <2>1, <2>2, <2>3 DEF Known
<1>13. Range(g.renames) \subseteq Range(g.columns)
  <2>1. Range(g.renames) \subseteq Range(r.renames) \cup Range(f.renames)
    BY ZenonT(60), <1>6 DEF Over, Range
  <2>2. QED
    BY <1>4, <1>11, <2>1 DEF Sound
<1>14. Required(p, i) \subseteq Range(g.columns)
  BY <1>3, <1>4, <1>5, <1>6 DEF Missing
<1>15. QED
  BY <1>9, <1>10, <1>12, <1>13, <1>14 DEF Sound

\* A union of sound frames, when it is not refused, is sound.
LEMMA SoundUnion ==
    ASSUME NEW p, IsPlan(p), AsPlanned(p), NEW i \in 2 .. Len(p), p[i].op = "union",
           Sound(p, i - 1), ~SplitUpTo(p)[i].refused
    PROVE  Sound(p, i)
<1> DEFINE f == SplitUpTo(p)[i - 1]
           g == SplitUpTo(p)[i]
           side == p[i].side
           r == SideFrame(side)
           out == OutputsUpTo(p)[i - 1]
<1>1. /\ i \in 1 .. Len(p) /\ i - 1 \in 1 .. Len(p) /\ Combines(p[i]) /\ IsStep(p[i])
      /\ g = UnionFrames(f, r, Required(p, i))
      /\ OutputsUpTo(p)[i] = out
  BY StepAt
<1>2. IsSide(side) /\ side.planned = side.result.names /\ side.planned # <<>>
  BY <1>1, PlannedSide
<1>3. /\ r.columns = side.planned /\ r.renames = side.renames /\ r.table = side.result
      /\ IsTable(r.table) /\ Range(r.renames) \subseteq Range(r.columns)
  BY <1>2, SideFrameIs
<1>4. IsTable(f.table) /\ f.columns # <<>>
  BY <1>1, ShapesAre, TableIs DEF WellShaped, Sound
<1>5. /\ g.columns = f.columns /\ g.renames = Over(r.renames, f.renames)
      /\ g.table = LocalUnion(f.table, r.table)
      /\ f.columns = r.columns /\ Required(p, i) \subseteq Range(f.columns)
  BY <1>1, <1>2, <1>3, <1>4 DEF UnionFrames, Frame, Missing
<1>6. \A n \in Range(f.table.names) : Promoted(f.table.types[n], r.table.types[n]) # NoType
  BY <1>1, <1>2, <1>3, <1>4, <1>5, AlikeIs DEF Sound
<1>7. f.table.names = r.table.names
  BY <1>2, <1>3, <1>5 DEF Sound
<1>8. g.table.ok /\ g.table.names = f.table.names
  <2> DEFINE lt == f.table
             rt == r.table
  <2>1. /\ IsTable(lt) /\ IsTable(rt) /\ lt.names = rt.names
        /\ \A n \in Range(lt.names) : Promoted(lt.types[n], rt.types[n]) # NoType
    BY <1>3, <1>4, <1>6, <1>7
  <2>2. LocalUnion(lt, rt).ok /\ LocalUnion(lt, rt).names = lt.names
    <3> HIDE DEF lt, rt
    <3>1. LocalUnion(lt, rt).ok
      BY <2>1, UnionWorks
    <3>2. QED
      BY <2>1, <3>1, UnionMakes
  <2>3. QED
    BY <1>5, <2>2
<1>9. Range(g.renames) \subseteq Range(g.columns) /\ DOMAIN f.renames \subseteq DOMAIN g.renames
  <2>1. Range(g.renames) \subseteq Range(r.renames) \cup Range(f.renames)
    BY ZenonT(60), <1>5 DEF Over, Range
  <2>2. DOMAIN f.renames \subseteq DOMAIN g.renames
    BY <1>5 DEF Over
  <2>3. QED
    BY <1>3, <1>5, <2>1, <2>2 DEF Sound
<1>10. QED
  BY <1>1, <1>5, <1>8, <1>9 DEF Sound

\* A filter over a sound frame is sound.
LEMMA SoundFilter ==
    ASSUME NEW p, IsPlan(p), NEW i \in 2 .. Len(p), p[i].op = "filter", Sound(p, i - 1)
    PROVE  Sound(p, i)
<1> DEFINE f == SplitUpTo(p)[i - 1]
           g == SplitUpTo(p)[i]
           n == Resolve(p[i].ref, f.renames)
<1>1. /\ Len(p) \in Nat /\ i - 1 \in 1 .. Len(p) /\ ~Combines(p[i])
      /\ g = FilterFrame(f, p[i].ref)
      /\ OutputsUpTo(p)[i] = OutputsUpTo(p)[i - 1]
      /\ Reads(p[i]) = {p[i].ref}
  BY StepAt
<1>2. /\ g.columns = f.columns /\ g.renames = f.renames /\ g.table = LocalFilter(f.table, n)
  BY <1>1 DEF FilterFrame, Frame
<1>3. n \in Range(f.table.names)
  <2>1. p[i].ref \in Reads(p[i])
    BY <1>1
  <2>2. n \in Range(f.columns)
    BY <1>1, <2>1, SoundReads
  <2>3. QED
    BY <2>2 DEF Sound
<1>4. f.table.ok /\ IsTable(f.table)
  BY <1>1, ShapesAre DEF WellShaped, Sound
<1>5. g.table.ok /\ g.table.names = f.table.names
  <2> DEFINE t == f.table
  <2>1. t.ok /\ IsTable(t) /\ n \in Range(t.names)
    BY <1>3, <1>4
  <2>2. LocalFilter(t, n).ok /\ LocalFilter(t, n).names = t.names
    <3> HIDE DEF t, n
    <3>1. LocalFilter(t, n).ok
      BY <2>1, FilterWorks
    <3>2. QED
      BY <2>1, <3>1, FilterMakes
  <2>3. QED
    BY <1>2, <2>2
<1>6. Required(p, i) \subseteq Required(p, i - 1)
  <2>1. i - 1 < Len(p) /\ (i - 1) + 1 = i
    BY <1>1
  <2>2. QED
    BY <1>1, <2>1, RequiredIs
<1>7. QED
  BY <1>1, <1>2, <1>5, <1>6 DEF Sound

\* A select() and a filter above a plain combination name no column by what a side called it.
LEMMA NamesNoAlias ==
    ASSUME NEW p, IsPlan(p), ~ReadsAlias(p), NEW i \in 2 .. Len(p), ~Combines(p[i]), Plain(p, i - 1)
    PROVE  \A n \in Reads(p[i]) : /\ n \notin DOMAIN SplitUpTo(p)[i - 1].renames
                                  /\ Resolve(n, SplitUpTo(p)[i - 1].renames) = n
<1>1. Len(p) \in Nat \ {0} /\ DOMAIN p = 1 .. Len(p)
  BY ShapesAre
<1>2. Len(p) >= 2 => Combines(p[2])
  BY DEF IsPlan
<1>3. i - 1 \in 2 .. Len(p)
  BY <1>1, <1>2
<1>4. PICK c \in 2 .. i - 1 : Combines(p[c]) /\ \A k \in c + 1 .. i - 1 : p[k].op = "filter"
  BY <1>3, PlainIs
<1>5. c \in DOMAIN p /\ i \in DOMAIN p /\ c < i
  BY <1>1, <1>4
<1>6. Reads(p[i]) \cap DOMAIN SplitUpTo(p)[i - 1].renames = {}
  BY <1>4, <1>5 DEF ReadsAlias
<1>7. QED
  BY <1>6 DEF Resolve

\* The columns of a select() over a plain combination are read under the names they have.
LEMMA SourcesAre ==
    ASSUME NEW p, IsPlan(p), ~ReadsAlias(p), NEW i \in 2 .. Len(p), p[i].op = "select"
    PROVE  LET f == SplitUpTo(p)[i - 1]
               cols == p[i].cols
           IN  /\ IsSelection(cols) /\ ~AliasRefused(cols)
               /\ DOMAIN Sources(f, cols) = 1 .. Len(cols)
               /\ \A j \in 1 .. Len(cols) : Sources(f, cols)[j] = cols[j].ref
               /\ Reads(p[i]) = {cols[j].ref : j \in 1 .. Len(cols)}
               /\ DOMAIN Named(f, cols) = 1 .. Len(cols)
               /\ \A j \in 1 .. Len(cols) :
                     Named(f, cols)[j] = IF cols[j].ref \in Copied(Sources(f, cols))
                                         THEN OutputOf(cols[j]) ELSE cols[j].ref
<1> DEFINE f == SplitUpTo(p)[i - 1]
           cols == p[i].cols
<1>1. IsStep(p[i]) /\ ~Combines(p[i]) /\ Plain(p, i - 1)
  BY StretchSteps DEF Combines, IsPlan
<1>2. IsSelection(cols) /\ ~AliasRefused(cols)
  BY <1>1, StepsAre
<1>3. DOMAIN cols = 1 .. Len(cols)
  BY <1>2, SelectionIs
<1>4. Reads(p[i]) = {cols[j].ref : j \in 1 .. Len(cols)}
  BY <1>3 DEF Reads, Combines
<1>5. ASSUME NEW j \in 1 .. Len(cols) PROVE Resolve(cols[j].ref, f.renames) = cols[j].ref
  <2>1. cols[j].ref \in Reads(p[i])
    BY <1>4
  <2>2. QED
    BY <1>1, <2>1, NamesNoAlias
<1>6. DOMAIN Sources(f, cols) = 1 .. Len(cols) /\ \A j \in 1 .. Len(cols) : Sources(f, cols)[j] = cols[j].ref
  BY <1>3, <1>5 DEF Sources
<1>7. QED
  BY <1>2, <1>3, <1>4, <1>6 DEF Named

\* A select() over a sound frame is sound.
LEMMA SoundSelect ==
    ASSUME NEW p, IsPlan(p), ~ReadsAlias(p), NEW i \in 2 .. Len(p), p[i].op = "select",
           Sound(p, i - 1)
    PROVE  Sound(p, i)
<1> DEFINE f == SplitUpTo(p)[i - 1]
           g == SplitUpTo(p)[i]
           cols == p[i].cols
           sources == Sources(f, cols)
           required == Required(p, i)
           riding == Riding(f, cols, required)
           outputs == OutputsOf(cols) \o riding
           from == Named(f, cols) \o riding
           u == CopyEach(f.table, cols, sources)
<1>1. /\ Len(p) \in Nat /\ i \in 1 .. Len(p) /\ i - 1 \in 1 .. Len(p) /\ ~Combines(p[i])
      /\ g = ProjectFrame(f, cols, required)
      /\ OutputsUpTo(p)[i] = Known(OutputsOf(cols), DOMAIN Produced(cols))
  BY StepAt
<1>2. /\ IsSelection(cols) /\ ~AliasRefused(cols)
      /\ DOMAIN sources = 1 .. Len(cols)
      /\ \A j \in 1 .. Len(cols) : sources[j] = cols[j].ref
      /\ Reads(p[i]) = {cols[j].ref : j \in 1 .. Len(cols)}
      /\ DOMAIN Named(f, cols) = 1 .. Len(cols)
      /\ \A j \in 1 .. Len(cols) :
            Named(f, cols)[j] = IF cols[j].ref \in Copied(sources) THEN OutputOf(cols[j]) ELSE cols[j].ref
  BY SourcesAre
<1>3. Len(cols) \in Nat /\ OutputsOf(cols) \in Seq(Range(OutputsOf(cols))) /\ DOMAIN OutputsOf(cols) = 1 .. Len(cols)
      /\ \A j \in 1 .. Len(cols) : OutputsOf(cols)[j] = OutputOf(cols[j])
  BY <1>2, SelectionIs
<1>4. f.columns \in Seq(Range(f.columns)) /\ f.table.ok /\ IsTable(f.table)
  BY <1>1, ShapesAre DEF WellShaped, Sound
<1>5. /\ g.columns = outputs /\ g.renames = Produced(cols)
      /\ g.table = Picked(u, outputs, from)
      /\ outputs \in Seq(Range(outputs)) /\ outputs # <<>> /\ DOMAIN from = DOMAIN outputs
      /\ Range(outputs) = Range(OutputsOf(cols)) \cup Range(riding)
      /\ Range(from) = Range(Named(f, cols)) \cup Range(riding)
  <2> HIDE DEF f, cols, required
  <2>1. QED
    BY SMTT(60), <1>1, <1>2, <1>4, ProjectIs
<1>6. Range(riding) = Range(f.columns) \cap (required \ Range(Named(f, cols)))
  <2> HIDE DEF f, cols, required
  <2>1. QED
    BY <1>4, CarriedAre DEF Riding
<1>7. \A j \in 1 .. Len(cols) : cols[j].ref \in Range(f.table.names)
  <2>1. ASSUME NEW j \in 1 .. Len(cols) PROVE cols[j].ref \in Range(f.table.names)
    <3>1. cols[j].ref \in Reads(p[i])
      BY <1>2
    <3>2. Resolve(cols[j].ref, f.renames) = sources[j]
      BY <1>2 DEF Sources
    <3>3. Resolve(cols[j].ref, f.renames) \in Range(f.columns)
      BY <1>1, <3>1, SoundReads
    <3>4. QED
      BY <1>2, <3>2, <3>3 DEF Sound
  <2>2. QED
    BY <2>1
<1>8. /\ u.ok /\ IsTable(u) /\ Range(f.table.names) \subseteq Range(u.names)
      /\ \A j \in 1 .. Len(cols) : sources[j] \in Copied(sources) => OutputOf(cols[j]) \in Range(u.names)
  <2> DEFINE t == f.table
  <2>1. IsTable(t) /\ Len(cols) \in Nat /\ \A j \in 1 .. Len(cols) : sources[j] \in Range(t.names)
    BY <1>2, <1>3, <1>4, <1>7
  <2>2. /\ CopyEach(t, cols, sources).ok /\ IsTable(CopyEach(t, cols, sources))
        /\ Range(t.names) \subseteq Range(CopyEach(t, cols, sources).names)
        /\ \A j \in 1 .. Len(cols) :
              sources[j] \in Copied(sources) => OutputOf(cols[j]) \in Range(CopyEach(t, cols, sources).names)
    <3> HIDE DEF t, cols, sources
    <3>1. QED
      BY <2>1, CopiesWork
  <2>3. QED
    BY <2>2
<1>9. Range(from) \subseteq Range(u.names)
  <2>1. Range(riding) \subseteq Range(u.names)
    BY <1>6, <1>8 DEF Sound
  <2>2. \A j \in 1 .. Len(cols) : Named(f, cols)[j] \in Range(u.names)
    BY <1>2, <1>7, <1>8
  <2>3. Range(Named(f, cols)) \subseteq Range(u.names)
    BY <1>2, <2>2 DEF Range
  <2>4. QED
    BY <1>5, <2>1, <2>3
<1>10. g.table.ok /\ g.table.names = outputs
  <2>1. /\ IsTable(u) /\ u.ok /\ Range(from) \subseteq Range(u.names)
        /\ outputs \in Seq(Range(outputs)) /\ outputs # <<>> /\ DOMAIN from = DOMAIN outputs
    BY <1>5, <1>8, <1>9
  <2>2. Picked(u, outputs, from).ok /\ Picked(u, outputs, from).names = outputs
    <3> HIDE DEF u, outputs, from
    <3>1. Picked(u, outputs, from).ok
      BY <2>1, PickedWorks
    <3>2. Picked(u, outputs, from).names = outputs
      BY <3>1 DEF Picked, Fails, Table
    <3>3. QED
      BY <3>1, <3>2
  <2>3. QED
    BY <1>5, <2>2
<1>11. Range(g.renames) \subseteq Range(OutputsOf(cols))
  <2>1. ASSUME NEW n \in DOMAIN Produced(cols) PROVE Produced(cols)[n] \in Range(OutputsOf(cols))
    <3>1. PICK j \in 1 .. Len(cols) : OutputOf(cols[j]) = Produced(cols)[n]
      BY <1>2, AliasesAre
    <3>2. QED
      BY <1>3, <3>1 DEF Range
  <2>2. Range(g.renames) = {Produced(cols)[n] : n \in DOMAIN Produced(cols)}
    BY <1>5 DEF Range
  <2>3. QED
    BY <2>1, <2>2
<1>12. required \subseteq Range(outputs)
  <2>1. required \subseteq Required(p, i - 1)
    BY <1>1, RequiredIs
  <2>2. required \subseteq Range(f.columns)
    BY <2>1 DEF Sound
  <2>3. ASSUME NEW n \in required, n \in Range(Named(f, cols)) PROVE FALSE
    <3>1. PICK j \in 1 .. Len(cols) : Named(f, cols)[j] = n
      BY <1>2, <2>3 DEF Range
    <3>2. n \notin Range(OutputsOf(cols)) /\ n \notin DOMAIN Produced(cols)
      BY RequiredPast
    <3>3. OutputOf(cols[j]) \in Range(OutputsOf(cols))
      BY <1>3 DEF Range
    <3>4. n = cols[j].ref
      BY <1>2, <3>1, <3>2, <3>3
    <3>5. OutputOf(cols[j]) = cols[j].ref \/ cols[j].ref \in DOMAIN Produced(cols)
      BY <1>2, AliasesAre
    <3>6. QED
      BY <3>2, <3>3, <3>4, <3>5
  <2>4. QED
    BY <1>5, <1>6, <2>2, <2>3
<1>13. QED
  <2>1. /\ OutputsUpTo(p)[i].known /\ OutputsUpTo(p)[i].names = OutputsOf(cols)
        /\ OutputsUpTo(p)[i].keys = DOMAIN Produced(cols)
    BY <1>1 DEF Known
  <2> HIDE DEF outputs, riding, required, u, from, sources, cols, f
  <2>2. QED
    BY <1>5, <1>10, <1>11, <1>12, <2>1 DEF Sound, required

\* Nothing above a frame that is refused makes up for it.
LEMMA RefusalsStay ==
    ASSUME NEW p, IsPlan(p), NEW i \in 2 .. Len(p), SplitUpTo(p)[i - 1].refused
    PROVE  SplitUpTo(p)[i].refused
<1> DEFINE f == SplitUpTo(p)[i - 1]
           g == SplitUpTo(p)[i]
<1>1. \A r, on, how, required : JoinFrames(f, r, on, how, required).refused
  BY DEF JoinFrames, Frame
<1>2. \A r, required : UnionFrames(f, r, required).refused
  BY DEF UnionFrames, Frame
<1>3. \A n : FilterFrame(f, n).refused
  BY DEF FilterFrame, Frame
<1>4. \A cols, required : ProjectFrame(f, cols, required).refused
  BY DEF ProjectFrame, Frame
<1>5. p[i].op \in {"join", "union", "filter", "select"}
  BY StepAt
<1>6. CASE p[i].op = "join"
  <2>1. g = JoinFrames(f, SideFrame(p[i].side), p[i].on, p[i].how, Required(p, i))
    BY <1>6, StepAt
  <2> HIDE DEF f
  <2>2. QED
    BY <1>1, <2>1
<1>7. CASE p[i].op = "union"
  <2>1. g = UnionFrames(f, SideFrame(p[i].side), Required(p, i))
    BY <1>7, StepAt
  <2> HIDE DEF f
  <2>2. QED
    BY <1>2, <2>1
<1>8. CASE p[i].op = "filter"
  <2>1. g = FilterFrame(f, p[i].ref)
    BY <1>8, StepAt
  <2> HIDE DEF f
  <2>2. QED
    BY <1>3, <2>1
<1>9. CASE p[i].op = "select"
  <2>1. g = ProjectFrame(f, p[i].cols, Required(p, i))
    BY <1>9, StepAt
  <2> HIDE DEF f
  <2>2. QED
    BY <1>4, <2>1
<1>10. QED
  BY <1>5, <1>6, <1>7, <1>8, <1>9

\* Every frame of a plan that is not refused is sound, when its sides come back as planned.
LEMMA FramesAreSound ==
    ASSUME NEW p, IsPlan(p), AsPlanned(p), ~ReadsAlias(p)
    PROVE  \A i \in 1 .. Len(p) : ~SplitUpTo(p)[i].refused => Sound(p, i)
<1> DEFINE n == Len(p)
           T == {i \in 1 .. n : ~SplitUpTo(p)[i].refused => Sound(p, i)}
<1>1. n \in Nat \ {0}
  BY ShapesAre
<1>2. 1 \in T
  <2> DEFINE side == p[1].side
             f == SplitUpTo(p)[1]
  <2>1. 1 \in 1 .. n
    BY <1>1
  <2>2. IsSide(side) /\ side.planned = side.result.names /\ side.planned # <<>>
    BY <2>1, PlannedSide
  <2>3. f = SideFrame(side) /\ OutputsUpTo(p)[1] = OutputsOfSide(side)
    BY <1>1, SplitsAre, OutputsAre
  <2>4. /\ f.columns = side.planned /\ f.renames = side.renames /\ f.table = side.result
        /\ f.table.ok /\ Range(f.renames) \subseteq Range(f.columns)
    BY <2>2, <2>3, SideFrameIs
  <2>5. OutputsUpTo(p)[1] = Known(side.planned, DOMAIN side.renames)
    BY <2>2, <2>3 DEF OutputsOfSide
  <2>6. Required(p, 1) = {}
    <3>1. 1 = Len(p) \/ Combines(p[1 + 1])
      <4>1. Len(p) >= 2 => Combines(p[2])
        BY DEF IsPlan
      <4>2. 1 + 1 = 2
        OBVIOUS
      <4>3. QED
        BY <1>1, <4>1, <4>2
    <3>2. QED
      BY <2>1, <3>1, RequiredIs
  <2>7. QED
    BY <2>1, <2>2, <2>4, <2>5, <2>6 DEF Sound, Known
<1>3. ASSUME NEW i \in 2 .. n, i - 1 \in T PROVE i \in T
  <2>1. SUFFICES ASSUME ~SplitUpTo(p)[i].refused PROVE Sound(p, i)
    BY <1>1, <1>3
  <2>2. ~SplitUpTo(p)[i - 1].refused
    BY <2>1, RefusalsStay
  <2>3. Sound(p, i - 1)
    BY <1>3, <2>2
  <2>4. p[i].op \in {"join", "union", "filter", "select"}
    BY StepAt
  <2>5. QED
    BY <2>1, <2>3, <2>4, SoundJoin, SoundUnion, SoundFilter, SoundSelect
<1>4. \A i \in 1 .. n : i \in T
  <2> HIDE DEF T, n
  <2>1. QED
    BY <1>1, <1>2, <1>3, AlongAPlan
<1>5. QED
  BY <1>4

\* The frame in the words of a plan.
LEMMA FrameIsPlan ==
    ASSUME IInv
    PROVE  /\ IsPlan(frame) /\ Combined = {i \in 1 .. Len(frame) : Combines(frame[i])}
           /\ Combined \subseteq 2 .. Len(frame)
           /\ ReadByAlias <=> ReadsAlias(frame)
<1>1. IsPlan(frame) /\ DOMAIN frame = 1 .. Len(frame) /\ Len(frame) \in Nat
  BY ShapesAre DEF IInv
<1>2. ~Combines(frame[1])
  BY <1>1 DEF IsPlan, Combines
<1>3. ReadByAlias <=> ReadsAlias(frame)
  <2>1. ASSUME NEW c, NEW i
       PROVE  c \in Combined /\ i \in DOMAIN frame <=> c \in DOMAIN frame /\ i \in DOMAIN frame /\ Combines(frame[c])
    BY DEF Combined
  <2>2. QED
    BY <2>1 DEF ReadByAlias, ReadsAlias
<1>4. QED
  BY <1>1, <1>2, <1>3 DEF Combined

\* Over sides that come back as they were planned, nothing is sent that then fails: only two
\* types that do not go together, and a name that a side aliased away, are found out when the
\* tables are there (_check_join_keys, _join, _union, _project, against what the local
\* operators need).
THEOREM JoinsRefusedEarly == Spec => []RefusedEarly
<1>1. ASSUME IInv PROVE RefusedEarly
  <2>1. SUFFICES ASSUME outcome.kind = "failed", ~ReadByAlias,
                        ~\E s \in SidesOf(frame) : s.planned # s.result.names,
                        ~\E c \in Combined : Unlike(c)
                 PROVE  FALSE
    BY DEF RefusedEarly
  <2>2. /\ IsPlan(frame) /\ ~ReadsAlias(frame) /\ Combined \subseteq 2 .. Len(frame)
        /\ Combined = {i \in 1 .. Len(frame) : Combines(frame[i])}
    BY <1>1, <2>1, FrameIsPlan
  <2>3. Len(frame) \in Nat \ {0}
    BY <2>2, ShapesAre
  <2>4. AsPlanned(frame)
    <3>1. \A c \in 2 .. Len(frame) : Combines(frame[c]) => c \in Combined
      BY <2>2, <2>3
    <3>2. \A c \in Combined : ~UnlikeAt(frame, c)
      BY <2>1 DEF Unlike, UnlikeAt
    <3>3. QED
      BY <2>1, <3>1, <3>2 DEF AsPlanned
  <2>5. ~Split(frame).refused /\ ~Answer(frame).ok
    BY <1>1, <2>1, OutcomesAre
  <2> DEFINE n == Len(frame)
  <2>6. n \in 1 .. Len(frame) /\ Split(frame) = SplitUpTo(frame)[n] /\ Outputs(frame) = OutputsUpTo(frame)[n]
    BY <2>3, LastIs
  <2>7. Sound(frame, n)
    BY <2>2, <2>4, <2>5, <2>6, FramesAreSound
  <2>8. IsTable(SplitUpTo(frame)[n].table)
    BY <2>2, <2>6, <2>7, ShapesAre DEF WellShaped, Sound
  <2> DEFINE t == SplitUpTo(frame)[n].table
             names == OutputsUpTo(frame)[n].names
  <2>9. Answer(frame) = Picked(t, names, names)
    BY <2>6, <2>7 DEF Answer, Sound
  <2>10. IsTable(t) /\ Range(names) \subseteq Range(t.names)
    BY <2>7, <2>8 DEF Sound
  <2>11. Picked(t, names, names).ok
    <3> HIDE DEF t, names
    <3>1. QED
      BY <2>10, PickedWorks
  <2>12. QED
    BY <2>5, <2>9, <2>11
<1>2. QED
  BY <1>1, InitIInv, NextIInv, PTL DEF Spec

(***************************************************************************)
(* Only what has no meaning is refused.                                    *)
(***************************************************************************)
\* Some columns of a table, when they are there.
LEMMA OnlyIs ==
    ASSUME NEW t, NEW names, Only(t, names).ok
    PROVE  /\ t.ok /\ Range(names) \subseteq Range(t.names)
           /\ Only(t, names) = Table(names, [n \in Range(names) |-> t.types[n]],
                                     [i \in DOMAIN t.rows |-> [n \in Range(names) |-> t.rows[i][n]]])
           /\ Only(t, names).names = names /\ DOMAIN Only(t, names).types = Range(names)
<1>1. t.ok /\ Range(names) \subseteq Range(t.names)
  BY DEF Only, Fails
<1>2. Only(t, names) = Table(names, [n \in Range(names) |-> t.types[n]],
                             [i \in DOMAIN t.rows |-> [n \in Range(names) |-> t.rows[i][n]]])
  BY <1>1 DEF Only
<1>3. QED
  BY <1>1, <1>2 DEF Table

\* What a side means has the columns that were planned, or those that come.
LEMMA SideMeans ==
    ASSUME NEW side, IsSide(side), MeantSide(side).ok
    PROVE  LET r == MeantSide(side)
           IN  /\ r.names = IF side.planned = <<>> THEN side.result.names ELSE side.planned
               /\ r.names \in Seq(Range(r.names)) /\ DOMAIN r.types = Range(r.names)
<1>1. IsTable(side.result) /\ side.planned \in Seq(Range(side.planned))
  BY DEF IsSide
<1>2. CASE side.planned = <<>>
  BY <1>1, <1>2, TableIs DEF MeantSide
<1>3. CASE side.planned # <<>>
  <2>1. MeantSide(side) = Only(side.result, side.planned)
    BY <1>3 DEF MeantSide
  <2> DEFINE t == side.result
             names == side.planned
  <2>2. Only(t, names).ok
    BY <2>1
  <2>3. Only(t, names).names = names /\ DOMAIN Only(t, names).types = Range(names)
    <3> HIDE DEF t, names
    <3>1. QED
      BY <2>2, OnlyIs
  <2>4. QED
    BY <1>1, <1>3, <2>1, <2>3
<1>4. QED
  BY <1>2, <1>3

Source(cols, n) == cols[CHOOSE j \in DOMAIN cols : OutputOf(cols[j]) = n].ref
Anew(cols, f) == Over([n \in Range(OutputsOf(cols)) |-> f[Source(cols, n)]], f)

\* What a select() means, when it means something.
LEMMA MeantSelectIs ==
    ASSUME NEW t, NEW cols, DOMAIN cols = 1 .. Len(cols), MeantSelect(t, cols).ok
    PROVE  /\ t.ok /\ {cols[j].ref : j \in 1 .. Len(cols)} \subseteq DOMAIN t.types
           /\ MeantSelect(t, cols) =
                 Table(OutputsOf(cols), Anew(cols, t.types), [i \in DOMAIN t.rows |-> Anew(cols, t.rows[i])])
<1>1. t.ok /\ {cols[j].ref : j \in DOMAIN cols} \subseteq DOMAIN t.types
  BY DEF MeantSelect, Fails
<1>2. MeantSelect(t, cols) =
         Table(OutputsOf(cols), Anew(cols, t.types), [i \in DOMAIN t.rows |-> Anew(cols, t.rows[i])])
  BY <1>1 DEF MeantSelect, Anew, Source
<1>3. QED
  BY <1>1, <1>2

\* A union means something of two sides of the same columns.
LEMMA MeantUnionIs ==
    ASSUME NEW l, NEW r, MeantUnion(l, r).ok
    PROVE  /\ l.ok /\ r.ok /\ l.names = r.names
           /\ \A n \in Range(l.names) : Widest(l.types[n], r.types[n]) # NoType
           /\ MeantUnion(l, r) =
                 Table(l.names, MeantTypes(l, r, Range(l.names)), Stacked(l.rows, r.rows))
BY DEF MeantUnion, Fails

\* A filter means something over a column that can still be tested.
LEMMA MeantFilterIs ==
    ASSUME NEW t, NEW n, MeantFilter(t, n).ok
    PROVE  t.ok /\ n \in DOMAIN t.types /\ MeantFilter(t, n) = Table(t.names, t.types, Passing(t.rows, n))
BY DEF MeantFilter, Fails

\* A join means something when its sides can be joined.
LEMMA MeantJoinWas ==
    ASSUME NEW l, NEW r, NEW on, NEW how, MeantJoin(l, r, on, how).ok
    PROVE  Joinable(l, r, on)
BY DEF MeantJoin, Fails

\* A join means something of sides that can be joined.
LEMMA MeantJoinAt ==
    ASSUME NEW p, IsPlan(p), NEW i \in 2 .. Len(p), p[i].op = "join", MeaningUpTo(p)[i].ok
    PROVE  LET m == MeaningUpTo(p)[i - 1]
               u == MeaningUpTo(p)[i]
               l == Only(m, m.names)
               r == MeantSide(p[i].side)
               on == p[i].on
           IN  /\ m.ok /\ l.ok /\ r.ok /\ Joinable(l, r, on)
               /\ l.names = m.names /\ DOMAIN l.types = Range(m.names)
               /\ u.names = JoinColumns(on, m.names, r.names) /\ u.types = MeantTypes(l, r, Range(on))
               /\ u.rows = AllCells(l, r, MeantPlaces(l, r, on, p[i].how), u.names)
<1> DEFINE m == MeaningUpTo(p)[i - 1]
           names == m.names
           u == MeaningUpTo(p)[i]
           l == Only(m, names)
           r == MeantSide(p[i].side)
           on == p[i].on
           how == p[i].how
<1>1. u = MeantJoin(l, r, on, how)
  BY StepAt
<1>2. /\ Joinable(l, r, on)
      /\ u = Table(JoinColumns(on, l.names, r.names), MeantTypes(l, r, Range(on)),
                   AllCells(l, r, MeantPlaces(l, r, on, how), JoinColumns(on, l.names, r.names)))
  <2> HIDE DEF l, r, on, how
  <2>1. Joinable(l, r, on)
    BY <1>1, MeantJoinWas
  <2>2. QED
    BY <1>1, <2>1, MeantJoinIs
<1>3. l.ok /\ r.ok
  BY <1>2 DEF Joinable
<1>4. m.ok /\ l.names = names /\ DOMAIN l.types = Range(names)
  <2> HIDE DEF m, names
  <2>1. QED
    BY <1>3, OnlyIs
<1>5. /\ u.names = JoinColumns(on, names, r.names) /\ u.types = MeantTypes(l, r, Range(on))
      /\ u.rows = AllCells(l, r, MeantPlaces(l, r, on, how), u.names)
  <2> HIDE DEF l, r, on, how, names
  <2>1. QED
    BY <1>2, <1>4 DEF Table
<1>6. QED
  BY <1>2, <1>3, <1>4, <1>5

\* A union means something of sides of the same columns.
LEMMA MeantUnionAt ==
    ASSUME NEW p, IsPlan(p), NEW i \in 2 .. Len(p), p[i].op = "union", MeaningUpTo(p)[i].ok
    PROVE  LET m == MeaningUpTo(p)[i - 1]
               u == MeaningUpTo(p)[i]
               l == Only(m, m.names)
               r == MeantSide(p[i].side)
           IN  /\ m.ok /\ l.ok /\ r.ok
               /\ l.names = m.names /\ DOMAIN l.types = Range(m.names) /\ r.names = m.names
               /\ u.names = m.names /\ u.types = MeantTypes(l, r, Range(m.names))
               /\ u.rows = Stacked(l.rows, r.rows)
<1> DEFINE m == MeaningUpTo(p)[i - 1]
           names == m.names
           u == MeaningUpTo(p)[i]
           l == Only(m, names)
           r == MeantSide(p[i].side)
<1>1. u = MeantUnion(l, r)
  BY StepAt
<1>2. /\ l.ok /\ r.ok /\ l.names = r.names
      /\ u = Table(l.names, MeantTypes(l, r, Range(l.names)), Stacked(l.rows, r.rows))
  <2> HIDE DEF l, r
  <2>1. QED
    BY <1>1, MeantUnionIs
<1>3. m.ok /\ l.names = names /\ DOMAIN l.types = Range(names)
  <2> HIDE DEF m, names
  <2>1. QED
    BY ZenonT(60), <1>2, OnlyIs
<1>4. /\ u.names = names /\ u.types = MeantTypes(l, r, Range(names)) /\ u.rows = Stacked(l.rows, r.rows)
  <2> HIDE DEF l, r, names
  <2>1. QED
    BY <1>2, <1>3 DEF Table
<1>5. QED
  BY <1>2, <1>3, <1>4

\* A filter keeps what has no other meaning above it.
LEMMA MeantFilterAt ==
    ASSUME NEW p, IsPlan(p), NEW i \in 2 .. Len(p), p[i].op = "filter", MeaningUpTo(p)[i].ok
    PROVE  LET m == MeaningUpTo(p)[i - 1]
               u == MeaningUpTo(p)[i]
           IN  /\ m.ok /\ p[i].ref \in DOMAIN m.types /\ Reads(p[i]) = {p[i].ref}
               /\ u.names = m.names /\ u.types = m.types /\ u.rows = Passing(m.rows, p[i].ref)
<1> DEFINE m == MeaningUpTo(p)[i - 1]
           u == MeaningUpTo(p)[i]
           n == p[i].ref
<1>1. u = MeantFilter(m, n) /\ Reads(p[i]) = {n}
  BY StepAt
<1>2. m.ok /\ n \in DOMAIN m.types /\ u = Table(m.names, m.types, Passing(m.rows, n))
  <2> HIDE DEF m, n
  <2>1. QED
    BY <1>1, MeantFilterIs
<1>3. QED
  BY <1>1, <1>2 DEF Table

\* A select() makes its outputs of what is below it, which stays.
LEMMA MeantSelectAt ==
    ASSUME NEW p, IsPlan(p), NEW i \in 2 .. Len(p), p[i].op = "select", MeaningUpTo(p)[i].ok
    PROVE  LET m == MeaningUpTo(p)[i - 1]
               u == MeaningUpTo(p)[i]
               cols == p[i].cols
           IN  /\ m.ok /\ Reads(p[i]) \subseteq DOMAIN m.types
               /\ Reads(p[i]) = {cols[j].ref : j \in 1 .. Len(cols)} /\ IsSelection(cols)
               /\ u.names = OutputsOf(cols) /\ u.types = Anew(cols, m.types)
               /\ u.rows = [k \in DOMAIN m.rows |-> Anew(cols, m.rows[k])]
<1> DEFINE m == MeaningUpTo(p)[i - 1]
           u == MeaningUpTo(p)[i]
           cols == p[i].cols
<1>1. u = MeantSelect(m, cols) /\ IsSelection(cols)
  BY StepAt
<1>2. DOMAIN cols = 1 .. Len(cols)
  BY <1>1, SelectionIs
<1>3. Reads(p[i]) = {cols[j].ref : j \in 1 .. Len(cols)}
  BY <1>2 DEF Reads, Combines
<1>4. /\ m.ok /\ {cols[j].ref : j \in 1 .. Len(cols)} \subseteq DOMAIN m.types
      /\ u = Table(OutputsOf(cols), Anew(cols, m.types), [k \in DOMAIN m.rows |-> Anew(cols, m.rows[k])])
  <2> HIDE DEF m, cols
  <2>1. QED
    BY <1>1, <1>2, MeantSelectIs
<1>5. QED
  BY <1>1, <1>3, <1>4 DEF Table

\* What is below something that means something does.
LEMMA MeantBelow ==
    ASSUME NEW p, IsPlan(p), NEW i \in 2 .. Len(p), MeaningUpTo(p)[i].ok
    PROVE  MeaningUpTo(p)[i - 1].ok
<1>1. p[i].op \in {"join", "union", "filter", "select"}
  BY StepAt
<1>2. QED
  BY <1>1, MeantJoinAt, MeantUnionAt, MeantFilterAt, MeantSelectAt

\* What a plan means has columns, all of which can be tested, and has no more than those
\* until a select() is made of it.
LEMMA MeantColumns ==
    ASSUME NEW p, IsPlan(p), NEW i \in 1 .. Len(p), MeaningUpTo(p)[i].ok
    PROVE  LET m == MeaningUpTo(p)[i]
           IN  /\ m.names \in Seq(Range(m.names)) /\ Range(m.names) \subseteq DOMAIN m.types
               /\ i = 1 \/ Combines(p[i]) => DOMAIN m.types = Range(m.names)
<1> DEFINE n == Len(p)
           Good(k) == LET m == MeaningUpTo(p)[k]
                      IN  m.ok => /\ m.names \in Seq(Range(m.names)) /\ Range(m.names) \subseteq DOMAIN m.types
                                  /\ k = 1 \/ Combines(p[k]) => DOMAIN m.types = Range(m.names)
           T == {k \in 1 .. n : Good(k)}
<1>1. n \in Nat \ {0}
  BY ShapesAre
<1>2. 1 \in T
  <2>1. MeaningUpTo(p)[1] = MeantSide(p[1].side) /\ IsSide(p[1].side)
    BY <1>1, MeaningsAre DEF IsPlan
  <2>2. QED
    BY <1>1, <2>1, SideMeans
<1>3. ASSUME NEW k \in 2 .. n, k - 1 \in T PROVE k \in T
  <2> DEFINE m == MeaningUpTo(p)[k - 1]
             u == MeaningUpTo(p)[k]
             l == Only(m, m.names)
             r == MeantSide(p[k].side)
             on == p[k].on
             cols == p[k].cols
  <2>1. SUFFICES ASSUME u.ok PROVE Good(k)
    BY <1>1, <1>3
  <2>2. m.ok
    BY <2>1, MeantBelow
  <2>3. m.names \in Seq(Range(m.names)) /\ Range(m.names) \subseteq DOMAIN m.types
    BY <1>3, <2>2
  <2>4. k # 1 /\ p[k].op \in {"join", "union", "filter", "select"}
        /\ (Combines(p[k]) <=> p[k].op \in {"join", "union"})
    BY <1>1, StepAt
  <2>6. CASE p[k].op = "join"
    <3>1. /\ Joinable(l, r, on) /\ r.ok /\ l.names = m.names /\ DOMAIN l.types = Range(m.names)
          /\ u.names = JoinColumns(on, m.names, r.names) /\ u.types = MeantTypes(l, r, Range(on))
      BY <2>1, <2>6, MeantJoinAt
    <3>2. IsSide(p[k].side) /\ on \in Seq(Range(on))
      BY <2>6, StepAt
    <3>3. r.names \in Seq(Range(r.names)) /\ DOMAIN r.types = Range(r.names)
      BY <3>1, <3>2, SideMeans
    <3>4. l.names \in Seq(Range(l.names)) /\ DOMAIN l.types = Range(l.names)
      BY <2>3, <3>1
    <3>5. Range(on) \subseteq Range(l.names)
      BY <3>1 DEF Joinable
    <3>6. /\ u.names = JoinColumns(on, l.names, r.names)
          /\ DOMAIN u.types = DOMAIN l.types \cup DOMAIN r.types
      BY <3>1 DEF MeantTypes
    <3> HIDE DEF l, r, on, u
    <3>7. u.names \in Seq(Range(u.names)) /\ Range(u.names) = Range(l.names) \cup Range(r.names)
      BY <3>2, <3>3, <3>4, <3>5, <3>6, JoinColumnsAre
    <3>8. QED
      BY <3>3, <3>4, <3>6, <3>7 DEF u
  <2>7. CASE p[k].op = "union"
    <3>1. /\ r.ok /\ DOMAIN l.types = Range(m.names) /\ r.names = m.names
          /\ u.names = m.names /\ u.types = MeantTypes(l, r, Range(m.names))
      BY <2>1, <2>7, MeantUnionAt
    <3>2. IsSide(p[k].side)
      BY <2>7, StepAt
    <3>3. DOMAIN r.types = Range(r.names)
      BY <3>1, <3>2, SideMeans
    <3>4. DOMAIN u.types = DOMAIN l.types \cup DOMAIN r.types
      BY <3>1 DEF MeantTypes
    <3> HIDE DEF l, r
    <3>5. QED
      BY <2>3, <3>1, <3>3, <3>4
  <2>8. CASE p[k].op = "filter"
    <3>1. u.names = m.names /\ u.types = m.types
      BY <2>1, <2>8, MeantFilterAt
    <3>2. QED
      BY <2>3, <2>4, <2>8, <3>1
  <2>9. CASE p[k].op = "select"
    <3>1. u.names = OutputsOf(cols) /\ u.types = Anew(cols, m.types) /\ IsSelection(cols)
      BY <2>1, <2>9, MeantSelectAt
    <3>3. OutputsOf(cols) \in Seq(Range(OutputsOf(cols)))
      BY <3>1, SelectionIs
    <3>4. Range(OutputsOf(cols)) \subseteq DOMAIN Anew(cols, m.types)
      BY DEF Anew, Over
    <3>5. QED
      BY <2>4, <2>9, <3>1, <3>3, <3>4
  <2>10. QED
    BY <2>4, <2>6, <2>7, <2>8, <2>9
<1>4. \A k \in 1 .. n : k \in T
  <2> HIDE DEF T, n
  <2>1. QED
    BY <1>1, <1>2, <1>3, AlongAPlan
<1>5. QED
  BY <1>4

\* Every step of what means something means something.
LEMMA AllMeant ==
    ASSUME NEW p, IsPlan(p), Meaning(p).ok
    PROVE  \A i \in 1 .. Len(p) : MeaningUpTo(p)[i].ok
<1> DEFINE n == Len(p)
           T == {k \in 1 .. n : MeaningUpTo(p)[n + 1 - k].ok}
<1>1. n \in Nat \ {0}
  BY ShapesAre
<1>2. 1 \in T
  <2>1. n + 1 - 1 = n /\ 1 \in 1 .. n
    BY <1>1
  <2>2. QED
    BY <2>1, LastIs
<1>3. ASSUME NEW k \in 2 .. n, k - 1 \in T PROVE k \in T
  <2> DEFINE i == n + 1 - (k - 1)
  <2>1. i \in 2 .. n /\ i - 1 = n + 1 - k /\ k \in 1 .. n
    BY <1>1
  <2>2. MeaningUpTo(p)[i].ok
    BY <1>3
  <2>3. MeaningUpTo(p)[i - 1].ok
    <3> HIDE DEF i
    <3>1. QED
      BY <2>1, <2>2, MeantBelow
  <2>4. QED
    BY <2>1, <2>3
<1>4. \A k \in 1 .. n : k \in T
  <2> HIDE DEF T, n
  <2>1. QED
    BY <1>1, <1>2, <1>3, AlongAPlan
<1>5. ASSUME NEW i \in 1 .. Len(p) PROVE MeaningUpTo(p)[i].ok
  <2>1. n + 1 - i \in 1 .. n /\ n + 1 - (n + 1 - i) = i
    BY <1>1
  <2>2. QED
    BY <1>4, <2>1
<1>6. QED
  BY <1>5

\* What is required of a step of what means something is there to be read.
LEMMA RequiredIsMeant ==
    ASSUME NEW p, IsPlan(p), Meaning(p).ok
    PROVE  \A i \in 1 .. Len(p) : Required(p, i) \subseteq DOMAIN MeaningUpTo(p)[i].types
<1> DEFINE n == Len(p)
           M == MeaningUpTo(p)
           T == {k \in 1 .. n : Required(p, n + 1 - k) \subseteq DOMAIN M[n + 1 - k].types}
<1>1. n \in Nat \ {0}
  BY ShapesAre
<1>2. 1 \in T
  <2>1. n + 1 - 1 = n /\ 1 \in 1 .. n /\ n \in 1 .. n
    BY <1>1
  <2>2. Required(p, n) = {}
    BY <2>1, RequiredIs
  <2>3. QED
    BY <2>1, <2>2
<1>3. ASSUME NEW k \in 2 .. n, k - 1 \in T PROVE k \in T
  <2> DEFINE i == n + 1 - (k - 1)
  <2>1. i \in 2 .. n /\ i - 1 = n + 1 - k /\ k \in 1 .. n /\ i - 1 \in 1 .. n /\ i - 1 < n /\ (i - 1) + 1 = i
    BY <1>1
  <2>2. Required(p, i) \subseteq DOMAIN M[i].types
    BY <1>3
  <2> HIDE DEF i
  <2>3. M[i].ok
    BY <1>1, <2>1, AllMeant
  <2>4. p[i].op \in {"join", "union", "filter", "select"} /\ (Combines(p[i]) <=> p[i].op \in {"join", "union"})
    BY <2>1, StepAt
  <2>5. Asks(p, i) \subseteq Reads(p[i])
    BY DEF Asks
  <2>6. CASE Combines(p[i])
    <3>1. Required(p, i - 1) = {}
      BY <2>1, <2>6, RequiredIs
    <3>2. QED
      BY <2>1, <3>1
  <2>7. CASE p[i].op = "filter"
    <3>1. Required(p, i - 1) = Asks(p, i) \cup Required(p, i)
      BY <2>1, <2>4, <2>7, RequiredIs
    <3>2. /\ M[i].types = M[i - 1].types /\ p[i].ref \in DOMAIN M[i - 1].types
          /\ Reads(p[i]) = {p[i].ref}
      BY <2>1, <2>3, <2>7, MeantFilterAt
    <3>3. QED
      BY <2>1, <2>2, <2>5, <3>1, <3>2
  <2>8. CASE p[i].op = "select"
    <3> DEFINE cols == p[i].cols
               m == M[i - 1]
    <3>1. Required(p, i - 1) = Asks(p, i) \cup Required(p, i)
      BY <2>1, <2>4, <2>8, RequiredIs
    <3>2. M[i].types = Anew(cols, m.types) /\ Reads(p[i]) \subseteq DOMAIN m.types
      BY <2>1, <2>3, <2>8, MeantSelectAt
    <3>4. DOMAIN Anew(cols, m.types) = Range(OutputsOf(cols)) \cup DOMAIN m.types
      BY DEF Anew, Over
    <3>5. Required(p, i) \cap Range(OutputsOf(cols)) = {}
      BY <2>1, <2>8, RequiredPast
    <3>6. QED
      BY <2>1, <2>2, <2>5, <3>1, <3>2, <3>4, <3>5
  <2>9. QED
    BY <2>4, <2>6, <2>7, <2>8
<1>4. \A k \in 1 .. n : k \in T
  <2> HIDE DEF T, n
  <2>1. QED
    BY <1>1, <1>2, <1>3, AlongAPlan
<1>5. ASSUME NEW i \in 1 .. Len(p) PROVE Required(p, i) \subseteq DOMAIN MeaningUpTo(p)[i].types
  <2>1. n + 1 - i \in 1 .. n /\ n + 1 - (n + 1 - i) = i
    BY <1>1
  <2>2. QED
    BY <1>4, <2>1
<1>6. QED
  BY <1>5

\* What a plan is known to produce is what it means.
LEMMA KnownNames ==
    ASSUME NEW p, IsPlan(p), NEW i \in 1 .. Len(p), MeaningUpTo(p)[i].ok, OutputsUpTo(p)[i].known
    PROVE  OutputsUpTo(p)[i].names = MeaningUpTo(p)[i].names
<1> DEFINE n == Len(p)
           Good(k) == MeaningUpTo(p)[k].ok /\ OutputsUpTo(p)[k].known
                         => OutputsUpTo(p)[k].names = MeaningUpTo(p)[k].names
           T == {k \in 1 .. n : Good(k)}
<1>1. n \in Nat \ {0}
  BY ShapesAre
<1>2. 1 \in T
  <2> DEFINE side == p[1].side
  <2>1. /\ MeaningUpTo(p)[1] = MeantSide(side) /\ OutputsUpTo(p)[1] = OutputsOfSide(side) /\ IsSide(side)
    BY <1>1, MeaningsAre, OutputsAre DEF IsPlan
  <2>2. SUFFICES ASSUME MeantSide(side).ok, OutputsOfSide(side).known
                 PROVE  OutputsOfSide(side).names = MeantSide(side).names
    BY <1>1, <2>1
  <2>3. side.planned # <<>> /\ OutputsOfSide(side).names = side.planned
    BY <2>2 DEF OutputsOfSide, Known, Unknown
  <2>4. QED
    BY <2>1, <2>2, <2>3, SideMeans
<1>3. ASSUME NEW k \in 2 .. n, k - 1 \in T PROVE k \in T
  <2> DEFINE m == MeaningUpTo(p)[k - 1]
             u == MeaningUpTo(p)[k]
             o == OutputsUpTo(p)[k - 1]
             l == Only(m, m.names)
             r == MeantSide(p[k].side)
             on == p[k].on
  <2>1. SUFFICES ASSUME u.ok, OutputsUpTo(p)[k].known PROVE OutputsUpTo(p)[k].names = u.names
    BY <1>1, <1>3
  <2>2. m.ok /\ p[k].op \in {"join", "union", "filter", "select"}
    BY <2>1, MeantBelow, StepAt
  <2>3. o.known => o.names = m.names
    BY <1>3, <2>2
  <2>5. CASE p[k].op = "join"
    <3>1. r.ok /\ u.names = JoinColumns(on, m.names, r.names)
      BY <2>1, <2>5, MeantJoinAt
    <3>2. OutputsUpTo(p)[k] = IF o.known /\ p[k].side.planned # <<>>
                              THEN Known(JoinColumns(on, o.names, p[k].side.planned), {}) ELSE Unknown
      BY <2>5, StepAt
    <3>3. /\ o.known /\ p[k].side.planned # <<>>
          /\ OutputsUpTo(p)[k].names = JoinColumns(on, o.names, p[k].side.planned)
      BY <2>1, <3>2 DEF Known, Unknown
    <3>4. IsSide(p[k].side)
      BY <2>5, StepAt
    <3>5. r.names = p[k].side.planned
      BY <3>1, <3>3, <3>4, SideMeans
    <3>6. QED
      BY <2>3, <3>1, <3>3, <3>5
  <2>6. CASE p[k].op = "union"
    <3>1. u.names = m.names
      BY <2>1, <2>6, MeantUnionAt
    <3>2. OutputsUpTo(p)[k] = o
      BY <2>6, StepAt
    <3>3. QED
      BY <2>1, <2>3, <3>1, <3>2
  <2>7. CASE p[k].op = "filter"
    <3>1. u.names = m.names
      BY <2>1, <2>7, MeantFilterAt
    <3>2. OutputsUpTo(p)[k] = o
      BY <2>7, StepAt
    <3>3. QED
      BY <2>1, <2>3, <3>1, <3>2
  <2>8. CASE p[k].op = "select"
    <3>1. u.names = OutputsOf(p[k].cols)
      BY <2>1, <2>8, MeantSelectAt
    <3>2. OutputsUpTo(p)[k] = Known(OutputsOf(p[k].cols), DOMAIN Produced(p[k].cols))
      BY <2>8, StepAt
    <3>3. QED
      BY <3>1, <3>2 DEF Known
  <2>9. QED
    BY <2>2, <2>5, <2>6, <2>7, <2>8
<1>4. \A k \in 1 .. n : k \in T
  <2> HIDE DEF T, n
  <2>1. QED
    BY SMTT(60), <1>1, <1>2, <1>3, AlongAPlan
<1>5. QED
  BY <1>4

StraysIn(p) ==
    \E c, i \in DOMAIN p :
        Combines(p[c]) /\ i < c /\ p[i].op = "select" /\ Required(p, i) # {}

\* When nothing strays, the columns below a combination are those that are known, if any are.
LEMMA KnownColumns ==
    ASSUME NEW p, IsPlan(p), ~StraysIn(p), NEW c \in 1 .. Len(p), Combines(p[c]),
           NEW i \in 1 .. c - 1, OutputsUpTo(p)[i].known
    PROVE  SplitUpTo(p)[i].columns = OutputsUpTo(p)[i].names
<1> DEFINE n == c - 1
           F == SplitUpTo(p)
           O == OutputsUpTo(p)
           Good(k) == O[k].known => F[k].columns = O[k].names
           T == {k \in 1 .. n : Good(k)}
<1>1. n \in Nat /\ n >= 1 /\ Len(p) \in Nat \ {0} /\ n < Len(p) /\ c \in 1 .. Len(p) /\ DOMAIN p = 1 .. Len(p)
  BY ShapesAre
<1>2. 1 \in T
  <2> DEFINE side == p[1].side
  <2>1. F[1] = SideFrame(side) /\ O[1] = OutputsOfSide(side)
    BY <1>1, SplitsAre, OutputsAre
  <2>2. F[1].columns = side.planned
    BY <2>1 DEF SideFrame, Frame
  <2>3. O[1].known => O[1].names = side.planned
    BY <2>1 DEF OutputsOfSide, Known, Unknown
  <2>4. QED
    BY <1>1, <2>2, <2>3
<1>3. ASSUME NEW k \in 2 .. n, k - 1 \in T PROVE k \in T
  <2>1. k \in 2 .. Len(p) /\ k \in 1 .. n /\ k \in DOMAIN p /\ k < c
    BY <1>1
  <2> DEFINE f == F[k - 1]
             o == O[k - 1]
             on == p[k].on
             side == p[k].side
  <2>2. SUFFICES ASSUME O[k].known PROVE F[k].columns = O[k].names
    BY <2>1
  <2>3. o.known => f.columns = o.names
    BY <1>3
  <2>4. p[k].op \in {"join", "union", "filter", "select"}
    BY <2>1, StepAt
  <2>5. CASE p[k].op = "join"
    <3>1. F[k] = JoinFrames(f, SideFrame(side), on, p[k].how, Required(p, k))
      BY <2>1, <2>5, StepAt
    <3>2. F[k].columns = JoinColumns(on, f.columns, side.planned)
      BY <3>1 DEF JoinFrames, SideFrame, Frame
    <3>3. O[k] = IF o.known /\ side.planned # <<>>
                 THEN Known(JoinColumns(on, o.names, side.planned), {}) ELSE Unknown
      BY <2>1, <2>5, StepAt
    <3>4. o.known /\ O[k].names = JoinColumns(on, o.names, side.planned)
      BY <2>2, <3>3 DEF Known, Unknown
    <3>5. QED
      BY <2>3, <3>2, <3>4
  <2>6. CASE p[k].op = "union"
    <3>1. F[k] = UnionFrames(f, SideFrame(side), Required(p, k)) /\ O[k] = o
      BY <2>1, <2>6, StepAt
    <3>2. F[k].columns = f.columns
      BY <3>1 DEF UnionFrames, Frame
    <3>3. QED
      BY <2>2, <2>3, <3>1, <3>2
  <2>7. CASE p[k].op = "filter"
    <3>1. F[k] = FilterFrame(f, p[k].ref) /\ O[k] = o
      BY <2>1, <2>7, StepAt
    <3>2. F[k].columns = f.columns
      BY <3>1 DEF FilterFrame, Frame
    <3>3. QED
      BY <2>2, <2>3, <3>1, <3>2
  <2>8. CASE p[k].op = "select"
    <3> DEFINE cols == p[k].cols
               required == Required(p, k)
               riding == Riding(f, cols, required)
    <3>1. required = {}
      BY <1>1, <2>1, <2>8 DEF StraysIn
    <3>2. F[k] = ProjectFrame(f, cols, required)
      BY <2>1, <2>8, StepAt
    <3>3. O[k] = Known(OutputsOf(cols), DOMAIN Produced(cols)) /\ IsSelection(cols)
      BY <2>1, <2>8, StepAt
    <3>4. f.columns \in Seq(Range(f.columns))
      <4>1. k - 1 \in 1 .. Len(p)
        BY <1>1
      <4>2. QED
        BY <4>1, ShapesAre DEF WellShaped
    <3>5. F[k].columns = OutputsOf(cols) \o riding
      <4> HIDE DEF f, cols, required, F
      <4>1. QED
        BY <3>2, <3>3, <3>4, ProjectIs
    <3>6. riding \in Seq(Range(riding)) /\ Range(riding) = {}
      <4> HIDE DEF f, cols, required
      <4>1. QED
        BY <3>1, <3>4, CarriedAre DEF Riding
    <3>7. riding = <<>>
      <4> HIDE DEF riding
      <4>1. QED
        BY <3>6, MembersAre
    <3>8. OutputsOf(cols) \in Seq(Range(OutputsOf(cols)))
      BY <3>3, SelectionIs
    <3>9. OutputsOf(cols) \o riding = OutputsOf(cols)
      <4> DEFINE names == OutputsOf(cols)
      <4> HIDE DEF names
      <4>1. names \in Seq(Range(names)) => names \o <<>> = names
        OBVIOUS
      <4>2. QED
        BY <3>7, <3>8, <4>1 DEF names
    <3>10. QED
      BY <3>3, <3>5, <3>9 DEF Known
  <2>9. QED
    BY <2>4, <2>5, <2>6, <2>7, <2>8
<1>4. \A k \in 1 .. n : k \in T
  <2> HIDE DEF T, n
  <2>1. QED
    BY <1>1, <1>2, <1>3, AlongAPlan
<1>5. QED
  BY <1>4

GuessesIn(p) ==
    \E c \in 2 .. Len(p) :
        Combines(p[c]) /\ ~OutputsUpTo(p)[c - 1].known /\ SplitUpTo(p)[c - 1].columns # <<>>

\* What is planned for the left side of a combination, if anything is, is what it means.
LEMMA BelowCombination ==
    ASSUME NEW p, IsPlan(p), ~StraysIn(p), ~GuessesIn(p), NEW i \in 2 .. Len(p), Combines(p[i]),
           MeaningUpTo(p)[i - 1].ok, SplitUpTo(p)[i - 1].columns # <<>>
    PROVE  /\ SplitUpTo(p)[i - 1].columns = MeaningUpTo(p)[i - 1].names
           /\ OutputsUpTo(p)[i - 1].known
<1>1. i \in 1 .. Len(p) /\ i - 1 \in 1 .. Len(p) /\ i - 1 \in 1 .. i - 1
  BY StepAt
<1>2. OutputsUpTo(p)[i - 1].known
  BY DEF GuessesIn
<1>3. SplitUpTo(p)[i - 1].columns = OutputsUpTo(p)[i - 1].names
  BY <1>1, <1>2, KnownColumns
<1>4. OutputsUpTo(p)[i - 1].names = MeaningUpTo(p)[i - 1].names
  BY <1>1, <1>2, KnownNames
<1>5. QED
  BY <1>2, <1>3, <1>4

\* A join that means something is not refused.
LEMMA JoinAllowed ==
    ASSUME NEW p, IsPlan(p), Meaning(p).ok, ~StraysIn(p), ~GuessesIn(p), NEW i \in 2 .. Len(p),
           p[i].op = "join", ~SplitUpTo(p)[i - 1].refused
    PROVE  ~SplitUpTo(p)[i].refused
<1> DEFINE f == SplitUpTo(p)[i - 1]
           m == MeaningUpTo(p)[i - 1]
           u == MeaningUpTo(p)[i]
           on == p[i].on
           side == p[i].side
           l == Only(m, m.names)
           r == MeantSide(side)
           columns == JoinColumns(on, f.columns, side.planned)
<1>1. i \in 1 .. Len(p) /\ i - 1 \in 1 .. Len(p) /\ Combines(p[i]) /\ IsSide(side)
      /\ SplitUpTo(p)[i] = JoinFrames(f, SideFrame(side), on, p[i].how, Required(p, i))
      /\ on \in Seq(Range(on))
  BY StepAt
<1>2. m.ok /\ u.ok
  BY <1>1, AllMeant
<1>3. /\ r.ok /\ Joinable(l, r, on) /\ l.names = m.names
      /\ u.names = JoinColumns(on, m.names, r.names)
  BY <1>2, MeantJoinAt
<1>4. /\ IsInjective(on) /\ Range(on) \subseteq Range(m.names) /\ Range(on) \subseteq Range(r.names)
      /\ Range(m.names) \cap Range(r.names) \subseteq Range(on)
  BY <1>3 DEF Joinable
<1>5. f.columns # <<>> => f.columns = m.names
  BY <1>1, <1>2, BelowCombination
<1>6. side.planned # <<>> => side.planned = r.names
  BY <1>1, <1>3, SideMeans
<1>7. Range(<<>>) = {}
  BY DEF Range
<1>8. Required(p, i) \subseteq Range(u.names)
  <2>1. Required(p, i) \subseteq DOMAIN u.types
    BY <1>1, RequiredIsMeant
  <2>2. DOMAIN u.types = Range(u.names)
    BY <1>1, <1>2, MeantColumns
  <2>3. QED
    BY <2>1, <2>2
<1>9. ~KeysMissing(on, f, SideFrame(side))
  BY <1>4, <1>5, <1>6 DEF KeysMissing, SideFrame, Frame
<1>10. Overlap(on, f.columns, side.planned) = {}
  BY <1>4, <1>5, <1>6, <1>7 DEF Overlap
<1>11. ~Missing(f, SideFrame(side), columns, Required(p, i))
  BY <1>3, <1>5, <1>6, <1>8 DEF Missing, SideFrame, Frame
<1>12. SideFrame(side).columns = side.planned
  BY DEF SideFrame, Frame
<1> HIDE DEF f, on, side, m, u, l, r
<1>13. JoinFrames(f, SideFrame(side), on, p[i].how, Required(p, i)).refused <=>
          \/ f.refused \/ ~IsInjective(on) \/ KeysMissing(on, f, SideFrame(side))
          \/ Overlap(on, f.columns, side.planned) # {}
          \/ Missing(f, SideFrame(side), columns, Required(p, i))
  BY <1>12 DEF JoinFrames, Frame
<1>14. ~f.refused
  BY DEF f
<1>15. QED
  BY <1>1, <1>4, <1>9, <1>10, <1>11, <1>13, <1>14

\* A union that means something is not refused.
LEMMA UnionAllowed ==
    ASSUME NEW p, IsPlan(p), Meaning(p).ok, ~StraysIn(p), ~GuessesIn(p), NEW i \in 2 .. Len(p),
           p[i].op = "union", ~SplitUpTo(p)[i - 1].refused
    PROVE  ~SplitUpTo(p)[i].refused
<1> DEFINE f == SplitUpTo(p)[i - 1]
           m == MeaningUpTo(p)[i - 1]
           u == MeaningUpTo(p)[i]
           side == p[i].side
           r == MeantSide(side)
<1>1. i \in 1 .. Len(p) /\ i - 1 \in 1 .. Len(p) /\ Combines(p[i]) /\ IsSide(side)
      /\ SplitUpTo(p)[i] = UnionFrames(f, SideFrame(side), Required(p, i))
  BY StepAt
<1>2. m.ok /\ u.ok
  BY <1>1, AllMeant
<1>3. r.ok /\ r.names = m.names /\ u.names = m.names
  BY <1>2, MeantUnionAt
<1>4. f.columns # <<>> => f.columns = m.names
  BY <1>1, <1>2, BelowCombination
<1>5. side.planned # <<>> => side.planned = r.names
  BY <1>1, <1>3, SideMeans
<1>6. Required(p, i) \subseteq Range(u.names)
  <2>1. Required(p, i) \subseteq DOMAIN u.types
    BY <1>1, RequiredIsMeant
  <2>2. DOMAIN u.types = Range(u.names)
    BY <1>1, <1>2, MeantColumns
  <2>3. QED
    BY <2>1, <2>2
<1>7. SideFrame(side).columns = side.planned
  BY DEF SideFrame, Frame
<1>8. ~f.refused
  OBVIOUS
<1> HIDE DEF f, side, m, u, r
<1>9. UnionFrames(f, SideFrame(side), Required(p, i)).refused <=>
         \/ f.refused
         \/ f.columns # <<>> /\ side.planned # <<>> /\ f.columns # side.planned
         \/ f.columns # <<>> /\ side.planned # <<>> /\ ~(Required(p, i) \subseteq Range(f.columns))
  BY <1>7 DEF UnionFrames, Missing, Frame
<1>10. QED
  BY <1>1, <1>3, <1>4, <1>5, <1>6, <1>8, <1>9

\* No frame of what means something is refused, when nothing strays and nothing is guessed at.
LEMMA MeantIsAllowed ==
    ASSUME NEW p, IsPlan(p), Meaning(p).ok, ~StraysIn(p), ~GuessesIn(p)
    PROVE  ~Split(p).refused
<1> DEFINE n == Len(p)
           T == {k \in 1 .. n : ~SplitUpTo(p)[k].refused}
<1>1. n \in Nat \ {0}
  BY ShapesAre
<1>2. 1 \in T
  <2>1. SplitUpTo(p)[1] = SideFrame(p[1].side)
    BY <1>1, SplitsAre
  <2>2. QED
    BY <1>1, <2>1 DEF SideFrame, Frame
<1>3. ASSUME NEW k \in 2 .. n, k - 1 \in T PROVE k \in T
  <2>1. k \in 1 .. n /\ ~SplitUpTo(p)[k - 1].refused
    BY <1>1, <1>3
  <2>2. p[k].op \in {"join", "union", "filter", "select"}
    BY StepAt
  <2>3. CASE p[k].op = "join"
    BY <2>1, <2>3, JoinAllowed
  <2>4. CASE p[k].op = "union"
    BY <2>1, <2>4, UnionAllowed
  <2>5. CASE p[k].op = "filter"
    <3>1. SplitUpTo(p)[k] = FilterFrame(SplitUpTo(p)[k - 1], p[k].ref)
      BY <2>5, StepAt
    <3>2. QED
      BY <2>1, <3>1 DEF FilterFrame, Frame
  <2>6. CASE p[k].op = "select"
    <3>1. SplitUpTo(p)[k] = ProjectFrame(SplitUpTo(p)[k - 1], p[k].cols, Required(p, k))
      BY <2>6, StepAt
    <3>2. SplitUpTo(p)[k].refused = SplitUpTo(p)[k - 1].refused
      BY <3>1, ProjectKeeps
    <3>3. QED
      BY <2>1, <3>2
  <2>7. QED
    BY <2>2, <2>3, <2>4, <2>5, <2>6
<1>4. \A k \in 1 .. n : k \in T
  <2> HIDE DEF T, n
  <2>1. QED
    BY <1>1, <1>2, <1>3, AlongAPlan
<1>5. n \in T
  BY <1>1, <1>4
<1>6. QED
  BY <1>5, LastIs

\* A frame is refused only when it means nothing, whichever sides are known before they run:
\* what an unknown side has is not guessed at, but for the columns of a join that are known in
\* part (_check_join_keys, _join, _union; what strays from a select() is _project's).
THEOREM JoinsRefusedRightly == Spec => []RefusedRightly
<1>1. ASSUME IInv PROVE RefusedRightly
  <2>1. SUFFICES ASSUME outcome.kind = "refused", ~Guesses, ~Strays, Meant.ok PROVE FALSE
    BY DEF RefusedRightly
  <2>2. IsPlan(frame) /\ Combined = {i \in 1 .. Len(frame) : Combines(frame[i])} /\ Combined \subseteq 2 .. Len(frame)
    BY <1>1, FrameIsPlan
  <2>3. Len(frame) \in Nat
    BY <2>2, ShapesAre
  <2>4. ~GuessesIn(frame)
    <3>1. \A c \in 2 .. Len(frame) : Combines(frame[c]) => c \in Combined
      BY <2>2, <2>3
    <3>2. QED
      BY <2>1, <3>1 DEF Guesses, GuessesIn
  <2>5. ~StraysIn(frame)
    BY <2>1 DEF Strays, StraysIn, Combined
  <2>6. ~totals /\ Meaning(frame).ok
    <3>1. ~totals /\ Only(Meaning(frame), Meaning(frame).names).ok
      BY <2>1 DEF Meant, Fails
    <3>2. QED
      BY <3>1, OnlyIs
  <2>7. Split(frame).refused
    BY <1>1, <2>1, <2>6, OutcomesAre
  <2>8. QED
    BY <2>2, <2>4, <2>5, <2>6, <2>7, MeantIsAllowed
<1>2. QED
  BY <1>1, InitIInv, NextIInv, PTL DEF Spec

(***************************************************************************)
(* What is copied and picked for a select() is what its columns mean.      *)
(***************************************************************************)
Performed(cols, sources, j) == sources[j] \in Copied(sources) /\ OutputOf(cols[j]) # sources[j]

\* What is left of f in g once the copies up to k are made.
Holds(g, f, names, cols, sources, k) ==
    /\ \A n \in names : (\A j \in 1 .. k : Performed(cols, sources, j) => OutputOf(cols[j]) # n) => g[n] = f[n]
    /\ \A j \in 1 .. k : Performed(cols, sources, j) => g[OutputOf(cols[j])] = f[sources[j]]

AreSources(cols, sources) ==
    /\ DOMAIN sources = 1 .. Len(cols) /\ \A j \in 1 .. Len(cols) : sources[j] = cols[j].ref

\* No copy is made over what another one is made of.
LEMMA SourcesStay ==
    ASSUME NEW cols, IsSelection(cols), ~AliasRefused(cols), NEW sources, AreSources(cols, sources),
           NEW i \in 1 .. Len(cols), NEW j \in 1 .. Len(cols)
    PROVE  /\ Performed(cols, sources, i) => OutputOf(cols[i]) # sources[j]
           /\ OutputOf(cols[i]) = OutputOf(cols[j]) => sources[i] = sources[j]
BY AliasesAre DEF Performed, AreSources

\* One more copy, of a row or of the types.
LEMMA HoldsOn ==
    ASSUME NEW cols, IsSelection(cols), ~AliasRefused(cols), NEW sources, AreSources(cols, sources),
           NEW k \in Nat, k + 1 \in 1 .. Len(cols), Performed(cols, sources, k + 1),
           NEW f, NEW g, NEW names, Holds(g, f, names, cols, sources, k), names \subseteq DOMAIN g,
           sources[k + 1] \in names,
           \A j \in 1 .. k : Performed(cols, sources, j) => OutputOf(cols[j]) \in DOMAIN g
    PROVE  Holds(Among(g, OutputOf(cols[k + 1]), sources[k + 1]), f, names, cols, sources, k + 1)
<1> DEFINE out == OutputOf(cols[k + 1])
           src == sources[k + 1]
           h == Among(g, out, src)
<1>1. h[out] = g[src] /\ \A n \in DOMAIN g : n # out => h[n] = g[n]
  BY DEF Among, Over
<1>2. \A j \in 1 .. k : j \in 1 .. Len(cols)
  OBVIOUS
<1>3. g[src] = f[src]
  <2>1. \A j \in 1 .. k : Performed(cols, sources, j) => OutputOf(cols[j]) # src
    BY <1>2, SourcesStay
  <2>2. QED
    BY <2>1 DEF Holds
<1>4. ASSUME NEW n \in names, \A j \in 1 .. k + 1 : Performed(cols, sources, j) => OutputOf(cols[j]) # n
      PROVE  h[n] = f[n]
  <2>1. n # out /\ k + 1 \in 1 .. k + 1
    BY <1>4
  <2>2. \A j \in 1 .. k : j \in 1 .. k + 1
    OBVIOUS
  <2>3. g[n] = f[n]
    BY <1>4, <2>2 DEF Holds
  <2>4. QED
    BY <1>1, <2>1, <2>3
<1>5. ASSUME NEW j \in 1 .. k + 1, Performed(cols, sources, j) PROVE h[OutputOf(cols[j])] = f[sources[j]]
  <2>1. CASE OutputOf(cols[j]) = out
    <3>1. j \in 1 .. Len(cols)
      OBVIOUS
    <3>2. sources[j] = src
      BY <2>1, <3>1, SourcesStay
    <3>3. QED
      BY <1>1, <1>3, <2>1, <3>2
  <2>2. CASE OutputOf(cols[j]) # out
    <3>1. j \in 1 .. k
      BY <2>2
    <3>2. g[OutputOf(cols[j])] = f[sources[j]]
      BY <1>5, <3>1 DEF Holds
    <3>3. QED
      BY <1>1, <1>5, <2>2, <3>1, <3>2
  <2>3. QED
    BY <2>1, <2>2
<1> HIDE DEF h
<1>6. Holds(h, f, names, cols, sources, k + 1)
  BY <1>4, <1>5 DEF Holds
<1>7. QED
  BY <1>6 DEF h

CopiedTo(u, t, cols, sources, k) ==
    /\ t.ok /\ IsTable(t) /\ u.ok /\ IsTable(u)
    /\ Range(u.names) =
          Range(t.names) \cup {OutputOf(cols[j]) : j \in {j \in 1 .. k : Performed(cols, sources, j)}}
    /\ \A j \in 1 .. k : Performed(cols, sources, j) => sources[j] \in Range(t.names)
    /\ DOMAIN u.rows = DOMAIN t.rows
    /\ Holds(u.types, t.types, Range(t.names), cols, sources, k)
    /\ \A r \in DOMAIN t.rows : Holds(u.rows[r], t.rows[r], Range(t.names), cols, sources, k)

\* One more copy, of a table.
LEMMA CopyOnce ==
    ASSUME NEW cols, IsSelection(cols), ~AliasRefused(cols), NEW sources, AreSources(cols, sources),
           NEW k \in Nat, k + 1 \in 1 .. Len(cols), NEW t, NEW u, CopiedTo(u, t, cols, sources, k),
           NEW v, v = CopyStep(u, cols[k + 1], sources[k + 1], Copied(sources)), v.ok
    PROVE  CopiedTo(v, t, cols, sources, k + 1)
<1> DEFINE out == OutputOf(cols[k + 1])
           src == sources[k + 1]
           names == Range(t.names)
           outs(m) == {OutputOf(cols[j]) : j \in {j \in 1 .. m : Performed(cols, sources, j)}}
<1>1. \A j \in 1 .. k + 1 : j \in 1 .. k \/ j = k + 1
  OBVIOUS
<1>2. k + 1 \in 1 .. k + 1 /\ \A j \in 1 .. k : j \in 1 .. k + 1 /\ j \in 1 .. Len(cols)
  OBVIOUS
<1>3. CASE Performed(cols, sources, k + 1)
  <2>1. v = LocalWithColumn(u, out, src)
    BY <1>3 DEF CopyStep, Performed
  <2>2. u.ok /\ IsTable(u)
    BY DEF CopiedTo
  <2>3. /\ src \in Range(u.names) /\ IsTable(v) /\ Range(v.names) = Range(u.names) \cup {out}
        /\ v.types = Among(u.types, out, src)
        /\ v.rows = [i \in DOMAIN u.rows |-> Among(u.rows[i], out, src)]
    <3> HIDE DEF out, src
    <3>1. QED
      BY <2>1, <2>2, CopyMakes
  <2>4. src \in names
    <3>1. \A j \in 1 .. k : Performed(cols, sources, j) => OutputOf(cols[j]) # src
      BY <1>2, SourcesStay
    <3>2. QED
      BY <2>3, <3>1 DEF CopiedTo
  <2>5. outs(k + 1) = outs(k) \cup {out}
    BY <1>1, <1>2, <1>3
  <2>6. /\ names \subseteq Range(u.names)
        /\ \A j \in 1 .. k : Performed(cols, sources, j) => OutputOf(cols[j]) \in Range(u.names)
    BY DEF CopiedTo
  <2>7. DOMAIN u.types = Range(u.names) /\ \A r \in DOMAIN t.rows : DOMAIN u.rows[r] = Range(u.names)
    BY <2>2, TableIs DEF CopiedTo
  <2>8. Holds(v.types, t.types, names, cols, sources, k + 1)
    <3> DEFINE f == t.types
               g == u.types
    <3>1. /\ Holds(g, f, names, cols, sources, k) /\ names \subseteq DOMAIN g
          /\ \A j \in 1 .. k : Performed(cols, sources, j) => OutputOf(cols[j]) \in DOMAIN g
      BY <2>6, <2>7 DEF CopiedTo
    <3>2. Holds(Among(g, out, src), f, names, cols, sources, k + 1)
      <4> HIDE DEF f, g, names
      <4>1. QED
        BY <1>3, <2>4, <3>1, HoldsOn
    <3>3. QED
      BY <2>3, <3>2
  <2>9. ASSUME NEW r \in DOMAIN t.rows PROVE Holds(v.rows[r], t.rows[r], names, cols, sources, k + 1)
    <3> DEFINE f == t.rows[r]
               g == u.rows[r]
    <3>1. /\ Holds(g, f, names, cols, sources, k) /\ names \subseteq DOMAIN g
          /\ \A j \in 1 .. k : Performed(cols, sources, j) => OutputOf(cols[j]) \in DOMAIN g
      BY <2>6, <2>7 DEF CopiedTo
    <3>2. Holds(Among(g, out, src), f, names, cols, sources, k + 1)
      <4> HIDE DEF f, g, names
      <4>1. QED
        BY <1>3, <2>4, <3>1, HoldsOn
    <3>3. v.rows[r] = Among(g, out, src)
      BY <2>3 DEF CopiedTo
    <3>4. QED
      BY <3>2, <3>3
  <2>10. Range(v.names) = names \cup outs(k + 1)
    <3>1. Range(u.names) = names \cup outs(k)
      BY DEF CopiedTo
    <3> HIDE DEF outs
    <3>2. QED
      BY <2>3, <2>5, <3>1
  <2>11. \A j \in 1 .. k + 1 : Performed(cols, sources, j) => sources[j] \in names
    BY <1>1, <2>4 DEF CopiedTo
  <2>12. DOMAIN v.rows = DOMAIN t.rows
    BY <2>3 DEF CopiedTo
  <2>13. QED
    BY <2>3, <2>8, <2>9, <2>10, <2>11, <2>12 DEF CopiedTo
<1>4. CASE ~Performed(cols, sources, k + 1)
  <2>1. v = u
    BY <1>4 DEF CopyStep, Performed
  <2>2. outs(k + 1) = outs(k)
    BY <1>1, <1>2, <1>4
  <2>3. ASSUME NEW f, NEW g, Holds(g, f, names, cols, sources, k) PROVE Holds(g, f, names, cols, sources, k + 1)
    <3>1. ASSUME NEW n \in names, \A j \in 1 .. k + 1 : Performed(cols, sources, j) => OutputOf(cols[j]) # n
          PROVE  g[n] = f[n]
      BY <1>2, <2>3, <3>1 DEF Holds
    <3>2. \A j \in 1 .. k + 1 : Performed(cols, sources, j) => g[OutputOf(cols[j])] = f[sources[j]]
      BY <1>1, <1>4, <2>3 DEF Holds
    <3>3. QED
      BY <3>1, <3>2 DEF Holds
  <2>4. Range(u.names) = names \cup outs(k + 1)
    <3>1. Range(u.names) = names \cup outs(k)
      BY DEF CopiedTo
    <3>2. QED
      BY <2>2, <3>1
  <2>5. \A j \in 1 .. k + 1 : Performed(cols, sources, j) => sources[j] \in names
    BY <1>1, <1>4 DEF CopiedTo
  <2>6. /\ Holds(u.types, t.types, names, cols, sources, k + 1)
        /\ \A r \in DOMAIN t.rows : Holds(u.rows[r], t.rows[r], names, cols, sources, k + 1)
    BY <2>3 DEF CopiedTo
  <2>7. QED
    BY <2>1, <2>4, <2>5, <2>6 DEF CopiedTo
<1>5. QED
  BY <1>3, <1>4

\* All the copies that a select() needs.
LEMMA CopiesMake ==
    ASSUME NEW cols, IsSelection(cols), ~AliasRefused(cols), NEW sources, AreSources(cols, sources),
           NEW t, t.ok => IsTable(t), CopyEach(t, cols, sources).ok
    PROVE  CopiedTo(CopyEach(t, cols, sources), t, cols, sources, Len(cols))
<1> DEFINE n == Len(cols)
           at == CopiesUpTo(t, cols, sources)
           S == {k \in Nat : k <= n /\ at[k].ok => CopiedTo(at[k], t, cols, sources, k)}
<1>1. n \in Nat
  BY SelectionIs
<1>2. /\ at[0] = t
      /\ \A k \in 1 .. n : at[k] = CopyStep(at[k - 1], cols[k], sources[k], Copied(sources))
  BY <1>1, CopiesAre
<1>3. 0 \in S
  <2>1. SUFFICES ASSUME t.ok PROVE CopiedTo(t, t, cols, sources, 0)
    BY <1>2
  <2>2. IsTable(t)
    BY <2>1
  <2>3. {j \in 1 .. 0 : Performed(cols, sources, j)} = {}
    OBVIOUS
  <2>4. QED
    BY <2>1, <2>2, <2>3 DEF CopiedTo, Holds
<1>4. ASSUME NEW k \in Nat, k \in S PROVE k + 1 \in S
  <2>1. SUFFICES ASSUME k + 1 <= n, at[k + 1].ok PROVE CopiedTo(at[k + 1], t, cols, sources, k + 1)
    OBVIOUS
  <2>2. k + 1 \in 1 .. n /\ (k + 1) - 1 = k /\ k <= n
    BY <1>1, <2>1
  <2>3. at[k + 1] = CopyStep(at[k], cols[k + 1], sources[k + 1], Copied(sources))
    BY <1>2, <2>2
  <2>4. at[k].ok
    BY <2>1, <2>3 DEF CopyStep, LocalWithColumn, Fails
  <2>5. CopiedTo(at[k], t, cols, sources, k)
    BY <1>4, <2>2, <2>4
  <2> DEFINE u == at[k]
             v == at[k + 1]
  <2>6. CopiedTo(u, t, cols, sources, k) /\ v = CopyStep(u, cols[k + 1], sources[k + 1], Copied(sources)) /\ v.ok
    BY <2>1, <2>3, <2>5
  <2>7. CopiedTo(v, t, cols, sources, k + 1)
    <3> HIDE DEF u, v
    <3>1. QED
      BY <2>2, <2>6, CopyOnce
  <2>8. QED
    BY <2>7
<1>5. \A k \in Nat : k >= 0 => k \in S
  <2> HIDE DEF S
  <2>1. QED
    BY <1>3, <1>4, StepByStep
<1>6. n \in S
  BY <1>1, <1>5
<1>7. QED
  BY <1>1, <1>6 DEF CopyEach

NamedOf(cols, sources) ==
    [j \in 1 .. Len(cols) |-> IF sources[j] \in Copied(sources) THEN OutputOf(cols[j]) ELSE sources[j]]

\* What is at one name of g is what was at another of f, the copies made.
Gives(at, n, names, cols, sources) ==
    \A f, g : Holds(g, f, names, cols, sources, Len(cols)) => g[at] = f[n]

\* A select() of columns that are there, over some that ride along, which it does not make.
LEMMA PickedMeans ==
    ASSUME NEW cols, IsSelection(cols), ~AliasRefused(cols), NEW sources, AreSources(cols, sources),
           NEW t, NEW u, CopiedTo(u, t, cols, sources, Len(cols)),
           NEW riding, riding \in Seq(Range(riding)),
           Range(riding) \cap Range(OutputsOf(cols)) = {},
           NEW outputs, outputs = OutputsOf(cols) \o riding,
           NEW from, from = NamedOf(cols, sources) \o riding, Picked(u, outputs, from).ok
    PROVE  /\ \A j \in 1 .. Len(cols) : sources[j] \in Range(t.names)
           /\ Range(riding) \subseteq Range(t.names)
           /\ \A n \in Range(OutputsOf(cols)) :
                 \E j \in 1 .. Len(cols) :
                    /\ OutputOf(cols[j]) = n
                    /\ Gives(From(outputs, from, n), sources[j], Range(t.names), cols, sources)
           /\ \A n \in Range(riding) : Gives(From(outputs, from, n), n, Range(t.names), cols, sources)
<1> DEFINE c == Len(cols)
           names == Range(t.names)
           outs == OutputsOf(cols)
           named == NamedOf(cols, sources)
<1>0. named = [j \in 1 .. c |-> IF sources[j] \in Copied(sources) THEN OutputOf(cols[j]) ELSE sources[j]]
  BY DEF NamedOf
<1> HIDE DEF named
<1>1. /\ c \in Nat /\ outs \in Seq(Range(outs)) /\ Len(outs) = c /\ DOMAIN outs = 1 .. c
      /\ \A j \in 1 .. c : outs[j] = OutputOf(cols[j])
  BY SelectionIs
<1>2. named \in Seq(Range(named)) /\ Len(named) = c
  <2>1. named = [j \in 1 .. c |-> named[j]]
    BY <1>0
  <2>2. QED
    BY <1>1, <2>1, SequenceMade
<1>3. /\ Len(riding) \in Nat /\ \A i \in 1 .. Len(riding) : riding[i] \in Range(riding)
      /\ \A n \in Range(riding) : \E i \in 1 .. Len(riding) : riding[i] = n
  BY MembersAre
<1>4. /\ outputs \in Seq(Range(outputs)) /\ Len(outputs) = c + Len(riding)
      /\ from \in Seq(Range(from)) /\ Len(from) = c + Len(riding)
      /\ Range(from) = Range(named) \cup Range(riding)
  <2> HIDE DEF outs, c
  <2>1. outputs \in Seq(Range(outputs)) /\ Len(outputs) = c + Len(riding)
    BY <1>1, TogetherAre DEF outs
  <2>2. /\ from \in Seq(Range(from)) /\ Len(from) = c + Len(riding)
        /\ Range(from) = Range(named) \cup Range(riding)
    <3>1. from = named \o riding
      BY DEF named
    <3>2. QED
      BY <1>2, <3>1, TogetherAre
  <2>3. QED
    BY <2>1, <2>2
<1>5. /\ \A i \in DOMAIN outputs : i \in 1 .. c \/ \E q \in 1 .. Len(riding) : i = c + q
      /\ \A i \in 1 .. c : i \in DOMAIN outputs
      /\ \A q \in 1 .. Len(riding) : c + q \in DOMAIN outputs
  <2> DEFINE d == Len(riding)
  <2>1. c \in Nat /\ d \in Nat
    BY <1>1, <1>3
  <2>2. DOMAIN outputs = 1 .. c + d
    BY <1>4, MembersAre
  <2> HIDE DEF c, d
  <2>3. \A i \in 1 .. c + d : i \in 1 .. c \/ (i - c \in 1 .. d /\ i = c + (i - c))
    BY <2>1
  <2>4. (\A i \in 1 .. c : i \in 1 .. c + d) /\ \A q \in 1 .. d : c + q \in 1 .. c + d
    BY <2>1
  <2>5. QED
    BY <2>2, <2>3, <2>4 DEF d
<1>6. /\ \A i \in 1 .. c : outputs[i] = OutputOf(cols[i]) /\ from[i] = named[i]
      /\ \A i \in 1 .. Len(riding) : outputs[c + i] = riding[i] /\ from[c + i] = riding[i]
  <2>1. \A i : /\ i \in 1 .. c => outputs[i] = outs[i]
               /\ i \in 1 .. Len(riding) => outputs[c + i] = riding[i]
    <3> HIDE DEF outs, c
    <3>1. QED
      BY SMTT(60), <1>1, TogetherAt DEF outs
  <2>2. \A i : /\ i \in 1 .. c => from[i] = named[i]
               /\ i \in 1 .. Len(riding) => from[c + i] = riding[i]
    <3>1. from = named \o riding
      BY DEF named
    <3>2. QED
      BY <1>2, <3>1, TogetherAt
  <2>3. QED
    BY <1>1, <2>1, <2>2
<1>7. Range(from) \subseteq Range(u.names)
  BY DEF Picked, Fails
<1>8. /\ Range(u.names) = names \cup {OutputOf(cols[j]) : j \in {j \in 1 .. c : Performed(cols, sources, j)}}
      /\ \A j \in 1 .. c : Performed(cols, sources, j) => sources[j] \in names
  BY DEF CopiedTo
<1>9. ASSUME NEW j \in 1 .. c PROVE sources[j] \in names
  <2>1. CASE Performed(cols, sources, j)
    BY <1>8, <2>1
  <2>2. CASE ~Performed(cols, sources, j)
    <3>1. named[j] = sources[j]
      BY <1>0, <2>2 DEF Performed
    <3>2. sources[j] \in Range(u.names)
      <4>1. named[j] \in Range(named)
        BY <1>2, MembersAre
      <4>2. QED
        BY <1>4, <1>7, <3>1, <4>1
    <3>3. \A i \in 1 .. c : Performed(cols, sources, i) => OutputOf(cols[i]) # sources[j]
      BY SourcesStay
    <3>4. QED
      BY <1>8, <3>2, <3>3
  <2>3. QED
    BY <2>1, <2>2
<1>10. \A j \in 1 .. c : OutputOf(cols[j]) \in Range(outs)
  BY <1>1 DEF Range
<1>11. Range(riding) \subseteq names
  <2>1. ASSUME NEW n \in Range(riding) PROVE n \in names
    <3>1. n \in Range(u.names)
      BY <1>4, <1>7
    <3>2. \A j \in 1 .. c : OutputOf(cols[j]) # n
      BY <1>10
    <3>3. QED
      BY <1>8, <3>1, <3>2
  <2>2. QED
    BY <2>1
<1>12. ASSUME NEW j \in 1 .. c, NEW f, NEW g, Holds(g, f, names, cols, sources, c)
       PROVE  g[named[j]] = f[sources[j]]
  <2>1. CASE Performed(cols, sources, j)
    <3>1. named[j] = OutputOf(cols[j])
      BY <1>0, <2>1 DEF Performed
    <3>2. QED
      BY <1>12, <2>1, <3>1 DEF Holds
  <2>2. CASE ~Performed(cols, sources, j)
    <3>1. named[j] = sources[j]
      BY <1>0, <2>2 DEF Performed
    <3>2. \A i \in 1 .. c : Performed(cols, sources, i) => OutputOf(cols[i]) # sources[j]
      BY SourcesStay
    <3>3. QED
      BY <1>9, <1>12, <3>1, <3>2 DEF Holds
  <2>3. QED
    BY <2>1, <2>2
<1>13. ASSUME NEW n \in Range(outs)
       PROVE  \E j \in 1 .. c :
                 OutputOf(cols[j]) = n /\ Gives(From(outputs, from, n), sources[j], names, cols, sources)
  <2> DEFINE at == CHOOSE i \in DOMAIN outputs : outputs[i] = n
  <2>1. \E i \in DOMAIN outputs : outputs[i] = n
    <3>1. PICK i \in 1 .. c : outs[i] = n
      BY <1>1, <1>13 DEF Range
    <3>2. i \in DOMAIN outputs /\ outputs[i] = n
      BY <1>1, <1>5, <1>6, <3>1
    <3>3. QED
      BY <3>2
  <2>2. at \in DOMAIN outputs /\ outputs[at] = n /\ From(outputs, from, n) = from[at]
    BY <2>1 DEF From
  <2> HIDE DEF at
  <2>3. at \in 1 .. c
    <3>1. SUFFICES ASSUME at \notin 1 .. c PROVE FALSE
      OBVIOUS
    <3>2. PICK q \in 1 .. Len(riding) : at = c + q
      BY <1>5, <2>2, <3>1
    <3>3. n \in Range(riding)
      BY <1>3, <1>6, <2>2, <3>2
    <3>4. QED
      BY <1>13, <3>3
  <2>4. OutputOf(cols[at]) = n /\ From(outputs, from, n) = named[at]
    BY <1>6, <2>2, <2>3
  <2>5. ASSUME NEW f, NEW g, Holds(g, f, names, cols, sources, c)
        PROVE  g[From(outputs, from, n)] = f[sources[at]]
    BY <1>12, <2>3, <2>4, <2>5
  <2>6. Gives(From(outputs, from, n), sources[at], names, cols, sources)
    BY <2>5 DEF Gives
  <2>7. QED
    BY <2>3, <2>4, <2>6
<1>14. ASSUME NEW n \in Range(riding), NEW f, NEW g, Holds(g, f, names, cols, sources, c)
       PROVE  g[From(outputs, from, n)] = f[n]
  <2> DEFINE at == CHOOSE i \in DOMAIN outputs : outputs[i] = n
  <2>1. \E i \in DOMAIN outputs : outputs[i] = n
    <3>1. PICK i \in 1 .. Len(riding) : riding[i] = n
      BY <1>3
    <3>2. c + i \in DOMAIN outputs /\ outputs[c + i] = n
      BY <1>5, <1>6, <3>1
    <3>3. QED
      BY <3>2
  <2>2. at \in DOMAIN outputs /\ outputs[at] = n /\ From(outputs, from, n) = from[at]
    BY <2>1 DEF From
  <2> HIDE DEF at
  <2>3. n \notin Range(outs)
    BY <1>14
  <2>4. at \notin 1 .. c
    BY <1>6, <1>10, <2>2, <2>3
  <2>5. PICK q \in 1 .. Len(riding) : at = c + q
    BY <1>5, <2>2, <2>4
  <2>6. From(outputs, from, n) = n
    BY <1>6, <2>2, <2>5
  <2>7. n \in names /\ \A j \in 1 .. c : OutputOf(cols[j]) # n
    BY <1>10, <1>11, <2>3
  <2>8. QED
    BY <1>14, <2>6, <2>7 DEF Holds
<1>15. \A n \in Range(riding) : Gives(From(outputs, from, n), n, names, cols, sources)
  BY <1>14 DEF Gives
<1>16. QED
  BY <1>9, <1>11, <1>13, <1>15

(***************************************************************************)
(* The answer is the one that is meant.                                    *)
(***************************************************************************)
\* A table has, in its columns, what another one means.
Alike(t, m) ==
    /\ m.ok /\ DOMAIN t.rows = DOMAIN m.rows
    /\ Range(t.names) \subseteq DOMAIN m.types
    /\ \A n \in Range(t.names) :
          t.types[n] = m.types[n] /\ \A k \in DOMAIN t.rows : t.rows[k][n] = m.rows[k][n]
    /\ \A k \in DOMAIN m.rows : DOMAIN m.rows[k] = DOMAIN m.types

\* A table of the columns that are meant is all of what is meant.
LEMMA OnlyAlike ==
    ASSUME NEW t, IsTable(t), NEW m, Alike(t, m), Range(t.names) = Range(m.names)
    PROVE  LET l == Only(m, m.names)
           IN  l.ok /\ l.names = m.names /\ l.types = t.types /\ l.rows = t.rows
<1> DEFINE names == m.names
           types == [n \in Range(names) |-> m.types[n]]
           rows == [k \in DOMAIN m.rows |-> [n \in Range(names) |-> m.rows[k][n]]]
<1>1. Only(m, names) = Table(names, types, rows)
  BY DEF Only, Alike
<1>2. t.types \in [Range(names) -> Kinds] /\ t.rows \in [DOMAIN t.rows -> [Range(names) -> Nat]]
  BY TableIs
<1>3. types = t.types
  BY <1>2 DEF Alike
<1>4. rows = t.rows
  <2>1. \A k \in DOMAIN t.rows : [n \in Range(names) |-> m.rows[k][n]] = t.rows[k]
    BY <1>2 DEF Alike
  <2>2. DOMAIN m.rows = DOMAIN t.rows
    BY DEF Alike
  <2>3. QED
    BY <1>2, <2>1, <2>2
<1> HIDE DEF types, rows
<1>5. QED
  BY <1>1, <1>3, <1>4 DEF Table

IsJoin(u, l, r, on, how) ==
    /\ Range(on) \subseteq Range(l.names) \cap Range(r.names)
    /\ Overlap(on, l.names, r.names) = {}
    /\ \A n \in Range(on) : Promoted(l.types[n], r.types[n]) # NoType
    /\ u.names = JoinColumns(on, l.names, r.names)
    /\ Range(u.names) = Range(l.names) \cup Range(r.names)
    /\ u.types = JoinTypes(l, r, on)
    /\ u.rows = AllCells(l, r, MeantPlaces(l, r, on, how), u.names)

\* What a local join of two tables is, when it makes one.
LEMMA JoinOf ==
    ASSUME NEW l, IsTable(l), NEW r, IsTable(r), NEW on, on \in Seq(Range(on)), on # <<>>, NEW how,
           NEW u, u = LocalJoin(l, r, on, how), u.ok
    PROVE  IsTable(u) /\ IsJoin(u, l, r, on, how)
<1> DEFINE x == LocalJoin(l, r, on, how)
<1>1. Range(on) \subseteq Range(l.names) \cap Range(r.names)
  BY JoinMakes
<1>2. Overlap(on, l.names, r.names) = {}
  BY JoinMakes
<1>3. \A n \in Range(on) : Promoted(l.types[n], r.types[n]) # NoType
  BY JoinMakes
<1>4. x.names = JoinColumns(on, l.names, r.names)
  BY JoinMakes
<1>5. Range(x.names) = Range(l.names) \cup Range(r.names)
  BY SMTT(60), JoinMakes
<1>6. x.types = JoinTypes(l, r, on)
  BY JoinMakes
<1>7. x.rows = AllCells(l, r, MeantPlaces(l, r, on, how), x.names)
  BY JoinMakes
<1>8. IsTable(x)
  BY JoinMakes
<1> HIDE DEF x
<1>9. u = x
  BY DEF x
<1>10. QED
  BY <1>1, <1>2, <1>3, <1>4, <1>5, <1>6, <1>7, <1>8, <1>9 DEF IsJoin

\* A local join of what is meant is the join that is meant.
LEMMA JoinAlike ==
    ASSUME NEW l, IsTable(l), NEW r, IsTable(r), NEW on, on \in Seq(Range(on)), on # <<>>, IsInjective(on),
           NEW how, LocalJoin(l, r, on, how).ok,
           NEW a, a.ok, a.names \in Seq(Range(a.names)), Range(a.names) = Range(l.names),
           a.types = l.types, a.rows = l.rows,
           NEW b, b.ok, b.names \in Seq(Range(b.names)), Range(b.names) = Range(r.names),
           b.types = r.types, b.rows = r.rows
    PROVE  LET u == LocalJoin(l, r, on, how)
               m == MeantJoin(a, b, on, how)
           IN  /\ m.ok /\ m.names = JoinColumns(on, a.names, b.names)
               /\ u.names = JoinColumns(on, l.names, r.names)
               /\ Range(u.names) = Range(m.names) /\ m.types = u.types /\ m.rows = u.rows
<1> DEFINE u == LocalJoin(l, r, on, how)
           m == MeantJoin(a, b, on, how)
           names == JoinColumns(on, a.names, b.names)
<1>1. /\ Range(on) \subseteq Range(l.names) \cap Range(r.names)
      /\ Overlap(on, l.names, r.names) = {}
      /\ \A n \in Range(on) : Promoted(l.types[n], r.types[n]) # NoType
      /\ u.names = JoinColumns(on, l.names, r.names)
      /\ Range(u.names) = Range(l.names) \cup Range(r.names)
      /\ u.types = JoinTypes(l, r, on)
      /\ u.rows = AllCells(l, r, MeantPlaces(l, r, on, how), u.names)
  <2>1. u = LocalJoin(l, r, on, how) /\ u.ok
    OBVIOUS
  <2> HIDE DEF u
  <2>2. IsJoin(u, l, r, on, how)
    BY <2>1, JoinOf
  <2>3. QED
    BY <2>2 DEF IsJoin
<1>2. l.types \in [Range(l.names) -> Kinds] /\ r.types \in [Range(r.names) -> Kinds]
  BY TableIs
<1>3. \A n \in Range(on) : Promoted(l.types[n], r.types[n]) = Widest(l.types[n], r.types[n])
  BY <1>1, <1>2, PromotedIsWidest
<1>4. Joinable(a, b, on)
  BY <1>1, <1>3 DEF Joinable, Overlap
<1>5. m = Table(names, MeantTypes(a, b, Range(on)), AllCells(a, b, MeantPlaces(a, b, on, how), names))
  BY <1>4, MeantJoinIs
<1>6. Range(names) = Range(u.names)
  <2>1. Range(names) = Range(on) \cup Range(a.names) \cup Range(b.names)
    BY JoinColumnsAre
  <2>2. QED
    BY <1>1, <2>1
<1>7. MeantTypes(a, b, Range(on)) = u.types
  <2>1. DOMAIN a.types = Range(l.names) /\ DOMAIN b.types = Range(r.names)
    BY <1>2
  <2>2. ASSUME NEW n \in Range(l.names) \cup Range(r.names)
        PROVE  MeantTypes(a, b, Range(on))[n] = JoinTypes(l, r, on)[n]
    <3>1. CASE n \in Range(on)
      BY <1>3, <2>1, <2>2, <3>1 DEF MeantTypes, JoinTypes
    <3>2. CASE n \notin Range(on) /\ n \in Range(l.names)
      BY <2>1, <2>2, <3>2 DEF MeantTypes, JoinTypes
    <3>3. CASE n \notin Range(on) /\ n \notin Range(l.names)
      BY <2>1, <2>2, <3>3 DEF MeantTypes, JoinTypes
    <3>4. QED
      BY <3>1, <3>2, <3>3
  <2>3. /\ MeantTypes(a, b, Range(on)) = [n \in Range(l.names) \cup Range(r.names) |-> MeantTypes(a, b, Range(on))[n]]
        /\ JoinTypes(l, r, on) = [n \in Range(l.names) \cup Range(r.names) |-> JoinTypes(l, r, on)[n]]
    BY <2>1 DEF MeantTypes, JoinTypes
  <2>4. QED
    BY <1>1, <2>2, <2>3
<1>8. AllCells(a, b, MeantPlaces(a, b, on, how), names) = u.rows
  <2>1. MeantPlaces(a, b, on, how) = MeantPlaces(l, r, on, how)
    BY DEF MeantPlaces, Pairs
  <2>2. \A p : Cells(a, b, p, names) = Cells(l, r, p, u.names)
    BY <1>6 DEF Cells
  <2> HIDE DEF names, u
  <2>3. AllCells(a, b, MeantPlaces(a, b, on, how), names) = AllCells(l, r, MeantPlaces(l, r, on, how), u.names)
    BY <2>1, <2>2 DEF AllCells
  <2>4. QED
    BY <1>1, <2>3
<1> HIDE DEF u, names
<1>9. m.ok /\ m.names = names /\ m.types = u.types /\ m.rows = u.rows
  BY <1>5, <1>7, <1>8 DEF Table
<1>10. QED
  BY <1>1, <1>6, <1>9 DEF u, names

\* What a local union of two tables is, when it makes one.
LEMMA UnionOf ==
    ASSUME NEW l, IsTable(l), NEW r, IsTable(r), NEW u, u = LocalUnion(l, r), u.ok
    PROVE  IsTable(u) /\ l.names = r.names /\ u.names = l.names
<1> DEFINE x == LocalUnion(l, r)
<1>1. l.names = r.names
  BY UnionMakes
<1>2. x.names = l.names
  BY UnionMakes
<1>3. IsTable(x)
  BY UnionMakes
<1> HIDE DEF x
<1>4. u = x
  BY DEF x
<1>5. QED
  BY <1>1, <1>2, <1>3, <1>4

\* A local union of what is meant is the union that is meant.
LEMMA UnionAlike ==
    ASSUME NEW l, IsTable(l), NEW r, IsTable(r), LocalUnion(l, r).ok,
           NEW a, a.ok, Range(a.names) = Range(l.names), a.types = l.types, a.rows = l.rows,
           NEW b, b.ok, b.names = a.names, b.types = r.types, b.rows = r.rows
    PROVE  LET u == LocalUnion(l, r)
               m == MeantUnion(a, b)
           IN  /\ m.ok /\ m.names = a.names /\ u.names = l.names
               /\ m.types = u.types /\ m.rows = u.rows
<1> DEFINE u == LocalUnion(l, r)
           m == MeantUnion(a, b)
<1>1. /\ l.names = r.names /\ u.names = l.names
      /\ \A n \in Range(l.names) : Promoted(l.types[n], r.types[n]) # NoType
      /\ u.types = [n \in Range(l.names) |-> Promoted(l.types[n], r.types[n])]
      /\ u.rows = Stacked(l.rows, r.rows)
  BY UnionMakes
<1>2. l.types \in [Range(l.names) -> Kinds] /\ r.types \in [Range(r.names) -> Kinds]
  BY TableIs
<1>3. \A n \in Range(l.names) : Promoted(l.types[n], r.types[n]) = Widest(l.types[n], r.types[n])
  BY <1>1, <1>2, PromotedIsWidest
<1>4. m = Table(a.names, MeantTypes(a, b, Range(a.names)), Stacked(a.rows, b.rows))
  BY <1>1, <1>3 DEF MeantUnion
<1>5. MeantTypes(a, b, Range(a.names)) = [n \in Range(l.names) |-> Promoted(l.types[n], r.types[n])]
  BY <1>1, <1>2, <1>3 DEF MeantTypes
<1> HIDE DEF u
<1>6. m.ok /\ m.names = a.names /\ m.types = u.types /\ m.rows = u.rows
  BY <1>1, <1>4, <1>5 DEF Table
<1>7. QED
  BY <1>1, <1>6 DEF u

\* A filter over what is meant is the filter that is meant, by whatever name.
LEMMA FilterAlike ==
    ASSUME NEW t, IsTable(t), NEW m, Alike(t, m), NEW at, LocalFilter(t, at).ok, NEW n \in DOMAIN m.types,
           \A k \in DOMAIN m.rows : m.rows[k][at] = m.rows[k][n]
    PROVE  LET u == LocalFilter(t, at)
               w == MeantFilter(m, n)
           IN  /\ Alike(u, w) /\ u.names = t.names /\ w.names = m.names /\ w.types = m.types
               /\ DOMAIN w.rows \subseteq DOMAIN m.rows /\ \A k \in DOMAIN w.rows : w.rows[k] = m.rows[k]
<1> DEFINE u == LocalFilter(t, at)
           w == MeantFilter(m, n)
           kept == {k \in DOMAIN t.rows : Passes(t.rows[k][at])}
<1>1. at \in Range(t.names) /\ u.names = t.names /\ u.types = t.types /\ u.rows = Passing(t.rows, at)
  BY FilterMakes
<1>2. w = Table(m.names, m.types, Passing(m.rows, n))
  BY DEF MeantFilter, Alike
<1>3. kept = {k \in DOMAIN m.rows : Passes(m.rows[k][n])}
  BY <1>1 DEF Alike
<1>4. Passing(t.rows, at) = [k \in kept |-> t.rows[k]]
  BY DEF Passing, Restrict
<1>5. Passing(m.rows, n) = [k \in kept |-> m.rows[k]]
  BY <1>3 DEF Passing, Restrict
<1>6. kept \subseteq DOMAIN t.rows /\ kept \subseteq DOMAIN m.rows
  BY <1>3
<1> HIDE DEF u, w, kept
<1>7. /\ w.ok /\ w.names = m.names /\ w.types = m.types /\ DOMAIN w.rows = kept
      /\ \A k \in kept : w.rows[k] = m.rows[k]
  BY <1>2, <1>5 DEF Table
<1>8. DOMAIN u.rows = kept /\ \A k \in kept : u.rows[k] = t.rows[k]
  BY <1>1, <1>4
<1>9. Alike(u, w)
  BY <1>1, <1>6, <1>7, <1>8 DEF Alike
<1>10. QED
  BY <1>1, <1>6, <1>7, <1>9 DEF u, w

IsAnew(g, f, cols) ==
    /\ DOMAIN g = Range(OutputsOf(cols)) \cup DOMAIN f
    /\ \A j \in 1 .. Len(cols) : g[OutputOf(cols[j])] = f[cols[j].ref]
    /\ \A n \in DOMAIN f \ Range(OutputsOf(cols)) : g[n] = f[n]
    /\ \A n \in DOMAIN Produced(cols) :
          /\ n \in DOMAIN f /\ Produced(cols)[n] \in Range(OutputsOf(cols))
          /\ g[n] = g[Produced(cols)[n]]

\* What a select() makes of a row, or of the types: of each output what it is a column of, and
\* of what it aliased away, which is still there, the same as of its alias.
LEMMA AnewIs ==
    ASSUME NEW cols, IsSelection(cols), ~AliasRefused(cols), NEW f,
           \A j \in 1 .. Len(cols) : cols[j].ref \in DOMAIN f
    PROVE  IsAnew(Anew(cols, f), f, cols)
<1> DEFINE g == Anew(cols, f)
           outputs == Range(OutputsOf(cols))
<1>1. /\ Len(cols) \in Nat /\ DOMAIN cols = 1 .. Len(cols)
      /\ DOMAIN OutputsOf(cols) = 1 .. Len(cols)
      /\ \A j \in 1 .. Len(cols) : OutputsOf(cols)[j] = OutputOf(cols[j])
  BY SelectionIs
<1>2. outputs = {OutputOf(cols[j]) : j \in 1 .. Len(cols)}
  BY <1>1 DEF Range
<1>3. /\ DOMAIN g = outputs \cup DOMAIN f
      /\ \A n \in outputs : g[n] = f[Source(cols, n)]
      /\ \A n \in DOMAIN f \ outputs : g[n] = f[n]
  BY DEF Anew, Over
<1>4. ASSUME NEW j \in 1 .. Len(cols)
      PROVE  Source(cols, OutputOf(cols[j])) = cols[j].ref
  <2> DEFINE n == OutputOf(cols[j])
             i == CHOOSE i \in DOMAIN cols : OutputOf(cols[i]) = n
  <2>1. i \in 1 .. Len(cols) /\ OutputOf(cols[i]) = n
    BY <1>1
  <2>2. Source(cols, n) = cols[i].ref
    BY DEF Source
  <2> HIDE DEF i
  <2>3. QED
    BY <2>1, <2>2, AliasesAre
<1>5. \A j \in 1 .. Len(cols) : g[OutputOf(cols[j])] = f[cols[j].ref]
  BY <1>2, <1>3, <1>4
<1> HIDE DEF g
<1>6. ASSUME NEW n \in DOMAIN Produced(cols)
      PROVE  n \in DOMAIN f /\ Produced(cols)[n] \in outputs /\ g[n] = g[Produced(cols)[n]]
  <2>1. PICK j \in 1 .. Len(cols) : cols[j].ref = n /\ OutputOf(cols[j]) = Produced(cols)[n]
    BY AliasesAre
  <2>2. n \in DOMAIN f /\ Produced(cols)[n] \in outputs /\ g[Produced(cols)[n]] = f[n]
    BY <1>2, <1>5, <2>1
  <2>3. CASE n \notin outputs
    BY <1>3, <2>2, <2>3
  <2>4. CASE n \in outputs
    <3>1. PICK i \in 1 .. Len(cols) : OutputOf(cols[i]) = n
      BY <1>2, <2>4
    <3>2. cols[i].ref = n
      BY <2>1, <3>1, AliasesAre
    <3>3. g[n] = f[n]
      BY <1>5, <3>1, <3>2
    <3>4. QED
      BY <2>2, <3>3
  <2>5. QED
    BY <2>2, <2>3, <2>4
<1>7. QED
  BY <1>3, <1>5, <1>6 DEF g, IsAnew

\* What a table holds under a name, and what is meant by another.
Means(t, m, n, w) ==
    t.types[n] = m.types[w] /\ \A k \in DOMAIN t.rows : t.rows[k][n] = m.rows[k][w]

\* What is picked of a table, when it can be.
LEMMA PickedOf ==
    ASSUME NEW t, IsTable(t), NEW names, names \in Seq(Range(names)), names # <<>>,
           NEW from, DOMAIN from = DOMAIN names, NEW u, u = Picked(t, names, from), u.ok
    PROVE  IsTable(u) /\ IsPicked(u, t, names, from)
<1> DEFINE x == Picked(t, names, from)
<1>1. x.ok
  OBVIOUS
<1>2. IsTable(x)
  BY <1>1, PickedMakes
<1>3. IsPicked(x, t, names, from)
  BY <1>1, PickedMakes
<1> HIDE DEF x
<1>4. u = x
  BY DEF x
<1>5. QED
  BY <1>2, <1>3, <1>4

IsProjection(cols, sources, riding, outputs, from) ==
    /\ IsSelection(cols) /\ ~AliasRefused(cols) /\ AreSources(cols, sources)
    /\ riding \in Seq(Range(riding)) /\ Range(riding) \cap Range(OutputsOf(cols)) = {}
    /\ outputs = OutputsOf(cols) \o riding /\ from = NamedOf(cols, sources) \o riding
    /\ outputs \in Seq(Range(outputs)) /\ outputs # <<>> /\ DOMAIN from = DOMAIN outputs
    /\ Range(outputs) = Range(OutputsOf(cols)) \cup Range(riding)

GivesAll(names, cols, sources, riding, outputs, from) ==
    /\ \A j \in 1 .. Len(cols) : sources[j] \in names
    /\ Range(riding) \subseteq names
    /\ \A n \in Range(OutputsOf(cols)) :
          \E j \in 1 .. Len(cols) :
             OutputOf(cols[j]) = n /\ Gives(From(outputs, from, n), sources[j], names, cols, sources)
    /\ \A n \in Range(riding) : Gives(From(outputs, from, n), n, names, cols, sources)

\* A projection of a table and its copies gives the columns it is of.
LEMMA ProjectionGives ==
    ASSUME NEW cols, NEW sources, NEW riding, NEW outputs, NEW from,
           IsProjection(cols, sources, riding, outputs, from),
           NEW t, NEW u, CopiedTo(u, t, cols, sources, Len(cols)), Picked(u, outputs, from).ok
    PROVE  GivesAll(Range(t.names), cols, sources, riding, outputs, from)
<1> DEFINE names == Range(t.names)
<1>1. /\ IsSelection(cols) /\ ~AliasRefused(cols) /\ AreSources(cols, sources)
      /\ riding \in Seq(Range(riding)) /\ Range(riding) \cap Range(OutputsOf(cols)) = {}
      /\ outputs = OutputsOf(cols) \o riding /\ from = NamedOf(cols, sources) \o riding
  BY DEF IsProjection
<1>2. \A j \in 1 .. Len(cols) : sources[j] \in names
  BY <1>1, PickedMeans
<1>3. Range(riding) \subseteq names
  BY <1>1, PickedMeans
<1>4. \A n \in Range(OutputsOf(cols)) :
         \E j \in 1 .. Len(cols) :
            OutputOf(cols[j]) = n /\ Gives(From(outputs, from, n), sources[j], names, cols, sources)
  BY <1>1, PickedMeans
<1>5. \A n \in Range(riding) : Gives(From(outputs, from, n), n, names, cols, sources)
  BY <1>1, PickedMeans
<1>6. QED
  BY <1>2, <1>3, <1>4, <1>5 DEF GivesAll

\* The outputs of a select() over what is meant are those that are meant, and so is what rides
\* along.
LEMMA SelectAlike ==
    ASSUME NEW cols, NEW sources, NEW riding, NEW outputs, NEW from,
           IsProjection(cols, sources, riding, outputs, from),
           NEW t, IsTable(t), NEW m, Alike(t, m),
           NEW v, v = Picked(CopyEach(t, cols, sources), outputs, from), v.ok
    PROVE  /\ IsTable(v) /\ v.names = outputs /\ MeantSelect(m, cols).ok
           /\ DOMAIN v.rows = DOMAIN m.rows
           /\ \A j \in 1 .. Len(cols) : cols[j].ref \in DOMAIN m.types
           /\ \A n \in Range(OutputsOf(cols)) :
                 \E j \in 1 .. Len(cols) : OutputOf(cols[j]) = n /\ Means(v, m, n, cols[j].ref)
           /\ \A n \in Range(riding) : n \in DOMAIN m.types /\ Means(v, m, n, n)
<1> DEFINE u == CopyEach(t, cols, sources)
           names == Range(t.names)
<1>1. /\ IsSelection(cols) /\ ~AliasRefused(cols) /\ AreSources(cols, sources)
      /\ outputs \in Seq(Range(outputs)) /\ outputs # <<>> /\ DOMAIN from = DOMAIN outputs
      /\ Range(outputs) = Range(OutputsOf(cols)) \cup Range(riding)
      /\ DOMAIN cols = 1 .. Len(cols)
  BY SelectionIs DEF IsProjection
<1>2. u.ok
  BY FailsIsNone DEF Picked
<1>3. CopiedTo(u, t, cols, sources, Len(cols))
  BY <1>1, <1>2, CopiesMake
<1> HIDE DEF u
<1>4. v = Picked(u, outputs, from) /\ IsTable(u)
  BY <1>3 DEF u, CopiedTo
<1>5. IsTable(v) /\ IsPicked(v, u, outputs, from)
  BY <1>1, <1>4, PickedOf
<1>6. /\ DOMAIN u.rows = DOMAIN t.rows
      /\ Holds(u.types, t.types, names, cols, sources, Len(cols))
      /\ \A r \in DOMAIN t.rows : Holds(u.rows[r], t.rows[r], names, cols, sources, Len(cols))
  BY <1>3 DEF CopiedTo
<1>7. GivesAll(names, cols, sources, riding, outputs, from)
  <2>1. Picked(u, outputs, from).ok
    BY <1>4
  <2>2. QED
    BY <1>3, <2>1, ProjectionGives
<1>8. /\ names \subseteq DOMAIN m.types /\ DOMAIN t.rows = DOMAIN m.rows /\ m.ok
      /\ \A n \in names :
            t.types[n] = m.types[n] /\ \A k \in DOMAIN t.rows : t.rows[k][n] = m.rows[k][n]
  BY DEF Alike
<1>9. \A j \in 1 .. Len(cols) : sources[j] = cols[j].ref /\ cols[j].ref \in names
  BY <1>1, <1>7 DEF AreSources, GivesAll
<1>10. \A j \in 1 .. Len(cols) : cols[j].ref \in DOMAIN m.types
  BY <1>8, <1>9
<1>11. MeantSelect(m, cols).ok
  <2>1. {cols[i].ref : i \in DOMAIN cols} \subseteq DOMAIN m.types
    BY <1>1, <1>10
  <2>2. QED
    BY <1>8, <2>1 DEF MeantSelect, Table
<1>12. /\ \A n \in Range(outputs) : v.types[n] = u.types[From(outputs, from, n)]
       /\ DOMAIN v.rows = DOMAIN m.rows
       /\ \A k \in DOMAIN m.rows : \A n \in Range(outputs) :
             v.rows[k][n] = u.rows[k][From(outputs, from, n)]
  BY <1>5, <1>6, <1>8 DEF IsPicked
<1>13. ASSUME NEW n \in Range(outputs), NEW w \in names,
              Gives(From(outputs, from, n), w, names, cols, sources)
       PROVE  Means(v, m, n, w)
  <2>1. v.types[n] = m.types[w]
    <3>1. u.types[From(outputs, from, n)] = t.types[w]
      BY <1>6, <1>13 DEF Gives
    <3>2. QED
      BY <1>8, <1>12, <3>1
  <2>2. ASSUME NEW k \in DOMAIN m.rows
        PROVE  v.rows[k][n] = m.rows[k][w]
    <3>1. u.rows[k][From(outputs, from, n)] = t.rows[k][w]
      BY <1>6, <1>8, <1>13, <2>2 DEF Gives
    <3>2. QED
      BY <1>8, <1>12, <2>2, <3>1
  <2>3. QED
    BY <1>12, <2>1, <2>2 DEF Means
<1>14. ASSUME NEW n \in Range(OutputsOf(cols))
       PROVE  \E j \in 1 .. Len(cols) : OutputOf(cols[j]) = n /\ Means(v, m, n, cols[j].ref)
  <2>1. PICK j \in 1 .. Len(cols) :
           OutputOf(cols[j]) = n /\ Gives(From(outputs, from, n), sources[j], names, cols, sources)
    BY <1>7 DEF GivesAll
  <2>2. Means(v, m, n, cols[j].ref)
    BY <1>1, <1>9, <1>13, <2>1
  <2>3. QED
    BY <2>1, <2>2
<1>15. ASSUME NEW n \in Range(riding)
       PROVE  n \in DOMAIN m.types /\ Means(v, m, n, n)
  <2>1. n \in names /\ Gives(From(outputs, from, n), n, names, cols, sources)
    BY <1>7 DEF GivesAll
  <2>2. QED
    BY <1>1, <1>8, <1>13, <2>1
<1>16. QED
  BY <1>5, <1>10, <1>11, <1>12, <1>14, <1>15 DEF IsPicked

InOrder(p) == \A s \in SidesOf(p) : s.planned \in {<<>>, s.result.names}
MisledIn(p) ==
    \E s \in SidesOf(p) :
        /\ s.planned \notin {<<>>, s.result.names}
        /\ Range(s.planned) # Range(s.result.names) \/ \E u \in SidesOf(p) : u.planned = <<>>

Straight(p) == IsPlan(p) /\ ~ReadsAlias(p) /\ ~StraysIn(p) /\ ~MisledIn(p)

\* A side whose hint is of the columns that come means the table that comes.
LEMMA SideAgrees ==
    ASSUME NEW side, IsSide(side), side.planned = <<>> \/ Range(side.planned) = Range(side.result.names)
    PROVE  LET r == MeantSide(side)
           IN  /\ r.ok /\ r.names \in Seq(Range(r.names)) /\ Range(r.names) = Range(side.result.names)
               /\ r.types = side.result.types /\ r.rows = side.result.rows
               /\ side.planned \in {<<>>, side.result.names} => r.names = side.result.names
               /\ side.planned # <<>> => r.names = side.planned
<1> DEFINE t == side.result
           names == side.planned
           r == MeantSide(side)
<1>1. IsTable(t) /\ names \in Seq(Range(names))
  BY DEF IsSide
<1>2. /\ t.ok /\ t.names \in Seq(Range(t.names)) /\ t.types \in [Range(t.names) -> Kinds]
      /\ t.rows \in [DOMAIN t.rows -> [Range(t.names) -> Nat]]
  BY <1>1, TableIs
<1>3. CASE names = <<>>
  <2>1. r = t
    BY <1>3 DEF MeantSide
  <2>2. QED
    BY <1>2, <1>3, <2>1
<1>4. CASE names # <<>>
  <2> DEFINE types == [n \in Range(names) |-> t.types[n]]
             rows == [k \in DOMAIN t.rows |-> [n \in Range(names) |-> t.rows[k][n]]]
  <2>1. Range(names) = Range(t.names)
    BY <1>4
  <2>2. r = Table(names, types, rows)
    BY <1>2, <1>4, <2>1 DEF MeantSide, Only
  <2>3. types = t.types
    BY <1>2, <2>1
  <2>4. rows = t.rows
    <3>1. \A k \in DOMAIN t.rows : [n \in Range(names) |-> t.rows[k][n]] = t.rows[k]
      BY <1>2, <2>1
    <3>2. QED
      BY <1>2, <3>1
  <2> HIDE DEF types, rows
  <2>5. r.ok /\ r.names = names /\ r.types = t.types /\ r.rows = t.rows
    BY <2>2, <2>3, <2>4 DEF Table
  <2>6. QED
    BY <1>1, <1>4, <2>1, <2>5
<1>5. QED
  BY <1>3, <1>4

\* The sides of a plan that is not misled mean the tables that come.
LEMMA SidesAgree ==
    ASSUME NEW p, Straight(p), NEW i \in 1 .. Len(p), i = 1 \/ Combines(p[i])
    PROVE  /\ IsSide(p[i].side) /\ MeantSide(p[i].side).ok
           /\ MeantSide(p[i].side).names \in Seq(Range(MeantSide(p[i].side).names))
           /\ Range(MeantSide(p[i].side).names) = Range(p[i].side.result.names)
           /\ MeantSide(p[i].side).types = p[i].side.result.types
           /\ MeantSide(p[i].side).rows = p[i].side.result.rows
           /\ InOrder(p) => MeantSide(p[i].side).names = p[i].side.result.names
           /\ ~InOrder(p) => p[i].side.planned # <<>> /\ MeantSide(p[i].side).names = p[i].side.planned
<1> DEFINE side == p[i].side
<1>1. IsPlan(p) /\ ~MisledIn(p) /\ DOMAIN p = 1 .. Len(p) /\ Len(p) \in Nat
  <2>1. IsPlan(p) /\ ~MisledIn(p)
    BY DEF Straight
  <2>2. QED
    BY <2>1, ShapesAre
<1>2. IsSide(side)
  <2>1. CASE i = 1
    BY <1>1, <2>1 DEF IsPlan
  <2>2. CASE i # 1
    <3>1. IsStep(p[i]) /\ Combines(p[i])
      BY <1>1, <2>2 DEF IsPlan
    <3>2. QED
      BY <3>1 DEF IsStep, IsCombination, Combines
  <2>3. QED
    BY <2>1, <2>2
<1>3. side \in SidesOf(p)
  BY <1>1 DEF SidesOf
<1>4. side.planned = <<>> \/ Range(side.planned) = Range(side.result.names)
  BY <1>1, <1>3 DEF MisledIn
<1>5. InOrder(p) => side.planned \in {<<>>, side.result.names}
  BY <1>3 DEF InOrder
<1>6. ~InOrder(p) => side.planned # <<>>
  BY <1>1, <1>3 DEF InOrder, MisledIn
<1> HIDE DEF side
<1>7. /\ MeantSide(side).ok /\ MeantSide(side).names \in Seq(Range(MeantSide(side).names))
      /\ Range(MeantSide(side).names) = Range(side.result.names)
      /\ MeantSide(side).types = side.result.types /\ MeantSide(side).rows = side.result.rows
      /\ side.planned \in {<<>>, side.result.names} => MeantSide(side).names = side.result.names
      /\ side.planned # <<>> => MeantSide(side).names = side.planned
  BY <1>2, <1>4, SideAgrees
<1>8. QED
  BY <1>2, <1>5, <1>6, <1>7 DEF side

\* What comes in another order than planned comes beside nothing unknown.
LEMMA OutOfOrder ==
    ASSUME NEW p, Straight(p), ~InOrder(p)
    PROVE  \A i \in 1 .. Len(p) : OutputsUpTo(p)[i].known
<1> DEFINE T == {i \in 1 .. Len(p) : OutputsUpTo(p)[i].known}
<1>1. IsPlan(p) /\ Len(p) \in Nat /\ Len(p) >= 1
  <2>1. IsPlan(p)
    BY DEF Straight
  <2>2. QED
    BY <2>1, ShapesAre
<1>2. 1 \in T
  <2>1. p[1].side.planned # <<>>
    BY <1>1, SidesAgree
  <2>2. OutputsUpTo(p)[1] = OutputsOfSide(p[1].side)
    BY <1>1, OutputsAre
  <2>3. QED
    BY <1>1, <2>1, <2>2 DEF OutputsOfSide, Known
<1>3. ASSUME NEW i \in 2 .. Len(p), i - 1 \in T
      PROVE  i \in T
  <2>1. /\ i \in 1 .. Len(p) /\ p[i].op \in {"join", "union", "filter", "select"}
        /\ Combines(p[i]) <=> p[i].op \in {"join", "union"}
        /\ p[i].op = "join" =>
              OutputsUpTo(p)[i] =
                 IF OutputsUpTo(p)[i - 1].known /\ p[i].side.planned # <<>>
                 THEN Known(JoinColumns(p[i].on, OutputsUpTo(p)[i - 1].names, p[i].side.planned), {}) ELSE Unknown
        /\ p[i].op \in {"union", "filter"} => OutputsUpTo(p)[i] = OutputsUpTo(p)[i - 1]
        /\ p[i].op = "select" => OutputsUpTo(p)[i] = Known(OutputsOf(p[i].cols), DOMAIN Produced(p[i].cols))
    BY <1>1, StepAt
  <2>2. OutputsUpTo(p)[i - 1].known
    BY <1>3
  <2>3. p[i].op = "join" => p[i].side.planned # <<>>
    BY <2>1, SidesAgree
  <2>4. OutputsUpTo(p)[i].known
    BY <2>1, <2>2, <2>3 DEF Known
  <2>5. QED
    BY <2>1, <2>4
<1>4. \A i \in 1 .. Len(p) : i \in T
  <2> HIDE DEF T
  <2>1. QED
    BY <1>1, <1>2, <1>3, AlongAPlan
<1>5. QED
  BY <1>4

\* What a select() aliased away is meant to be what its alias is.
AliasesMean(m, cols) ==
    \A n \in DOMAIN Produced(cols) :
        /\ n \in DOMAIN m.types /\ Produced(cols)[n] \in Range(m.names)
        /\ \A k \in DOMAIN m.rows : m.rows[k][n] = m.rows[k][Produced(cols)[n]]

Exact(p, t, m) == Range(t.names) = Range(m.names) /\ (InOrder(p) => t.names = m.names)
Below(p, i) == \E c \in DOMAIN p : Combines(p[c]) /\ i < c

\* The table at a step of a plan has all that is meant there; nothing but that, and in its
\* order, when it is to be combined or no select() has been made of it.
Agrees(p, i) ==
    LET t == SplitUpTo(p)[i].table
        m == MeaningUpTo(p)[i]
    IN  t.ok =>
           /\ Alike(t, m) /\ Range(m.names) \subseteq Range(t.names)
           /\ Plain(p, i) \/ Below(p, i) => Exact(p, t, m)
           /\ \A s : SelectedAt(p, s, i) => AliasesMean(m, p[s].cols)

\* A table that is meant, column by column and in its rows.
LEMMA AlikeWhenSame ==
    ASSUME NEW t, IsTable(t), NEW m, m.ok, Range(m.names) = Range(t.names),
           m.types = t.types, m.rows = t.rows
    PROVE  Alike(t, m)
<1>1. t.types \in [Range(t.names) -> Kinds] /\ t.rows \in [DOMAIN t.rows -> [Range(t.names) -> Nat]]
  BY TableIs
<1>2. QED
  BY <1>1 DEF Alike

\* A side agrees with what it means.
LEMMA AgreesAtFirst ==
    ASSUME NEW p, Straight(p)
    PROVE  Agrees(p, 1)
<1> DEFINE t == SplitUpTo(p)[1].table
           m == MeaningUpTo(p)[1]
           side == p[1].side
<1>1. IsPlan(p) /\ Len(p) \in Nat \ {0}
  <2>1. IsPlan(p)
    BY DEF Straight
  <2>2. QED
    BY <2>1, ShapesAre
<1>2. /\ IsSide(side) /\ MeantSide(side).ok /\ Range(MeantSide(side).names) = Range(side.result.names)
      /\ MeantSide(side).types = side.result.types /\ MeantSide(side).rows = side.result.rows
      /\ InOrder(p) => MeantSide(side).names = side.result.names
  <2>1. 1 \in 1 .. Len(p)
    BY <1>1
  <2>2. QED
    BY <2>1, SidesAgree
<1>3. m = MeantSide(side) /\ SplitUpTo(p)[1] = SideFrame(side)
  BY <1>1, MeaningsAre, SplitsAre
<1>4. t = side.result /\ IsTable(t)
  <2> HIDE DEF side
  <2>1. QED
    BY <1>2, <1>3, SideFrameIs
<1> HIDE DEF m, t, side
<1>5. Alike(t, m)
  BY <1>2, <1>3, <1>4, AlikeWhenSame
<1>6. \A s : ~SelectedAt(p, s, 1)
  BY DEF SelectedAt
<1>7. QED
  BY <1>2, <1>3, <1>4, <1>5, <1>6 DEF Agrees, Exact, m, t

\* What a combination finds on its left: the table that is meant, in its columns only.
LEMMA LeftIs ==
    ASSUME NEW p, Straight(p), NEW i \in 2 .. Len(p), Combines(p[i]), Agrees(p, i - 1),
           SplitUpTo(p)[i - 1].table.ok
    PROVE  LET t == SplitUpTo(p)[i - 1].table
               m == MeaningUpTo(p)[i - 1]
               a == Only(m, m.names)
           IN  /\ IsTable(t) /\ m.ok /\ m.names \in Seq(Range(m.names))
               /\ a.ok /\ a.names = m.names /\ Range(a.names) = Range(t.names)
               /\ a.types = t.types /\ a.rows = t.rows
               /\ InOrder(p) => a.names = t.names
<1> DEFINE t == SplitUpTo(p)[i - 1].table
           m == MeaningUpTo(p)[i - 1]
           a == Only(m, m.names)
<1>1. IsPlan(p) /\ Len(p) \in Nat /\ DOMAIN p = 1 .. Len(p) /\ i - 1 \in 1 .. Len(p)
  <2>1. IsPlan(p)
    BY DEF Straight
  <2>2. QED
    BY <2>1, ShapesAre
<1>2. IsTable(t)
  <2>1. WellShaped(SplitUpTo(p)[i - 1])
    BY <1>1, ShapesAre
  <2>2. QED
    BY <2>1 DEF WellShaped
<1>3. Below(p, i - 1)
  BY <1>1 DEF Below
<1>4. Alike(t, m) /\ Exact(p, t, m)
  BY <1>3 DEF Agrees
<1>5. m.ok
  BY <1>4 DEF Alike
<1>6. m.names \in Seq(Range(m.names))
  BY <1>1, <1>5, MeantColumns
<1> HIDE DEF t, m
<1>7. a.ok /\ a.names = m.names /\ a.types = t.types /\ a.rows = t.rows
  BY <1>2, <1>4, OnlyAlike DEF Exact
<1> HIDE DEF a
<1>8. QED
  BY <1>2, <1>4, <1>5, <1>6, <1>7 DEF Exact, a, t, m

\* A join of what agrees agrees.
LEMMA AgreesJoined ==
    ASSUME NEW p, Straight(p), NEW i \in 2 .. Len(p), p[i].op = "join", Agrees(p, i - 1),
           ~SplitUpTo(p)[i].refused
    PROVE  Agrees(p, i)
<1> DEFINE l == SplitUpTo(p)[i - 1].table
           r == p[i].side.result
           a == Only(MeaningUpTo(p)[i - 1], MeaningUpTo(p)[i - 1].names)
           b == MeantSide(p[i].side)
           on == p[i].on
           how == p[i].how
           u == SplitUpTo(p)[i].table
           w == MeaningUpTo(p)[i]
<1>1. IsPlan(p) /\ i \in 1 .. Len(p) /\ Combines(p[i])
  BY DEF Straight, Combines
<1>2. SUFFICES ASSUME u.ok PROVE Agrees(p, i)
  BY DEF Agrees
<1>3. /\ SplitUpTo(p)[i] = JoinFrames(SplitUpTo(p)[i - 1], SideFrame(p[i].side), on, how, Required(p, i))
      /\ w = MeantJoin(a, b, on, how) /\ IsSide(p[i].side) /\ on \in Seq(Range(on)) /\ on # <<>>
  BY <1>1, StepAt
<1>4. SideFrame(p[i].side).table = r /\ IsTable(r) /\ r.ok
  BY <1>3, SideFrameIs
<1>5. u = LocalJoin(l, r, on, how) /\ IsInjective(on)
  BY <1>3, <1>4 DEF JoinFrames, Frame
<1>6. l.ok
  BY <1>2, <1>5, FailsIsNone DEF LocalJoin
<1>7. /\ IsTable(l) /\ a.ok /\ a.names \in Seq(Range(a.names)) /\ Range(a.names) = Range(l.names)
      /\ a.types = l.types /\ a.rows = l.rows
      /\ InOrder(p) => a.names = l.names
  BY <1>1, <1>6, LeftIs
<1>8. /\ b.ok /\ b.names \in Seq(Range(b.names)) /\ Range(b.names) = Range(r.names)
      /\ b.types = r.types /\ b.rows = r.rows
      /\ InOrder(p) => b.names = r.names
  BY <1>1, SidesAgree
<1> HIDE DEF l, r, a, b, on, how
<1>9. LocalJoin(l, r, on, how).ok
  BY <1>2, <1>5
<1>10. /\ w.ok /\ w.names = JoinColumns(on, a.names, b.names) /\ u.names = JoinColumns(on, l.names, r.names)
       /\ Range(u.names) = Range(w.names) /\ w.types = u.types /\ w.rows = u.rows
  <2> DEFINE x == LocalJoin(l, r, on, how)
             y == MeantJoin(a, b, on, how)
  <2>1. /\ y.ok /\ y.names = JoinColumns(on, a.names, b.names) /\ x.names = JoinColumns(on, l.names, r.names)
        /\ Range(x.names) = Range(y.names) /\ y.types = x.types /\ y.rows = x.rows
    BY <1>3, <1>4, <1>5, <1>7, <1>8, <1>9, JoinAlike
  <2>2. QED
    BY <1>3, <1>5, <2>1
<1>11. IsTable(u)
  BY <1>3, <1>4, <1>5, <1>7, <1>9, JoinMakes
<1> HIDE DEF u, w
<1>12. Alike(u, w)
  BY <1>10, <1>11, AlikeWhenSame
<1>13. Exact(p, u, w)
  BY <1>7, <1>8, <1>10 DEF Exact
<1>14. \A s : ~SelectedAt(p, s, i)
  BY DEF SelectedAt
<1>15. QED
  BY <1>10, <1>12, <1>13, <1>14 DEF Agrees, u, w

\* A union of what agrees agrees.
LEMMA AgreesStacked ==
    ASSUME NEW p, Straight(p), NEW i \in 2 .. Len(p), p[i].op = "union", Agrees(p, i - 1),
           ~SplitUpTo(p)[i].refused
    PROVE  Agrees(p, i)
<1> DEFINE f == SplitUpTo(p)[i - 1]
           l == f.table
           r == p[i].side.result
           a == Only(MeaningUpTo(p)[i - 1], MeaningUpTo(p)[i - 1].names)
           b == MeantSide(p[i].side)
           u == SplitUpTo(p)[i].table
           w == MeaningUpTo(p)[i]
<1>1. IsPlan(p) /\ i \in 1 .. Len(p) /\ Combines(p[i]) /\ ~StraysIn(p) /\ Len(p) \in Nat
  <2>1. IsPlan(p) /\ ~StraysIn(p) /\ Combines(p[i])
    BY DEF Straight, Combines
  <2>2. QED
    BY <2>1, ShapesAre
<1>2. SUFFICES ASSUME u.ok PROVE Agrees(p, i)
  BY DEF Agrees
<1>3. /\ SplitUpTo(p)[i] = UnionFrames(f, SideFrame(p[i].side), Required(p, i))
      /\ w = MeantUnion(a, b) /\ IsSide(p[i].side)
  BY <1>1, StepAt
<1>4. /\ SideFrame(p[i].side).table = r /\ IsTable(r) /\ r.ok
      /\ SideFrame(p[i].side).columns = p[i].side.planned
  BY <1>3, SideFrameIs
<1>5. /\ u = LocalUnion(l, r)
      /\ f.columns # <<>> /\ p[i].side.planned # <<>> => f.columns = p[i].side.planned
  BY <1>3, <1>4 DEF UnionFrames, Frame
<1>6. l.ok
  BY <1>2, <1>5, FailsIsNone DEF LocalUnion
<1>7. /\ IsTable(l) /\ MeaningUpTo(p)[i - 1].ok /\ a.ok /\ a.names = MeaningUpTo(p)[i - 1].names
      /\ Range(a.names) = Range(l.names)
      /\ a.types = l.types /\ a.rows = l.rows
      /\ InOrder(p) => a.names = l.names
  BY <1>1, <1>6, LeftIs
<1>8. /\ b.ok /\ b.types = r.types /\ b.rows = r.rows
      /\ InOrder(p) => b.names = r.names
      /\ ~InOrder(p) => p[i].side.planned # <<>> /\ b.names = p[i].side.planned
  BY <1>1, SidesAgree
<1>9. LocalUnion(l, r).ok
  BY <1>2, <1>5
<1>10. l.names = r.names /\ u.names = l.names /\ IsTable(u)
  <2> HIDE DEF l, r, u
  <2>1. u.ok /\ u = LocalUnion(l, r)
    BY <1>2, <1>5
  <2>2. QED
    BY <1>4, <1>7, <2>1, UnionOf
<1>11. b.names = a.names
  <2>1. CASE InOrder(p)
    BY <1>7, <1>8, <1>10, <2>1
  <2>2. CASE ~InOrder(p)
    <3>1. i - 1 \in 1 .. i - 1 /\ i - 1 \in 1 .. Len(p)
      BY <1>1
    <3>2. OutputsUpTo(p)[i - 1].known
      BY <2>2, <3>1, OutOfOrder
    <3>3. f.columns = OutputsUpTo(p)[i - 1].names
      BY <1>1, <3>1, <3>2, KnownColumns
    <3>4. OutputsUpTo(p)[i - 1].names = a.names
      BY <1>1, <1>7, <3>1, <3>2, KnownNames
    <3>5. OutputsUpTo(p)[i - 1].names # <<>>
      BY <1>1, <3>1, <3>2, ShapesAre
    <3>6. QED
      BY <1>5, <1>8, <2>2, <3>3, <3>4, <3>5
  <2>3. QED
    BY <2>1, <2>2
<1> HIDE DEF f, l, r, a, b
<1>12. w.ok /\ w.names = a.names /\ w.types = u.types /\ w.rows = u.rows
  <2> DEFINE x == LocalUnion(l, r)
             y == MeantUnion(a, b)
  <2>1. y.ok /\ y.names = a.names /\ y.types = x.types /\ y.rows = x.rows
    BY <1>4, <1>7, <1>8, <1>9, <1>11, UnionAlike
  <2>2. QED
    BY <1>3, <1>5, <2>1
<1> HIDE DEF u, w
<1>13. Range(w.names) = Range(u.names)
  BY <1>7, <1>10, <1>12
<1>14. Alike(u, w)
  BY <1>10, <1>12, <1>13, AlikeWhenSame
<1>15. Exact(p, u, w)
  BY <1>7, <1>10, <1>12, <1>13 DEF Exact
<1>16. \A s : ~SelectedAt(p, s, i)
  BY DEF SelectedAt
<1>17. QED
  BY <1>13, <1>14, <1>15, <1>16 DEF Agrees, u, w

\* What a filter over what is meant reads, by the name or by the alias of it.
LEMMA ReadMeans ==
    ASSUME NEW p, Straight(p), NEW i \in 2 .. Len(p), p[i].op = "filter", Agrees(p, i - 1),
           SplitUpTo(p)[i - 1].table.ok,
           Resolve(p[i].ref, SplitUpTo(p)[i - 1].renames) \in Range(SplitUpTo(p)[i - 1].table.names)
    PROVE  LET m == MeaningUpTo(p)[i - 1]
               at == Resolve(p[i].ref, SplitUpTo(p)[i - 1].renames)
           IN  p[i].ref \in DOMAIN m.types /\ \A k \in DOMAIN m.rows : m.rows[k][at] = m.rows[k][p[i].ref]
<1> DEFINE f == SplitUpTo(p)[i - 1]
           m == MeaningUpTo(p)[i - 1]
           n == p[i].ref
           at == Resolve(n, f.renames)
<1>1. /\ IsPlan(p) /\ ~ReadsAlias(p) /\ i - 1 \in 1 .. Len(p) /\ ~Combines(p[i])
      /\ Reads(p[i]) = {n}
  <2>1. IsPlan(p) /\ ~ReadsAlias(p)
    BY DEF Straight
  <2>2. QED
    BY <2>1, StepAt
<1>2. Range(f.table.names) \subseteq DOMAIN m.types
  BY DEF Agrees, Alike
<1>3. CASE Plain(p, i - 1)
  <2>1. at = n
    BY <1>1, <1>3, NamesNoAlias
  <2> HIDE DEF at, f, m, n
  <2>2. QED
    BY <1>2, <2>1 DEF at, f, m, n
<1>4. CASE ~Plain(p, i - 1)
  <2>1. PICK s \in 2 .. i - 1 : SelectedAt(p, s, i - 1)
    BY <1>1, <1>4, StretchesAre
  <2>2. f.renames = Produced(p[s].cols)
    BY <1>1, <2>1, SelectedIs
  <2>3. AliasesMean(m, p[s].cols)
    BY <2>1 DEF Agrees
  <2>4. CASE n \in DOMAIN f.renames
    <3>1. at = Produced(p[s].cols)[n]
      BY <2>2, <2>4 DEF Resolve
    <3> HIDE DEF at, f, m, n
    <3>2. QED
      BY SMTT(60), <2>2, <2>3, <2>4, <3>1 DEF AliasesMean, at, f, m, n
  <2>5. CASE n \notin DOMAIN f.renames
    <3>1. at = n
      BY <2>5 DEF Resolve
    <3> HIDE DEF at, f, m, n
    <3>2. QED
      BY <1>2, <3>1 DEF at, f, m, n
  <2>6. QED
    BY <2>4, <2>5
<1>5. QED
  BY <1>3, <1>4

\* A filter leaves a plain stretch plain, and what is below a combination below it.
LEMMA BelowFilter ==
    ASSUME NEW p, IsPlan(p), NEW i \in 2 .. Len(p), p[i].op = "filter"
    PROVE  /\ Plain(p, i) \/ Below(p, i) => Plain(p, i - 1) \/ Below(p, i - 1)
           /\ \A s : SelectedAt(p, s, i) => SelectedAt(p, s, i - 1)
<1>1. Len(p) \in Nat /\ DOMAIN p = 1 .. Len(p) /\ ~Combines(p[i])
  BY ShapesAre DEF Combines
<1>2. ASSUME Plain(p, i) PROVE Plain(p, i - 1)
  <2>1. PICK c \in 1 .. i : (c = 1 \/ Combines(p[c])) /\ \A k \in c + 1 .. i : p[k].op = "filter"
    BY <1>2 DEF Plain
  <2>2. c # i
    BY <1>1, <2>1
  <2>3. c \in 1 .. i - 1 /\ \A k \in c + 1 .. i - 1 : k \in c + 1 .. i
    BY <1>1, <2>1, <2>2
  <2>4. QED
    BY <2>1, <2>3 DEF Plain
<1>3. ASSUME Below(p, i) PROVE Below(p, i - 1)
  <2>1. PICK c \in 1 .. Len(p) : Combines(p[c]) /\ i < c
    BY <1>1, <1>3 DEF Below
  <2>2. i - 1 < c
    BY <1>1, <2>1
  <2>3. QED
    BY <1>1, <2>1, <2>2 DEF Below
<1>4. ASSUME NEW s, SelectedAt(p, s, i) PROVE SelectedAt(p, s, i - 1)
  <2>1. s \in 2 .. i /\ p[s].op = "select" /\ \A k \in s + 1 .. i : p[k].op = "filter"
    BY <1>4 DEF SelectedAt
  <2>2. s # i
    BY <2>1
  <2>3. s \in 2 .. i - 1 /\ \A k \in s + 1 .. i - 1 : k \in s + 1 .. i
    BY <1>1, <2>1, <2>2
  <2>4. QED
    BY <2>1, <2>3 DEF SelectedAt
<1>5. QED
  BY <1>2, <1>3, <1>4

\* A filter over what agrees agrees.
LEMMA AgreesTested ==
    ASSUME NEW p, Straight(p), NEW i \in 2 .. Len(p), p[i].op = "filter", Agrees(p, i - 1)
    PROVE  Agrees(p, i)
<1> DEFINE f == SplitUpTo(p)[i - 1]
           t == f.table
           m == MeaningUpTo(p)[i - 1]
           n == p[i].ref
           at == Resolve(n, f.renames)
           u == SplitUpTo(p)[i].table
           w == MeaningUpTo(p)[i]
<1>1. IsPlan(p) /\ i - 1 \in 1 .. Len(p) /\ Len(p) \in Nat
  <2>1. IsPlan(p)
    BY DEF Straight
  <2>2. QED
    BY <2>1, ShapesAre
<1>2. SUFFICES ASSUME u.ok PROVE Agrees(p, i)
  BY DEF Agrees
<1>3. u = LocalFilter(t, at) /\ w = MeantFilter(m, n)
  <2>1. SplitUpTo(p)[i] = FilterFrame(f, n) /\ w = MeantFilter(m, n)
    BY <1>1, StepAt
  <2>2. QED
    BY <2>1 DEF FilterFrame, Frame
<1>4. t.ok /\ at \in Range(t.names)
  BY <1>2, <1>3, FailsIsNone DEF LocalFilter
<1>5. IsTable(t)
  <2>1. WellShaped(f)
    BY <1>1, ShapesAre
  <2>2. QED
    BY <1>4, <2>1 DEF WellShaped
<1>6. n \in DOMAIN m.types /\ \A k \in DOMAIN m.rows : m.rows[k][at] = m.rows[k][n]
  BY <1>4, ReadMeans
<1>7. /\ Alike(t, m) /\ Range(m.names) \subseteq Range(t.names)
      /\ Plain(p, i - 1) \/ Below(p, i - 1) => Exact(p, t, m)
      /\ \A s : SelectedAt(p, s, i - 1) => AliasesMean(m, p[s].cols)
  BY <1>4 DEF Agrees
<1> HIDE DEF t, m, n, at
<1>8. /\ Alike(u, w) /\ u.names = t.names /\ w.names = m.names /\ w.types = m.types
      /\ DOMAIN w.rows \subseteq DOMAIN m.rows /\ \A k \in DOMAIN w.rows : w.rows[k] = m.rows[k]
  <2> DEFINE x == LocalFilter(t, at)
             y == MeantFilter(m, n)
  <2>1. x.ok
    BY <1>2, <1>3
  <2>2. /\ Alike(x, y) /\ x.names = t.names /\ y.names = m.names /\ y.types = m.types
        /\ DOMAIN y.rows \subseteq DOMAIN m.rows /\ \A k \in DOMAIN y.rows : y.rows[k] = m.rows[k]
    BY <1>5, <1>6, <1>7, <2>1, FilterAlike
  <2>3. u = x /\ w = y
    BY <1>3
  <2> HIDE DEF x, y, u, w
  <2>4. QED
    BY <2>2, <2>3
<1> HIDE DEF u, w
<1>9. Plain(p, i) \/ Below(p, i) => Exact(p, u, w)
  <2>1. Plain(p, i) \/ Below(p, i) => Plain(p, i - 1) \/ Below(p, i - 1)
    BY <1>1, BelowFilter
  <2>2. Exact(p, t, m) => Exact(p, u, w)
    BY <1>8 DEF Exact
  <2>3. QED
    BY <1>7, <2>1, <2>2
<1>10. ASSUME NEW s, SelectedAt(p, s, i) PROVE AliasesMean(w, p[s].cols)
  <2>1. SelectedAt(p, s, i - 1)
    BY <1>1, <1>10, BelowFilter
  <2>2. AliasesMean(m, p[s].cols)
    BY <1>7, <2>1
  <2>3. QED
    BY <1>8, <2>2 DEF AliasesMean
<1>11. Range(w.names) \subseteq Range(u.names)
  BY <1>7, <1>8
<1>12. QED
  BY <1>8, <1>9, <1>10, <1>11 DEF Agrees, u, w

\* How a select() of a plan is projected.
LEMMA SelectIs ==
    ASSUME NEW p, Straight(p), NEW i \in 2 .. Len(p), p[i].op = "select", SplitUpTo(p)[i].table.ok
    PROVE  LET f == SplitUpTo(p)[i - 1]
               cols == p[i].cols
               sources == Sources(f, cols)
           IN  /\ f.table.ok /\ IsTable(f.table)
               /\ MeaningUpTo(p)[i] = MeantSelect(MeaningUpTo(p)[i - 1], cols)
               /\ \E riding, outputs, from :
                     /\ IsProjection(cols, sources, riding, outputs, from)
                     /\ SplitUpTo(p)[i].table = Picked(CopyEach(f.table, cols, sources), outputs, from)
                     /\ Required(p, i) = {} => outputs = OutputsOf(cols)
<1> DEFINE f == SplitUpTo(p)[i - 1]
           cols == p[i].cols
           sources == Sources(f, cols)
           required == Required(p, i)
           riding == Riding(f, cols, required)
           outputs == OutputsOf(cols) \o riding
           from == Named(f, cols) \o riding
<1>1. IsPlan(p) /\ ~ReadsAlias(p) /\ i - 1 \in 1 .. Len(p)
  <2>1. IsPlan(p) /\ ~ReadsAlias(p)
    BY DEF Straight
  <2>2. QED
    BY <2>1, ShapesAre
<1>2. /\ SplitUpTo(p)[i] = ProjectFrame(f, cols, required)
      /\ MeaningUpTo(p)[i] = MeantSelect(MeaningUpTo(p)[i - 1], cols)
      /\ IsSelection(cols) /\ ~AliasRefused(cols)
  BY <1>1, StepAt
<1>3. f.columns \in Seq(Range(f.columns)) /\ (f.table.ok => IsTable(f.table))
  BY <1>1, ShapesAre DEF WellShaped
<1>4. AreSources(cols, sources)
  BY <1>1, SourcesAre DEF AreSources
<1>5. riding \in Seq(Range(riding)) /\ Range(riding) \subseteq required
  BY <1>3, CarriedAre DEF Riding
<1>6. Range(riding) \cap Range(OutputsOf(cols)) = {}
  BY <1>1, <1>5, RequiredPast
<1>7. Named(f, cols) = NamedOf(cols, sources)
  BY <1>2, SelectionIs DEF Named, NamedOf
<1>8. /\ SplitUpTo(p)[i].table = Picked(CopyEach(f.table, cols, sources), outputs, from)
      /\ outputs \in Seq(Range(outputs)) /\ outputs # <<>> /\ DOMAIN from = DOMAIN outputs
      /\ Range(outputs) = Range(OutputsOf(cols)) \cup Range(riding)
  <2> DEFINE g == ProjectFrame(f, cols, required)
  <2>1. /\ g.table = Picked(CopyEach(f.table, cols, sources), outputs, from)
        /\ outputs \in Seq(Range(outputs)) /\ outputs # <<>> /\ DOMAIN from = DOMAIN outputs
        /\ Range(outputs) = Range(OutputsOf(cols)) \cup Range(riding)
    BY <1>2, <1>3, ProjectIs
  <2>2. QED
    BY <1>2, <2>1
<1> HIDE DEF f, cols, sources, required, riding, outputs, from
<1>9. IsProjection(cols, sources, riding, outputs, from)
  BY <1>2, <1>4, <1>5, <1>6, <1>7, <1>8 DEF IsProjection, outputs, from
<1>10. f.table.ok
  <2>1. CopyEach(f.table, cols, sources).ok
    BY <1>8, FailsIsNone DEF Picked
  <2>2. CopiedTo(CopyEach(f.table, cols, sources), f.table, cols, sources, Len(cols))
    BY <1>2, <1>3, <1>4, <2>1, CopiesMake
  <2>3. QED
    BY <2>2 DEF CopiedTo
<1>11. required = {} => outputs = OutputsOf(cols)
  <2>1. SUFFICES ASSUME required = {} PROVE outputs = OutputsOf(cols)
    OBVIOUS
  <2>2. Range(riding) = {}
    BY <1>5, <2>1
  <2>3. riding = <<>>
    BY <1>5, <2>2, MembersAre
  <2>4. OutputsOf(cols) \in Seq(Range(OutputsOf(cols)))
    BY <1>2, SelectionIs
  <2>5. QED
    BY <2>3, <2>4 DEF outputs
<1>12. \E x, y, z :
          /\ IsProjection(cols, sources, x, y, z)
          /\ SplitUpTo(p)[i].table = Picked(CopyEach(f.table, cols, sources), y, z)
          /\ required = {} => y = OutputsOf(cols)
  BY <1>8, <1>9, <1>11
<1>13. QED
  BY <1>2, <1>3, <1>10, <1>12 DEF f, cols, sources, required

\* A select() over what is meant, its outputs beside what rides along.
LEMMA ProjectionAlike ==
    ASSUME NEW cols, NEW sources, NEW riding, NEW outputs, NEW from,
           IsProjection(cols, sources, riding, outputs, from),
           NEW t, IsTable(t), NEW m, Alike(t, m),
           NEW v, v = Picked(CopyEach(t, cols, sources), outputs, from), v.ok
    PROVE  LET w == MeantSelect(m, cols)
           IN  /\ Alike(v, w) /\ v.names = outputs /\ w.names = OutputsOf(cols)
               /\ Range(w.names) \subseteq Range(v.names) /\ AliasesMean(w, cols)
<1> DEFINE w == MeantSelect(m, cols)
           types == Anew(cols, m.types)
           rows == [k \in DOMAIN m.rows |-> Anew(cols, m.rows[k])]
           shown == Range(OutputsOf(cols))
<1>1. /\ IsSelection(cols) /\ ~AliasRefused(cols) /\ Len(cols) \in Nat /\ DOMAIN cols = 1 .. Len(cols)
      /\ Range(outputs) = shown \cup Range(riding) /\ Range(riding) \cap shown = {}
  BY SelectionIs DEF IsProjection
<1>2. /\ IsTable(v) /\ v.names = outputs /\ w.ok /\ DOMAIN v.rows = DOMAIN m.rows
      /\ \A j \in 1 .. Len(cols) : cols[j].ref \in DOMAIN m.types
      /\ \A n \in shown : \E j \in 1 .. Len(cols) : OutputOf(cols[j]) = n /\ Means(v, m, n, cols[j].ref)
      /\ \A n \in Range(riding) : n \in DOMAIN m.types /\ Means(v, m, n, n)
  BY SelectAlike
<1>3. w = Table(OutputsOf(cols), types, rows)
  BY <1>1, <1>2, MeantSelectIs
<1>4. \A k \in DOMAIN m.rows : DOMAIN m.rows[k] = DOMAIN m.types
  BY DEF Alike
<1>5. /\ DOMAIN types = shown \cup DOMAIN m.types
      /\ \A j \in 1 .. Len(cols) : types[OutputOf(cols[j])] = m.types[cols[j].ref]
      /\ \A n \in DOMAIN m.types \ shown : types[n] = m.types[n]
      /\ \A n \in DOMAIN Produced(cols) : n \in DOMAIN m.types /\ Produced(cols)[n] \in shown
  <2> DEFINE g == m.types
  <2>1. \A j \in 1 .. Len(cols) : cols[j].ref \in DOMAIN g
    BY <1>2
  <2> HIDE DEF g
  <2>2. IsAnew(Anew(cols, g), g, cols)
    BY <1>1, <2>1, AnewIs
  <2>3. QED
    BY <2>2 DEF g, IsAnew
<1>6. ASSUME NEW k \in DOMAIN m.rows
      PROVE  /\ DOMAIN rows[k] = DOMAIN types
             /\ \A j \in 1 .. Len(cols) : rows[k][OutputOf(cols[j])] = m.rows[k][cols[j].ref]
             /\ \A n \in DOMAIN m.types \ shown : rows[k][n] = m.rows[k][n]
             /\ \A n \in DOMAIN Produced(cols) : rows[k][n] = rows[k][Produced(cols)[n]]
  <2> DEFINE g == m.rows[k]
  <2>1. (\A j \in 1 .. Len(cols) : cols[j].ref \in DOMAIN g) /\ DOMAIN g = DOMAIN m.types
    BY <1>2, <1>4
  <2> HIDE DEF g
  <2>2. IsAnew(Anew(cols, g), g, cols)
    BY <1>1, <2>1, AnewIs
  <2>3. rows[k] = Anew(cols, g)
    BY DEF g
  <2> HIDE DEF rows, types
  <2>4. QED
    BY <1>5, <2>1, <2>2, <2>3 DEF g, IsAnew
<1>7. DOMAIN rows = DOMAIN m.rows
  OBVIOUS
<1> HIDE DEF w, types, rows, shown
<1>8. w.names = OutputsOf(cols) /\ w.types = types /\ w.rows = rows
  BY <1>3 DEF Table
<1>9. ASSUME NEW n \in Range(outputs)
      PROVE  Means(v, w, n, n) /\ n \in DOMAIN types
  <2>1. CASE n \in shown
    <3>1. PICK j \in 1 .. Len(cols) : OutputOf(cols[j]) = n /\ Means(v, m, n, cols[j].ref)
      BY <1>2, <2>1
    <3>2. v.types[n] = types[n] /\ n \in DOMAIN types
      BY <1>5, <2>1, <3>1 DEF Means
    <3>3. \A k \in DOMAIN v.rows : v.rows[k][n] = rows[k][n]
      BY <1>2, <1>6, <3>1 DEF Means
    <3>4. QED
      BY <1>8, <3>2, <3>3 DEF Means
  <2>2. CASE n \notin shown
    <3>1. n \in DOMAIN m.types \ shown /\ Means(v, m, n, n)
      BY <1>1, <1>2, <1>9, <2>2
    <3>2. v.types[n] = types[n] /\ n \in DOMAIN types
      BY <1>5, <3>1 DEF Means
    <3>3. \A k \in DOMAIN v.rows : v.rows[k][n] = rows[k][n]
      BY <1>2, <1>6, <3>1 DEF Means
    <3>4. QED
      BY <1>8, <3>2, <3>3 DEF Means
  <2>3. QED
    BY <2>1, <2>2
<1>10. Alike(v, w)
  <2>1. w.ok /\ DOMAIN v.rows = DOMAIN w.rows
    BY <1>2, <1>7, <1>8
  <2>2. Range(v.names) \subseteq DOMAIN w.types
    BY <1>2, <1>8, <1>9
  <2>3. \A n \in Range(v.names) :
           v.types[n] = w.types[n] /\ \A k \in DOMAIN v.rows : v.rows[k][n] = w.rows[k][n]
    BY <1>2, <1>9 DEF Means
  <2>4. \A k \in DOMAIN w.rows : DOMAIN w.rows[k] = DOMAIN w.types
    BY <1>6, <1>7, <1>8
  <2>5. QED
    BY <2>1, <2>2, <2>3, <2>4 DEF Alike
<1>11. Range(w.names) \subseteq Range(v.names)
  BY <1>1, <1>2, <1>8 DEF shown
<1>12. AliasesMean(w, cols)
  BY <1>5, <1>6, <1>7, <1>8 DEF AliasesMean, shown
<1>13. QED
  BY <1>2, <1>8, <1>10, <1>11, <1>12 DEF w

\* A select() of what agrees agrees.
LEMMA AgreesSelected ==
    ASSUME NEW p, Straight(p), NEW i \in 2 .. Len(p), p[i].op = "select", Agrees(p, i - 1)
    PROVE  Agrees(p, i)
<1> DEFINE f == SplitUpTo(p)[i - 1]
           t == f.table
           m == MeaningUpTo(p)[i - 1]
           cols == p[i].cols
           v == SplitUpTo(p)[i].table
           w == MeaningUpTo(p)[i]
<1>1. IsPlan(p) /\ ~StraysIn(p) /\ Len(p) \in Nat /\ DOMAIN p = 1 .. Len(p) /\ ~Combines(p[i])
  <2>1. IsPlan(p) /\ ~StraysIn(p) /\ ~Combines(p[i])
    BY DEF Straight, Combines
  <2>2. QED
    BY <2>1, ShapesAre
<1>2. SUFFICES ASSUME v.ok PROVE Agrees(p, i)
  BY DEF Agrees
<1>3. t.ok /\ IsTable(t) /\ w = MeantSelect(m, cols)
  BY <1>2, SelectIs
<1>4. PICK riding, outputs, from :
         /\ IsProjection(cols, Sources(f, cols), riding, outputs, from)
         /\ v = Picked(CopyEach(t, cols, Sources(f, cols)), outputs, from)
         /\ Required(p, i) = {} => outputs = OutputsOf(cols)
  BY <1>2, SelectIs
<1>5. Alike(t, m)
  BY <1>3 DEF Agrees
<1> DEFINE sources == Sources(f, cols)
           y == MeantSelect(m, cols)
<1>6. /\ Alike(v, y) /\ v.names = outputs /\ y.names = OutputsOf(cols)
      /\ Range(y.names) \subseteq Range(v.names) /\ AliasesMean(y, cols)
  <2> HIDE DEF t, m, cols, sources, v
  <2>1. IsProjection(cols, sources, riding, outputs, from) /\ v = Picked(CopyEach(t, cols, sources), outputs, from)
    BY <1>4 DEF sources
  <2>2. QED
    BY <1>2, <1>3, <1>5, <2>1, ProjectionAlike
<1>7. ~Plain(p, i)
  <2>1. SUFFICES ASSUME Plain(p, i) PROVE FALSE
    OBVIOUS
  <2>2. PICK c \in 1 .. i : (c = 1 \/ Combines(p[c])) /\ \A k \in c + 1 .. i : p[k].op = "filter"
    BY <2>1 DEF Plain
  <2>3. c # i
    BY <1>1, <2>2
  <2>4. i \in c + 1 .. i
    BY <1>1, <2>2, <2>3
  <2>5. QED
    BY <2>2, <2>4
<1>8. Below(p, i) => outputs = OutputsOf(cols)
  BY <1>1, <1>4 DEF Below, StraysIn
<1>9. ASSUME NEW s, SelectedAt(p, s, i) PROVE s = i
  <2>1. s \in 2 .. i /\ \A k \in s + 1 .. i : p[k].op = "filter"
    BY <1>9 DEF SelectedAt
  <2>2. i \notin s + 1 .. i
    BY <2>1
  <2>3. QED
    BY <1>1, <2>1, <2>2
<1> HIDE DEF v, w, y
<1>10. w = y
  BY <1>3 DEF y
<1>11. Plain(p, i) \/ Below(p, i) => Exact(p, v, w)
  BY <1>6, <1>7, <1>8, <1>10 DEF Exact
<1>12. QED
  BY <1>6, <1>9, <1>10, <1>11 DEF Agrees, v, w

\* Every frame of a plan that is not refused agrees with what is meant.
LEMMA FramesAgree ==
    ASSUME NEW p, Straight(p)
    PROVE  \A i \in 1 .. Len(p) : ~SplitUpTo(p)[i].refused => Agrees(p, i)
<1> DEFINE T == {i \in 1 .. Len(p) : ~SplitUpTo(p)[i].refused => Agrees(p, i)}
<1>1. IsPlan(p) /\ Len(p) \in Nat /\ Len(p) >= 1
  <2>1. IsPlan(p)
    BY DEF Straight
  <2>2. QED
    BY <2>1, ShapesAre
<1>2. 1 \in T
  BY <1>1, AgreesAtFirst
<1>3. ASSUME NEW i \in 2 .. Len(p), i - 1 \in T
      PROVE  i \in T
  <2>1. SUFFICES ASSUME ~SplitUpTo(p)[i].refused PROVE Agrees(p, i)
    BY <1>1
  <2>2. ~SplitUpTo(p)[i - 1].refused
    BY <1>1, <2>1, RefusalsStay
  <2>3. Agrees(p, i - 1)
    BY <1>3, <2>2
  <2>4. p[i].op \in {"join", "union", "filter", "select"}
    BY <1>1, StepAt
  <2>5. QED
    BY <2>1, <2>3, <2>4, AgreesJoined, AgreesStacked, AgreesTested, AgreesSelected
<1>4. \A i \in 1 .. Len(p) : i \in T
  <2> HIDE DEF T
  <2>1. QED
    BY <1>1, <1>2, <1>3, AlongAPlan
<1>5. QED
  BY <1>4

\* Columns picked by their own names are those columns.
LEMMA PickedAsNamed ==
    ASSUME NEW t, IsTable(t), NEW m, Alike(t, m), NEW names, names = m.names,
           names \in Seq(Range(names)), names # <<>>, Range(names) \subseteq Range(t.names)
    PROVE  LET u == Picked(t, names, names)
               l == Only(m, names)
           IN  l.ok /\ u.names = l.names /\ u.types = l.types /\ u.rows = l.rows
<1> DEFINE u == Picked(t, names, names)
           types == [n \in Range(names) |-> m.types[n]]
           rows == [k \in DOMAIN m.rows |-> [n \in Range(names) |-> m.rows[k][n]]]
<1>1. u.ok
  BY PickedWorks
<1>2. IsPicked(u, t, names, names)
  BY <1>1, PickedOf
<1>3. \A n \in Range(names) : From(names, names, n) = n
  BY DEF From, Range
<1>4. /\ m.ok /\ DOMAIN t.rows = DOMAIN m.rows
      /\ \A n \in Range(names) :
            t.types[n] = m.types[n] /\ \A k \in DOMAIN t.rows : t.rows[k][n] = m.rows[k][n]
  BY DEF Alike
<1>5. Only(m, names) = Table(names, types, rows)
  BY <1>4 DEF Only
<1>6. [n \in Range(names) |-> t.types[From(names, names, n)]] = types
  BY <1>3, <1>4
<1>7. [k \in DOMAIN t.rows |-> [n \in Range(names) |-> t.rows[k][From(names, names, n)]]] = rows
  <2>1. \A k \in DOMAIN m.rows :
           [n \in Range(names) |-> t.rows[k][From(names, names, n)]] = [n \in Range(names) |-> m.rows[k][n]]
    BY <1>3, <1>4
  <2>2. QED
    BY <1>4, <2>1
<1>8. u.names = names /\ u.types = types /\ u.rows = rows
  BY <1>2, <1>6, <1>7 DEF IsPicked
<1> HIDE DEF u, types, rows
<1>9. QED
  BY <1>5, <1>8 DEF Table, u

\* What is answered is what is meant.
LEMMA AnswersAgree ==
    ASSUME NEW p, Straight(p), ~Split(p).refused, Answer(p).ok
    PROVE  LET u == Answer(p)
               l == Only(Meaning(p), Meaning(p).names)
           IN  l.ok /\ u.names = l.names /\ u.types = l.types /\ u.rows = l.rows
<1> DEFINE t == Split(p).table
           m == Meaning(p)
           out == Outputs(p)
           n == Len(p)
<1>1. IsPlan(p) /\ n \in 1 .. n
  <2>1. IsPlan(p)
    BY DEF Straight
  <2>2. QED
    BY <2>1, ShapesAre
<1>2. t = SplitUpTo(p)[n].table /\ m = MeaningUpTo(p)[n] /\ out = OutputsUpTo(p)[n]
  BY LastIs
<1>3. t.ok /\ IsTable(t)
  BY <1>1, AnswersAreTables
<1>4. Agrees(p, n)
  <2>1. ~SplitUpTo(p)[n].refused
    BY LastIs
  <2>2. QED
    BY <1>1, <2>1, FramesAgree
<1>5. Alike(t, m) /\ Range(m.names) \subseteq Range(t.names) /\ (Plain(p, n) => Exact(p, t, m))
  BY <1>2, <1>3, <1>4 DEF Agrees
<1>6. m.ok
  BY <1>5 DEF Alike
<1>7. Answer(p) = IF out.known THEN Picked(t, out.names, out.names) ELSE t
  BY DEF Answer
<1>8. CASE out.known
  <2>1. out.names = m.names
    BY <1>1, <1>2, <1>6, <1>8, KnownNames
  <2>2. m.names \in Seq(Range(m.names)) /\ m.names # <<>>
    BY <1>1, <1>2, <1>8, <2>1, ShapesAre
  <2>3. Answer(p) = Picked(t, m.names, m.names)
    BY <1>7, <1>8, <2>1
  <2> DEFINE names == m.names
  <2> HIDE DEF t, m
  <2>4. names = m.names /\ names \in Seq(Range(names)) /\ names # <<>> /\ Range(names) \subseteq Range(t.names)
    BY <1>5, <2>2
  <2> HIDE DEF names
  <2>5. LET u == Picked(t, names, names)
            l == Only(m, names)
        IN  l.ok /\ u.names = l.names /\ u.types = l.types /\ u.rows = l.rows
    BY <1>3, <1>5, <2>4, PickedAsNamed
  <2>6. QED
    BY <2>3, <2>4, <2>5 DEF m
<1>9. CASE ~out.known
  <2>1. \A s \in 2 .. n : ~SelectedAt(p, s, n)
    <3>1. SUFFICES ASSUME NEW s \in 2 .. n, SelectedAt(p, s, n) PROVE FALSE
      OBVIOUS
    <3>2. OutputsUpTo(p)[n] = Known(OutputsOf(p[s].cols), DOMAIN Produced(p[s].cols))
      BY <1>1, <3>1, SelectedIs
    <3>3. QED
      BY <1>2, <1>9, <3>2 DEF Known
  <2>2. Plain(p, n)
    BY <1>1, <2>1, StretchesAre
  <2>3. InOrder(p)
    BY <1>1, <1>2, <1>9, OutOfOrder
  <2>4. Range(t.names) = Range(m.names) /\ t.names = m.names
    BY <1>5, <2>2, <2>3 DEF Exact
  <2>5. Answer(p) = t
    BY <1>7, <1>9
  <2> HIDE DEF t, m
  <2>6. LET l == Only(m, m.names)
        IN  l.ok /\ l.names = m.names /\ l.types = t.types /\ l.rows = t.rows
    BY <1>3, <1>5, <2>4, OnlyAlike
  <2>7. QED
    BY <2>4, <2>5, <2>6 DEF m
<1>10. QED
  BY <1>8, <1>9

\* Whatever was combined with whatever and tested or selected above it, the answer is the
\* relational one, row for row: null keys match nothing yet the halves of an aggregate align
\* on them, duplicates multiply, types widen and no column is read for another; but for a name
\* that a side aliased away, a column that strayed and a false hint (_join, _union, _project,
\* LocalJoin, AlignJoin, LocalUnion, promote_type).
THEOREM JoinsAnswersAsMeant == Spec => []AnswersAsMeant
<1>1. ASSUME IInv PROVE AnswersAsMeant
  <2>1. SUFFICES ASSUME Given, ~ReadByAlias, ~Strays, ~Misled PROVE Same(outcome.table, Meant)
    BY DEF AnswersAsMeant
  <2>2. IsPlan(frame) /\ ~ReadsAlias(frame) /\ Combined = {i \in 1 .. Len(frame) : Combines(frame[i])}
    BY <1>1, <2>1, FrameIsPlan
  <2>3. DOMAIN frame = 1 .. Len(frame)
    BY <2>2, ShapesAre
  <2>4. ~StraysIn(frame)
    BY <2>1, <2>2, <2>3 DEF Strays, StraysIn
  <2>5. ~MisledIn(frame)
    BY <2>1 DEF Misled, MisledIn
  <2>6. Straight(frame)
    BY <2>2, <2>4, <2>5 DEF Straight
  <2>7. ~totals /\ ~Split(frame).refused /\ Answer(frame).ok /\ outcome.table = Answer(frame)
    BY <1>1, <2>1, OutcomesAre DEF Given
  <2>8. Meant = Only(Meaning(frame), Meaning(frame).names)
    BY <2>7 DEF Meant
  <2>9. /\ Meant.ok /\ outcome.table.names = Meant.names
        /\ outcome.table.types = Meant.types /\ outcome.table.rows = Meant.rows
    BY <2>6, <2>7, <2>8, AnswersAgree
  <2>10. QED
    BY <2>9 DEF Same
<1>2. QED
  BY <1>1, InitIInv, NextIInv, PTL DEF Spec

=============================================================================

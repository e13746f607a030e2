--------------------------- MODULE Result_proofs ---------------------------
(***************************************************************************)
(* What Result promises, for every selection, column, answer and model.    *)
(***************************************************************************)
EXTENDS Result, FiniteSetTheorems, SequenceTheorems, WellFoundedInduction, TLAPS

(***************************************************************************)
(* Induction over the natural numbers, stated with sets: what holds of a   *)
(* number is a set of numbers.                                             *)
(***************************************************************************)
\* A set of numbers that is not empty has a least one.
LEMMA LeastNumber ==
    ASSUME NEW T, T \subseteq Nat, T # {}
    PROVE  \E m \in T : \A n \in T : m <= n
<1> DEFINE R == OpToRel(<, Nat)
<1>1. IsWellFoundedOn(R, Nat)
  BY NatLessThanWellFounded, Zenon
<1>2. \A m, n \in Nat : n < m => <<n, m>> \in R
  BY Zenon DEF OpToRel
<1> HIDE DEF R
<1>3. PICK m \in T : \A n \in T : <<n, m>> \notin R
  BY <1>1, WFMin
<1>4. \A n \in T : ~(n < m)
  BY <1>2, <1>3
<1>5. QED
  BY <1>4

\* From a number to the next.
LEMMA StepByStep ==
    ASSUME NEW T, 0 \in T, \A n \in Nat : n \in T => n + 1 \in T
    PROVE  \A n \in Nat : n \in T
<1>1. SUFFICES ASSUME Nat \ T # {} PROVE FALSE
  OBVIOUS
<1>2. PICK n \in Nat \ T : \A m \in Nat \ T : n <= m
  BY <1>1, LeastNumber
<1>3. n - 1 \in Nat /\ (n - 1) + 1 = n /\ n - 1 \in T
  BY <1>2
<1>4. QED
  BY <1>2, <1>3

\* What is computed step by step from a first value, within a set of values, exists.
Steps(N, S) == [1 .. N -> [S -> S]]
Computes(f, N, S, first, step) ==
    /\ f \in [0 .. N -> S] /\ f[0] = first
    /\ \A k \in 1 .. N : f[k] = step[k][f[k - 1]]
\* By induction on how many steps were computed.
LEMMA StepByStepFunction ==
    ASSUME NEW N \in Nat, NEW S, NEW first \in S, NEW step \in Steps(N, S)
    PROVE  \E f : Computes(f, N, S, first, step)
<1> USE DEF Steps, Computes
<1> DEFINE Upto(n, f) == Computes(f, n, S, first, step)
           T == {n \in Nat : n <= N => \E f : Upto(n, f)}
<1>1. 0 \in T
  <2> DEFINE f == [m \in 0 .. 0 |-> first]
  <2>1. Upto(0, f)
    OBVIOUS
  <2>2. QED
    BY <2>1
<1>2. ASSUME NEW n \in Nat, n \in T PROVE n + 1 \in T
  <2>1. SUFFICES ASSUME n + 1 <= N PROVE \E f : Upto(n + 1, f)
    OBVIOUS
  <2>2. PICK f : Upto(n, f)
    BY <1>2, <2>1
  <2> DEFINE new == step[n + 1][f[n]]
             g == [m \in 0 .. n + 1 |-> IF m = n + 1 THEN new ELSE f[m]]
  <2>3. new \in S
    <3>1. f[n] \in S /\ n + 1 \in 1 .. N
      BY <2>1, <2>2
    <3>2. QED
      BY <3>1
  <2> HIDE DEF new
  <2>4. g \in [0 .. n + 1 -> S] /\ g[0] = first
    BY <2>2, <2>3
  <2>5. ASSUME NEW k \in 1 .. n + 1 PROVE g[k] = step[k][g[k - 1]]
    <3>1. CASE k = n + 1
      <4>1. g[k] = new /\ g[k - 1] = f[n]
        BY <3>1
      <4>2. QED
        BY <3>1, <4>1 DEF new
    <3>2. CASE k # n + 1
      <4>1. k \in 1 .. n /\ g[k] = f[k] /\ g[k - 1] = f[k - 1]
        BY <3>2
      <4>2. QED
        BY <2>2, <4>1
    <3>3. QED
      BY <3>1, <3>2
  <2>6. QED
    BY <2>4, <2>5
<1>3. \A n \in Nat : n \in T
  <2> HIDE DEF T
  <2>1. QED
    BY <1>1, <1>2, StepByStep
<1>4. QED
  BY <1>3

(***************************************************************************)
(* Chosen places of a sequence.                                            *)
(***************************************************************************)
AreAscending(S, n, at) ==
    at = [k \in 0 .. n |->
             IF k = 0 THEN <<>> ELSE IF k \in S THEN Append(at[k - 1], k) ELSE at[k - 1]]

\* The recursive definition of Ascending has a solution, which Ascending is.
LEMMA AscendingExist ==
    ASSUME NEW S, NEW n \in Nat
    PROVE  \E at : AreAscending(S, n, at) /\ Ascending(S, n) = at[n]
<1> DEFINE none == <<>>
           step == [k \in 1 .. n |->
                       [s \in Seq(Nat) |-> IF k \in S THEN Append(s, k) ELSE s]]
<1>1. none \in Seq(Nat)
  BY EmptySeq
<1>2. step \in Steps(n, Seq(Nat))
  BY DEF Steps
<1>3. \A k \in 1 .. n, s \in Seq(Nat) : step[k][s] = IF k \in S THEN Append(s, k) ELSE s
  OBVIOUS
<1> HIDE DEF none, step
<1>4. PICK f : Computes(f, n, Seq(Nat), none, step)
  BY <1>1, <1>2, StepByStepFunction
<1> DEFINE Value(k) == IF k = 0 THEN none ELSE IF k \in S THEN Append(f[k - 1], k) ELSE f[k - 1]
<1>5. \A k \in 0 .. n : f[k] = Value(k)
  <2>1. SUFFICES ASSUME NEW k \in 0 .. n, k # 0 PROVE f[k] = Value(k)
    BY <1>4 DEF Computes
  <2>2. k \in 1 .. n /\ k - 1 \in 0 .. n
    BY <2>1
  <2>3. QED
    BY <1>3, <1>4, <2>2 DEF Computes
<1> HIDE DEF Value
<1>6. f = [k \in 0 .. n |-> Value(k)]
  BY <1>4, <1>5 DEF Computes
<1>7. AreAscending(S, n, f)
  BY <1>6 DEF AreAscending, Value, none
<1> DEFINE at == CHOOSE u : AreAscending(S, n, u)
<1>8. AreAscending(S, n, at)
  BY <1>7
<1>9. Ascending(S, n) = at[n]
  BY DEF Ascending, AreAscending
<1>10. QED
  BY <1>8, <1>9

\* The members of S up to n, each once and in order
InOrder(S, n, at) ==
    /\ at \in Seq(1 .. n)
    /\ \A k \in 1 .. Len(at) : at[k] \in S
    /\ \A j, k \in 1 .. Len(at) : j < k => at[j] < at[k]
    /\ \A i \in S \cap (1 .. n) : \E k \in 1 .. Len(at) : at[k] = i

\* Ascending lists the members of a set up to n, in order, each once.
LEMMA AscendingInOrder ==
    ASSUME NEW S, NEW n \in Nat
    PROVE  InOrder(S, n, Ascending(S, n))
<1>1. PICK upTo : AreAscending(S, n, upTo) /\ Ascending(S, n) = upTo[n]
  BY AscendingExist
<1> DEFINE T == {k \in Nat : k <= n => InOrder(S, k, upTo[k])}
<1>2. 0 \in T
  <2>1. upTo[0] = <<>>
    BY <1>1 DEF AreAscending
  <2>2. upTo[0] \in Seq(1 .. 0) /\ Len(upTo[0]) = 0
    BY <2>1, EmptySeq
  <2>3. QED
    BY <2>2 DEF InOrder
<1>3. ASSUME NEW k \in Nat, k \in T PROVE k + 1 \in T
  <2>1. SUFFICES ASSUME k + 1 <= n PROVE InOrder(S, k + 1, upTo[k + 1])
    OBVIOUS
  <2>2. k + 1 \in 0 .. n /\ k + 1 # 0 /\ (k + 1) - 1 = k
    BY <2>1
  <2>3. upTo[k + 1] = IF k + 1 \in S THEN Append(upTo[k], k + 1) ELSE upTo[k]
    BY <1>1, <2>2 DEF AreAscending
  <2> DEFINE at == upTo[k]
             new == upTo[k + 1]
  <2>4. InOrder(S, k, at)
    BY <1>3, <2>1
  <2>5. at \in Seq(1 .. k + 1) /\ Len(at) \in Nat /\ \A j \in 1 .. Len(at) : at[j] <= k
    BY <2>4 DEF InOrder
  <2> HIDE DEF at, new
  <2>6. CASE k + 1 \in S
    <3>1. new = Append(at, k + 1)
      BY <2>3, <2>6 DEF at, new
    <3>2. /\ new \in Seq(1 .. k + 1) /\ Len(new) = Len(at) + 1
          /\ \A j \in 1 .. Len(new) : new[j] = IF j = Len(new) THEN k + 1 ELSE at[j]
      BY <2>5, <3>1
    <3>3. \A i \in 1 .. Len(new) : i # Len(new) => i \in 1 .. Len(at)
      BY <2>5, <3>2
    <3>4. \A j \in 1 .. Len(new) : new[j] \in S
      BY <2>4, <2>6, <3>2, <3>3 DEF InOrder
    <3>5. ASSUME NEW i \in 1 .. Len(new), NEW j \in 1 .. Len(new), i < j PROVE new[i] < new[j]
      <4>1. i \in 1 .. Len(at) /\ new[i] = at[i] /\ at[i] <= k
        BY <2>5, <3>2, <3>5
      <4>2. CASE j = Len(new)
        BY SMTT(60), <3>2, <4>1, <4>2
      <4>3. CASE j # Len(new)
        <5>1. j \in 1 .. Len(at) /\ new[j] = at[j]
          BY <2>5, <3>2, <4>3
        <5>2. at[i] < at[j]
          BY <2>4, <3>5, <4>1, <5>1 DEF InOrder
        <5>3. QED
          BY <4>1, <5>1, <5>2
      <4>4. QED
        BY <4>2, <4>3
    <3>6. ASSUME NEW i \in S \cap (1 .. k + 1) PROVE \E j \in 1 .. Len(new) : new[j] = i
      <4>1. CASE i = k + 1
        BY <2>5, <3>2, <4>1
      <4>2. CASE i # k + 1
        <5>1. PICK j \in 1 .. Len(at) : at[j] = i
          <6>1. i \in S \cap (1 .. k)
            BY <4>2
          <6>2. QED
            BY <2>4, <6>1 DEF InOrder
        <5>2. j \in 1 .. Len(new) /\ j # Len(new) /\ new[j] = at[j]
          BY SMTT(60), <2>5, <3>2, <5>1
        <5>3. QED
          BY <5>1, <5>2
      <4>3. QED
        BY <4>1, <4>2
    <3>7. QED
      BY <3>2, <3>4, <3>5, <3>6 DEF InOrder, new
  <2>7. CASE k + 1 \notin S
    <3>1. new = at
      BY <2>3, <2>7 DEF at, new
    <3>2. S \cap (1 .. k + 1) \subseteq S \cap (1 .. k)
      BY <2>7
    <3>3. QED
      BY <2>4, <2>5, <3>1, <3>2 DEF InOrder, new
  <2>8. QED
    BY <2>6, <2>7
<1>4. n \in T
  <2> HIDE DEF T
  <2>1. QED
    BY <1>2, <1>3, StepByStep
<1>5. QED
  BY <1>1, <1>4

\* The first m places come first
LEMMA PrefixComesFirst ==
    ASSUME NEW S, NEW n \in Nat, NEW at, InOrder(S, n, at), NEW m \in Nat, m <= n, 1 .. m \subseteq S
    PROVE  /\ m <= Len(at)
           /\ \A k \in 1 .. m : at[k] = k
           /\ \A k \in 1 .. Len(at) : k > m => at[k] > m
<1> DEFINE T == {k \in Nat : k <= m => k <= Len(at) /\ \A i \in 1 .. k : at[i] = i}
<1>1. Len(at) \in Nat /\ \A k \in 1 .. Len(at) : at[k] \in 1 .. n
  BY DEF InOrder
<1>2. 0 \in T
  BY <1>1
<1>3. ASSUME NEW k \in Nat, k \in T PROVE k + 1 \in T
  <2>1. SUFFICES ASSUME k + 1 <= m PROVE k + 1 <= Len(at) /\ \A i \in 1 .. k + 1 : at[i] = i
    OBVIOUS
  <2>2. k <= Len(at) /\ \A i \in 1 .. k : at[i] = i
    BY <1>3, <2>1
  <2>3. PICK j \in 1 .. Len(at) : at[j] = k + 1
    <3>1. k + 1 \in S \cap (1 .. n)
      BY <2>1
    <3>2. QED
      BY <3>1 DEF InOrder
  <2>4. j > k
    BY <2>2, <2>3
  <2>5. ~(k + 1 < j)
    <3>1. SUFFICES ASSUME k + 1 < j PROVE FALSE
      OBVIOUS
    <3>2. k + 1 \in 1 .. Len(at)
      BY <1>1, <3>1
    <3>3. at[k + 1] < k + 1
      BY <2>3, <3>1, <3>2 DEF InOrder
    <3>4. k \in 1 .. Len(at) => k < at[k + 1]
      BY SMTT(60), <2>2, <3>2 DEF InOrder
    <3>5. QED
      BY <1>1, <3>2, <3>3, <3>4, <2>2
  <2>6. j = k + 1
    BY <2>4, <2>5
  <2>7. QED
    BY <2>2, <2>3, <2>6
<1>4. m <= Len(at) /\ \A k \in 1 .. m : at[k] = k
  <2> HIDE DEF T
  <2>1. m \in T
    BY <1>2, <1>3, StepByStep
  <2>2. QED
    BY <2>1 DEF T
<1>5. ASSUME NEW k \in 1 .. Len(at), k > m PROVE at[k] > m
  <2>1. CASE m = 0
    BY <1>1, <2>1
  <2>2. CASE m # 0
    <3>1. m \in 1 .. Len(at) /\ at[m] = m
      BY <1>4, <2>2
    <3>2. QED
      BY <1>5, <3>1 DEF InOrder
  <2>3. QED
    BY <2>1, <2>2
<1>6. QED
  BY <1>4, <1>5

\* Chosen takes what a sequence has at some places, in their order.
LEMMA ChosenInOrder ==
    ASSUME NEW T, NEW s \in Seq(T), NEW places
    PROVE  LET at == Ascending(places, Len(s))
               chosen == Chosen(s, places)
           IN  /\ InOrder(places, Len(s), at)
               /\ chosen \in Seq(T) /\ Len(chosen) = Len(at)
               /\ \A k \in 1 .. Len(at) : at[k] \in 1 .. Len(s) /\ chosen[k] = s[at[k]]
<1> DEFINE at == Ascending(places, Len(s))
           chosen == Chosen(s, places)
<1>1. InOrder(places, Len(s), at)
  BY AscendingInOrder
<1>2. chosen = [k \in DOMAIN at |-> s[at[k]]]
  BY DEF Chosen
<1> HIDE DEF at, chosen
<1>3. at \in Seq(1 .. Len(s)) /\ DOMAIN at = 1 .. Len(at) /\ Len(at) \in Nat
  BY <1>1 DEF InOrder
<1>4. \A k \in 1 .. Len(at) : at[k] \in 1 .. Len(s) /\ chosen[k] = s[at[k]] /\ s[at[k]] \in T
  BY <1>2, <1>3
<1>5. chosen \in [1 .. Len(at) -> T]
  BY <1>2, <1>3, <1>4
<1>6. chosen \in Seq(T) /\ Len(chosen) = Len(at)
  BY <1>3, <1>5
<1>7. QED
  BY <1>1, <1>4, <1>6 DEF at, chosen

\* When the places are the first m
LEMMA ChosenPrefix ==
    ASSUME NEW T, NEW s \in Seq(T), NEW places, NEW m \in Nat,
           places \cap (1 .. Len(s)) = 1 .. m
    PROVE  /\ Chosen(s, places) \in Seq(T) /\ Len(Chosen(s, places)) = m
           /\ \A k \in 1 .. m : Chosen(s, places)[k] = s[k]
<1> DEFINE at == Ascending(places, Len(s))
           chosen == Chosen(s, places)
<1>1. /\ InOrder(places, Len(s), at)
      /\ chosen \in Seq(T) /\ Len(chosen) = Len(at)
      /\ \A k \in 1 .. Len(at) : at[k] \in 1 .. Len(s) /\ chosen[k] = s[at[k]]
  BY ChosenInOrder
<1> HIDE DEF at, chosen
<1>2. 1 .. m \subseteq places /\ m <= Len(s) /\ Len(s) \in Nat
  <2>1. m = 0 \/ m \in 1 .. m
    OBVIOUS
  <2>2. QED
    BY <2>1
<1>3. /\ m <= Len(at)
      /\ \A k \in 1 .. m : at[k] = k
      /\ \A k \in 1 .. Len(at) : k > m => at[k] > m
  <2>1. InOrder(places, Len(s), at) /\ Len(s) \in Nat
    BY <1>1, <1>2
  <2>2. QED
    BY <1>2, <2>1, PrefixComesFirst
<1>4. \A k \in 1 .. Len(at) : ~(k > m)
  <2>1. SUFFICES ASSUME NEW k \in 1 .. Len(at), k > m PROVE FALSE
    OBVIOUS
  <2>2. at[k] > m
    BY <1>3, <2>1
  <2>3. at[k] \in places \cap (1 .. Len(s))
    BY <1>1 DEF InOrder
  <2>4. QED
    BY <2>2, <2>3
<1>5. Len(at) = m
  <2>1. Len(at) \in Nat
    BY <1>1 DEF InOrder
  <2>2. QED
    BY <1>3, <1>4, <2>1
<1>6. QED
  BY <1>1, <1>3, <1>5 DEF chosen

(***************************************************************************)
(* Items and the columns they come back in.                                *)
(***************************************************************************)
AllBases == Bases \cup {"none", "of_expr", "sort", "column_total", "row_total"}
AllParts == {"name", "scoped", "raw", "summ", "summ_1", "sort", "$omni", "__omni"}
Names == [base : AllBases, part : AllParts, nth : Nat]
Items == [name : Names, ref : FieldNames, calc : Nat]
Whats == {"data", "total", "text", "null", "blank", "::total::", "other"}
Cells == [what : Whats, ref : PlainNames, calc : Nat]
WireColumns == [name : Names, data : Cells, total : Cells]

\* A field comes back under its own name, an expression under one nobody chose
ItemsOK(items) ==
    /\ items \in Seq(Items)
    /\ \A i \in 1 .. Len(items) : items[i].calc = 0 => items[i].name = items[i].ref
    /\ \A i \in 1 .. Len(items) : items[i].calc # 0 => items[i].name.part = "scoped"
    /\ \A i, j \in 1 .. Len(items) : items[i].name = items[j].name => i = j

InWire(item, model) == IF IsFormatted(item, model) THEN [item.name EXCEPT !.part = "raw"] ELSE item.name

\* The columns of the items, and after them the formatted half of every pair
Pairs(items, model, columns) ==
    /\ columns \in Seq(WireColumns) /\ Len(items) <= Len(columns)
    /\ \A i \in 1 .. Len(items) : columns[i].name = InWire(items[i], model)
    /\ \A k \in 1 .. Len(columns) : k > Len(items) =>
          \E i \in 1 .. Len(items) : IsFormatted(items[i], model) /\ columns[k].name = items[i].name
    /\ \A i \in 1 .. Len(items) : IsFormatted(items[i], model) =>
          \E k \in 1 .. Len(columns) : k > Len(items) /\ columns[k].name = items[i].name

\* Both halves of a pair are one column, of the raw half's values and under the pair's name
LEMMA CollapsedPairs ==
    ASSUME NEW items, ItemsOK(items), NEW model, NEW columns, Pairs(items, model, columns)
    PROVE  /\ Len(Collapsed(columns)) = Len(items)
           /\ DOMAIN Collapsed(columns) = 1 .. Len(items)
           /\ \A i \in 1 .. Len(items) :
                 Collapsed(columns)[i] = [columns[i] EXCEPT !.name = items[i].name]
<1> DEFINE m == Len(items)
           halves == FormattedHalves(columns)
           kept == Chosen(columns, DOMAIN columns \ halves)
<1>1. m \in Nat /\ Len(columns) \in Nat /\ DOMAIN columns = 1 .. Len(columns) /\ m <= Len(columns)
  BY DEF ItemsOK, Pairs
<1>2. \A i \in 1 .. m : items[i] \in Items /\ i \in 1 .. Len(columns) /\ columns[i] \in WireColumns
  BY <1>1 DEF ItemsOK, Pairs
<1>3. \A i \in 1 .. m : IsFormatted(items[i], model) =>
         /\ items[i].name = items[i].ref /\ items[i].name = Name(items[i].name.base)
         /\ columns[i].name.part = "raw" /\ columns[i].name.base = items[i].name.base
         /\ [columns[i].name EXCEPT !.part = "name"] = items[i].name
  <2>1. SUFFICES ASSUME NEW i \in 1 .. m, IsFormatted(items[i], model)
                 PROVE  /\ items[i].name = items[i].ref /\ items[i].name = Name(items[i].name.base)
                        /\ columns[i].name.part = "raw" /\ columns[i].name.base = items[i].name.base
                        /\ [columns[i].name EXCEPT !.part = "name"] = items[i].name
    OBVIOUS
  <2>2. items[i].name = items[i].ref
    BY <2>1 DEF IsFormatted, ItemsOK
  <2>3. items[i].name \in FieldNames
    BY <1>2, <2>2 DEF Items
  <2>4. columns[i].name = [items[i].name EXCEPT !.part = "raw"]
    BY <2>1 DEF Pairs, InWire
  <2>5. QED
    BY ZenonT(60), <2>2, <2>3, <2>4 DEF FieldNames, Name
<1>4. \A i \in 1 .. m : ~IsFormatted(items[i], model) =>
         columns[i].name = items[i].name /\ columns[i].name.part # "raw"
  <2>1. SUFFICES ASSUME NEW i \in 1 .. m, ~IsFormatted(items[i], model)
                 PROVE  columns[i].name = items[i].name /\ columns[i].name.part # "raw"
    OBVIOUS
  <2>2. columns[i].name = items[i].name
    BY <2>1 DEF Pairs, InWire
  <2>3. CASE items[i].calc = 0
    <3>1. items[i].name \in FieldNames
      BY <1>2, <2>3 DEF ItemsOK, Items
    <3>2. QED
      BY <2>2, <3>1 DEF FieldNames
  <2>4. CASE items[i].calc # 0
    BY <2>2, <2>4 DEF ItemsOK
  <2>5. QED
    BY <2>2, <2>3, <2>4
<1>5. \A k \in 1 .. Len(columns) : k > m => columns[k].name.part # "raw"
  BY <1>1, <1>2, <1>3 DEF Pairs, Name
<1>6. halves = {k \in 1 .. Len(columns) : k > m}
  <2>1. ASSUME NEW k \in 1 .. Len(columns), k > m PROVE k \in halves
    <3>1. PICK i \in 1 .. m : IsFormatted(items[i], model) /\ columns[k].name = items[i].name
      BY <2>1 DEF Pairs
    <3>2. i \in DOMAIN columns /\ columns[i].name.part = "raw"
          /\ Name(columns[i].name.base) = columns[k].name
      BY <1>1, <1>2, <1>3, <3>1
    <3>3. QED
      BY <1>1, <3>2 DEF FormattedHalves
  <2>2. ASSUME NEW k \in halves PROVE k \in 1 .. Len(columns) /\ k > m
    <3>1. SUFFICES ASSUME k \in 1 .. m PROVE FALSE
      BY <1>1 DEF FormattedHalves
    <3>2. PICK j \in 1 .. Len(columns) :
             columns[j].name.part = "raw" /\ Name(columns[j].name.base) = columns[k].name
      BY <1>1, <2>2 DEF FormattedHalves
    <3>3. j \in 1 .. m /\ IsFormatted(items[j], model)
      BY <1>1, <1>4, <1>5, <3>2
    <3>4. columns[k].name = items[j].name
      BY <1>3, <3>2, <3>3
    <3>5. columns[k].name.part # "raw"
      BY <3>2 DEF Name
    <3>6. ~IsFormatted(items[k], model) /\ columns[k].name = items[k].name
      BY <1>3, <1>4, <3>1, <3>5
    <3>7. QED
      BY <3>1, <3>3, <3>4, <3>6 DEF ItemsOK
  <2>3. QED
    BY <1>1, <2>1, <2>2
<1> HIDE DEF halves
<1>7. Len(kept) = m /\ kept \in Seq(WireColumns) /\ \A i \in 1 .. m : kept[i] = columns[i]
  <2>1. (DOMAIN columns \ halves) \cap (1 .. Len(columns)) = 1 .. m
    BY <1>1, <1>6
  <2>2. columns \in Seq(WireColumns)
    BY DEF Pairs
  <2> HIDE DEF m
  <2>3. QED
    BY <1>1, <2>1, <2>2, ChosenPrefix
<1>8. \A i \in 1 .. m : IsFormatted(items[i], model) =>
         \E h \in halves : columns[h].name = Name(columns[i].name.base)
  <2>1. SUFFICES ASSUME NEW i \in 1 .. m, IsFormatted(items[i], model)
                 PROVE  \E h \in halves : columns[h].name = Name(columns[i].name.base)
    OBVIOUS
  <2>2. PICK h \in 1 .. Len(columns) : h > m /\ columns[h].name = items[i].name
    BY <2>1 DEF Pairs
  <2>3. h \in halves /\ items[i].name = Name(columns[i].name.base)
    BY <1>3, <1>6, <2>1, <2>2
  <2>4. QED
    BY <2>2, <2>3
<1>9. Collapsed(columns) = [i \in DOMAIN kept |->
          IF kept[i].name.part = "raw" /\ \E h \in halves : columns[h].name = Name(kept[i].name.base)
          THEN [kept[i] EXCEPT !.name.part = "name"] ELSE kept[i]]
  BY DEF Collapsed, halves
<1> HIDE DEF kept
<1>10. DOMAIN kept = 1 .. m
  BY <1>7
<1>11. ASSUME NEW i \in 1 .. m
       PROVE  Collapsed(columns)[i] = [columns[i] EXCEPT !.name = items[i].name]
  <2>1. CASE IsFormatted(items[i], model)
    <3>0. i \in DOMAIN kept /\ kept[i] = columns[i]
      BY <1>7, <1>10
    <3>1. kept[i].name.part = "raw" /\ \E h \in halves : columns[h].name = Name(kept[i].name.base)
      <4>1. columns[i].name.part = "raw"
        BY <1>3, <2>1
      <4>2. \E h \in halves : columns[h].name = Name(columns[i].name.base)
        BY <1>8, <2>1
      <4>3. QED
        BY <3>0, <4>1, <4>2
    <3>2. Collapsed(columns)[i] = [columns[i] EXCEPT !.name.part = "name"]
      BY <1>9, <3>0, <3>1
    <3>3. QED
      BY <1>2, <1>3, <2>1, <3>2 DEF WireColumns
  <2>2. CASE ~IsFormatted(items[i], model)
    <3>1. Collapsed(columns)[i] = columns[i] /\ columns[i].name = items[i].name
      BY <1>4, <1>7, <1>9, <1>10, <2>2
    <3>2. QED
      BY <1>2, <3>1 DEF WireColumns
  <2>3. QED
    BY <2>1, <2>2
<1>12. DOMAIN Collapsed(columns) = 1 .. m
  BY <1>9, <1>10
<1>13. Collapsed(columns) \in Seq(WireColumns)
  <2>1. \A i \in 1 .. m : Collapsed(columns)[i] \in WireColumns
    BY <1>2, <1>11 DEF WireColumns, Items
  <2>2. Collapsed(columns) = [i \in 1 .. m |-> Collapsed(columns)[i]]
    BY <1>9, <1>12
  <2>3. QED
    BY <1>1, <2>1, <2>2
<1>14. QED
  BY <1>1, <1>11, <1>12, <1>13

(***************************************************************************)
(* The answer's columns.                                                   *)
(***************************************************************************)
OneAfterAnother(T, s, a, b, c, d, e) ==
    /\ s \in Seq(T) /\ Len(s) = Len(a) + Len(b) + Len(c) + Len(d) + Len(e)
    /\ \A i \in 1 .. Len(a) : s[i] = a[i]
    /\ \A i \in 1 .. Len(b) : s[Len(a) + i] = b[i]
    /\ \A i \in 1 .. Len(c) : s[Len(a) + Len(b) + i] = c[i]
    /\ \A i \in 1 .. Len(d) : s[Len(a) + Len(b) + Len(c) + i] = d[i]
    /\ \A i \in 1 .. Len(e) : s[Len(a) + Len(b) + Len(c) + Len(d) + i] = e[i]

\* Where each of five sequences is when they follow one another.
LEMMA FiveParts ==
    ASSUME NEW T, NEW a \in Seq(T), NEW b \in Seq(T), NEW c \in Seq(T), NEW d \in Seq(T), NEW e \in Seq(T)
    PROVE  OneAfterAnother(T, a \o b \o c \o d \o e, a, b, c, d, e)
<1> DEFINE ab == a \o b
           abc == ab \o c
           abcd == abc \o d
           s == abcd \o e
<1>1. /\ Len(a) \in Nat /\ Len(b) \in Nat /\ Len(c) \in Nat /\ Len(d) \in Nat /\ Len(e) \in Nat
  OBVIOUS
<1>2. /\ ab \in Seq(T) /\ Len(ab) = Len(a) + Len(b)
      /\ \A i \in 1 .. Len(a) + Len(b) : ab[i] = IF i <= Len(a) THEN a[i] ELSE b[i - Len(a)]
  BY ConcatProperties
<1> HIDE DEF ab
<1>3. /\ abc \in Seq(T) /\ Len(abc) = Len(ab) + Len(c)
      /\ \A i \in 1 .. Len(ab) + Len(c) : abc[i] = IF i <= Len(ab) THEN ab[i] ELSE c[i - Len(ab)]
  <2>1. ab \in Seq(T)
    BY <1>2
  <2>2. QED
    BY <2>1, ConcatProperties
<1> HIDE DEF abc
<1>4. /\ abcd \in Seq(T) /\ Len(abcd) = Len(abc) + Len(d)
      /\ \A i \in 1 .. Len(abc) + Len(d) : abcd[i] = IF i <= Len(abc) THEN abc[i] ELSE d[i - Len(abc)]
  <2>1. abc \in Seq(T)
    BY <1>3
  <2>2. QED
    BY <2>1, ConcatProperties
<1> HIDE DEF abcd
<1>5. /\ s \in Seq(T) /\ Len(s) = Len(abcd) + Len(e)
      /\ \A i \in 1 .. Len(abcd) + Len(e) : s[i] = IF i <= Len(abcd) THEN abcd[i] ELSE e[i - Len(abcd)]
  <2>1. abcd \in Seq(T)
    BY <1>4
  <2>2. QED
    BY <2>1, ConcatProperties
<1> HIDE DEF s
<1>6. \A i \in 1 .. Len(a) : s[i] = a[i]
  BY <1>1, <1>2, <1>3, <1>4, <1>5
<1>7. \A i \in 1 .. Len(b) : s[Len(a) + i] = b[i]
  BY SMTT(60), <1>1, <1>2, <1>3, <1>4, <1>5
<1>8. \A i \in 1 .. Len(c) : s[Len(a) + Len(b) + i] = c[i]
  BY SMTT(60), <1>1, <1>2, <1>3, <1>4, <1>5
<1>9. \A i \in 1 .. Len(d) : s[Len(a) + Len(b) + Len(c) + i] = d[i]
  BY SMTT(60), <1>1, <1>2, <1>3, <1>4, <1>5
<1>10. \A i \in 1 .. Len(e) : s[Len(a) + Len(b) + Len(c) + Len(d) + i] = e[i]
  <2>1. SUFFICES ASSUME NEW i \in 1 .. Len(e) PROVE s[Len(abcd) + i] = e[i]
    BY <1>1, <1>2, <1>3, <1>4
  <2>2. Len(abcd) \in Nat
    BY <1>4
  <2>3. Len(abcd) + i \in 1 .. Len(abcd) + Len(e) /\ ~(Len(abcd) + i <= Len(abcd))
        /\ (Len(abcd) + i) - Len(abcd) = i
    BY <1>1, <2>2
  <2>4. QED
    BY <1>5, <2>3
<1>11. s \in Seq(T) /\ Len(s) = Len(a) + Len(b) + Len(c) + Len(d) + Len(e)
  BY <1>1, <1>2, <1>3, <1>4, <1>5
<1>12. QED
  BY <1>6, <1>7, <1>8, <1>9, <1>10, <1>11 DEF s, abcd, abc, ab, OneAfterAnother

\* The cells a table is made of, and which of them differ.
LEMMA CellsOfItems ==
    /\ Null \in Cells /\ Blank \in Cells /\ Grand \in Cells /\ Other \in Cells
    /\ \A what \in Whats, item \in Items : Cell(what, item) \in Cells
    /\ Null # Other /\ Null # Blank /\ Null # Grand /\ Blank # Grand
    /\ \A item : Cell("total", item) # Null /\ Cell("data", item) # Null
<1>1. NoAlias \in PlainNames
  BY DEF NoAlias, Name, PlainNames
<1>2. Nothing.ref \in PlainNames /\ Nothing.calc \in Nat
  BY <1>1 DEF Nothing, NoAlias, Name
<1>3. /\ Null \in Cells /\ Blank \in Cells /\ Grand \in Cells /\ Other \in Cells
  BY <1>2 DEF Null, Blank, Grand, Other, Cell, Cells, Whats
<1>4. \A what \in Whats, item \in Items : Cell(what, item) \in Cells
  BY DEF Cell, Cells, Items, PlainNames
<1>5. /\ Null.what = "null" /\ Blank.what = "blank" /\ Grand.what = "::total::" /\ Other.what = "other"
      /\ \A what, item : Cell(what, item).what = what
  BY DEF Null, Blank, Grand, Other, Cell
<1>6. QED
  BY <1>3, <1>4, <1>5

\* A name that is made up for a field differs from it in its part.
LEMMA PartOfField ==
    ASSUME NEW n \in FieldNames, NEW part \in AllParts
    PROVE  /\ [n EXCEPT !.part = part] \in Names
           /\ [n EXCEPT !.part = part].part = part
           /\ [n EXCEPT !.part = part].base = n.base
           /\ [n EXCEPT !.part = part].nth = 0
  BY DEF FieldNames, Names, AllBases

\* One sidecar per measure that carries its totals, or none at all, before the others
SidecarsAre(items, style, sidecars) ==
    /\ sidecars \in Seq(WireColumns)
    /\ \A k \in 1 .. Len(sidecars) :
          /\ sidecars[k].name.part \in {"summ", "summ_1"}
          /\ sidecars[k].name.nth = 0
          /\ \E i \in 1 .. Len(items) :
                /\ IsMeasured(items[i]) /\ sidecars[k].name.base = items[i].ref.base
                /\ sidecars[k].name.part = "summ" =>
                      sidecars[k].total = IF style.sidecar = "kept" THEN Cell("total", items[i]) ELSE Null
          /\ sidecars[k].name.part = "summ_1" =>
                \E j \in 1 .. Len(sidecars) :
                    j < k /\ sidecars[j].name = [sidecars[k].name EXCEPT !.part = "summ"]
    /\ style.sidecar # "none" => \A i \in 1 .. Len(items) : IsMeasured(items[i]) =>
          \E k \in 1 .. Len(sidecars) : sidecars[k].name = [items[i].ref EXCEPT !.part = "summ"]

\* Every measure has two sidecars, or none has any.
LEMMA SidecarsFor ==
    ASSUME NEW items, ItemsOK(items), NEW style
    PROVE  SidecarsAre(items, style, SidecarsOf(items, style))
<1> DEFINE places == {i \in DOMAIN items : IsMeasured(items[i])}
           at == Ascending(places, Len(items))
           measured == Chosen(items, places)
           First(i) == Sidecar(measured[i], "summ",
                           IF style.sidecar = "kept" THEN Cell("total", measured[i]) ELSE Null)
           Second(i) == Sidecar(measured[i], "summ_1", Other)
           n == Len(measured)
           sidecars == SidecarsOf(items, style)
<1>1. /\ InOrder(places, Len(items), at)
      /\ measured \in Seq(Items) /\ Len(measured) = Len(at)
      /\ \A k \in 1 .. Len(at) : at[k] \in 1 .. Len(items) /\ measured[k] = items[at[k]]
  BY ChosenInOrder DEF ItemsOK
<1>2. CASE style.sidecar = "none"
  <2>1. sidecars = <<>>
    BY <1>2 DEF SidecarsOf
  <2>2. sidecars \in Seq(WireColumns) /\ Len(sidecars) = 0
    BY <2>1, EmptySeq
  <2> HIDE DEF sidecars
  <2>3. QED
    BY <1>2, <2>2 DEF SidecarsAre, sidecars
<1>3. CASE style.sidecar # "none"
  <2> DEFINE firsts == [i \in DOMAIN measured |-> First(i)]
             seconds == [i \in DOMAIN measured |-> Second(i)]
  <2>1. sidecars = firsts \o seconds
    BY <1>3 DEF SidecarsOf
  <2> HIDE DEF sidecars
  <2>2. n \in Nat /\ DOMAIN measured = 1 .. n /\ Len(at) = n
    BY <1>1
  <2>3. \A k \in 1 .. n : at[k] \in 1 .. Len(items) /\ IsMeasured(items[at[k]]) /\ measured[k] = items[at[k]]
    BY <1>1, <2>2 DEF InOrder
  <2>4. \A k \in 1 .. n : measured[k] \in Items
    BY <1>1
  <2>5. \A i \in 1 .. Len(items) : IsMeasured(items[i]) => \E k \in 1 .. n : at[k] = i
    <3>1. DOMAIN items = 1 .. Len(items)
      BY DEF ItemsOK
    <3>2. QED
      BY <1>1, <2>2, <3>1 DEF InOrder
  <2> HIDE DEF measured, at, n, places
  <2>6. \A k \in 1 .. n :
           /\ First(k).name = [measured[k].ref EXCEPT !.part = "summ"]
           /\ First(k).total = IF style.sidecar = "kept" THEN Cell("total", measured[k]) ELSE Null
           /\ Second(k).name = [measured[k].ref EXCEPT !.part = "summ_1"]
    BY DEF Sidecar, Column
  <2>7. \A k \in 1 .. n : First(k) \in WireColumns /\ Second(k) \in WireColumns
    <3>1. SUFFICES ASSUME NEW k \in 1 .. n PROVE First(k) \in WireColumns /\ Second(k) \in WireColumns
      OBVIOUS
    <3>2. measured[k].ref \in FieldNames
      BY <2>4 DEF Items
    <3>3. [measured[k].ref EXCEPT !.part = "summ"] \in Names
          /\ [measured[k].ref EXCEPT !.part = "summ_1"] \in Names
      BY <3>2, PartOfField DEF AllParts
    <3>4. Cell("total", measured[k]) \in Cells
      BY <2>4, CellsOfItems DEF Whats
    <3>5. QED
      BY <3>3, <3>4, CellsOfItems DEF Sidecar, Column, WireColumns
  <2> HIDE DEF First, Second
  <2>8. /\ firsts \in Seq(WireColumns) /\ Len(firsts) = n /\ \A k \in 1 .. n : firsts[k] = First(k)
        /\ seconds \in Seq(WireColumns) /\ Len(seconds) = n /\ \A k \in 1 .. n : seconds[k] = Second(k)
    BY <2>2, <2>7
  <2> HIDE DEF firsts, seconds
  <2>9. /\ sidecars \in Seq(WireColumns) /\ Len(sidecars) = n + n
        /\ \A k \in 1 .. n + n : sidecars[k] = IF k <= n THEN First(k) ELSE Second(k - n)
    <3>1. /\ firsts \o seconds \in Seq(WireColumns)
          /\ Len(firsts \o seconds) = Len(firsts) + Len(seconds)
          /\ \A k \in 1 .. Len(firsts) + Len(seconds) :
                (firsts \o seconds)[k] = IF k <= Len(firsts) THEN firsts[k] ELSE seconds[k - Len(firsts)]
      BY <2>8, ConcatProperties
    <3>2. QED
      BY <2>1, <2>2, <2>8, <3>1
  <2>10. ASSUME NEW k \in 1 .. n
         PROVE  /\ measured[k].ref.part = "name" /\ measured[k].ref.nth = 0
                /\ First(k).name.part = "summ" /\ First(k).name.nth = 0
                /\ First(k).name.base = measured[k].ref.base
                /\ Second(k).name.part = "summ_1" /\ Second(k).name.nth = 0
                /\ Second(k).name.base = measured[k].ref.base
                /\ First(k).name = [Second(k).name EXCEPT !.part = "summ"]
    <3>1. measured[k].ref \in FieldNames
      BY <2>4 DEF Items
    <3>2. measured[k].ref.part = "name" /\ measured[k].ref.nth = 0
      BY <3>1 DEF FieldNames
    <3>3. /\ First(k).name = [measured[k].ref EXCEPT !.part = "summ"]
          /\ Second(k).name = [measured[k].ref EXCEPT !.part = "summ_1"]
      BY <2>6
    <3>4. [[measured[k].ref EXCEPT !.part = "summ_1"] EXCEPT !.part = "summ"]
            = [measured[k].ref EXCEPT !.part = "summ"]
      BY <3>1 DEF FieldNames
    <3>5. QED
      BY <3>1, <3>2, <3>3, <3>4, PartOfField DEF AllParts
  <2>11. ASSUME NEW k \in 1 .. Len(sidecars)
         PROVE  /\ sidecars[k].name.part \in {"summ", "summ_1"}
                /\ sidecars[k].name.nth = 0
                /\ \E i \in 1 .. Len(items) :
                      /\ IsMeasured(items[i]) /\ sidecars[k].name.base = items[i].ref.base
                      /\ sidecars[k].name.part = "summ" =>
                            sidecars[k].total = IF style.sidecar = "kept" THEN Cell("total", items[i]) ELSE Null
                /\ sidecars[k].name.part = "summ_1" =>
                      \E j \in 1 .. Len(sidecars) :
                          j < k /\ sidecars[j].name = [sidecars[k].name EXCEPT !.part = "summ"]
    <3>1. CASE k <= n
      <4>1. k \in 1 .. n /\ sidecars[k] = First(k)
        BY <2>2, <2>9, <3>1
      <4>2. /\ at[k] \in 1 .. Len(items) /\ IsMeasured(items[at[k]]) /\ measured[k] = items[at[k]]
            /\ First(k).total = IF style.sidecar = "kept" THEN Cell("total", measured[k]) ELSE Null
            /\ First(k).name.part = "summ" /\ First(k).name.nth = 0
            /\ First(k).name.base = measured[k].ref.base
        BY <2>3, <2>6, <2>10, <4>1
      <4>3. QED
        BY <4>1, <4>2
    <3>2. CASE ~(k <= n)
      <4>1. k - n \in 1 .. n /\ sidecars[k] = Second(k - n) /\ k - n < k
        BY <2>2, <2>9, <3>2
      <4>2. k - n \in 1 .. Len(sidecars) /\ sidecars[k - n] = First(k - n)
        BY <2>2, <2>9, <4>1
      <4>3. sidecars[k - n].name = [sidecars[k].name EXCEPT !.part = "summ"]
            /\ sidecars[k].name.part = "summ_1" /\ sidecars[k].name.nth = 0
            /\ sidecars[k].name.base = measured[k - n].ref.base
        BY <2>10, <4>1, <4>2
      <4>4. \E i \in 1 .. Len(items) : IsMeasured(items[i]) /\ measured[k - n] = items[i]
        BY <2>3, <4>1
      <4>5. QED
        BY <4>1, <4>2, <4>3, <4>4
    <3>3. QED
      BY <3>1, <3>2
  <2>12. ASSUME NEW i \in 1 .. Len(items), IsMeasured(items[i])
         PROVE  \E k \in 1 .. Len(sidecars) : sidecars[k].name = [items[i].ref EXCEPT !.part = "summ"]
    <3>1. PICK k \in 1 .. n : at[k] = i
      BY <2>5, <2>12
    <3>2. k \in 1 .. Len(sidecars) /\ sidecars[k] = First(k)
      BY <2>2, <2>9
    <3>3. QED
      BY <2>3, <2>6, <3>1, <3>2
  <2>13. QED
    BY <2>9, <2>11, <2>12 DEF SidecarsAre, sidecars
<1>4. QED
  BY <1>2, <1>3

IndicatorsAre(style, indicators) ==
    /\ indicators \in Seq(WireColumns)
    /\ \A k \in 1 .. Len(indicators) :
          /\ indicators[k].name \in Range(Indicators)
          /\ indicators[k].data = style.empty
          /\ indicators[k].total = IF indicators[k].name = style.flag THEN Grand ELSE style.empty
    /\ \A name \in style.indicators : \E k \in 1 .. Len(indicators) : indicators[k].name = name

\* The four spellings of the indicators are no names of fields.
LEMMA IndicatorNames ==
    /\ DOMAIN Indicators = 1 .. 4 /\ Indicators \in Seq(Names) /\ Len(Indicators) = 4
    /\ \A name \in Range(Indicators) : name \in Names /\ name.part \in {"$omni", "__omni"}
    /\ \A name \in Range(Indicators) : \E i \in 1 .. 4 : Indicators[i] = name
<1>1. DOMAIN Indicators = 1 .. 4
  BY DEF Indicators
<1>2. \A i \in 1 .. 4 : Indicators[i] \in Names /\ Indicators[i].part \in {"$omni", "__omni"}
  BY DEF Indicators, Names, AllBases, AllParts
<1>3. Indicators = [i \in 1 .. 4 |-> Indicators[i]]
  BY DEF Indicators
<1>4. Indicators \in Seq(Names) /\ Len(Indicators) = 4
  BY <1>1, <1>2, <1>3
<1>5. QED
  BY <1>1, <1>2, <1>4 DEF Range

\* A style's indicators are the columns it uses, flagged in one of them.
LEMMA IndicatorsFor ==
    ASSUME NEW style, IsStyle(style)
    PROVE  IndicatorsAre(style, IndicatorColumns(style))
<1> DEFINE places == {i \in DOMAIN Indicators : Indicators[i] \in style.indicators}
           at == Ascending(places, Len(Indicators))
           used == Chosen(Indicators, places)
           n == Len(used)
           columns == IndicatorColumns(style)
           Value(i) == Column(used[i], style.empty, IF used[i] = style.flag THEN Grand ELSE style.empty)
<1>1. /\ InOrder(places, Len(Indicators), at)
      /\ used \in Seq(Names) /\ Len(used) = Len(at)
      /\ \A k \in 1 .. Len(at) : at[k] \in 1 .. Len(Indicators) /\ used[k] = Indicators[at[k]]
  <2>1. Indicators \in Seq(Names)
    BY IndicatorNames
  <2>2. QED
    BY <2>1, ChosenInOrder
<1>2. columns = [i \in DOMAIN used |-> Value(i)]
  BY DEF IndicatorColumns
<1> HIDE DEF used, at
<1>3. n \in Nat /\ DOMAIN used = 1 .. n /\ Len(at) = n /\ \A k \in 1 .. n : used[k] \in Names
  BY <1>1
<1>4. \A k \in 1 .. n : used[k] \in Range(Indicators)
  BY <1>1, <1>3, IndicatorNames DEF Range
<1>5. \A name \in style.indicators : \E k \in 1 .. n : used[k] = name
  <2>1. SUFFICES ASSUME NEW name \in style.indicators PROVE \E k \in 1 .. n : used[k] = name
    OBVIOUS
  <2>2. PICK i \in 1 .. 4 : Indicators[i] = name
    BY <2>1, IndicatorNames DEF IsStyle
  <2>3. i \in places \cap (1 .. Len(Indicators))
    BY <2>1, <2>2, IndicatorNames
  <2>4. PICK k \in 1 .. Len(at) : at[k] = i
    BY <1>1, <2>3 DEF InOrder
  <2>5. QED
    BY <1>1, <1>3, <2>2, <2>4
<1> HIDE DEF used, at, n, places
<1>6. \A k \in 1 .. n : /\ Value(k).name = used[k] /\ Value(k).data = style.empty
                        /\ Value(k).total = IF used[k] = style.flag THEN Grand ELSE style.empty
                        /\ Value(k) \in WireColumns
  <2>1. style.empty \in Cells
    BY CellsOfItems DEF IsStyle
  <2>2. QED
    BY <1>3, <2>1, CellsOfItems DEF Column, WireColumns
<1> HIDE DEF Value
<1>7. columns \in Seq(WireColumns) /\ Len(columns) = n /\ \A k \in 1 .. n : columns[k] = Value(k)
  BY <1>2, <1>3, <1>6
<1>8. QED
  BY <1>4, <1>5, <1>6, <1>7 DEF IndicatorsAre

FormattedAre(items, model, formatted) ==
    /\ formatted \in Seq(WireColumns)
    /\ \A k \in 1 .. Len(formatted) : \E i \in 1 .. Len(items) :
          IsFormatted(items[i], model) /\ formatted[k].name = items[i].name
    /\ \A i \in 1 .. Len(items) : IsFormatted(items[i], model) =>
          \E k \in 1 .. Len(formatted) : formatted[k].name = items[i].name

\* The formatted grains of a query.
LEMMA FormattedFor ==
    ASSUME NEW items, ItemsOK(items), NEW model
    PROVE  FormattedAre(items, model, FormattedOf(items, model))
<1> DEFINE places == {i \in DOMAIN items : IsFormatted(items[i], model)}
           at == Ascending(places, Len(items))
           asked == Chosen(items, places)
           n == Len(asked)
           columns == FormattedOf(items, model)
           Value(i) == Column(asked[i].name, Cell("text", asked[i]), Null)
<1>1. /\ InOrder(places, Len(items), at)
      /\ asked \in Seq(Items) /\ Len(asked) = Len(at)
      /\ \A k \in 1 .. Len(at) : at[k] \in 1 .. Len(items) /\ asked[k] = items[at[k]]
  BY ChosenInOrder DEF ItemsOK
<1>2. columns = [i \in DOMAIN asked |-> Value(i)]
  BY DEF FormattedOf
<1> HIDE DEF asked, at
<1>3. n \in Nat /\ DOMAIN asked = 1 .. n /\ Len(at) = n /\ \A k \in 1 .. n : asked[k] \in Items
  BY <1>1
<1>4. \A k \in 1 .. n : \E i \in 1 .. Len(items) : IsFormatted(items[i], model) /\ asked[k] = items[i]
  BY <1>1, <1>3 DEF InOrder
<1>5. \A i \in 1 .. Len(items) : IsFormatted(items[i], model) => \E k \in 1 .. n : asked[k] = items[i]
  <2>1. SUFFICES ASSUME NEW i \in 1 .. Len(items), IsFormatted(items[i], model)
                 PROVE  \E k \in 1 .. n : asked[k] = items[i]
    OBVIOUS
  <2>2. i \in places \cap (1 .. Len(items))
    BY <2>1 DEF ItemsOK
  <2>3. PICK k \in 1 .. Len(at) : at[k] = i
    BY <1>1, <2>2 DEF InOrder
  <2>4. QED
    BY <1>1, <1>3, <2>3
<1> HIDE DEF asked, at, n, places
<1>6. \A k \in 1 .. n : Value(k).name = asked[k].name /\ Value(k) \in WireColumns
  <2>1. \A k \in 1 .. n : asked[k].name \in Names /\ Cell("text", asked[k]) \in Cells
    BY <1>3, CellsOfItems DEF Items, Whats
  <2>2. QED
    BY <2>1, CellsOfItems DEF Column, WireColumns
<1> HIDE DEF Value
<1>7. columns \in Seq(WireColumns) /\ Len(columns) = n /\ \A k \in 1 .. n : columns[k] = Value(k)
  BY <1>2, <1>3, <1>6
<1> HIDE DEF columns
<1>8. ASSUME NEW k \in 1 .. Len(columns)
      PROVE  \E i \in 1 .. Len(items) : IsFormatted(items[i], model) /\ columns[k].name = items[i].name
  <2>1. columns[k].name = asked[k].name /\ k \in 1 .. n
    BY <1>6, <1>7
  <2>2. QED
    BY <1>4, <2>1
<1>9. ASSUME NEW i \in 1 .. Len(items), IsFormatted(items[i], model)
      PROVE  \E k \in 1 .. Len(columns) : columns[k].name = items[i].name
  <2>1. PICK k \in 1 .. n : asked[k] = items[i]
    BY <1>5, <1>9
  <2>2. columns[k].name = asked[k].name /\ k \in 1 .. Len(columns)
    BY <1>6, <1>7
  <2>3. QED
    BY <2>1, <2>2
<1>10. QED
  BY <1>7, <1>8, <1>9 DEF FormattedAre, columns

OwnAre(items, model, style, own) ==
    /\ own \in Seq(WireColumns) /\ Len(own) = Len(items)
    /\ \A i \in 1 .. Len(items) :
          /\ own[i].name = InWire(items[i], model)
          /\ own[i].data = Cell("data", items[i])
          /\ own[i].total = IF ~IsMeasured(items[i]) THEN Null
                            ELSE IF style.sidecar = "kept" THEN Other
                            ELSE Cell("total", items[i])

\* The items' own columns, each in the place of its item.
LEMMA ItemColumns ==
    ASSUME NEW items, ItemsOK(items), NEW model, NEW style
    PROVE  OwnAre(items, model, style, [i \in DOMAIN items |-> ItemColumn(items[i], model, style)])
<1> DEFINE Value(i) == ItemColumn(items[i], model, style)
           columns == [i \in DOMAIN items |-> ItemColumn(items[i], model, style)]
<1>1. Len(items) \in Nat /\ DOMAIN items = 1 .. Len(items) /\ \A i \in 1 .. Len(items) : items[i] \in Items
  BY DEF ItemsOK
<1>2. ASSUME NEW i \in 1 .. Len(items)
      PROVE  /\ Value(i).name = InWire(items[i], model)
             /\ Value(i).data = Cell("data", items[i])
             /\ Value(i).total = IF ~IsMeasured(items[i]) THEN Null
                                 ELSE IF style.sidecar = "kept" THEN Other
                                 ELSE Cell("total", items[i])
             /\ Value(i) = [name |-> Value(i).name, data |-> Value(i).data, total |-> Value(i).total]
  BY DEF ItemColumn, InWire, Column
<1>3. ASSUME NEW i \in 1 .. Len(items) PROVE Value(i) \in WireColumns
  <2>1. InWire(items[i], model) \in Names
    BY <1>1 DEF InWire, Items, Names, AllParts
  <2>2. Cell("data", items[i]) \in Cells /\ Cell("total", items[i]) \in Cells
    BY <1>1, CellsOfItems DEF Whats
  <2> HIDE DEF Value
  <2>3. Value(i).name \in Names /\ Value(i).data \in Cells /\ Value(i).total \in Cells
    BY <1>2, <2>1, <2>2, CellsOfItems
  <2>4. QED
    BY <1>2, <2>3 DEF WireColumns
<1> HIDE DEF Value
<1>4. columns = [i \in 1 .. Len(items) |-> Value(i)]
  BY <1>1 DEF Value
<1> HIDE DEF columns
<1>5. columns \in Seq(WireColumns) /\ Len(columns) = Len(items)
  BY <1>1, <1>3, <1>4
<1>6. \A i \in 1 .. Len(items) : columns[i] = Value(i)
  BY <1>4
<1>7. OwnAre(items, model, style, columns)
  BY <1>2, <1>5, <1>6 DEF OwnAre
<1>8. QED
  BY <1>7 DEF columns

\* An answer's columns: the items', then what is reserved, then the formatted halves
Laid(items, model, style, columns, sidecars, indicators, formatted) ==
    LET m == Len(items)
        s == Len(sidecars)
        n == Len(indicators)
        f == Len(formatted)
    IN  /\ m \in Nat /\ s \in Nat /\ n \in Nat /\ f \in Nat
        /\ columns \in Seq(WireColumns) /\ Len(columns) = m + s + 1 + n + f
        /\ \A i \in 1 .. m :
              /\ columns[i].name = InWire(items[i], model)
              /\ columns[i].data = Cell("data", items[i])
              /\ columns[i].total = IF ~IsMeasured(items[i]) THEN Null
                                    ELSE IF style.sidecar = "kept" THEN Other
                                    ELSE Cell("total", items[i])
        /\ \A i \in 1 .. s : columns[m + i] = sidecars[i]
        /\ columns[m + s + 1] = SortColumn
        /\ \A i \in 1 .. n : columns[m + s + 1 + i] = indicators[i]
        /\ \A i \in 1 .. f : columns[m + s + 1 + n + i] = formatted[i]

\* The server's sort column is no item's.
LEMMA SortIsColumn ==
    /\ SortColumn \in WireColumns /\ SortColumn.name.part = "sort"
    /\ <<SortColumn>> \in Seq(WireColumns) /\ Len(<<SortColumn>>) = 1 /\ <<SortColumn>>[1] = SortColumn
<1>1. /\ SortColumn = [name |-> [base |-> "sort", part |-> "sort", nth |-> 0], data |-> Other, total |-> Other]
  BY DEF SortColumn, Column, Name
<1>2. SortColumn \in WireColumns /\ SortColumn.name.part = "sort"
  BY <1>1, CellsOfItems DEF WireColumns, Names, AllBases, AllParts
<1>3. QED
  BY <1>2

\* Where each of these is in the table a query is answered with.
LEMMA WireLaid ==
    ASSUME NEW query, ItemsOK(query.items), NEW request, IsStyle(request.style)
    PROVE  Laid(query.items, request.model, request.style, WireTable(query, request).columns,
                SidecarsOf(query.items, request.style), IndicatorColumns(request.style),
                FormattedOf(query.items, request.model))
<1> DEFINE items == query.items
           own == [i \in DOMAIN items |-> ItemColumn(items[i], request.model, request.style)]
           sidecars == SidecarsOf(items, request.style)
           sorting == <<SortColumn>>
           indicators == IndicatorColumns(request.style)
           formatted == FormattedOf(items, request.model)
           columns == own \o sidecars \o sorting \o indicators \o formatted
<1>1. WireTable(query, request).columns = columns
  BY DEF WireTable
<1>2. OwnAre(items, request.model, request.style, own)
  BY ItemColumns
<1>3. sidecars \in Seq(WireColumns)
  BY SidecarsFor DEF SidecarsAre
<1>4. sorting \in Seq(WireColumns) /\ Len(sorting) = 1 /\ sorting[1] = SortColumn
  BY SortIsColumn
<1>5. indicators \in Seq(WireColumns)
  BY IndicatorsFor DEF IndicatorsAre
<1>6. formatted \in Seq(WireColumns)
  BY FormattedFor DEF FormattedAre
<1> HIDE DEF own, sidecars, sorting, indicators, formatted
<1>7. OneAfterAnother(WireColumns, columns, own, sidecars, sorting, indicators, formatted)
  <2>1. own \in Seq(WireColumns)
    BY <1>2 DEF OwnAre
  <2>2. sorting \in Seq(WireColumns)
    BY <1>4
  <2>3. QED
    BY <1>3, <1>5, <1>6, <2>1, <2>2, FiveParts
<1> HIDE DEF columns
<1>8. Len(own) \in Nat /\ Len(sidecars) \in Nat /\ Len(indicators) \in Nat /\ Len(formatted) \in Nat
  BY <1>2, <1>3, <1>5, <1>6 DEF OwnAre
<1>9. columns[Len(items) + Len(sidecars) + 1] = SortColumn
  BY <1>2, <1>4, <1>7 DEF OwnAre, OneAfterAnother
<1>10. Laid(items, request.model, request.style, columns, sidecars, indicators, formatted)
  BY <1>2, <1>4, <1>7, <1>8, <1>9 DEF Laid, OwnAre, OneAfterAnother
<1>11. QED
  BY <1>1, <1>10 DEF sidecars, indicators, formatted

\* Where a column is, in an answer: an item's, a sidecar, the sort key, an indicator, or formatted
LEMMA WirePlaces ==
    ASSUME NEW items, ItemsOK(items), NEW model, NEW style, NEW columns,
           NEW sidecars, NEW indicators, NEW formatted,
           SidecarsAre(items, style, sidecars), IndicatorsAre(style, indicators),
           FormattedAre(items, model, formatted),
           Laid(items, model, style, columns, sidecars, indicators, formatted),
           NEW k \in 1 .. Len(columns), k > Len(items)
    PROVE  \/ /\ k - Len(items) \in 1 .. Len(sidecars) /\ columns[k] = sidecars[k - Len(items)]
              /\ columns[k].name.part \in {"summ", "summ_1"}
           \/ columns[k] = SortColumn /\ columns[k].name.part = "sort"
           \/ \E i \in 1 .. Len(indicators) :
                 columns[k] = indicators[i] /\ columns[k].name.part \in {"$omni", "__omni"}
           \/ /\ k > Len(items) + Len(sidecars) + 1 + Len(indicators)
              /\ \E i \in 1 .. Len(items) : IsFormatted(items[i], model) /\ columns[k].name = items[i].name
<1> DEFINE m == Len(items)
           s == Len(sidecars)
           n == Len(indicators)
           f == Len(formatted)
<1>1. m \in Nat /\ s \in Nat /\ n \in Nat /\ f \in Nat /\ k \in Nat /\ k <= m + s + 1 + n + f /\ k > m
  BY DEF Laid
<1> HIDE DEF m, s, n, f
<1>2. CASE k <= m + s
  <2>1. k - m \in 1 .. s /\ m + (k - m) = k
    BY <1>1, <1>2
  <2>2. columns[k] = sidecars[k - m]
    BY <2>1 DEF Laid, m, s, n, f
  <2>3. QED
    BY <2>1, <2>2 DEF SidecarsAre, m, s
<1>3. CASE k = m + s + 1
  BY <1>3, SortIsColumn DEF Laid, m, s
<1>4. CASE k > m + s + 1 /\ k <= m + s + 1 + n
  <2>1. k - (m + s + 1) \in 1 .. n /\ m + s + 1 + (k - (m + s + 1)) = k
    BY <1>1, <1>4
  <2>2. columns[k] = indicators[k - (m + s + 1)]
    BY <2>1 DEF Laid, m, s, n, f
  <2>3. QED
    BY <2>1, <2>2, IndicatorNames DEF IndicatorsAre, n
<1>5. CASE k > m + s + 1 + n
  <2>1. k - (m + s + 1 + n) \in 1 .. f /\ m + s + 1 + n + (k - (m + s + 1 + n)) = k
    BY <1>1, <1>5
  <2>2. columns[k] = formatted[k - (m + s + 1 + n)]
    BY <2>1 DEF Laid, m, s, n, f
  <2>3. QED
    BY <1>5, <2>1, <2>2 DEF FormattedAre, m, s, n, f
<1>6. QED
  BY <1>1, <1>2, <1>3, <1>4, <1>5

\* An answer to a query with these items
IsAnswer(items, model, style, columns, sidecars, indicators, formatted) ==
    /\ ItemsOK(items)
    /\ SidecarsAre(items, style, sidecars) /\ IndicatorsAre(style, indicators)
    /\ FormattedAre(items, model, formatted)
    /\ Laid(items, model, style, columns, sidecars, indicators, formatted)

\* An item's column has a user's name, a generated one or that of a grain's raw half.
LEMMA InWireNames ==
    ASSUME NEW items, ItemsOK(items), NEW model, NEW i \in 1 .. Len(items)
    PROVE  /\ InWire(items[i], model).part \in {"name", "scoped", "raw"}
           /\ items[i].name.part \in {"name", "scoped"}
           /\ items[i].calc = 0 => items[i].name.part = "name"
<1>1. items[i] \in Items
  BY DEF ItemsOK
<1>2. CASE items[i].calc = 0
  <2>1. items[i].name \in FieldNames
    BY <1>1, <1>2 DEF ItemsOK, Items
  <2>2. QED
    BY <1>2, <2>1, PartOfField DEF InWire, FieldNames, AllParts
<1>3. CASE items[i].calc # 0
  <2>1. items[i].name.part = "scoped" /\ ~IsFormatted(items[i], model)
    BY <1>3 DEF ItemsOK, IsFormatted
  <2>2. QED
    BY <1>3, <2>1 DEF InWire
<1>4. QED
  BY <1>2, <1>3

\* What is left of an answer without the reserved columns, whatever became of the totals
LEMMA UnreservedPairs ==
    ASSUME NEW items, NEW model, NEW style, NEW wire, NEW sidecars, NEW indicators, NEW formatted,
           IsAnswer(items, model, style, wire, sidecars, indicators, formatted),
           NEW columns \in Seq(WireColumns), Len(columns) = Len(wire),
           \A k \in 1 .. Len(wire) : columns[k].name = wire[k].name
    PROVE  /\ Pairs(items, model, Chosen(columns, Unreserved(columns)))
           /\ \A i \in 1 .. Len(items) : Chosen(columns, Unreserved(columns))[i] = columns[i]
<1> DEFINE m == Len(items)
           places == Unreserved(columns)
           at == Ascending(places, Len(columns))
           left == Chosen(columns, places)
<1>1. /\ InOrder(places, Len(columns), at)
      /\ left \in Seq(WireColumns) /\ Len(left) = Len(at)
      /\ \A k \in 1 .. Len(at) : at[k] \in 1 .. Len(columns) /\ left[k] = columns[at[k]]
  BY ChosenInOrder
<1>2. m \in Nat /\ m <= Len(columns) /\ Len(columns) \in Nat /\ DOMAIN columns = 1 .. Len(columns)
  BY DEF IsAnswer, Laid
<1>3. 1 .. m \subseteq places
  <2>1. SUFFICES ASSUME NEW i \in 1 .. m PROVE i \in places
    OBVIOUS
  <2>2. i \in 1 .. Len(columns) /\ columns[i].name = InWire(items[i], model)
    BY <1>2 DEF IsAnswer, Laid
  <2>3. ~IsReserved(columns[i].name)
    <3>1. InWire(items[i], model).part \in {"name", "scoped", "raw"}
      BY InWireNames DEF IsAnswer
    <3>2. QED
      BY <2>2, <3>1 DEF IsReserved
  <2>4. QED
    BY <1>2, <2>2, <2>3 DEF Unreserved
<1>4. \A p \in places : p > m => /\ p \in 1 .. Len(columns)
                                 /\ \E i \in 1 .. m : IsFormatted(items[i], model)
                                                      /\ columns[p].name = items[i].name
  <2>1. SUFFICES ASSUME NEW p \in places, p > m
                 PROVE  /\ p \in 1 .. Len(columns)
                        /\ \E i \in 1 .. m : IsFormatted(items[i], model)
                                             /\ columns[p].name = items[i].name
    OBVIOUS
  <2>2. p \in 1 .. Len(columns) /\ ~IsReserved(columns[p].name)
    BY <1>2 DEF Unreserved
  <2>3. wire[p].name.part \notin {"$omni", "__omni", "sort", "summ", "summ_1"}
    BY <2>2 DEF IsReserved
  <2>4. \E i \in 1 .. m : IsFormatted(items[i], model) /\ wire[p].name = items[i].name
    BY <2>1, <2>2, <2>3, WirePlaces DEF IsAnswer
  <2>5. QED
    BY <2>2, <2>4
<1>5. \A i \in 1 .. m : IsFormatted(items[i], model) =>
         \E p \in places : p > m /\ columns[p].name = items[i].name
  <2>1. SUFFICES ASSUME NEW i \in 1 .. m, IsFormatted(items[i], model)
                 PROVE  \E p \in places : p > m /\ columns[p].name = items[i].name
    OBVIOUS
  <2>2. PICK j \in 1 .. Len(formatted) : formatted[j].name = items[i].name
    BY <2>1 DEF IsAnswer, FormattedAre
  <2> DEFINE p == m + Len(sidecars) + 1 + Len(indicators) + j
  <2>3. p \in 1 .. Len(columns) /\ p > m /\ wire[p] = formatted[j]
    BY DEF IsAnswer, Laid
  <2>4. columns[p].name = items[i].name
    BY <2>2, <2>3
  <2>5. items[i].name.part = "name"
    BY <2>1, InWireNames DEF IsAnswer, IsFormatted
  <2>6. p \in places
    BY <1>2, <2>3, <2>4, <2>5 DEF Unreserved, IsReserved
  <2>7. QED
    BY <2>3, <2>4, <2>6
<1> HIDE DEF places, at, left
<1>6. /\ m <= Len(at)
      /\ \A k \in 1 .. m : at[k] = k
      /\ \A k \in 1 .. Len(at) : k > m => at[k] > m
  BY <1>1, <1>2, <1>3, PrefixComesFirst
<1>7. \A i \in 1 .. m : i \in 1 .. Len(at) /\ left[i] = columns[i]
  BY <1>1, <1>2, <1>6
<1>8. ASSUME NEW k \in 1 .. Len(left), k > m
      PROVE  \E i \in 1 .. m : IsFormatted(items[i], model) /\ left[k].name = items[i].name
  <2>1. at[k] \in places /\ at[k] > m /\ left[k] = columns[at[k]]
    BY <1>1, <1>6, <1>8 DEF InOrder
  <2>2. QED
    BY <1>4, <2>1
<1>9. ASSUME NEW i \in 1 .. m, IsFormatted(items[i], model)
      PROVE  \E k \in 1 .. Len(left) : k > m /\ left[k].name = items[i].name
  <2>1. PICK p \in places : p > m /\ columns[p].name = items[i].name
    BY <1>5, <1>9
  <2>2. p \in 1 .. Len(columns)
    BY <1>4, <2>1
  <2>3. PICK k \in 1 .. Len(at) : at[k] = p
    BY <1>1, <2>2 DEF InOrder
  <2>4. ~(k \in 1 .. m)
    BY <1>2, <1>6, <2>1, <2>2, <2>3
  <2>5. k \in 1 .. Len(left) /\ left[k] = columns[p]
    BY <1>1, <2>3
  <2>6. k > m
    BY <1>2, <2>4, <2>5
  <2>7. QED
    BY <2>1, <2>5, <2>6
<1>10. \A i \in 1 .. m : left[i].name = InWire(items[i], model)
  <2>1. SUFFICES ASSUME NEW i \in 1 .. m PROVE left[i].name = InWire(items[i], model)
    OBVIOUS
  <2>2. wire[i].name = InWire(items[i], model) /\ i \in 1 .. Len(wire)
    BY <1>2 DEF IsAnswer, Laid
  <2>3. QED
    BY <1>7, <2>2
<1>11. Pairs(items, model, left)
  BY <1>1, <1>6, <1>8, <1>9, <1>10 DEF Pairs
<1>12. QED
  BY <1>7, <1>11 DEF left, places

ItemNames(items) == [i \in 1 .. Len(items) |-> items[i].name]

\* The columns a user sees: the items', in order and under their names
LEMMA VisibleColumns ==
    ASSUME NEW items, NEW model, NEW style, NEW wire, NEW sidecars, NEW indicators, NEW formatted,
           IsAnswer(items, model, style, wire, sidecars, indicators, formatted),
           NEW columns \in Seq(WireColumns), Len(columns) = Len(wire),
           \A k \in 1 .. Len(wire) : columns[k].name = wire[k].name
    PROVE  /\ Len(Visible(columns)) = Len(items)
           /\ DOMAIN Visible(columns) = 1 .. Len(items)
           /\ \A i \in 1 .. Len(items) : Visible(columns)[i] = [columns[i] EXCEPT !.name = items[i].name]
<1> DEFINE left == Chosen(columns, Unreserved(columns))
<1>1. Pairs(items, model, left) /\ \A i \in 1 .. Len(items) : left[i] = columns[i]
  BY UnreservedPairs
<1>2. Visible(columns) = Collapsed(left)
  BY DEF Visible
<1> HIDE DEF left
<1>3. ItemsOK(items)
  BY DEF IsAnswer
<1>4. QED
  BY <1>1, <1>2, <1>3, CollapsedPairs

\* An answer, as it arrives
LEMMA WireIsAnswer ==
    ASSUME NEW query, ItemsOK(query.items), NEW request, IsStyle(request.style)
    PROVE  IsAnswer(query.items, request.model, request.style, WireTable(query, request).columns,
                    SidecarsOf(query.items, request.style), IndicatorColumns(request.style),
                    FormattedOf(query.items, request.model))
  BY WireLaid, SidecarsFor, IndicatorsFor, FormattedFor DEF IsAnswer

\* What is shown of an answer has the items' names, formatted grains in their place.
LEMMA VisibleNames ==
    ASSUME NEW query, ItemsOK(query.items), NEW request, IsStyle(request.style)
    PROVE  NamesOf(Visible(WireTable(query, request).columns)) = ItemNames(query.items)
<1> DEFINE wire == WireTable(query, request).columns
           visible == Visible(wire)
           items == query.items
           sidecars == SidecarsOf(items, request.style)
           indicators == IndicatorColumns(request.style)
           formatted == FormattedOf(items, request.model)
<1>1. IsAnswer(items, request.model, request.style, wire, sidecars, indicators, formatted)
  BY WireIsAnswer
<1>2. wire \in Seq(WireColumns)
  BY <1>1 DEF IsAnswer, Laid
<1>3. /\ DOMAIN visible = 1 .. Len(items)
      /\ \A i \in 1 .. Len(items) : visible[i] = [wire[i] EXCEPT !.name = items[i].name]
  <2> HIDE DEF wire, items, sidecars, indicators, formatted
  <2>1. QED
    BY <1>1, <1>2, VisibleColumns
<1>4. \A i \in 1 .. Len(items) : wire[i] \in WireColumns
  <2> HIDE DEF wire, items, sidecars, indicators, formatted
  <2>1. Len(items) \in Nat /\ Len(items) <= Len(wire)
    BY <1>1 DEF IsAnswer, Laid
  <2>2. QED
    BY <1>2, <2>1
<1>5. \A i \in 1 .. Len(items) : visible[i].name = items[i].name
  BY <1>3, <1>4 DEF WireColumns
<1> HIDE DEF visible
<1>6. QED
  BY <1>3, <1>5 DEF NamesOf, ItemNames, visible

\* What a plan describes has the items' names as well.
LEMMA PlannedNames ==
    ASSUME NEW query, ItemsOK(query.items), NEW model
    PROVE  Planned(query, model) = ItemNames(query.items)
<1> DEFINE items == query.items
           none == [sidecar |-> "none"]
           own == [i \in DOMAIN items |-> ItemColumn(items[i], model, none)]
           formatted == FormattedOf(items, model)
           columns == own \o formatted
           seen == Collapsed(columns)
           m == Len(items)
<1>1. Planned(query, model) = NamesOf(seen)
  BY DEF Planned
<1>2. OwnAre(items, model, none, own)
  BY ItemColumns
<1>3. FormattedAre(items, model, formatted)
  BY FormattedFor
<1> HIDE DEF none, own, formatted
<1>4. own \in Seq(WireColumns) /\ formatted \in Seq(WireColumns) /\ Len(own) = m
  BY <1>2, <1>3 DEF OwnAre, FormattedAre
<1>5. /\ columns \in Seq(WireColumns) /\ Len(columns) = Len(own) + Len(formatted)
      /\ \A i \in 1 .. Len(own) + Len(formatted) :
            columns[i] = IF i <= Len(own) THEN own[i] ELSE formatted[i - Len(own)]
  <2>1. own \in Seq(WireColumns) /\ formatted \in Seq(WireColumns)
    BY <1>4
  <2>2. QED
    BY <2>1, ConcatProperties
<1> HIDE DEF columns, m
<1>6. m \in Nat /\ Len(formatted) \in Nat
  BY <1>4
<1>7. \A i \in 1 .. m : i \in 1 .. Len(columns) /\ columns[i] = own[i]
  BY <1>4, <1>5, <1>6
<1>8. \A i \in 1 .. m : columns[i].name = InWire(items[i], model)
  BY <1>2, <1>7 DEF OwnAre, m
<1>9. ASSUME NEW k \in 1 .. Len(columns), k > m
      PROVE  \E i \in 1 .. m : IsFormatted(items[i], model) /\ columns[k].name = items[i].name
  <2>1. k - m \in 1 .. Len(formatted) /\ columns[k] = formatted[k - m]
    BY <1>4, <1>5, <1>6, <1>9
  <2>2. QED
    BY <1>3, <2>1 DEF FormattedAre, m
<1>10. ASSUME NEW i \in 1 .. m, IsFormatted(items[i], model)
       PROVE  \E k \in 1 .. Len(columns) : k > m /\ columns[k].name = items[i].name
  <2>1. PICK j \in 1 .. Len(formatted) : formatted[j].name = items[i].name
    BY <1>3, <1>10 DEF FormattedAre, m
  <2>2. m + j \in 1 .. Len(columns) /\ m + j > m /\ columns[m + j] = formatted[j]
    BY <1>4, <1>5, <1>6
  <2>3. QED
    BY <2>1, <2>2
<1>11. Pairs(items, model, columns)
  BY <1>4, <1>5, <1>6, <1>8, <1>9, <1>10 DEF Pairs, m
<1>12. /\ DOMAIN seen = 1 .. m
       /\ \A i \in 1 .. m : seen[i] = [columns[i] EXCEPT !.name = items[i].name]
  BY <1>11, CollapsedPairs DEF m
<1>13. \A i \in 1 .. m : columns[i] \in WireColumns
  BY <1>5, <1>7
<1>14. \A i \in 1 .. m : seen[i].name = items[i].name
  BY <1>12, <1>13 DEF WireColumns
<1> HIDE DEF seen
<1>15. QED
  BY <1>1, <1>12, <1>14 DEF NamesOf, ItemNames, m

(***************************************************************************)
(* Queries and the names they give.                                        *)
(***************************************************************************)

\* The names a query announces are those its answer has once it is renamed
QueryOK(query) ==
    /\ ItemsOK(query.items)
    /\ Renamed(ItemNames(query.items), query.aliases) = query.columns

\* Every alias that applies to a name gives it the new one, if it does not have it already
RenamedAs(names, aliases, i, new) ==
    /\ \A key \in DOMAIN aliases : i \in Targets(names, key) => aliases[key] = new
    /\ (\E key \in DOMAIN aliases : i \in Targets(names, key)) \/ names[i] = new

\* The name a column is renamed to,
LEMMA RenamedTo ==
    ASSUME NEW names, NEW aliases, NEW i \in DOMAIN names, NEW new, RenamedAs(names, aliases, i, new)
    PROVE  Renamed(names, aliases)[i] = new
<1> USE DEF RenamedAs
<1>1. CASE \E key \in DOMAIN aliases : i \in Targets(names, key)
  <2> DEFINE key == CHOOSE key \in DOMAIN aliases : i \in Targets(names, key)
  <2>1. key \in DOMAIN aliases /\ i \in Targets(names, key)
    BY <1>1
  <2>2. Renamed(names, aliases)[i] = aliases[key]
    BY <1>1 DEF Renamed
  <2> HIDE DEF key
  <2>3. QED
    BY <2>1, <2>2
<1>2. CASE ~\E key \in DOMAIN aliases : i \in Targets(names, key)
  BY <1>2 DEF Renamed
<1>3. QED
  BY <1>1, <1>2

\* column by column.
LEMMA RenamedDomain ==
    ASSUME NEW names, NEW aliases
    PROVE  /\ DOMAIN Renamed(names, aliases) = DOMAIN names
           /\ Renamed(names, aliases) = [i \in DOMAIN names |-> Renamed(names, aliases)[i]]
  BY DEF Renamed

\* Without aliases every name stays.
LEMMA NothingRenamed ==
    ASSUME NEW names, names = [i \in DOMAIN names |-> names[i]], NEW aliases, DOMAIN aliases = {}
    PROVE  Renamed(names, aliases) = names
  BY DEF Renamed

\* Two expressions have one key only if they are the same expression.
LEMMA Keys ==
    ASSUME NEW c, c.ref \in FieldNames, c.calc \in Nat,
           NEW d, d.ref \in FieldNames, d.calc \in Nat
    PROVE  /\ c.calc = 0 => KeyOf(c) = c.ref
           /\ c.calc # 0 => KeyOf(c).part = "calc"
           /\ KeyOf(c) = KeyOf(d) => c.ref = d.ref /\ c.calc = d.calc
           /\ KeyOf(c) # NoAlias
<1>1. /\ c.ref = [base |-> c.ref.base, part |-> "name", nth |-> 0] /\ c.ref.base \in Bases
      /\ d.ref = [base |-> d.ref.base, part |-> "name", nth |-> 0] /\ d.ref.base \in Bases
  BY DEF FieldNames
<1>2. c.calc # 0 => KeyOf(c) = [base |-> c.ref.base, part |-> "calc", nth |-> c.calc]
  BY <1>1 DEF KeyOf
<1>3. d.calc # 0 => KeyOf(d) = [base |-> d.ref.base, part |-> "calc", nth |-> d.calc]
  BY <1>1 DEF KeyOf
<1>4. (c.calc = 0 => KeyOf(c) = c.ref) /\ (d.calc = 0 => KeyOf(d) = d.ref)
  BY DEF KeyOf
<1>5. KeyOf(c) # NoAlias
  BY <1>1, <1>2, <1>4, ResultAssumption DEF NoAlias, Name
<1>6. KeyOf(c) = KeyOf(d) => c.ref = d.ref /\ c.calc = d.calc
  <2>1. CASE c.calc = 0 /\ d.calc = 0
    BY <1>4, <2>1
  <2>2. CASE c.calc # 0 /\ d.calc # 0
    BY <1>1, <1>2, <1>3, <2>2
  <2>3. CASE (c.calc = 0) # (d.calc = 0)
    <3>1. KeyOf(c).part # KeyOf(d).part
      BY <1>1, <1>2, <1>3, <1>4, <2>3
    <3>2. QED
      BY <3>1
  <2>4. QED
    BY <2>1, <2>2, <2>3
<1>7. QED
  BY <1>2, <1>4, <1>5, <1>6

\* Columns of one name are columns of one thing, unless they are refused
LEMMA SameOutputs ==
    ASSUME NEW cols \in Seq(SelectColumns), ~AliasRefused(cols),
           NEW i \in 1 .. Len(cols), NEW j \in 1 .. Len(cols),
           OutputOf(cols[i]) = OutputOf(cols[j])
    PROVE  KeyOf(cols[i]) = KeyOf(cols[j])
<1>1. DOMAIN cols = 1 .. Len(cols)
  OBVIOUS
<1>2. \A k, l \in 1 .. Len(cols) : cols[k].alias # NoAlias =>
         /\ k # l => cols[l].alias # cols[k].alias
         /\ cols[k].alias # KeyOf(cols[k]) => KeyOf(cols[l]) # cols[k].alias
  BY <1>1 DEF AliasRefused
<1>3. CASE cols[i].alias = NoAlias /\ cols[j].alias = NoAlias
  BY <1>3 DEF OutputOf
<1>4. CASE cols[i].alias # NoAlias /\ cols[j].alias # NoAlias
  BY <1>2, <1>4 DEF OutputOf
<1>5. CASE cols[i].alias # NoAlias /\ cols[j].alias = NoAlias
  BY <1>2, <1>5 DEF OutputOf
<1>6. CASE cols[i].alias = NoAlias /\ cols[j].alias # NoAlias
  BY <1>2, <1>6 DEF OutputOf
<1>7. QED
  BY <1>3, <1>4, <1>5, <1>6

(***************************************************************************)
(* A stored query.                                                         *)
(***************************************************************************)
LEMMA StoredOK ==
    /\ QueryOK(StoredQuery)
    /\ StoredQuery.columns = StoredFields /\ Len(StoredQuery.items) = Len(StoredFields)
    /\ \A i \in 1 .. Len(StoredFields) :
          StoredQuery.items[i].ref = StoredFields[i] /\ StoredQuery.items[i].calc = 0
<1> DEFINE items == StoredQuery.items
           n == Len(StoredFields)
           Field(i) == [name |-> StoredFields[i], ref |-> StoredFields[i], calc |-> 0]
<1>1. /\ items = [i \in DOMAIN StoredFields |-> Field(i)]
      /\ StoredQuery.columns = StoredFields /\ StoredQuery.aliases = <<>>
  BY DEF StoredQuery, Item
<1>2. StoredFields \in Seq(FieldNames) /\ n \in Nat /\ DOMAIN StoredFields = 1 .. n
  BY ResultAssumption
<1>3. \A i, j \in 1 .. n : StoredFields[i] = StoredFields[j] => i = j
  BY <1>2, ResultAssumption
<1>4. ASSUME NEW i \in 1 .. n PROVE Field(i) \in Items
  <2>1. StoredFields[i] \in FieldNames
    BY <1>2
  <2>2. StoredFields[i] \in Names
    BY <2>1 DEF FieldNames, Names, AllBases, AllParts
  <2>3. QED
    BY <2>1, <2>2 DEF Items
<1>5. items = [i \in 1 .. n |-> Field(i)]
  BY <1>1, <1>2
<1> HIDE DEF items
<1>6. /\ items \in Seq(Items) /\ Len(items) = n
      /\ \A i \in 1 .. n : items[i] = Field(i)
  <2>1. \A i \in 1 .. n : Field(i) \in Items
    BY <1>4
  <2>2. n \in Nat
    BY <1>2
  <2> HIDE DEF n, Field
  <2>3. items \in [1 .. n -> Items] /\ \A i \in 1 .. n : items[i] = Field(i)
    BY <1>5, <2>1
  <2>4. QED
    BY <2>2, <2>3
<1>7. ASSUME NEW i \in 1 .. n
      PROVE  items[i].name = StoredFields[i] /\ items[i].ref = StoredFields[i] /\ items[i].calc = 0
  <2>1. items[i] = [name |-> StoredFields[i], ref |-> StoredFields[i], calc |-> 0]
    BY <1>6
  <2>2. QED
    BY <2>1
<1>8. items \in Seq(Items) /\ Len(items) = n
  BY <1>6
<1> HIDE DEF n, Field
<1>9. ItemsOK(items)
  BY <1>3, <1>7, <1>8 DEF ItemsOK
<1>10. ItemNames(items) = StoredFields
  <2>1. ItemNames(items) = [i \in 1 .. n |-> StoredFields[i]]
    BY <1>7, <1>8 DEF ItemNames
  <2>2. StoredFields = [i \in 1 .. n |-> StoredFields[i]]
    BY <1>2
  <2>3. QED
    BY <2>1, <2>2
<1>11. Renamed(ItemNames(items), StoredQuery.aliases) = StoredFields
  <2>1. DOMAIN StoredQuery.aliases = {}
    BY <1>1
  <2>2. StoredFields = [i \in DOMAIN StoredFields |-> StoredFields[i]]
    BY <1>2
  <2>3. QED
    BY <1>10, <2>1, <2>2, NothingRenamed
<1>12. QED
  BY <1>1, <1>7, <1>8, <1>9, <1>11 DEF QueryOK, items, n

(***************************************************************************)
(* What a frame's steps are, and what they mean.                           *)
(***************************************************************************)
Selects == Selections \cup Narrowings
Exprs == [ref : FieldNames, calc : Nat]

\* The measures that are asked for as such
Governed == {m.ref : m \in {m \in UNION {Range(cols) : cols \in Selects} : m.measured}}


\* What a select() is made of (ResultAssumption).
LEMMA SelectsOK ==
    /\ Selects \subseteq Seq(SelectColumns)
    /\ Columns \subseteq DerivedColumns
    /\ \A cols \in Selects : \A i \in 1 .. Len(cols) :
          /\ cols[i].measured => cols[i].ref \in Governed
          /\ cols[i].alias \in Governed => cols[i].ref = cols[i].alias /\ cols[i].calc = 0
    /\ Governed \subseteq FieldNames
<1>1. Selects \subseteq Seq(SelectColumns) /\ Columns \subseteq DerivedColumns
  BY ResultAssumption DEF Selects
<1>2. \A cols \in Selects : /\ cols \in Seq(SelectColumns) /\ DOMAIN cols = 1 .. Len(cols)
                            /\ \A i \in 1 .. Len(cols) : cols[i] \in Range(cols) /\ cols[i] \in SelectColumns
                            /\ Range(cols) \subseteq SelectColumns
  BY <1>1 DEF Range
<1>3. Governed \subseteq FieldNames
  BY <1>2 DEF Governed, SelectColumns
<1>4. ASSUME NEW cols \in Selects, NEW i \in 1 .. Len(cols)
      PROVE  cols[i].measured => cols[i].ref \in Governed
  BY <1>2 DEF Governed
<1>5. ASSUME NEW cols \in Selects, NEW i \in 1 .. Len(cols), cols[i].alias \in Governed
      PROVE  cols[i].ref = cols[i].alias /\ cols[i].calc = 0
  <2>1. PICK asking \in Selects : \E m \in Range(asking) : m.measured /\ m.ref = cols[i].alias
    BY <1>5 DEF Governed
  <2>2. cols[i] \in Range(cols)
    BY <1>2
  <2>3. QED
    BY <2>1, <2>2, ResultAssumption DEF Selects
<1>6. QED
  BY <1>1, <1>3, <1>4, <1>5

\* Sequences that repeat themselves at the same places
LEMMA SameFirstPlaces ==
    ASSUME NEW T, NEW s \in Seq(T), NEW U, NEW t \in Seq(U), Len(s) = Len(t),
           \A i, j \in 1 .. Len(s) : s[i] = s[j] <=> t[i] = t[j]
    PROVE  FirstPlaces(s) = FirstPlaces(t)
<1>1. DOMAIN s = 1 .. Len(s) /\ DOMAIN t = 1 .. Len(s) /\ Len(s) \in Nat
  OBVIOUS
<1>2. ASSUME NEW i \in 1 .. Len(s)
      PROVE  (\A j \in 1 .. i - 1 : s[j] # s[i]) <=> (\A j \in 1 .. i - 1 : t[j] # t[i])
  <2>1. \A j \in 1 .. i - 1 : j \in 1 .. Len(s)
    BY <1>1
  <2>2. QED
    BY <2>1
<1>3. QED
  BY <1>1, <1>2 DEF FirstPlaces

\* The first places of a sequence: each value once
FirstAt(s, at) ==
    /\ at \in Seq(1 .. Len(s)) /\ Len(at) \in Nat /\ DOMAIN at = 1 .. Len(at)
    /\ \A k \in 1 .. Len(at) : at[k] \in 1 .. Len(s)
    /\ \A j, k \in 1 .. Len(at) : s[at[j]] = s[at[k]] => j = k
    /\ \A i \in 1 .. Len(s) : \E k \in 1 .. Len(at) : s[at[k]] = s[i]
    /\ \A i \in 1 .. Len(s) : (\A j \in 1 .. i - 1 : s[j] # s[i]) => \E k \in 1 .. Len(at) : at[k] = i
    /\ \A k \in 1 .. Len(at) : \A j \in 1 .. at[k] - 1 : s[j] # s[at[k]]
    /\ \A j, k \in 1 .. Len(at) : at[j] = at[k] => j = k

\* FirstOnly keeps the first of each element, in order.
LEMMA FirstPlacesAre ==
    ASSUME NEW T, NEW s \in Seq(T)
    PROVE  /\ FirstAt(s, Ascending(FirstPlaces(s), Len(s)))
           /\ FirstOnly(s) \in Seq(T) /\ Len(FirstOnly(s)) = Len(Ascending(FirstPlaces(s), Len(s)))
           /\ \A k \in 1 .. Len(FirstOnly(s)) : FirstOnly(s)[k] = s[Ascending(FirstPlaces(s), Len(s))[k]]
<1> DEFINE places == FirstPlaces(s)
           at == Ascending(places, Len(s))
           n == Len(s)
<1>1. /\ InOrder(places, n, at)
      /\ Chosen(s, places) \in Seq(T) /\ Len(Chosen(s, places)) = Len(at)
      /\ \A k \in 1 .. Len(at) : at[k] \in 1 .. n /\ Chosen(s, places)[k] = s[at[k]]
  BY ChosenInOrder
<1>2. FirstOnly(s) = Chosen(s, places)
  BY DEF FirstOnly
<1>3. \A i \in 1 .. n : i \in places <=> \A j \in 1 .. i - 1 : s[j] # s[i]
  BY DEF FirstPlaces
<1>4. n \in Nat
  OBVIOUS
<1> HIDE DEF places, at, n
<1>5. /\ at \in Seq(1 .. n) /\ Len(at) \in Nat /\ DOMAIN at = 1 .. Len(at)
      /\ \A k \in 1 .. Len(at) : at[k] \in 1 .. n /\ at[k] \in places
      /\ \A j, k \in 1 .. Len(at) : j < k => at[j] < at[k]
      /\ \A i \in places \cap (1 .. n) : \E k \in 1 .. Len(at) : at[k] = i
  BY <1>1 DEF InOrder
<1>6. \A k \in 1 .. Len(at) : \A j \in 1 .. at[k] - 1 : s[j] # s[at[k]]
  BY <1>3, <1>5
<1>7. ASSUME NEW j \in 1 .. Len(at), NEW k \in 1 .. Len(at), at[j] = at[k] PROVE j = k
  BY <1>5, <1>7
<1>8. ASSUME NEW j \in 1 .. Len(at), NEW k \in 1 .. Len(at), s[at[j]] = s[at[k]] PROVE j = k
  <2>1. at[j] \in 1 .. n /\ at[k] \in 1 .. n
    BY <1>5
  <2>2. ~(at[j] < at[k]) /\ ~(at[k] < at[j])
    BY <1>6, <1>8, <2>1, <1>4
  <2>3. at[j] = at[k]
    BY <1>4, <2>1, <2>2
  <2>4. QED
    BY <1>7, <2>3
<1>9. ASSUME NEW i \in 1 .. n PROVE \E k \in 1 .. Len(at) : s[at[k]] = s[i]
  <2> DEFINE same == {j \in 1 .. n : s[j] = s[i]}
  <2>1. PICK m \in same : \A j \in same : m <= j
    <3>1. same \subseteq Nat
      BY <1>4
    <3>2. i \in same
      OBVIOUS
    <3> HIDE DEF same
    <3>3. QED
      BY <3>1, <3>2, LeastNumber
  <2>2. m \in 1 .. n /\ s[m] = s[i]
    OBVIOUS
  <2>3. \A j \in 1 .. m - 1 : s[j] # s[m]
    <3>1. SUFFICES ASSUME NEW j \in 1 .. m - 1, s[j] = s[m] PROVE FALSE
      OBVIOUS
    <3>2. j \in 1 .. n /\ j < m
      BY <1>4, <2>2
    <3>3. QED
      BY <2>1, <2>2, <3>1, <3>2
  <2>4. m \in places
    BY <1>3, <2>2, <2>3
  <2>5. QED
    BY <1>5, <2>2, <2>4
<1>10. FirstAt(s, at)
  BY <1>3, <1>5, <1>6, <1>7, <1>8, <1>9 DEF FirstAt, n
<1>11. QED
  BY <1>1, <1>2, <1>10 DEF at, places, n

(***************************************************************************)
(* One governed query.                                                     *)
(***************************************************************************)

\* A query for bare fields, whatever they are called, of which none is a copy of another
LEMMA SemanticOK ==
    ASSUME NEW cols \in Seq(SelectColumns), NEW totals, ~AliasRefused(cols), ~Copies(Bare(cols)),
           \A i \in 1 .. Len(cols) : IsBare(cols[i])
    PROVE  LET query == SemanticQuery(cols, totals)
               at == Ascending(FirstPlaces(OutputsOf(cols)), Len(cols))
           IN  /\ QueryOK(query)
               /\ Len(query.items) = Len(at)
               /\ \A k \in 1 .. Len(at) : /\ query.items[k].ref = cols[at[k]].ref
                                          /\ query.items[k].calc = 0
<1> DEFINE outputs == OutputsOf(cols)
           n == Len(cols)
           items == [i \in DOMAIN cols |-> Item(cols[i].ref, cols[i])]
           query == SemanticQuery(cols, totals)
           at == Ascending(FirstPlaces(outputs), n)
           names == ItemNames(query.items)
           aliases == Renames(cols)
<1>1. DOMAIN cols = 1 .. n /\ n \in Nat
  OBVIOUS
<1>2. ASSUME NEW i \in 1 .. n
      PROVE  /\ cols[i].ref \in FieldNames /\ cols[i].calc = 0 /\ cols[i].alias \in PlainNames
             /\ KeyOf(cols[i]) = cols[i].ref
             /\ OutputOf(cols[i]) = IF cols[i].alias = NoAlias THEN cols[i].ref ELSE cols[i].alias
             /\ OutputOf(cols[i]) \in PlainNames
  <2>1. cols[i] \in SelectColumns
    OBVIOUS
  <2>2. QED
    BY <2>1 DEF SelectColumns, IsBare, KeyOf, OutputOf, PlainNames
<1>3. query.items = FirstOnly(items) /\ query.columns = FirstOnly(outputs) /\ query.aliases = aliases
  BY DEF SemanticQuery
<1>4. outputs = [i \in 1 .. n |-> OutputOf(cols[i])]
  BY <1>1 DEF OutputsOf
<1>5. items = [i \in 1 .. n |-> Item(cols[i].ref, cols[i])]
  BY <1>1
<1> HIDE DEF outputs, items, n
<1>6. /\ outputs \in Seq(PlainNames) /\ Len(outputs) = n
      /\ \A i \in 1 .. n : outputs[i] = OutputOf(cols[i])
  <2>1. outputs \in [1 .. n -> PlainNames]
    BY <1>2, <1>4
  <2>2. QED
    BY <1>1, <1>4, <2>1
<1>7. ASSUME NEW i \in 1 .. n
      PROVE  /\ Item(cols[i].ref, cols[i]) \in Items
             /\ Item(cols[i].ref, cols[i]) = [name |-> cols[i].ref, ref |-> cols[i].ref, calc |-> 0]
  <2>1. cols[i].ref \in Names
    BY <1>2 DEF FieldNames, Names, AllBases, AllParts
  <2>2. QED
    BY <1>2, <2>1 DEF Item, Items
<1>8. items \in Seq(Items) /\ Len(items) = n /\ \A i \in 1 .. n : items[i] = Item(cols[i].ref, cols[i])
  <2>1. items \in [1 .. n -> Items]
    BY <1>5, <1>7
  <2>2. QED
    BY <1>1, <1>5, <2>1
<1>9. ASSUME NEW i \in 1 .. n
      PROVE  items[i].name = cols[i].ref /\ items[i].ref = cols[i].ref /\ items[i].calc = 0
  <2>1. items[i] = [name |-> cols[i].ref, ref |-> cols[i].ref, calc |-> 0]
    BY <1>7, <1>8
  <2>2. QED
    BY <2>1
<1>10. ASSUME NEW i \in 1 .. n, NEW j \in 1 .. n
       PROVE  cols[i].ref = cols[j].ref <=> OutputOf(cols[i]) = OutputOf(cols[j])
  <2>1. CASE OutputOf(cols[i]) = OutputOf(cols[j])
    <3>1. KeyOf(cols[i]) = KeyOf(cols[j])
      BY <2>1, SameOutputs DEF n
    <3>2. QED
      BY <1>2, <2>1, <3>1
  <2>2. CASE cols[i].ref = cols[j].ref
    <3>1. DOMAIN Bare(cols) = 1 .. n
      BY <1>1 DEF Bare
    <3>2. \A k \in 1 .. n : /\ Bare(cols)[k].name = OutputOf(cols[k])
                            /\ Bare(cols)[k].expr.ref = cols[k].ref /\ IsBare(Bare(cols)[k].expr)
      BY <1>1, <1>2 DEF Bare, Output, Expr, IsBare
    <3>3. QED
      BY <2>2, <3>1, <3>2 DEF Copies
  <2>3. QED
    BY <2>1, <2>2
<1>11. ASSUME NEW i \in 1 .. n, NEW j \in 1 .. n PROVE items[i] = items[j] <=> outputs[i] = outputs[j]
  <2>1. outputs[i] = OutputOf(cols[i]) /\ outputs[j] = OutputOf(cols[j])
    BY <1>6
  <2>2. ASSUME cols[i].ref = cols[j].ref PROVE items[i] = items[j]
    BY <1>7, <1>8, <2>2
  <2>3. ASSUME items[i] = items[j] PROVE cols[i].ref = cols[j].ref
    <3>1. items[i].ref = cols[i].ref /\ items[j].ref = cols[j].ref
      BY <1>9
    <3>2. QED
      BY <2>3, <3>1
  <2>4. QED
    BY <1>10, <2>1, <2>2, <2>3
<1>12. FirstPlaces(items) = FirstPlaces(outputs)
  <2>1. \A i, j \in 1 .. Len(items) : items[i] = items[j] <=> outputs[i] = outputs[j]
    BY <1>8, <1>11
  <2>2. items \in Seq(Items) /\ outputs \in Seq(PlainNames) /\ Len(items) = Len(outputs)
    BY <1>6, <1>8
  <2>3. QED
    BY <2>1, <2>2, SameFirstPlaces
<1>13. /\ FirstAt(outputs, at) /\ Len(query.columns) = Len(at) /\ query.columns \in Seq(PlainNames)
       /\ \A k \in 1 .. Len(at) : query.columns[k] = outputs[at[k]]
  <2>1. outputs \in Seq(PlainNames) /\ Len(outputs) = n
    BY <1>6
  <2>2. QED
    BY <1>3, <2>1, FirstPlacesAre
<1>14. /\ query.items \in Seq(Items) /\ Len(query.items) = Len(at)
       /\ \A k \in 1 .. Len(at) : query.items[k] = items[at[k]]
  <2>1. items \in Seq(Items) /\ Len(items) = n
    BY <1>8
  <2>2. QED
    BY SMTT(60), <1>3, <1>12, <2>1, FirstPlacesAre
<1> HIDE DEF query, at, aliases
<1>15. /\ Len(at) \in Nat /\ \A k \in 1 .. Len(at) : at[k] \in 1 .. n
       /\ \A j, k \in 1 .. Len(at) : outputs[at[j]] = outputs[at[k]] => j = k
       /\ \A i \in 1 .. n : \E k \in 1 .. Len(at) : outputs[at[k]] = outputs[i]
  BY <1>6, <1>13 DEF FirstAt
<1>16. ASSUME NEW k \in 1 .. Len(at)
       PROVE  /\ query.items[k].name = cols[at[k]].ref /\ query.items[k].ref = cols[at[k]].ref
              /\ query.items[k].calc = 0
              /\ query.columns[k] = OutputOf(cols[at[k]])
  <2>1. at[k] \in 1 .. n /\ query.items[k] = items[at[k]] /\ query.columns[k] = outputs[at[k]]
    BY <1>13, <1>14, <1>15
  <2>2. QED
    BY <1>6, <1>9, <2>1
<1>17. \A j, k \in 1 .. Len(at) : cols[at[j]].ref = cols[at[k]].ref => j = k
  BY SMTT(60), <1>6, <1>10, <1>15
<1>18. ItemsOK(query.items)
  BY <1>14, <1>16, <1>17 DEF ItemsOK
<1>19. DOMAIN names = 1 .. Len(at) /\ \A k \in 1 .. Len(at) : names[k] = cols[at[k]].ref
  BY <1>14, <1>16 DEF ItemNames
<1>20. PICK named : /\ named = {i \in Mentioned(cols) : cols[i].alias # NoAlias}
                    /\ DOMAIN aliases = {KeyOf(cols[i]) : i \in named}
                    /\ \A key \in DOMAIN aliases :
                          aliases[key] = cols[CHOOSE i \in named : KeyOf(cols[i]) = key].alias
  BY DEF Renames, aliases
<1>21. Mentioned(cols) = {i \in 1 .. n : \A j \in 1 .. i - 1 : cols[j].ref # cols[i].ref}
  <2>1. \A i \in 1 .. n : \A j \in 1 .. i - 1 : j \in 1 .. n
    BY <1>1
  <2>2. QED
    BY <1>1, <1>2, <2>1 DEF Mentioned
<1>22. \A i \in 1 .. n : i \in Mentioned(cols) <=> \E k \in 1 .. Len(at) : at[k] = i
  <2>1. \A i \in 1 .. n : \A j \in 1 .. i - 1 : j \in 1 .. n /\ (cols[j].ref # cols[i].ref <=> outputs[j] # outputs[i])
    BY <1>1, <1>6, <1>10
  <2>2. \A i \in 1 .. n : (\A j \in 1 .. i - 1 : outputs[j] # outputs[i]) => \E k \in 1 .. Len(at) : at[k] = i
    BY <1>6, <1>13 DEF FirstAt
  <2>3. \A k \in 1 .. Len(at) : \A j \in 1 .. at[k] - 1 : outputs[j] # outputs[at[k]]
    BY <1>13 DEF FirstAt
  <2>4. ASSUME NEW i \in 1 .. n, i \in Mentioned(cols) PROVE \E k \in 1 .. Len(at) : at[k] = i
    <3>1. \A j \in 1 .. i - 1 : cols[j].ref # cols[i].ref
      BY <1>21, <2>4
    <3>2. \A j \in 1 .. i - 1 : outputs[j] # outputs[i]
      BY <2>1, <3>1
    <3>3. QED
      BY <2>2, <3>2
  <2>5. ASSUME NEW k \in 1 .. Len(at) PROVE at[k] \in Mentioned(cols)
    <3>1. at[k] \in 1 .. n /\ \A j \in 1 .. at[k] - 1 : outputs[j] # outputs[at[k]]
      BY <1>15, <2>3
    <3>2. \A j \in 1 .. at[k] - 1 : cols[j].ref # cols[at[k]].ref
      BY <2>1, <3>1
    <3>3. QED
      BY <1>21, <3>1, <3>2
  <2>6. QED
    BY <2>4, <2>5
<1>23. ASSUME NEW k \in 1 .. Len(at) PROVE Renamed(names, aliases)[k] = query.columns[k]
  <2> DEFINE i == at[k]
  <2>1. i \in 1 .. n /\ i \in Mentioned(cols) /\ names[k] = cols[i].ref /\ query.columns[k] = OutputOf(cols[i])
    BY <1>15, <1>16, <1>19, <1>22
  <2>2. \A key \in DOMAIN aliases : key \in Range(names)
    <3>1. SUFFICES ASSUME NEW h \in named PROVE KeyOf(cols[h]) \in Range(names)
      BY <1>20
    <3>2. h \in 1 .. n /\ h \in Mentioned(cols)
      BY <1>20, <1>21
    <3>3. PICK l \in 1 .. Len(at) : at[l] = h
      BY <1>22, <3>2
    <3>4. names[l] = KeyOf(cols[h]) /\ l \in DOMAIN names
      BY <1>2, <1>19, <3>2, <3>3
    <3>5. QED
      BY <3>4 DEF Range
  <2>3. \A key \in DOMAIN aliases : k \in Targets(names, key) <=> names[k] = key
    BY <1>19, <2>2 DEF Targets
  <2> HIDE DEF i
  <2>4. \A h \in named : h \in 1 .. n /\ h \in Mentioned(cols) /\ cols[h].alias # NoAlias
    BY <1>20, <1>21
  <2>5. ASSUME NEW key \in DOMAIN aliases, names[k] = key
        PROVE  aliases[key] = query.columns[k]
    <3> DEFINE h == CHOOSE h \in named : KeyOf(cols[h]) = key
    <3>1. h \in named /\ KeyOf(cols[h]) = key
      BY <1>20
    <3>2. aliases[key] = cols[h].alias
      BY <1>20
    <3> HIDE DEF h
    <3>3. h \in 1 .. n /\ h \in Mentioned(cols) /\ cols[h].alias # NoAlias
      BY <2>4, <3>1
    <3>4. cols[h].ref = cols[i].ref
      BY <1>2, <2>1, <2>5, <3>1, <3>3
    <3>5. PICK l \in 1 .. Len(at) : at[l] = h
      BY <1>22, <3>3
    <3>6. l = k
      BY <1>17, <3>4, <3>5 DEF i
    <3>7. h = i
      BY <3>5, <3>6 DEF i
    <3>8. OutputOf(cols[i]) = cols[i].alias
      BY <1>2, <3>3, <3>7, <2>1
    <3>9. QED
      BY <2>1, <3>2, <3>7, <3>8
  <2> DEFINE new == query.columns[k]
  <2>9. \A key \in DOMAIN aliases : k \in Targets(names, key) => aliases[key] = new
    BY <2>3, <2>5
  <2>10. k \in DOMAIN names
    BY <1>19
  <2> HIDE DEF new, names
  <2>6. CASE cols[i].alias # NoAlias
    <3>1. i \in named /\ KeyOf(cols[i]) = names[k]
      BY <1>2, <1>20, <2>1, <2>6
    <3>2. names[k] \in DOMAIN aliases
      BY <1>20, <3>1
    <3>3. \E key \in DOMAIN aliases : k \in Targets(names, key)
      BY <2>3, <3>2
    <3>4. RenamedAs(names, aliases, k, new)
      BY <2>9, <3>3 DEF RenamedAs
    <3>5. Renamed(names, aliases)[k] = new
      BY <2>10, <3>4, RenamedTo
    <3>6. QED
      BY <3>5 DEF new
  <2>7. CASE cols[i].alias = NoAlias
    <3>1. names[k] = new
      BY <1>2, <2>1, <2>7 DEF new
    <3>2. RenamedAs(names, aliases, k, new)
      BY <2>9, <3>1 DEF RenamedAs
    <3>3. Renamed(names, aliases)[k] = new
      BY <2>10, <3>2, RenamedTo
    <3>4. QED
      BY <3>3 DEF new
  <2>8. QED
    BY <2>6, <2>7
<1>24. Renamed(names, aliases) = query.columns
  <2>1. Renamed(names, aliases) = [k \in DOMAIN names |-> Renamed(names, aliases)[k]]
    BY RenamedDomain
  <2>2. DOMAIN names = 1 .. Len(at)
    BY <1>19
  <2> HIDE DEF names
  <2>3. Renamed(names, aliases) = [k \in 1 .. Len(at) |-> query.columns[k]]
    BY <1>23, <2>1, <2>2
  <2>4. query.columns = [k \in 1 .. Len(at) |-> query.columns[k]]
    BY <1>13
  <2>5. QED
    BY <2>3, <2>4
<1>25. QueryOK(query)
  BY <1>3, <1>18, <1>24 DEF QueryOK
<1>26. QED
  BY <1>14, <1>16, <1>25 DEF query, at, outputs, n

(***************************************************************************)
(* Stacked selects: what is sent means what was built.                     *)
(***************************************************************************)
LEMMA LeastOf ==
    ASSUME NEW S, S \subseteq Nat, S # {}
    PROVE  Min(S) \in S /\ \A i \in S : Min(S) <= i
  BY LeastNumber DEF Min

\* A column's output is its alias or else its key.
LEMMA OutputsOK ==
    ASSUME NEW c \in SelectColumns
    PROVE  /\ c.ref \in FieldNames /\ c.calc \in Nat /\ c.measured \in BOOLEAN /\ c.alias \in PlainNames
           /\ [ref |-> c.ref, calc |-> c.calc] \in Exprs
           /\ OutputOf(c) # NoAlias
           /\ c.alias # NoAlias => OutputOf(c) = c.alias /\ c.alias \in FieldNames
           /\ c.alias = NoAlias => OutputOf(c) = KeyOf(c)
           /\ IsBare(c) => OutputOf(c) \in FieldNames /\ KeyOf(c) = c.ref
<1>1. c.ref \in FieldNames /\ c.calc \in Nat /\ c.measured \in BOOLEAN /\ c.alias \in PlainNames
  BY DEF SelectColumns
<1>2. KeyOf(c) # NoAlias /\ (c.calc = 0 => KeyOf(c) = c.ref)
  BY <1>1, Keys
<1>3. [ref |-> c.ref, calc |-> c.calc] \in Exprs
  BY <1>1 DEF Exprs
<1>4. c.alias # NoAlias => c.alias \in FieldNames
  BY <1>1 DEF PlainNames
<1>5. QED
  BY <1>1, <1>2, <1>3, <1>4 DEF OutputOf, IsBare

\* Where a column of the name is
LEMMA SuppliersOf ==
    ASSUME NEW inner \in Seq(SelectColumns), NEW n, Suppliers(inner, n) # {}
    PROVE  LET m == Min(Suppliers(inner, n))
           IN  /\ m \in 1 .. Len(inner)
               /\ \/ inner[m].alias = n
                  \/ KeyOf(inner[m]) = n /\ \A i \in 1 .. Len(inner) : inner[i].alias # n
<1>1. DOMAIN inner = 1 .. Len(inner) /\ Len(inner) \in Nat
  OBVIOUS
<1>2. Suppliers(inner, n) \subseteq 1 .. Len(inner) /\ Suppliers(inner, n) \subseteq Nat
  BY <1>1 DEF Suppliers
<1>3. Min(Suppliers(inner, n)) \in Suppliers(inner, n)
  BY <1>2, LeastOf
<1>4. QED
  BY <1>1, <1>2, <1>3 DEF Suppliers

\* A plain reference becomes what the select() below made of it, any other column stays.
LEMMA NarrowedOK ==
    ASSUME NEW inner \in Seq(SelectColumns), NEW c \in SelectColumns, Suppliers(inner, KeyOf(c)) # {}
    PROVE  /\ Narrowed(c, inner) \in SelectColumns
           /\ ~IsBare(c) \/ c.measured => Narrowed(c, inner) = c
           /\ IsBare(c) /\ ~c.measured =>
                 LET m == Min(Suppliers(inner, KeyOf(c)))
                 IN  /\ Narrowed(c, inner).ref = inner[m].ref
                     /\ Narrowed(c, inner).calc = inner[m].calc
                     /\ Narrowed(c, inner).measured = inner[m].measured
           /\ OutputOf(Narrowed(c, inner)) = OutputOf(c)
<1>1. CASE IsBare(c) /\ ~c.measured
  <2> DEFINE m == Min(Suppliers(inner, KeyOf(c)))
             new == [inner[m] EXCEPT !.alias = OutputOf(c)]
  <2>1. Narrowed(c, inner) = new
    BY <1>1 DEF Narrowed
  <2>2. m \in 1 .. Len(inner)
    BY SuppliersOf
  <2> HIDE DEF m
  <2>3. inner[m] \in SelectColumns
    BY <2>2
  <2>4. OutputOf(c) \in PlainNames /\ OutputOf(c) # NoAlias
    BY <1>1, OutputsOK DEF PlainNames
  <2>5. /\ new \in SelectColumns /\ new.ref = inner[m].ref /\ new.calc = inner[m].calc
        /\ new.measured = inner[m].measured /\ new.alias = OutputOf(c)
    BY <2>3, <2>4 DEF SelectColumns
  <2> HIDE DEF new
  <2>6. OutputOf(new) = OutputOf(c)
    <3>1. OutputOf(new) = new.alias
      BY <2>4, <2>5 DEF OutputOf
    <3>2. QED
      BY <2>5, <3>1
  <2>7. QED
    BY <1>1, <2>1, <2>5, <2>6 DEF m
<1>2. CASE ~IsBare(c) \/ c.measured
  <2>1. c.measured \in BOOLEAN
    BY OutputsOK
  <2>2. Narrowed(c, inner) = c
    BY <1>2, <2>1 DEF Narrowed
  <2>3. QED
    BY <1>2, <2>1, <2>2
<1>3. QED
  BY <1>1, <1>2, OutputsOK

\* A select() over another, column by column, or nothing if a name is not available.
LEMMA SelectedOverOK ==
    ASSUME NEW inner \in Seq(SelectColumns), NEW cols \in Seq(SelectColumns)
    PROVE  /\ SelectedOver(cols, inner) \in Seq(SelectColumns)
           /\ SelectedOver(cols, inner) # <<>> =>
                 /\ Len(SelectedOver(cols, inner)) = Len(cols) /\ cols # <<>>
                 /\ \A i \in 1 .. Len(cols) :
                       /\ SelectedOver(cols, inner)[i] = Narrowed(cols[i], inner)
                       /\ Suppliers(inner, KeyOf(cols[i])) # {}
<1>1. DOMAIN cols = 1 .. Len(cols) /\ Len(cols) \in Nat /\ \A i \in 1 .. Len(cols) : cols[i] \in SelectColumns
  OBVIOUS
<1>2. CASE Unavailable(cols, inner)
  BY <1>2, EmptySeq DEF SelectedOver
<1>3. CASE ~Unavailable(cols, inner)
  <2> DEFINE over == [i \in 1 .. Len(cols) |-> Narrowed(cols[i], inner)]
  <2>1. SelectedOver(cols, inner) = over
    BY <1>1, <1>3 DEF SelectedOver
  <2>2. \A i \in 1 .. Len(cols) : Suppliers(inner, KeyOf(cols[i])) # {}
    BY <1>1, <1>3 DEF Unavailable, Range
  <2>3. \A i \in 1 .. Len(cols) : Narrowed(cols[i], inner) \in SelectColumns
    BY <1>1, <2>2, NarrowedOK
  <2>4. over \in [1 .. Len(cols) -> SelectColumns] /\ \A i \in 1 .. Len(cols) : over[i] = Narrowed(cols[i], inner)
    BY <2>3
  <2> HIDE DEF over
  <2>5. over \in Seq(SelectColumns) /\ Len(over) = Len(cols)
    BY <1>1, <2>4
  <2>6. over # <<>> => cols # <<>>
    BY <2>5
  <2>7. QED
    BY <2>1, <2>2, <2>4, <2>5, <2>6
<1>4. QED
  BY <1>2, <1>3

\* What is sent in the place of a select() and of all above it, from the outermost down
Composing(selects, from) ==
    LET n == Len(selects)
    IN  /\ \A k \in 1 .. n : from[k] \in Seq(SelectColumns)
        /\ from[n] = selects[n]
        /\ \A k \in 1 .. n - 1 : from[k] = SelectedOver(from[k + 1], selects[k])

\* The recursive definition of Compositions has a solution, which Compositions is.
LEMMA CompositionsExist ==
    ASSUME NEW selects \in Seq(Seq(SelectColumns)), Len(selects) # 0
    PROVE  Composing(selects, Compositions(selects))
<1> DEFINE n == Len(selects)
           S == Seq(SelectColumns)
           Over(k, cols) == SelectedOver(cols, selects[n - k])
           step == [k \in 1 .. n - 1 |-> [cols \in S |-> Over(k, cols)]]
           first == selects[n]
<1>1. n \in Nat /\ n - 1 \in Nat /\ \A k \in 1 .. n : selects[k] \in S
  OBVIOUS
<1>2. \A k \in 1 .. n - 1 : n - k \in 1 .. n
  BY <1>1
<1> HIDE DEF n, S
<1>3. first \in S
  BY <1>1
<1>4. ASSUME NEW k \in 1 .. n - 1, NEW cols \in S PROVE Over(k, cols) \in S
  BY <1>1, <1>2, SelectedOverOK DEF S
<1> HIDE DEF Over, first
<1>5. step \in Steps(n - 1, S)
  BY <1>4 DEF Steps
<1>6. \A k \in 1 .. n - 1, cols \in S : step[k][cols] = Over(k, cols)
  OBVIOUS
<1> HIDE DEF step
<1>7. PICK g : Computes(g, n - 1, S, first, step)
  BY <1>1, <1>3, <1>5, StepByStepFunction
<1> DEFINE f == [k \in 1 .. n |-> g[n - k]]
           Value(k) == IF k = n THEN selects[k] ELSE SelectedOver(f[k + 1], selects[k])
<1>8. \A k \in 0 .. n - 1 : g[k] \in S
  BY <1>7 DEF Computes
<1>9. ASSUME NEW k \in 1 .. n PROVE n - k \in 0 .. n - 1 /\ f[k] = g[n - k] /\ f[k] \in S
  <2>1. n - k \in 0 .. n - 1
    BY <1>1
  <2>2. QED
    BY <1>8, <2>1
<1>10. ASSUME NEW k \in 1 .. n PROVE f[k] = Value(k)
  <2>1. CASE k = n
    <3>1. n - k = 0
      BY <1>1, <2>1
    <3>2. f[k] = selects[k]
      BY <1>7, <1>9, <2>1, <3>1 DEF Computes, first
    <3>3. QED
      BY <2>1, <3>2
  <2>2. CASE k # n
    <3>1. k + 1 \in 1 .. n /\ n - k \in 1 .. n - 1 /\ (n - k) - 1 = n - (k + 1) /\ n - (n - k) = k
      BY <1>1, <2>2
    <3>2. g[n - k] = step[n - k][g[(n - k) - 1]]
      BY <1>7, <3>1 DEF Computes
    <3>3. g[(n - k) - 1] = f[k + 1] /\ f[k + 1] \in S
      BY <1>9, <3>1
    <3>4. step[n - k][f[k + 1]] = SelectedOver(f[k + 1], selects[k])
      BY <1>6, <3>1, <3>3 DEF Over
    <3>5. f[k] = SelectedOver(f[k + 1], selects[k])
      BY <1>9, <3>2, <3>3, <3>4
    <3> HIDE DEF f
    <3>6. QED
      BY <2>2, <3>5
  <2>3. QED
    BY <2>1, <2>2
<1> DEFINE Is(u) == u = [k \in 1 .. n |->
               IF k = n THEN selects[k] ELSE SelectedOver(u[k + 1], selects[k])]
           from == CHOOSE u : Is(u)
<1>11. Is(f)
  <2>1. f = [k \in 1 .. n |-> f[k]]
    OBVIOUS
  <2> HIDE DEF f
  <2>2. QED
    BY <1>10, <2>1
<1>12. Is(from)
  BY <1>11
<1>13. Compositions(selects) = from
  BY DEF Compositions, n
<1>14. Composing(selects, from)
  <2> HIDE DEF from
  <2>1. from[n] = selects[n]
    BY <1>1, <1>12
  <2>2. ASSUME NEW k \in 1 .. n - 1
        PROVE  from[k] = SelectedOver(from[k + 1], selects[k]) /\ k \in 1 .. n /\ k + 1 \in 1 .. n
    BY <1>1, <1>12
  <2> DEFINE T == {j \in Nat : j \in 0 .. n - 1 => from[n - j] \in S}
  <2>3. 0 \in T
    BY <1>1, <2>1
  <2>4. ASSUME NEW j \in Nat, j \in T PROVE j + 1 \in T
    <3>1. SUFFICES ASSUME j + 1 \in 0 .. n - 1 PROVE from[n - (j + 1)] \in S
      OBVIOUS
    <3>2. j \in 0 .. n - 1 /\ n - (j + 1) \in 1 .. n - 1 /\ (n - (j + 1)) + 1 = n - j
      BY <1>1, <3>1
    <3>3. from[n - j] \in S /\ selects[n - (j + 1)] \in S
      BY <1>1, <2>2, <2>4, <3>2
    <3>4. from[n - (j + 1)] = SelectedOver(from[n - j], selects[n - (j + 1)])
      BY <2>2, <3>2
    <3>5. QED
      BY <3>3, <3>4, SelectedOverOK DEF S
  <2>5. \A j \in Nat : j \in T
    <3> HIDE DEF T
    <3>1. QED
      BY <2>3, <2>4, StepByStep
  <2>6. ASSUME NEW k \in 1 .. n PROVE from[k] \in S
    <3>1. n - k \in Nat /\ n - k \in 0 .. n - 1 /\ n - (n - k) = k
      BY <1>1
    <3>2. QED
      BY <2>5, <3>1
  <2>7. QED
    BY <2>1, <2>2, <2>6 DEF Composing, S, n
<1>15. QED
  BY <1>13, <1>14

\* What names mean; nothing but a governed measure is called like one
Outs == FieldNames \cup {KeyOf(c) : c \in SelectColumns} \cup {OutputOf(c) : c \in SelectColumns}
Bindings == UNION {[D -> Exprs] : D \in SUBSET Outs}
Governs(env) == \A r \in Governed : Read(env, r) = [ref |-> r, calc |-> 0]
Environments == {env \in Bindings : Governs(env)}

\* An environment binds outputs to expressions.
LEMMA BindingsAre ==
    ASSUME NEW env
    PROVE  /\ env \in Bindings => /\ DOMAIN env \subseteq Outs
                                  /\ \A n \in DOMAIN env : env[n] \in Exprs
           /\ /\ DOMAIN env \subseteq Outs /\ env = [n \in DOMAIN env |-> env[n]]
              /\ \A n \in DOMAIN env : env[n] \in Exprs
              => env \in Bindings
<1>1. ASSUME DOMAIN env \subseteq Outs, env = [n \in DOMAIN env |-> env[n]],
             \A n \in DOMAIN env : env[n] \in Exprs
      PROVE  env \in Bindings
  <2>1. env \in [DOMAIN env -> Exprs]
    BY <1>1
  <2>2. QED
    BY <1>1, <2>1 DEF Bindings
<1>2. QED
  BY <1>1 DEF Bindings

\* An expression over an environment is one over the model's fields.
LEMMA MadeOK ==
    ASSUME NEW env \in Bindings, NEW e, e.ref \in FieldNames, e.calc \in Nat
    PROVE  /\ Read(env, e.ref) \in Exprs
           /\ Made(env, e) \in Exprs
           /\ Made(env, e).ref = Read(env, e.ref).ref
           /\ Made(env, e).calc = Read(env, e.ref).calc + e.calc
           /\ e.calc = 0 => Made(env, e) = Read(env, e.ref)
           /\ \A d : d.ref = e.ref /\ d.calc = e.calc => Made(env, d) = Made(env, e)
<1> DEFINE read == Read(env, e.ref)
<1>1. read \in Exprs
  <2>1. CASE e.ref \in DOMAIN env
    BY <2>1, BindingsAre DEF Read
  <2>2. CASE e.ref \notin DOMAIN env
    BY <2>2 DEF Read, Exprs
  <2>3. QED
    BY <2>1, <2>2
<1>2. Made(env, e) = [read EXCEPT !.calc = @ + e.calc]
  BY DEF Made
<1>3. \A d : d.ref = e.ref /\ d.calc = e.calc => Made(env, d) = Made(env, e)
  BY DEF Made
<1> HIDE DEF read
<1>4. read.ref \in FieldNames /\ read.calc \in Nat /\ read = [ref |-> read.ref, calc |-> read.calc]
  BY <1>1 DEF Exprs
<1>5. Made(env, e) = [ref |-> read.ref, calc |-> read.calc + e.calc]
  BY <1>2, <1>4
<1>6. Made(env, e) \in Exprs
  BY <1>4, <1>5 DEF Exprs
<1>7. e.calc = 0 => Made(env, e) = read
  <2>1. e.calc = 0 => read.calc + e.calc = read.calc
    BY <1>4
  <2>2. QED
    BY <1>4, <1>5, <2>1
<1>8. Made(env, e).ref = read.ref /\ Made(env, e).calc = read.calc + e.calc
  BY <1>5
<1>9. QED
  BY <1>1, <1>3, <1>6, <1>7, <1>8 DEF read

\* The names of a select() mean what it makes of those below it, and others what they did
SelectingIs(env, cols) ==
    /\ \A i \in 1 .. Len(cols) : /\ OutputOf(cols[i]) \in DOMAIN Selecting(env, cols)
                                 /\ Selecting(env, cols)[OutputOf(cols[i])] = Made(env, cols[i])
    /\ \A n : (\A i \in 1 .. Len(cols) : OutputOf(cols[i]) # n) =>
          Read(Selecting(env, cols), n) = Read(env, n)

\* What a select() adds to an environment, and that it is one.
LEMMA SelectingOK ==
    ASSUME NEW env \in Bindings, NEW cols \in Seq(SelectColumns), ~AliasRefused(cols)
    PROVE  Selecting(env, cols) \in Bindings /\ SelectingIs(env, cols)
<1> DEFINE new == Selecting(env, cols)
           outputs == Range(OutputsOf(cols))
           Picked(n) == CHOOSE c \in Range(cols) : OutputOf(c) = n
<1>1. new = [n \in DOMAIN env \cup outputs |-> IF n \in outputs THEN Made(env, Picked(n)) ELSE env[n]]
  BY DEF Selecting
<1>2. DOMAIN cols = 1 .. Len(cols) /\ \A i \in 1 .. Len(cols) : cols[i] \in SelectColumns
  OBVIOUS
<1>3. /\ \A i \in 1 .. Len(cols) : OutputOf(cols[i]) \in outputs
      /\ \A n \in outputs : \E i \in 1 .. Len(cols) : OutputOf(cols[i]) = n
  BY <1>2 DEF OutputsOf, Range
<1>4. ASSUME NEW i \in 1 .. Len(cols)
      PROVE  /\ Picked(OutputOf(cols[i])).ref = cols[i].ref /\ Picked(OutputOf(cols[i])).calc = cols[i].calc
             /\ Made(env, Picked(OutputOf(cols[i]))) = Made(env, cols[i])
             /\ Made(env, cols[i]) \in Exprs
  <2> DEFINE c == Picked(OutputOf(cols[i]))
  <2>1. c \in Range(cols) /\ OutputOf(c) = OutputOf(cols[i])
    BY <1>2 DEF Range
  <2> HIDE DEF c
  <2>2. PICK j \in 1 .. Len(cols) : cols[j] = c
    BY <1>2, <2>1 DEF Range
  <2>3. KeyOf(cols[j]) = KeyOf(cols[i])
    BY <2>1, <2>2, SameOutputs
  <2>4. /\ cols[j].ref \in FieldNames /\ cols[j].calc \in Nat
        /\ cols[i].ref \in FieldNames /\ cols[i].calc \in Nat
    BY <1>2, OutputsOK
  <2>5. c.ref = cols[i].ref /\ c.calc = cols[i].calc
    BY <2>2, <2>3, <2>4, Keys
  <2>6. Made(env, c) = Made(env, cols[i]) /\ Made(env, cols[i]) \in Exprs
    BY <2>4, <2>5, MadeOK
  <2>7. QED
    BY <2>5, <2>6 DEF c
<1>5. outputs \subseteq Outs
  BY <1>2, <1>3 DEF Outs
<1>6. DOMAIN env \subseteq Outs /\ \A n \in DOMAIN env : env[n] \in Exprs
  BY BindingsAre
<1> HIDE DEF new, outputs, Picked
<1>7. DOMAIN new \subseteq Outs /\ new = [n \in DOMAIN new |-> new[n]]
  BY <1>1, <1>5, <1>6
<1>8. ASSUME NEW n \in DOMAIN new PROVE new[n] \in Exprs
  <2>1. CASE n \in outputs
    <3>1. PICK i \in 1 .. Len(cols) : OutputOf(cols[i]) = n
      BY <1>3, <2>1
    <3>2. new[n] = Made(env, Picked(n))
      BY <1>1, <2>1
    <3>3. QED
      BY <1>4, <3>1, <3>2
  <2>2. CASE n \notin outputs
    BY <1>1, <1>6, <2>2
  <2>3. QED
    BY <2>1, <2>2
<1>9. new \in Bindings
  BY <1>7, <1>8, BindingsAre
<1>10. ASSUME NEW i \in 1 .. Len(cols)
       PROVE  OutputOf(cols[i]) \in DOMAIN new /\ new[OutputOf(cols[i])] = Made(env, cols[i])
  BY <1>1, <1>3, <1>4
<1>11. ASSUME NEW n, \A i \in 1 .. Len(cols) : OutputOf(cols[i]) # n PROVE Read(new, n) = Read(env, n)
  <2>1. n \notin outputs
    BY <1>3, <1>11
  <2>2. QED
    BY <1>1, <2>1 DEF Read
<1>12. QED
  BY <1>9, <1>10, <1>11 DEF SelectingIs, new

\* It leaves a measure that is asked for by name what the model says it is.
LEMMA SelectingGoverns ==
    ASSUME NEW env \in Environments, NEW cols \in Selects, ~AliasRefused(cols)
    PROVE  Selecting(env, cols) \in Environments
<1> DEFINE new == Selecting(env, cols)
<1>1. env \in Bindings /\ cols \in Seq(SelectColumns) /\ \A r \in Governed : Read(env, r) = [ref |-> r, calc |-> 0]
  BY SelectsOK DEF Environments, Governs
<1>2. new \in Bindings /\ SelectingIs(env, cols)
  BY <1>1, SelectingOK
<1>3. ASSUME NEW r \in Governed PROVE Read(new, r) = [ref |-> r, calc |-> 0]
  <2>1. CASE \A i \in 1 .. Len(cols) : OutputOf(cols[i]) # r
    BY <1>1, <1>2, <2>1 DEF SelectingIs
  <2>2. CASE \E i \in 1 .. Len(cols) : OutputOf(cols[i]) = r
    <3>1. PICK i \in 1 .. Len(cols) : OutputOf(cols[i]) = r
      BY <2>2
    <3>2. cols[i] \in SelectColumns /\ r \in FieldNames
      BY <1>1, SelectsOK
    <3>3. cols[i].ref = r /\ cols[i].calc = 0
      <4>1. CASE cols[i].alias # NoAlias
        <5>1. cols[i].alias = r
          BY <3>1, <3>2, <4>1, OutputsOK
        <5>2. QED
          BY <5>1, SelectsOK
      <4>2. CASE cols[i].alias = NoAlias
        <5>1. KeyOf(cols[i]) = r /\ cols[i].ref \in FieldNames /\ cols[i].calc \in Nat
          BY <3>1, <3>2, <4>2, OutputsOK
        <5>2. r.part = "name"
          BY <3>2 DEF FieldNames
        <5>3. cols[i].calc # 0 => KeyOf(cols[i]).part = "calc"
          BY <5>1, Keys
        <5>4. cols[i].calc = 0
          BY <5>1, <5>2, <5>3
        <5>5. QED
          BY <5>1, <5>4, Keys
      <4>3. QED
        BY <4>1, <4>2
    <3>4. Read(new, r) = Made(env, cols[i])
      BY <1>2, <3>1 DEF SelectingIs, Read
    <3>5. Made(env, cols[i]) = Read(env, cols[i].ref)
      BY <1>1, <3>2, <3>3, MadeOK
    <3>6. QED
      BY <1>1, <3>3, <3>4, <3>5
  <2>3. QED
    BY <2>1, <2>2
<1>4. QED
  BY <1>2, <1>3 DEF Environments, Governs

\* The meanings of the names after each select()
SelectingThrough(selects, env) ==
    /\ \A k \in 0 .. Len(selects) : env[k] \in Environments
    /\ env[0] = <<>>
    /\ \A k \in 1 .. Len(selects) : env[k] = Selecting(env[k - 1], selects[k])

\* Below the first step every name is a field of the model.
LEMMA NothingMeans ==
    /\ <<>> \in Environments
    /\ \A n : Read(<<>>, n) = [ref |-> n, calc |-> 0]
<1> DEFINE none == <<>>
<1>1. DOMAIN none = {} /\ none = [n \in {} |-> none[n]]
  OBVIOUS
<1>2. \A n : Read(none, n) = [ref |-> n, calc |-> 0]
  BY <1>1 DEF Read
<1> HIDE DEF none
<1>3. none \in Bindings
  BY <1>1, BindingsAre
<1>4. QED
  BY <1>2, <1>3 DEF Environments, Governs, none

\* The recursive definition of SelectingUpTo has a solution, which SelectingUpTo is.
LEMMA SelectingExists ==
    ASSUME NEW selects \in Seq(Selects), \A k \in 1 .. Len(selects) : ~AliasRefused(selects[k])
    PROVE  SelectingThrough(selects, SelectingUpTo(selects))
<1> DEFINE n == Len(selects)
           Onto(k, env) == Selecting(env, selects[k])
           step == [k \in 1 .. n |-> [env \in Environments |-> Onto(k, env)]]
           none == <<>>
<1>1. n \in Nat /\ \A k \in 1 .. n : selects[k] \in Selects
  OBVIOUS
<1>2. none \in Environments
  BY NothingMeans
<1> HIDE DEF none
<1>3. ASSUME NEW k \in 1 .. n, NEW env \in Environments PROVE Onto(k, env) \in Environments
  <2>1. selects[k] \in Selects /\ ~AliasRefused(selects[k])
    BY <1>1
  <2>2. QED
    BY <2>1, SelectingGoverns
<1> HIDE DEF Onto, n
<1>4. step \in Steps(n, Environments)
  BY <1>3 DEF Steps
<1>5. \A k \in 1 .. n, env \in Environments : step[k][env] = Onto(k, env)
  OBVIOUS
<1> HIDE DEF step
<1>6. PICK f : Computes(f, n, Environments, none, step)
  BY <1>1, <1>2, <1>4, StepByStepFunction
<1> DEFINE Is(u) == u = [k \in 0 .. n |-> IF k = 0 THEN none ELSE Selecting(u[k - 1], selects[k])]
           env == CHOOSE u : Is(u)
<1>7. Is(f)
  <2> DEFINE Value(k) == IF k = 0 THEN none ELSE Selecting(f[k - 1], selects[k])
  <2>1. ASSUME NEW k \in 0 .. n PROVE f[k] = Value(k)
    <3>1. CASE k = 0
      BY <1>6, <3>1 DEF Computes
    <3>2. CASE k # 0
      <4>1. k \in 1 .. n /\ k - 1 \in 0 .. n
        BY <1>1, <3>2
      <4>2. f[k - 1] \in Environments /\ f[k] = step[k][f[k - 1]]
        BY <1>6, <4>1 DEF Computes
      <4>3. QED
        BY <1>5, <3>2, <4>1, <4>2 DEF Onto
    <3>3. QED
      BY <3>1, <3>2
  <2> HIDE DEF Value
  <2>2. f = [k \in 0 .. n |-> Value(k)]
    BY <1>6, <2>1 DEF Computes
  <2>3. QED
    BY <2>2 DEF Value
<1>8. Is(env)
  BY <1>7
<1>9. SelectingUpTo(selects) = env
  BY DEF SelectingUpTo, n, none
<1>10. SelectingThrough(selects, env)
  <2> HIDE DEF env
  <2>1. env[0] = none
    BY <1>1, <1>8
  <2>2. ASSUME NEW k \in 1 .. n PROVE env[k] = Selecting(env[k - 1], selects[k])
    BY <1>1, <1>8
  <2> DEFINE T == {k \in Nat : k <= n => env[k] \in Environments}
  <2>3. 0 \in T
    BY <1>2, <2>1
  <2>4. ASSUME NEW k \in Nat, k \in T PROVE k + 1 \in T
    <3>1. SUFFICES ASSUME k + 1 <= n PROVE env[k + 1] \in Environments
      OBVIOUS
    <3>2. k + 1 \in 1 .. n /\ (k + 1) - 1 = k /\ env[k] \in Environments
      BY <1>1, <2>4, <3>1
    <3>3. env[k + 1] = Onto(k + 1, env[k])
      BY <2>2, <3>2 DEF Onto
    <3>4. QED
      BY <1>3, <3>2, <3>3
  <2>5. \A k \in Nat : k \in T
    <3> HIDE DEF T
    <3>1. QED
      BY <2>3, <2>4, StepByStep
  <2>6. \A k \in 0 .. n : env[k] \in Environments
    BY <1>1, <2>5
  <2>7. QED
    BY <2>1, <2>2, <2>6 DEF SelectingThrough, n, none
<1>11. QED
  BY <1>9, <1>10

\* A plain reference means the same above a select() as what is made of it below
LEMMA NarrowedMeans ==
    ASSUME NEW env \in Environments, NEW inner \in Selects, ~AliasRefused(inner),
           NEW c \in SelectColumns, IsBare(c), c.measured => c.ref \in Governed,
           Suppliers(inner, KeyOf(c)) # {}
    PROVE  Made(env, Narrowed(c, inner)) = Made(Selecting(env, inner), c)
<1> DEFINE new == Selecting(env, inner)
           n == c.ref
<1>1. env \in Bindings /\ inner \in Seq(SelectColumns)
  BY SelectsOK DEF Environments
<1>2. new \in Bindings /\ SelectingIs(env, inner)
  BY <1>1, SelectingOK
<1>3. new \in Environments
  BY SelectingGoverns
<1>4. c.ref \in FieldNames /\ c.calc = 0 /\ KeyOf(c) = n /\ c.measured \in BOOLEAN
  BY OutputsOK DEF IsBare
<1>5. Made(new, c) = Read(new, n)
  BY <1>2, <1>4, MadeOK
<1>6. CASE c.measured
  <2>1. Narrowed(c, inner) = c
    BY <1>1, <1>6, NarrowedOK
  <2>2. Made(env, c) = Read(env, n)
    BY <1>1, <1>4, MadeOK
  <2>3. n \in Governed
    BY <1>6
  <2>4. Read(env, n) = [ref |-> n, calc |-> 0] /\ Read(new, n) = [ref |-> n, calc |-> 0]
    BY <1>3, <2>3 DEF Environments, Governs
  <2>5. QED
    BY <1>5, <2>1, <2>2, <2>4
<1>7. CASE ~c.measured
  <2> DEFINE m == Min(Suppliers(inner, n))
             narrowed == Narrowed(c, inner)
  <2>1. narrowed.ref = inner[m].ref /\ narrowed.calc = inner[m].calc
    BY <1>1, <1>4, <1>7, NarrowedOK
  <2>2. m \in 1 .. Len(inner) /\ (\/ inner[m].alias = n
                                  \/ KeyOf(inner[m]) = n /\ \A i \in 1 .. Len(inner) : inner[i].alias # n)
    BY <1>1, <1>4, SuppliersOf
  <2> HIDE DEF m, narrowed
  <2>3. inner[m] \in SelectColumns
    BY <1>1, <2>2
  <2>4. inner[m].ref \in FieldNames /\ inner[m].calc \in Nat
    BY <2>3, OutputsOK
  <2>5. Made(env, narrowed) = Made(env, inner[m])
    BY <1>1, <2>1, <2>4, MadeOK
  <2>6. n # NoAlias /\ n.part = "name"
    BY <1>4, ResultAssumption DEF FieldNames, NoAlias, Name
  <2>7. CASE OutputOf(inner[m]) = n
    <3>1. Read(new, n) = Made(env, inner[m])
      BY <1>2, <2>2, <2>7 DEF SelectingIs, Read
    <3>2. QED
      BY <1>5, <2>5, <3>1 DEF narrowed
  <2>8. CASE OutputOf(inner[m]) # n
    <3>1. inner[m].alias # n
      BY <2>6, <2>8 DEF OutputOf
    <3>2. KeyOf(inner[m]) = n /\ \A i \in 1 .. Len(inner) : inner[i].alias # n
      BY <2>2, <3>1
    <3>3. inner[m].calc = 0 /\ inner[m].ref = n
      <4>1. inner[m].calc # 0 => KeyOf(inner[m]).part = "calc"
        BY <2>4, Keys
      <4>2. inner[m].calc = 0
        BY <2>6, <3>2, <4>1
      <4>3. QED
        BY <2>4, <3>2, <4>2, Keys
    <3>4. Made(env, inner[m]) = Read(env, n)
      BY <1>1, <2>4, <3>3, MadeOK
    <3>5. Read(new, n) = Read(env, n)
      <4>1. CASE \A i \in 1 .. Len(inner) : OutputOf(inner[i]) # n
        BY <1>2, <4>1 DEF SelectingIs
      <4>2. CASE \E i \in 1 .. Len(inner) : OutputOf(inner[i]) = n
        <5>1. PICK i \in 1 .. Len(inner) : OutputOf(inner[i]) = n
          BY <4>2
        <5>2. inner[i] \in SelectColumns /\ inner[i].ref \in FieldNames /\ inner[i].calc \in Nat
          <6>1. inner[i] \in SelectColumns
            BY <1>1
          <6>2. QED
            BY <6>1, OutputsOK
        <5>3. KeyOf(inner[i]) = n
          BY <3>2, <5>1 DEF OutputOf
        <5>4. inner[i].ref = inner[m].ref /\ inner[i].calc = inner[m].calc
          BY <2>4, <3>2, <5>2, <5>3, Keys
        <5>5. Made(env, inner[i]) = Made(env, inner[m])
          BY <1>1, <2>4, <5>4, MadeOK
        <5>6. Read(new, n) = Made(env, inner[i])
          BY <1>2, <5>1 DEF SelectingIs, Read
        <5>7. QED
          BY <3>4, <5>5, <5>6
      <4>3. QED
        BY <4>1, <4>2
    <3>6. QED
      BY <1>5, <2>5, <3>4, <3>5 DEF narrowed
  <2>9. QED
    BY <2>7, <2>8
<1>8. QED
  BY <1>4, <1>6, <1>7

\* The columns that are sent are those of the outermost select(), and mean what they do
LEMMA ComposedMeans ==
    ASSUME NEW selects \in Seq(Selects), \A k \in 1 .. Len(selects) : ~AliasRefused(selects[k]),
           Len(selects) # 0, NEW cols, cols = Composed(selects), cols # <<>>,
           \A i \in 1 .. Len(cols) : IsBare(cols[i])
    PROVE  /\ cols \in Seq(SelectColumns) /\ Len(Last(selects)) = Len(cols)
           /\ \A i \in 1 .. Len(cols) :
                 /\ OutputOf(cols[i]) = OutputOf(Last(selects)[i])
                 /\ Read(SelectingUpTo(selects)[Len(selects)], OutputOf(cols[i]))
                       = [ref |-> cols[i].ref, calc |-> 0]
<1> DEFINE n == Len(selects)
           m == Len(cols)
           from == Compositions(selects)
           env == SelectingUpTo(selects)
<1>1. n \in Nat /\ n # 0 /\ \A k \in 1 .. n : selects[k] \in Selects /\ selects[k] \in Seq(SelectColumns)
  BY SelectsOK
<1>2. selects \in Seq(Seq(SelectColumns))
  BY SelectsOK
<1>3. Composing(selects, from)
  BY <1>1, <1>2, CompositionsExist
<1>4. SelectingThrough(selects, env)
  BY SelectingExists
<1>5. cols = from[1] /\ Last(selects) = selects[n]
  BY DEF Composed, Last
<1> HIDE DEF from, env, n
<1>6. /\ \A k \in 1 .. n : from[k] \in Seq(SelectColumns)
      /\ from[n] = selects[n]
      /\ \A k \in 1 .. n - 1 : from[k] = SelectedOver(from[k + 1], selects[k])
  BY <1>3 DEF Composing, n
<1>7. /\ \A k \in 0 .. n : env[k] \in Environments
      /\ env[0] = <<>>
      /\ \A k \in 1 .. n : env[k] = Selecting(env[k - 1], selects[k])
  BY <1>4 DEF SelectingThrough, n
<1>8. m \in Nat /\ cols \in Seq(SelectColumns)
  BY <1>1, <1>5, <1>6
<1> DEFINE Same(k) == /\ from[k] # <<>> /\ Len(from[k]) = m
                      /\ \A i \in 1 .. m : IsBare(from[k][i]) /\ OutputOf(from[k][i]) = OutputOf(cols[i])
           Going(k) == \A i \in 1 .. m : /\ from[k][i] = Narrowed(from[k + 1][i], selects[k])
                                         /\ Suppliers(selects[k], KeyOf(from[k + 1][i])) # {}
<1>9. ASSUME NEW k \in 1 .. n - 1, Same(k) PROVE Same(k + 1) /\ Going(k)
  <2>1. from[k + 1] \in Seq(SelectColumns) /\ selects[k] \in Seq(SelectColumns)
    BY <1>1, <1>6
  <2>2. SelectedOver(from[k + 1], selects[k]) = from[k] /\ SelectedOver(from[k + 1], selects[k]) # <<>>
    BY <1>6, <1>9
  <2>3. /\ Len(from[k]) = Len(from[k + 1]) /\ from[k + 1] # <<>>
        /\ \A i \in 1 .. Len(from[k + 1]) :
              /\ from[k][i] = Narrowed(from[k + 1][i], selects[k])
              /\ Suppliers(selects[k], KeyOf(from[k + 1][i])) # {}
    BY <2>1, <2>2, SelectedOverOK
  <2>4. Len(from[k + 1]) = m
    BY <1>9, <2>3
  <2>5. ASSUME NEW i \in 1 .. m
        PROVE  IsBare(from[k + 1][i]) /\ OutputOf(from[k + 1][i]) = OutputOf(cols[i])
    <3> DEFINE c == from[k + 1][i]
    <3>1. c \in SelectColumns
      BY <2>1, <2>4
    <3>2. from[k][i] = Narrowed(c, selects[k]) /\ Suppliers(selects[k], KeyOf(c)) # {}
      BY <2>3, <2>4
    <3>3. IsBare(from[k][i]) /\ OutputOf(from[k][i]) = OutputOf(cols[i])
      BY <1>9
    <3> HIDE DEF c
    <3>4. ~IsBare(c) => Narrowed(c, selects[k]) = c
      BY <2>1, <3>1, <3>2, NarrowedOK
    <3>5. OutputOf(Narrowed(c, selects[k])) = OutputOf(c)
      BY <2>1, <3>1, <3>2, NarrowedOK
    <3>6. QED
      BY <3>2, <3>3, <3>4, <3>5 DEF c
  <2>6. QED
    BY <2>3, <2>4, <2>5
<1>10. \A k \in 1 .. n : Same(k)
  <2> DEFINE T == {k \in Nat : k \in 1 .. n => Same(k)}
  <2>1. 0 \in T
    OBVIOUS
  <2>2. Same(1)
    BY <1>5
  <2>3. ASSUME NEW k \in Nat, k \in T PROVE k + 1 \in T
    <3>1. SUFFICES ASSUME k + 1 \in 1 .. n PROVE Same(k + 1)
      OBVIOUS
    <3>2. CASE k = 0
      BY <2>2, <3>2
    <3>3. CASE k # 0
      <4>1. k \in 1 .. n - 1 /\ Same(k)
        BY <1>1, <2>3, <3>1, <3>3
      <4> HIDE DEF Same
      <4>2. QED
        BY <1>9, <4>1
    <3>4. QED
      BY <3>2, <3>3
  <2>4. \A k \in Nat : k \in T
    <3> HIDE DEF T
    <3>1. QED
      BY <2>1, <2>3, StepByStep
  <2> HIDE DEF Same
  <2>5. QED
    BY <1>1, <2>4
<1>11. \A k \in 1 .. n - 1 : Going(k)
  <2> HIDE DEF Same, Going
  <2>1. \A k \in 1 .. n - 1 : k \in 1 .. n
    BY <1>1
  <2>2. QED
    BY <1>9, <1>10, <2>1
<1> DEFINE Governing(k) == \A i \in 1 .. m : from[k][i].measured => from[k][i].ref \in Governed
           Meaning(k) == \A i \in 1 .. m : Made(env[k - 1], from[k][i]) = Read(env[n], OutputOf(cols[i]))
<1>12. Governing(n) /\ Meaning(n)
  <2>1. n \in 1 .. n /\ Same(n) /\ from[n] = selects[n]
    BY <1>1, <1>6, <1>10
  <2>2. Len(selects[n]) = m /\ selects[n] \in Selects /\ selects[n] \in Seq(SelectColumns)
    BY <1>1, <2>1
  <2>3. Governing(n)
    BY <2>1, <2>2, SelectsOK
  <2>4. env[n - 1] \in Bindings /\ env[n] = Selecting(env[n - 1], selects[n]) /\ ~AliasRefused(selects[n])
    BY <1>1, <1>7 DEF Environments, n
  <2>5. SelectingIs(env[n - 1], selects[n])
    BY <2>2, <2>4, SelectingOK
  <2>6. ASSUME NEW i \in 1 .. m PROVE Made(env[n - 1], from[n][i]) = Read(env[n], OutputOf(cols[i]))
    <3>1. OutputOf(selects[n][i]) = OutputOf(cols[i])
      BY <2>1
    <3>2. env[n][OutputOf(selects[n][i])] = Made(env[n - 1], selects[n][i]) /\ OutputOf(selects[n][i]) \in DOMAIN env[n]
      BY <2>2, <2>4, <2>5 DEF SelectingIs
    <3>3. QED
      BY <2>1, <3>1, <3>2 DEF Read
  <2>7. QED
    BY <2>3, <2>6
<1>13. ASSUME NEW k \in 1 .. n - 1, Governing(k + 1), Meaning(k + 1) PROVE Governing(k) /\ Meaning(k)
  <2>1. k \in 1 .. n /\ k + 1 \in 1 .. n /\ (k + 1) - 1 = k /\ k - 1 \in 0 .. n /\ k \in 0 .. n
    BY <1>1
  <2>2. ASSUME NEW i \in 1 .. m
        PROVE  /\ from[k][i].measured => from[k][i].ref \in Governed
               /\ Made(env[k - 1], from[k][i]) = Read(env[n], OutputOf(cols[i]))
    <3> DEFINE c == from[k + 1][i]
               inner == selects[k]
               below == env[k - 1]
               new == from[k][i]
    <3>1. c \in SelectColumns /\ IsBare(c)
      <4>1. from[k + 1] \in Seq(SelectColumns) /\ Len(from[k + 1]) = m /\ IsBare(c)
        BY <1>6, <1>10, <2>1
      <4>2. QED
        BY <4>1
    <3>2. inner \in Selects /\ inner \in Seq(SelectColumns) /\ ~AliasRefused(inner)
      BY <1>1, <2>1 DEF n
    <3>3. below \in Environments /\ env[k] = Selecting(below, inner)
      BY <1>7, <2>1
    <3>4. new = Narrowed(c, inner) /\ Suppliers(inner, KeyOf(c)) # {}
      BY <1>11
    <3>5. c.measured => c.ref \in Governed
      BY <1>13
    <3>6. Made(env[k], c) = Read(env[n], OutputOf(cols[i]))
      BY <1>13, <2>1
    <3> HIDE DEF c, inner, below, new
    <3>7. Made(below, Narrowed(c, inner)) = Made(Selecting(below, inner), c)
      BY <3>1, <3>2, <3>3, <3>4, <3>5, NarrowedMeans
    <3>8. new.measured => new.ref \in Governed
      <4>1. CASE c.measured
        BY <3>1, <3>2, <3>4, <3>5, <4>1, NarrowedOK
      <4>2. CASE ~c.measured
        <5> DEFINE at == Min(Suppliers(inner, KeyOf(c)))
        <5>1. new.ref = inner[at].ref /\ new.measured = inner[at].measured
          BY <3>1, <3>2, <3>4, <4>2, NarrowedOK
        <5>2. at \in 1 .. Len(inner)
          BY <3>2, <3>4, SuppliersOf
        <5> HIDE DEF at
        <5>3. QED
          BY <3>2, <5>1, <5>2, SelectsOK
      <4>3. QED
        BY <4>1, <4>2
    <3>9. QED
      BY <3>3, <3>4, <3>6, <3>7, <3>8 DEF below, new
  <2>3. QED
    BY <2>2
<1>14. Meaning(1)
  <2> DEFINE T == {j \in Nat : j \in 0 .. n - 1 => Governing(n - j) /\ Meaning(n - j)}
  <2> HIDE DEF Governing, Meaning
  <2>1. 0 \in T
    <3>1. n - 0 = n
      BY <1>1
    <3>2. QED
      BY <1>12, <3>1
  <2>2. ASSUME NEW j \in Nat, j \in T PROVE j + 1 \in T
    <3>1. SUFFICES ASSUME j + 1 \in 0 .. n - 1 PROVE Governing(n - (j + 1)) /\ Meaning(n - (j + 1))
      OBVIOUS
    <3>2. j \in 0 .. n - 1 /\ n - (j + 1) \in 1 .. n - 1 /\ (n - (j + 1)) + 1 = n - j
      BY <1>1, <3>1
    <3>3. Governing(n - j) /\ Meaning(n - j)
      BY <2>2, <3>2
    <3>4. QED
      BY <1>13, <3>2, <3>3
  <2>3. \A j \in Nat : j \in T
    <3> HIDE DEF T
    <3>1. QED
      BY <2>1, <2>2, StepByStep
  <2>4. n - 1 \in Nat /\ n - 1 \in 0 .. n - 1 /\ n - (n - 1) = 1
    BY <1>1
  <2>5. QED
    BY <2>3, <2>4
<1>15. ASSUME NEW i \in 1 .. m PROVE Read(env[n], OutputOf(cols[i])) = [ref |-> cols[i].ref, calc |-> 0]
  <2>1. Made(<<>>, cols[i]) = Read(env[n], OutputOf(cols[i]))
    BY <1>5, <1>7, <1>14
  <2>2. cols[i].ref \in FieldNames /\ cols[i].calc = 0
    <3>1. cols[i] \in SelectColumns
      BY <1>8
    <3>2. QED
      BY <3>1, OutputsOK DEF IsBare
  <2>3. <<>> \in Bindings
    BY NothingMeans DEF Environments
  <2>4. Made(<<>>, cols[i]) = Read(<<>>, cols[i].ref)
    BY <2>2, <2>3, MadeOK
  <2>5. QED
    BY <2>1, <2>4, NothingMeans
<1>16. Len(selects[n]) = m /\ \A i \in 1 .. m : OutputOf(cols[i]) = OutputOf(selects[n][i])
  <2>1. n \in 1 .. n
    BY <1>1
  <2>2. QED
    BY <1>6, <1>10, <2>1
<1>17. QED
  BY <1>5, <1>8, <1>15, <1>16 DEF env, n

(***************************************************************************)
(* One statement: its outputs, and the names they are sent and come back   *)
(* under.                                                                  *)
(***************************************************************************)
SqlExprs == [ref : FieldNames, calc : Nat, measured : BOOLEAN]
OutputRecords == [name : Outs, expr : SqlExprs, key : BOOLEAN]

\* The names of two expressions are different, and none is a field's
LEMMA GeneratedNames ==
    ASSUME NEW outputs \in Seq(OutputRecords), NEW i \in 1 .. Len(outputs), ~IsBare(outputs[i].expr)
    PROVE  LET c == GeneratedFor(outputs, i).nth
           IN  /\ GeneratedFor(outputs, i) = [base |-> "of_expr", part |-> "name", nth |-> c]
               /\ c \in Nat \ {0}
               /\ \A j \in 1 .. Len(outputs) :
                     ~IsBare(outputs[j].expr) /\ GeneratedFor(outputs, j).nth = c => j = i
<1> DEFINE Before(j) == {h \in 1 .. j : ~IsBare(outputs[h].expr)}
<1>1. \A j : GeneratedFor(outputs, j) = [base |-> "of_expr", part |-> "name", nth |-> Cardinality(Before(j))]
  BY DEF GeneratedFor, Name
<1>2. \A j : GeneratedFor(outputs, j).nth = Cardinality(Before(j))
  BY <1>1
<1>3. Len(outputs) \in Nat
  OBVIOUS
<1>4. ASSUME NEW j \in 1 .. Len(outputs)
      PROVE  IsFiniteSet(Before(j)) /\ Cardinality(Before(j)) \in Nat
  <2>1. IsFiniteSet(1 .. j)
    BY <1>3, FS_Interval
  <2>2. IsFiniteSet(Before(j))
    BY <2>1, FS_Subset
  <2>3. QED
    BY <2>2, FS_CardinalityType
<1>5. \A j, l \in 1 .. Len(outputs) : j < l => Before(j) \subseteq Before(l)
  BY <1>3
<1>6. \A j \in 1 .. Len(outputs) : ~IsBare(outputs[j].expr) => j \in Before(j)
  BY <1>3
<1>7. \A j, l \in 1 .. Len(outputs) : j < l => l \notin Before(j)
  BY <1>3
<1> HIDE DEF Before
<1>8. ASSUME NEW j \in 1 .. Len(outputs), NEW l \in 1 .. Len(outputs), j < l, ~IsBare(outputs[l].expr)
      PROVE  Cardinality(Before(j)) # Cardinality(Before(l))
  <2>1. Before(j) \in SUBSET Before(l) /\ Before(j) # Before(l)
    BY <1>5, <1>6, <1>7, <1>8
  <2>2. IsFiniteSet(Before(l))
    BY <1>4
  <2>3. QED
    BY <2>1, <2>2, FS_Subset
<1>9. Cardinality(Before(i)) # 0
  <2>1. IsFiniteSet(Before(i)) /\ Before(i) # {}
    BY <1>4, <1>6
  <2>2. QED
    BY <2>1, FS_EmptySet
<1>10. ASSUME NEW j \in 1 .. Len(outputs), ~IsBare(outputs[j].expr),
              Cardinality(Before(j)) = Cardinality(Before(i))
       PROVE  j = i
  <2>1. ~(j < i) /\ ~(i < j)
    BY <1>8, <1>10
  <2>2. QED
    BY <1>3, <2>1
<1>11. QED
  BY <1>1, <1>2, <1>4, <1>9, <1>10

\* The items of a statement: which outputs they are, and under which name each comes back
LEMMA EmittedAre ==
    ASSUME NEW outputs \in Seq(OutputRecords)
    PROVE  LET at == Emitted(outputs)
           IN  /\ at \in Seq(1 .. Len(outputs)) /\ Len(at) \in Nat /\ DOMAIN at = 1 .. Len(at)
               /\ \A k \in 1 .. Len(at) : at[k] \in 1 .. Len(outputs)
               /\ \A j, k \in 1 .. Len(at) : at[j] = at[k] => j = k
               /\ \A j, k \in 1 .. Len(at) : SentAs(outputs, at[j]) = SentAs(outputs, at[k]) => j = k
               /\ \A i \in 1 .. Len(outputs) :
                     IsBare(outputs[i].expr) =>
                         \E k \in 1 .. Len(at) : /\ at[k] <= i /\ IsBare(outputs[at[k]].expr)
                                                 /\ outputs[at[k]].expr.ref = outputs[i].expr.ref
               /\ \A i \in 1 .. Len(outputs) :
                     ~IsBare(outputs[i].expr) => \E k \in 1 .. Len(at) : at[k] = i
<1> DEFINE places == EmittedPlaces(outputs)
           at == Emitted(outputs)
           n == Len(outputs)
<1>1. DOMAIN outputs = 1 .. n /\ n \in Nat /\ \A i \in 1 .. n : outputs[i] \in OutputRecords
  OBVIOUS
<1>2. InOrder(places, n, at)
  BY AscendingInOrder DEF Emitted
<1>3. \A i \in 1 .. n : i \in places <=> \/ ~IsBare(outputs[i].expr)
                                         \/ \A j \in 1 .. i - 1 : \/ ~IsBare(outputs[j].expr)
                                                                  \/ outputs[j].expr.ref # outputs[i].expr.ref
  BY <1>1 DEF EmittedPlaces
<1> HIDE DEF places, at, n
<1>4. /\ at \in Seq(1 .. n) /\ Len(at) \in Nat /\ DOMAIN at = 1 .. Len(at)
      /\ \A k \in 1 .. Len(at) : at[k] \in 1 .. n /\ at[k] \in places
      /\ \A j, k \in 1 .. Len(at) : j < k => at[j] < at[k]
      /\ \A i \in places \cap (1 .. n) : \E k \in 1 .. Len(at) : at[k] = i
  <2>1. /\ at \in Seq(1 .. n)
        /\ \A k \in 1 .. Len(at) : at[k] \in places
        /\ \A j, k \in 1 .. Len(at) : j < k => at[j] < at[k]
        /\ \A i \in places \cap (1 .. n) : \E k \in 1 .. Len(at) : at[k] = i
    BY <1>2 DEF InOrder
  <2>2. at \in Seq(1 .. n)
    BY <2>1
  <2> DEFINE T == 1 .. n
  <2>3. at \in Seq(T)
    BY <2>2
  <2> HIDE DEF T
  <2>4. Len(at) \in Nat /\ DOMAIN at = 1 .. Len(at)
    BY <2>3
  <2>5. \A k \in 1 .. Len(at) : at[k] \in T
    BY <2>3
  <2>6. QED
    BY <2>1, <2>4, <2>5 DEF T
<1>5. ASSUME NEW j \in 1 .. Len(at), NEW k \in 1 .. Len(at), at[j] = at[k] PROVE j = k
  BY <1>1, <1>4, <1>5
<1>6. ASSUME NEW i \in 1 .. n
      PROVE  /\ IsBare(outputs[i].expr) => SentAs(outputs, i) = outputs[i].expr.ref /\ SentAs(outputs, i).nth = 0
             /\ ~IsBare(outputs[i].expr) =>
                   /\ SentAs(outputs, i).nth # 0
                   /\ \A j \in 1 .. n : ~IsBare(outputs[j].expr) /\ SentAs(outputs, j) = SentAs(outputs, i) => j = i
  <2>1. outputs[i].expr.ref \in FieldNames
    BY <1>1 DEF OutputRecords, SqlExprs
  <2>2. \A j \in 1 .. n : ~IsBare(outputs[j].expr) => SentAs(outputs, j) = GeneratedFor(outputs, j)
    BY DEF SentAs
  <2>3. ~IsBare(outputs[i].expr) =>
           /\ GeneratedFor(outputs, i).nth # 0
           /\ \A j \in 1 .. n : ~IsBare(outputs[j].expr) /\ GeneratedFor(outputs, j).nth = GeneratedFor(outputs, i).nth
                                => j = i
    BY GeneratedNames DEF n
  <2>4. QED
    BY <2>1, <2>2, <2>3 DEF SentAs, FieldNames
<1>7. ASSUME NEW j \in 1 .. Len(at), NEW k \in 1 .. Len(at), SentAs(outputs, at[j]) = SentAs(outputs, at[k])
      PROVE  j = k
  <2>1. at[j] \in 1 .. n /\ at[k] \in 1 .. n /\ at[j] \in places /\ at[k] \in places
    BY <1>4
  <2>2. CASE ~IsBare(outputs[at[j]].expr) \/ ~IsBare(outputs[at[k]].expr)
    <3>1. at[j] = at[k]
      BY <1>6, <1>7, <2>1, <2>2
    <3>2. QED
      BY <1>5, <3>1
  <2>3. CASE IsBare(outputs[at[j]].expr) /\ IsBare(outputs[at[k]].expr)
    <3>1. outputs[at[j]].expr.ref = outputs[at[k]].expr.ref
      BY <1>6, <1>7, <2>1, <2>3
    <3>2. ~(at[j] < at[k]) /\ ~(at[k] < at[j])
      BY <1>1, <1>3, <2>1, <2>3, <3>1
    <3>3. at[j] = at[k]
      BY <1>1, <2>1, <3>2
    <3>4. QED
      BY <1>5, <3>3
  <2>4. QED
    BY <2>2, <2>3
<1>8. ASSUME NEW i \in 1 .. n, IsBare(outputs[i].expr)
      PROVE  \E k \in 1 .. Len(at) : /\ at[k] <= i /\ IsBare(outputs[at[k]].expr)
                                     /\ outputs[at[k]].expr.ref = outputs[i].expr.ref
  <2> DEFINE same == {j \in 1 .. n : IsBare(outputs[j].expr) /\ outputs[j].expr.ref = outputs[i].expr.ref}
  <2>1. same \subseteq Nat
    BY <1>1
  <2>2. i \in same
    BY <1>8
  <2>3. PICK h \in same : \A j \in same : h <= j
    <3> HIDE DEF same
    <3>1. QED
      BY <2>1, <2>2, LeastNumber
  <2>4. h \in 1 .. n /\ IsBare(outputs[h].expr) /\ outputs[h].expr.ref = outputs[i].expr.ref /\ h <= i
    BY <2>2, <2>3
  <2>5. ASSUME NEW j \in 1 .. h - 1, IsBare(outputs[j].expr), outputs[j].expr.ref = outputs[h].expr.ref
        PROVE  FALSE
    <3>1. j \in 1 .. n /\ j < h
      BY <1>1, <2>4
    <3>2. QED
      BY <2>3, <2>4, <2>5, <3>1
  <2>6. h \in places
    BY <1>3, <2>4, <2>5
  <2>7. PICK k \in 1 .. Len(at) : at[k] = h
    BY <1>4, <2>4, <2>6
  <2>8. QED
    BY <2>4, <2>7
<1>9. ASSUME NEW i \in 1 .. n, ~IsBare(outputs[i].expr) PROVE \E k \in 1 .. Len(at) : at[k] = i
  BY <1>3, <1>4, <1>9
<1>10. QED
  BY <1>4, <1>5, <1>7, <1>8, <1>9 DEF at, n

\* The name an output is sent under and the one it comes back under.
LEMMA SentAndBack ==
    ASSUME NEW outputs \in Seq(OutputRecords), NEW i \in 1 .. Len(outputs)
    PROVE  LET e == outputs[i].expr
               sent == SentAs(outputs, i)
               back == BackAs(outputs, i)
           IN  /\ e.ref \in FieldNames /\ e.calc \in Nat
               /\ Item(back, e) \in Items
               /\ e.calc = 0 => back = e.ref /\ sent = e.ref
               /\ e.calc # 0 => /\ back.part = "scoped" /\ back = [sent EXCEPT !.part = "scoped"]
                                /\ sent = [back EXCEPT !.part = "name"]
                                /\ sent.base = "of_expr" /\ sent.part = "name" /\ sent.nth \in Nat \ {0}
                                /\ back.nth = sent.nth
<1> DEFINE e == outputs[i].expr
           sent == SentAs(outputs, i)
           back == BackAs(outputs, i)
           c == GeneratedFor(outputs, i).nth
<1>1. outputs[i] \in OutputRecords
  OBVIOUS
<1>2. e.ref \in FieldNames /\ e.calc \in Nat
  BY <1>1 DEF OutputRecords, SqlExprs
<1>3. CASE e.calc = 0
  <2>1. back = e.ref /\ sent = e.ref
    BY <1>3 DEF BackAs, SentAs, IsBare
  <2>2. e.ref \in Names
    BY <1>2 DEF FieldNames, Names, AllBases, AllParts
  <2>3. Item(e.ref, e) \in Items
    BY <1>2, <2>2 DEF Item, Items
  <2>4. QED
    BY <1>2, <1>3, <2>1, <2>3
<1>4. CASE e.calc # 0
  <2>1. ~IsBare(outputs[i].expr)
    BY <1>4 DEF IsBare
  <2>2. GeneratedFor(outputs, i) = [base |-> "of_expr", part |-> "name", nth |-> c] /\ c \in Nat \ {0}
    BY <2>1, GeneratedNames
  <2>3. sent = GeneratedFor(outputs, i) /\ back = [GeneratedFor(outputs, i) EXCEPT !.part = "scoped"]
    BY <2>1 DEF SentAs, BackAs
  <2> HIDE DEF c, e, sent, back
  <2>4. sent = [base |-> "of_expr", part |-> "name", nth |-> c]
    BY <2>2, <2>3
  <2>5. back = [base |-> "of_expr", part |-> "scoped", nth |-> c]
    BY <2>2, <2>3
  <2>6. back \in Names
    BY <2>2, <2>5 DEF Names, AllBases, AllParts
  <2>7. Item(back, e) \in Items
    BY <1>2, <2>6 DEF Item, Items
  <2>8. /\ back.part = "scoped" /\ back = [sent EXCEPT !.part = "scoped"]
        /\ sent = [back EXCEPT !.part = "name"]
        /\ sent.base = "of_expr" /\ sent.part = "name" /\ sent.nth \in Nat \ {0}
        /\ back.nth = sent.nth
    BY <2>2, <2>4, <2>5
  <2>9. QED
    BY <1>2, <1>4, <2>7, <2>8 DEF e, sent, back
<1>5. QED
  BY <1>3, <1>4

\* A name without a number is nobody's but a user's
LEMMA OutsAre ==
    \A o \in Outs : o.part = "name" => o.nth = 0
<1>1. \A o \in PlainNames : o.part = "name" /\ o.nth = 0
  BY DEF PlainNames, FieldNames, NoAlias, Name
<1>2. ASSUME NEW c \in SelectColumns PROVE KeyOf(c).part = "name" => KeyOf(c).nth = 0
  <2>1. c.ref \in FieldNames /\ c.calc \in Nat /\ c.ref \in PlainNames
    BY OutputsOK DEF PlainNames
  <2>2. (c.calc = 0 => KeyOf(c) = c.ref) /\ (c.calc # 0 => KeyOf(c).part = "calc")
    BY <2>1, Keys
  <2>3. QED
    BY <1>1, <2>1, <2>2
<1>3. ASSUME NEW c \in SelectColumns PROVE OutputOf(c).part = "name" => OutputOf(c).nth = 0
  <2>1. OutputOf(c) \in PlainNames \/ OutputOf(c) = KeyOf(c)
    BY OutputsOK
  <2>2. QED
    BY <1>1, <1>2, <2>1
<1>4. QED
  BY <1>1, <1>2, <1>3 DEF Outs, PlainNames

\* A statement's items are its outputs, each field once, and its columns their names.
LEMMA SqlQueryOK ==
    ASSUME NEW outputs \in Seq(OutputRecords)
    PROVE  LET query == SqlQuery(outputs)
               at == Emitted(outputs)
           IN  /\ QueryOK(query)
               /\ Len(query.items) = Len(at) /\ DOMAIN query.columns = 1 .. Len(at)
               /\ \A k \in 1 .. Len(at) : /\ query.items[k].ref = outputs[at[k]].expr.ref
                                          /\ query.items[k].calc = outputs[at[k]].expr.calc
                                          /\ query.columns[k] = outputs[at[k]].name
<1> DEFINE at == Emitted(outputs)
           n == Len(outputs)
           m == Len(at)
           query == SqlQuery(outputs)
           items == query.items
           names == ItemNames(items)
           aliases == query.aliases
           renamed == {i \in Range(at) : SentAs(outputs, i) # outputs[i].name}
           Back(k) == Item(BackAs(outputs, at[k]), outputs[at[k]].expr)
<1>1. /\ at \in Seq(1 .. n) /\ m \in Nat /\ DOMAIN at = 1 .. m
      /\ \A k \in 1 .. m : at[k] \in 1 .. n
      /\ \A j, k \in 1 .. m : at[j] = at[k] => j = k
      /\ \A j, k \in 1 .. m : SentAs(outputs, at[j]) = SentAs(outputs, at[k]) => j = k
  BY EmittedAre
<1>2. /\ items = [k \in DOMAIN at |-> Back(k)]
      /\ query.columns = [k \in DOMAIN at |-> outputs[at[k]].name]
      /\ aliases = [key \in {SentAs(outputs, i) : i \in renamed} |->
                       outputs[CHOOSE i \in renamed : SentAs(outputs, i) = key].name]
  BY DEF SqlQuery
<1>3. ASSUME NEW i \in 1 .. n
      PROVE  LET e == outputs[i].expr
                 sent == SentAs(outputs, i)
                 back == BackAs(outputs, i)
             IN  /\ e.ref \in FieldNames /\ e.calc \in Nat
                 /\ Item(back, e) \in Items
                 /\ e.calc = 0 => back = e.ref /\ sent = e.ref
                 /\ e.calc # 0 => /\ back.part = "scoped" /\ back = [sent EXCEPT !.part = "scoped"]
                                  /\ sent = [back EXCEPT !.part = "name"]
                                  /\ sent.base = "of_expr" /\ sent.part = "name" /\ sent.nth \in Nat \ {0}
                                  /\ back.nth = sent.nth
  BY SentAndBack
<1> HIDE DEF at, n, m, query, items, aliases
<1>4. ASSUME NEW k \in 1 .. m
      PROVE  /\ Back(k) \in Items /\ items[k] = Back(k)
             /\ items[k].name = BackAs(outputs, at[k])
             /\ items[k].ref = outputs[at[k]].expr.ref /\ items[k].calc = outputs[at[k]].expr.calc
             /\ query.columns[k] = outputs[at[k]].name
  <2>1. at[k] \in 1 .. n
    BY <1>1
  <2>2. Back(k) \in Items
    BY <1>3, <2>1
  <2>3. items[k] = Back(k) /\ query.columns[k] = outputs[at[k]].name
    BY <1>1, <1>2
  <2>4. QED
    BY <2>2, <2>3 DEF Item
<1>5. items \in Seq(Items) /\ Len(items) = m
  <2> HIDE DEF Back
  <2>1. items \in [1 .. m -> Items]
    BY <1>1, <1>2, <1>4
  <2>2. QED
    BY <1>1, <2>1
<1>6. query.columns = [k \in 1 .. m |-> query.columns[k]] /\ DOMAIN query.columns = 1 .. m
  BY <1>1, <1>2
<1> HIDE DEF Back
<1>7. ASSUME NEW j \in 1 .. m, NEW k \in 1 .. m, items[j].name = items[k].name
      PROVE  j = k
  <2> DEFINE a == at[j]
             b == at[k]
  <2>1. a \in 1 .. n /\ b \in 1 .. n /\ BackAs(outputs, a) = BackAs(outputs, b)
    BY <1>1, <1>4, <1>7
  <2> HIDE DEF a, b
  <2>2. (outputs[a].expr.calc = 0) <=> (outputs[b].expr.calc = 0)
    <3>1. outputs[a].expr.calc = 0 => BackAs(outputs, a).part = "name"
      BY <1>3, <2>1 DEF FieldNames
    <3>2. outputs[b].expr.calc = 0 => BackAs(outputs, b).part = "name"
      BY <1>3, <2>1 DEF FieldNames
    <3>3. outputs[a].expr.calc # 0 => BackAs(outputs, a).part = "scoped"
      BY <1>3, <2>1
    <3>4. outputs[b].expr.calc # 0 => BackAs(outputs, b).part = "scoped"
      BY <1>3, <2>1
    <3>5. QED
      BY <2>1, <3>1, <3>2, <3>3, <3>4
  <2>3. SentAs(outputs, a) = SentAs(outputs, b)
    <3>1. CASE outputs[a].expr.calc = 0
      BY <1>3, <2>1, <2>2, <3>1
    <3>2. CASE outputs[a].expr.calc # 0
      <4>1. SentAs(outputs, a) = [BackAs(outputs, a) EXCEPT !.part = "name"]
        BY <1>3, <2>1, <3>2
      <4>2. SentAs(outputs, b) = [BackAs(outputs, b) EXCEPT !.part = "name"]
        BY <1>3, <2>1, <2>2, <3>2
      <4>3. QED
        BY <2>1, <4>1, <4>2
    <3>3. QED
      BY <3>1, <3>2
  <2>4. QED
    BY <1>1, <2>3 DEF a, b
<1>8. ItemsOK(items)
  <2>1. ASSUME NEW k \in 1 .. m
        PROVE  /\ items[k].calc = 0 => items[k].name = items[k].ref
               /\ items[k].calc # 0 => items[k].name.part = "scoped"
    <3>1. at[k] \in 1 .. n
      BY <1>1
    <3>2. QED
      BY <1>3, <1>4, <3>1
  <2>2. QED
    BY <1>5, <1>7, <2>1 DEF ItemsOK
<1>9. DOMAIN names = 1 .. m /\ \A k \in 1 .. m : names[k] = BackAs(outputs, at[k])
  BY <1>4, <1>5 DEF ItemNames
<1> HIDE DEF names
<1>10. \A i \in renamed : \E k \in 1 .. m : at[k] = i /\ SentAs(outputs, i) # outputs[i].name
  BY <1>1 DEF Range
<1>11. \A k \in 1 .. m : SentAs(outputs, at[k]) # outputs[at[k]].name => at[k] \in renamed
  BY <1>1 DEF Range
<1>12. /\ DOMAIN aliases = {SentAs(outputs, i) : i \in renamed}
       /\ \A key \in DOMAIN aliases :
             aliases[key] = outputs[CHOOSE i \in renamed : SentAs(outputs, i) = key].name
  BY <1>2
<1> HIDE DEF renamed
<1>13. ASSUME NEW key \in DOMAIN aliases
       PROVE  \E l \in 1 .. m : /\ SentAs(outputs, at[l]) = key /\ SentAs(outputs, at[l]) # outputs[at[l]].name
                                /\ aliases[key] = query.columns[l]
  <2> DEFINE i == CHOOSE i \in renamed : SentAs(outputs, i) = key
  <2>1. i \in renamed /\ SentAs(outputs, i) = key
    BY <1>12
  <2>2. aliases[key] = outputs[i].name
    BY <1>12
  <2> HIDE DEF i
  <2>3. PICK l \in 1 .. m : at[l] = i /\ SentAs(outputs, i) # outputs[i].name
    BY <1>10, <2>1
  <2>4. QED
    BY <1>4, <2>1, <2>2, <2>3
\* What is renamed from the name it was sent under is the column it came back as
<1>14. ASSUME NEW l \in 1 .. m, SentAs(outputs, at[l]) # outputs[at[l]].name, NEW k \in 1 .. m
       PROVE  k \in Targets(names, SentAs(outputs, at[l])) <=> k = l
  <2> DEFINE a == at[l]
             b == at[k]
             key == SentAs(outputs, a)
  <2>1. a \in 1 .. n /\ b \in 1 .. n /\ names[k] = BackAs(outputs, b) /\ names[l] = BackAs(outputs, a)
    BY <1>1, <1>9
  <2>2. names[k] = names[l] => k = l
    BY <1>4, <1>7, <1>9
  <2> HIDE DEF a, b
  <2>3. CASE outputs[a].expr.calc = 0
    <3>1. names[l] = key
      BY <1>3, <2>1, <2>3
    <3>2. key \in Range(names)
      BY <1>9, <3>1 DEF Range
    <3>3. Targets(names, key) = {h \in DOMAIN names : names[h] = key}
      BY <3>2 DEF Targets
    <3>4. QED
      BY <1>9, <2>2, <3>1, <3>3 DEF a
  <2>4. CASE outputs[a].expr.calc # 0
    <3>1. /\ names[l] = [key EXCEPT !.part = "scoped"]
          /\ key.part = "name" /\ key.nth # 0
      BY <1>3, <2>1, <2>4
    <3>2. key \notin Range(names)
      <4>1. SUFFICES ASSUME NEW h \in 1 .. m, names[h] = key PROVE FALSE
        BY <1>9 DEF Range
      <4>2. at[h] \in 1 .. n /\ names[h] = BackAs(outputs, at[h])
        BY <1>1, <1>9
      <4>3. CASE outputs[at[h]].expr.calc = 0
        <5>1. names[h] \in FieldNames
          BY <1>3, <4>2, <4>3
        <5>2. names[h].nth = 0
          BY <5>1 DEF FieldNames
        <5>3. QED
          BY <3>1, <4>1, <5>2
      <4>4. CASE outputs[at[h]].expr.calc # 0
        <5>1. names[h].part = "scoped"
          BY <1>3, <4>2, <4>4
        <5>2. QED
          BY <3>1, <4>1, <5>1
      <4>5. QED
        BY <4>3, <4>4
    <3>3. Targets(names, key) = {h \in DOMAIN names : names[h] = [key EXCEPT !.part = "scoped"]}
      BY <3>2 DEF Targets
    <3>4. QED
      BY <1>9, <2>2, <3>1, <3>3 DEF a
  <2>5. QED
    BY <2>3, <2>4
<1>15. ASSUME NEW k \in 1 .. m PROVE Renamed(names, aliases)[k] = query.columns[k]
  <2> DEFINE new == query.columns[k]
  <2>1. ASSUME NEW key \in DOMAIN aliases, k \in Targets(names, key) PROVE aliases[key] = new
    <3>1. PICK l \in 1 .. m : /\ SentAs(outputs, at[l]) = key /\ SentAs(outputs, at[l]) # outputs[at[l]].name
                              /\ aliases[key] = query.columns[l]
      BY <1>13
    <3>2. l = k
      BY <1>14, <2>1, <3>1
    <3>3. QED
      BY <3>1, <3>2
  <2>2. (\E key \in DOMAIN aliases : k \in Targets(names, key)) \/ names[k] = new
    <3>1. CASE SentAs(outputs, at[k]) # outputs[at[k]].name
      <4>1. SentAs(outputs, at[k]) \in DOMAIN aliases
        BY <1>11, <1>12, <3>1
      <4>2. k \in Targets(names, SentAs(outputs, at[k]))
        BY <1>14, <3>1
      <4>3. QED
        BY <4>1, <4>2
    <3>2. CASE SentAs(outputs, at[k]) = outputs[at[k]].name
      <4>1. at[k] \in 1 .. n /\ outputs[at[k]].name \in Outs
        <5>1. at[k] \in 1 .. n
          BY <1>1
        <5>2. outputs[at[k]] \in OutputRecords
          BY <5>1 DEF n
        <5>3. QED
          BY <5>1, <5>2 DEF OutputRecords
      <4>2. outputs[at[k]].expr.calc = 0
        <5>1. SUFFICES ASSUME outputs[at[k]].expr.calc # 0 PROVE FALSE
          OBVIOUS
        <5>2. SentAs(outputs, at[k]).part = "name" /\ SentAs(outputs, at[k]).nth # 0
          BY <1>3, <4>1, <5>1
        <5>3. \A o \in Outs : o.part = "name" => o.nth = 0
          BY OutsAre
        <5>4. QED
          BY <3>2, <4>1, <5>2, <5>3
      <4>3. names[k] = outputs[at[k]].name
        BY <1>3, <1>9, <3>2, <4>1, <4>2
      <4>4. QED
        BY <1>4, <4>3
    <3>3. QED
      BY <3>1, <3>2
  <2>3. k \in DOMAIN names
    BY <1>9
  <2> HIDE DEF new
  <2>4. \A key \in DOMAIN aliases : k \in Targets(names, key) => aliases[key] = new
    BY <2>1
  <2>5. RenamedAs(names, aliases, k, new)
    BY <2>2, <2>4 DEF RenamedAs
  <2>6. Renamed(names, aliases)[k] = new
    BY <2>3, <2>5, RenamedTo
  <2>7. QED
    BY <2>6 DEF new
<1>16. Renamed(names, aliases) = query.columns
  <2>1. Renamed(names, aliases) = [k \in DOMAIN names |-> Renamed(names, aliases)[k]]
    BY RenamedDomain
  <2>2. Renamed(names, aliases) = [k \in 1 .. m |-> query.columns[k]]
    BY <1>9, <1>15, <2>1
  <2>3. QED
    BY <1>6, <2>2
<1>17. QueryOK(query)
  BY <1>8, <1>16 DEF QueryOK, items, names, aliases
<1>18. QED
  BY <1>4, <1>5, <1>6, <1>17 DEF items, query, at, m

(***************************************************************************)
(* One statement: what its outputs mean.                                   *)
(***************************************************************************)
Defs == UNION {[D -> SqlExprs] : D \in SUBSET Outs}

\* What a name stands for in a statement
Defined(defs, n) ==
    IF n \in DOMAIN defs THEN [ref |-> defs[n].ref, calc |-> defs[n].calc] ELSE [ref |-> n, calc |-> 0]

\* Definitions map outputs to expressions.
LEMMA DefsAre ==
    ASSUME NEW defs
    PROVE  /\ defs \in Defs => DOMAIN defs \subseteq Outs /\ \A n \in DOMAIN defs : defs[n] \in SqlExprs
           /\ /\ DOMAIN defs \subseteq Outs /\ defs = [n \in DOMAIN defs |-> defs[n]]
              /\ \A n \in DOMAIN defs : defs[n] \in SqlExprs
              => defs \in Defs
<1>1. ASSUME DOMAIN defs \subseteq Outs, defs = [n \in DOMAIN defs |-> defs[n]],
             \A n \in DOMAIN defs : defs[n] \in SqlExprs
      PROVE  defs \in Defs
  <2>1. defs \in [DOMAIN defs -> SqlExprs]
    BY <1>1
  <2>2. QED
    BY <1>1, <2>1 DEF Defs
<1>2. QED
  BY <1>1 DEF Defs

\* A new definition hides that of its name and of no other.
LEMMA DefineOK ==
    ASSUME NEW defs \in Defs, NEW name \in Outs, NEW key \in Outs, NEW e \in SqlExprs
    PROVE  /\ Define(defs, name, key, e) \in Defs
           /\ Defined(Define(defs, name, key, e), name) = [ref |-> e.ref, calc |-> e.calc]
           /\ \A n : n # name /\ (n = key => e.ref = n /\ e.calc = 0) =>
                 Defined(Define(defs, name, key, e), n) = Defined(defs, n)
<1> DEFINE new == Define(defs, name, key, e)
<1>1. new = [n \in DOMAIN defs \cup {name, key} |->
                IF n = name THEN e ELSE IF n \in DOMAIN defs THEN defs[n] ELSE e]
  BY DEF Define
<1> HIDE DEF new
<1>2. DOMAIN defs \subseteq Outs /\ \A n \in DOMAIN defs : defs[n] \in SqlExprs
  BY DefsAre
<1>3. new \in Defs
  <2>1. DOMAIN new \subseteq Outs /\ new = [n \in DOMAIN new |-> new[n]]
    BY <1>1, <1>2
  <2>2. \A n \in DOMAIN new : new[n] \in SqlExprs
    BY <1>1, <1>2
  <2>3. QED
    BY <2>1, <2>2, DefsAre
<1>4. Defined(new, name) = [ref |-> e.ref, calc |-> e.calc]
  BY <1>1 DEF Defined
<1>5. ASSUME NEW n, n # name, n = key => e.ref = n /\ e.calc = 0
      PROVE  Defined(new, n) = Defined(defs, n)
  <2>1. CASE n \in DOMAIN defs
    BY <1>1, <1>5, <2>1 DEF Defined
  <2>2. CASE n \notin DOMAIN defs /\ n = key
    <3>1. Defined(new, n) = [ref |-> e.ref, calc |-> e.calc]
      BY <1>1, <1>5, <2>2 DEF Defined
    <3>2. Defined(defs, n) = [ref |-> n, calc |-> 0]
      BY <2>2 DEF Defined
    <3>3. QED
      BY <1>5, <2>2, <3>1, <3>2
  <2>3. CASE n \notin DOMAIN defs /\ n # key
    BY <1>1, <1>5, <2>3 DEF Defined
  <2>4. QED
    BY <2>1, <2>2, <2>3
<1>6. QED
  BY <1>3, <1>4, <1>5 DEF new

\* Without definitions every name is a field.
LEMMA NothingDefined == <<>> \in Defs /\ \A n : Defined(<<>>, n) = [ref |-> n, calc |-> 0]
<1> DEFINE none == <<>>
<1>1. DOMAIN none = {} /\ none = [n \in {} |-> none[n]]
  OBVIOUS
<1>2. \A n : Defined(none, n) = [ref |-> n, calc |-> 0]
  BY <1>1 DEF Defined
<1> HIDE DEF none
<1>3. none \in Defs
  BY <1>1, DefsAre
<1>4. QED
  BY <1>2, <1>3 DEF none

\* The definitions after each column of a select()
DefiningThrough(cols, upTo) ==
    /\ \A k \in 0 .. Len(cols) : upTo[k] \in Defs
    /\ upTo[0] = <<>>
    /\ \A k \in 1 .. Len(cols) :
          upTo[k] = Define(upTo[k - 1], OutputOf(cols[k]), KeyOf(cols[k]), Expr(cols[k]))

\* What a selected column defines.
LEMMA ColumnsDefine ==
    ASSUME NEW c \in SelectColumns
    PROVE  /\ OutputOf(c) \in Outs /\ KeyOf(c) \in Outs /\ Expr(c) \in SqlExprs
           /\ Expr(c).ref = c.ref /\ Expr(c).calc = c.calc /\ Expr(c).measured = c.measured
           /\ \A n \in FieldNames : n = KeyOf(c) => c.ref = n /\ c.calc = 0
<1>1. OutputOf(c) \in Outs /\ KeyOf(c) \in Outs
  BY DEF Outs
<1>2. c.ref \in FieldNames /\ c.calc \in Nat /\ c.measured \in BOOLEAN
  BY OutputsOK
<1>3. Expr(c) \in SqlExprs /\ Expr(c).ref = c.ref /\ Expr(c).calc = c.calc /\ Expr(c).measured = c.measured
  BY <1>2 DEF Expr, SqlExprs
<1>4. ASSUME NEW n \in FieldNames, n = KeyOf(c) PROVE c.ref = n /\ c.calc = 0
  <2>1. n.part = "name"
    BY DEF FieldNames
  <2>2. c.calc # 0 => KeyOf(c).part = "calc"
    BY <1>2, Keys
  <2>3. c.calc = 0
    BY <1>4, <2>1, <2>2
  <2>4. QED
    BY <1>2, <1>4, <2>3, Keys
<1>5. QED
  BY <1>1, <1>3, <1>4

\* The recursive definition of DefinitionsUpTo has a solution, which DefinitionsUpTo is.
LEMMA DefinitionsExist ==
    ASSUME NEW cols \in Seq(SelectColumns)
    PROVE  DefiningThrough(cols, DefinitionsUpTo(cols))
<1> DEFINE n == Len(cols)
           Onto(k, defs) == Define(defs, OutputOf(cols[k]), KeyOf(cols[k]), Expr(cols[k]))
           step == [k \in 1 .. n |-> [defs \in Defs |-> Onto(k, defs)]]
           none == <<>>
<1>1. n \in Nat /\ \A k \in 1 .. n : cols[k] \in SelectColumns
  OBVIOUS
<1>2. none \in Defs
  BY NothingDefined
<1> HIDE DEF none
<1>3. ASSUME NEW k \in 1 .. n, NEW defs \in Defs PROVE Onto(k, defs) \in Defs
  <2>1. cols[k] \in SelectColumns
    BY <1>1
  <2>2. OutputOf(cols[k]) \in Outs /\ KeyOf(cols[k]) \in Outs /\ Expr(cols[k]) \in SqlExprs
    BY <2>1, ColumnsDefine
  <2>3. QED
    BY <2>2, DefineOK
<1> HIDE DEF Onto, n
<1>4. step \in Steps(n, Defs)
  BY <1>3 DEF Steps
<1>5. \A k \in 1 .. n, defs \in Defs : step[k][defs] = Onto(k, defs)
  OBVIOUS
<1> HIDE DEF step
<1>6. PICK f : Computes(f, n, Defs, none, step)
  BY <1>1, <1>2, <1>4, StepByStepFunction
<1> DEFINE Is(u) == u = [k \in 0 .. n |->
               IF k = 0 THEN none
               ELSE Define(u[k - 1], OutputOf(cols[k]), KeyOf(cols[k]), Expr(cols[k]))]
           upTo == CHOOSE u : Is(u)
<1>7. Is(f)
  <2> DEFINE Value(k) == IF k = 0 THEN none ELSE Onto(k, f[k - 1])
  <2>1. ASSUME NEW k \in 0 .. n PROVE f[k] = Value(k)
    <3>1. CASE k = 0
      BY <1>6, <3>1 DEF Computes
    <3>2. CASE k # 0
      <4>1. k \in 1 .. n /\ k - 1 \in 0 .. n
        BY <1>1, <3>2
      <4>2. f[k - 1] \in Defs /\ f[k] = step[k][f[k - 1]]
        BY <1>6, <4>1 DEF Computes
      <4>3. QED
        BY <1>5, <3>2, <4>1, <4>2
    <3>3. QED
      BY <3>1, <3>2
  <2> HIDE DEF Value
  <2>2. f = [k \in 0 .. n |-> Value(k)]
    BY <1>6, <2>1 DEF Computes
  <2>3. QED
    BY <2>2 DEF Value, Onto
<1>8. Is(upTo)
  BY <1>7
<1>9. DefinitionsUpTo(cols) = upTo
  BY DEF DefinitionsUpTo, n, none
<1>10. DefiningThrough(cols, upTo)
  <2> HIDE DEF upTo
  <2>1. upTo[0] = none
    BY <1>1, <1>8
  <2>2. ASSUME NEW k \in 1 .. n
        PROVE  upTo[k] = Define(upTo[k - 1], OutputOf(cols[k]), KeyOf(cols[k]), Expr(cols[k]))
    BY <1>1, <1>8
  <2> DEFINE T == {k \in Nat : k <= n => upTo[k] \in Defs}
  <2>3. 0 \in T
    BY <1>2, <2>1
  <2>4. ASSUME NEW k \in Nat, k \in T PROVE k + 1 \in T
    <3>1. SUFFICES ASSUME k + 1 <= n PROVE upTo[k + 1] \in Defs
      OBVIOUS
    <3>2. k + 1 \in 1 .. n /\ (k + 1) - 1 = k /\ upTo[k] \in Defs
      BY <1>1, <2>4, <3>1
    <3>3. upTo[k + 1] = Onto(k + 1, upTo[k])
      BY <2>2, <3>2 DEF Onto
    <3>4. QED
      BY <1>3, <3>2, <3>3
  <2>5. \A k \in Nat : k \in T
    <3> HIDE DEF T
    <3>1. QED
      BY <2>3, <2>4, StepByStep
  <2>6. \A k \in 0 .. n : upTo[k] \in Defs
    BY <1>1, <2>5
  <2>7. QED
    BY <2>1, <2>2, <2>6 DEF DefiningThrough, n, none
<1>11. QED
  BY <1>9, <1>10

\* After a select() a field's name stands for what it means there
LEMMA DefinitionsMean ==
    ASSUME NEW cols \in Seq(SelectColumns), ~AliasRefused(cols)
    PROVE  /\ Definitions(cols) \in Defs
           /\ \A n \in FieldNames : Defined(Definitions(cols), n) = Read(Selecting(<<>>, cols), n)
<1> DEFINE m == Len(cols)
           upTo == DefinitionsUpTo(cols)
           new == Selecting(<<>>, cols)
<1>1. m \in Nat /\ \A k \in 1 .. m : cols[k] \in SelectColumns
  OBVIOUS
<1>2. DefiningThrough(cols, upTo)
  BY DefinitionsExist
<1>3. Definitions(cols) = upTo[m]
  BY DEF Definitions
<1> HIDE DEF upTo, new, m
<1>4. /\ \A k \in 0 .. m : upTo[k] \in Defs
      /\ upTo[0] = <<>>
      /\ \A k \in 1 .. m : upTo[k] = Define(upTo[k - 1], OutputOf(cols[k]), KeyOf(cols[k]), Expr(cols[k]))
  BY <1>2 DEF DefiningThrough, m
<1> DEFINE Known(k) ==
      \A n \in FieldNames :
          /\ \A i \in 1 .. k : OutputOf(cols[i]) = n =>
                Defined(upTo[k], n) = [ref |-> cols[i].ref, calc |-> cols[i].calc]
          /\ (\A i \in 1 .. k : OutputOf(cols[i]) # n) => Defined(upTo[k], n) = [ref |-> n, calc |-> 0]
<1>5. Known(0)
  BY <1>4, NothingDefined
<1>6. ASSUME NEW k \in Nat, k + 1 \in 1 .. m, Known(k) PROVE Known(k + 1)
  <2> DEFINE c == cols[k + 1]
  <2>1. c \in SelectColumns /\ k \in 0 .. m /\ (k + 1) - 1 = k
    BY <1>1, <1>6
  <2>2. upTo[k] \in Defs /\ upTo[k + 1] = Define(upTo[k], OutputOf(c), KeyOf(c), Expr(c))
    BY <1>4, <1>6, <2>1
  <2> HIDE DEF c
  <2>3. /\ OutputOf(c) \in Outs /\ KeyOf(c) \in Outs /\ Expr(c) \in SqlExprs
        /\ Expr(c).ref = c.ref /\ Expr(c).calc = c.calc
        /\ \A n \in FieldNames : n = KeyOf(c) => c.ref = n /\ c.calc = 0
    BY <2>1, ColumnsDefine
  <2>4. /\ Defined(upTo[k + 1], OutputOf(c)) = [ref |-> c.ref, calc |-> c.calc]
        /\ \A n : n # OutputOf(c) /\ (n = KeyOf(c) => c.ref = n /\ c.calc = 0) =>
              Defined(upTo[k + 1], n) = Defined(upTo[k], n)
    BY <2>2, <2>3, DefineOK
  <2>5. ASSUME NEW n \in FieldNames, NEW i \in 1 .. k + 1, OutputOf(cols[i]) = n
        PROVE  Defined(upTo[k + 1], n) = [ref |-> cols[i].ref, calc |-> cols[i].calc]
    <3>1. CASE OutputOf(c) = n
      <4>1. i \in 1 .. Len(cols) /\ k + 1 \in 1 .. Len(cols) /\ cols[i] \in SelectColumns
        BY <1>1, <1>6 DEF m
      <4>2. KeyOf(cols[i]) = KeyOf(c)
        BY <2>5, <3>1, <4>1, SameOutputs DEF c
      <4>3. /\ cols[i].ref \in FieldNames /\ cols[i].calc \in Nat
            /\ c.ref \in FieldNames /\ c.calc \in Nat
        BY <2>1, <4>1, OutputsOK
      <4>4. cols[i].ref = c.ref /\ cols[i].calc = c.calc
        BY <4>2, <4>3, Keys
      <4>5. QED
        BY <2>4, <3>1, <4>4
    <3>2. CASE OutputOf(c) # n
      <4>1. i # k + 1
        BY <2>5, <3>2 DEF c
      <4>2. i \in 1 .. k
        BY <4>1
      <4>3. Defined(upTo[k], n) = [ref |-> cols[i].ref, calc |-> cols[i].calc]
        BY <1>6, <2>5, <4>2
      <4>4. QED
        BY <2>3, <2>4, <3>2, <4>3
    <3>3. QED
      BY <3>1, <3>2
  <2>6. ASSUME NEW n \in FieldNames, \A i \in 1 .. k + 1 : OutputOf(cols[i]) # n
        PROVE  Defined(upTo[k + 1], n) = [ref |-> n, calc |-> 0]
    <3>1. OutputOf(c) # n /\ \A i \in 1 .. k : OutputOf(cols[i]) # n
      BY <2>6 DEF c
    <3>2. Defined(upTo[k], n) = [ref |-> n, calc |-> 0]
      BY <1>6, <3>1
    <3>3. QED
      BY <2>3, <2>4, <3>1, <3>2
  <2>7. QED
    BY <2>5, <2>6
<1>7. Known(m)
  <2> DEFINE T == {k \in Nat : k \in 0 .. m => Known(k)}
  <2> HIDE DEF Known
  <2>1. 0 \in T
    BY <1>5
  <2>2. ASSUME NEW k \in Nat, k \in T PROVE k + 1 \in T
    <3>1. k + 1 \in 0 .. m => k + 1 \in 1 .. m /\ k \in 0 .. m
      BY <1>1
    <3>2. QED
      BY <1>6, <2>2, <3>1
  <2>3. \A k \in Nat : k \in T
    <3> HIDE DEF T
    <3>1. QED
      BY <2>1, <2>2, StepByStep
  <2>4. QED
    BY <1>1, <2>3
<1>8. <<>> \in Bindings /\ \A n : Read(<<>>, n) = [ref |-> n, calc |-> 0]
  BY NothingMeans DEF Environments
<1>9. SelectingIs(<<>>, cols)
  BY <1>8, SelectingOK
<1>10. ASSUME NEW i \in 1 .. m PROVE Made(<<>>, cols[i]) = [ref |-> cols[i].ref, calc |-> cols[i].calc]
  <2>1. cols[i].ref \in FieldNames /\ cols[i].calc \in Nat
    <3>1. cols[i] \in SelectColumns
      BY <1>1
    <3>2. QED
      BY <3>1, OutputsOK
  <2>2. Made(<<>>, cols[i]) = [[ref |-> cols[i].ref, calc |-> 0] EXCEPT !.calc = @ + cols[i].calc]
    BY <1>8 DEF Made
  <2>3. QED
    BY <2>1, <2>2
<1>11. ASSUME NEW n \in FieldNames PROVE Defined(upTo[m], n) = Read(new, n)
  <2>1. CASE \E i \in 1 .. m : OutputOf(cols[i]) = n
    <3>1. PICK i \in 1 .. m : OutputOf(cols[i]) = n
      BY <2>1
    <3>2. Read(new, n) = Made(<<>>, cols[i])
      BY <1>9, <3>1 DEF SelectingIs, Read, new, m
    <3>3. QED
      BY <1>7, <1>10, <3>1, <3>2
  <2>2. CASE \A i \in 1 .. m : OutputOf(cols[i]) # n
    <3>1. Read(new, n) = Read(<<>>, n)
      BY <1>9, <2>2 DEF SelectingIs, new, m
    <3>2. QED
      BY <1>7, <1>8, <2>2, <3>1
  <2>3. QED
    BY <2>1, <2>2
<1>12. upTo[m] \in Defs
  BY <1>1, <1>4
<1>13. QED
  BY <1>3, <1>11, <1>12 DEF new

\* A with_column() changes what its own name means and no other.
LEMMA DerivingOK ==
    ASSUME NEW env \in Bindings, NEW d \in DerivedColumns
    PROVE  /\ Deriving(env, d) \in Bindings
           /\ Read(Deriving(env, d), d.name) = Made(env, d)
           /\ \A n : n # d.name => Read(Deriving(env, d), n) = Read(env, n)
<1> DEFINE new == Deriving(env, d)
<1>1. new = [n \in DOMAIN env \cup {d.name} |-> IF n = d.name THEN Made(env, d) ELSE env[n]]
  BY DEF Deriving
<1> HIDE DEF new
<1>2. d.name \in Outs /\ d.ref \in FieldNames /\ d.calc \in Nat
  BY DEF DerivedColumns, Outs
<1>3. Made(env, d) \in Exprs
  BY <1>2, MadeOK
<1>4. DOMAIN env \subseteq Outs /\ \A n \in DOMAIN env : env[n] \in Exprs
  BY BindingsAre
<1>5. new \in Bindings
  <2>1. DOMAIN new \subseteq Outs /\ new = [n \in DOMAIN new |-> new[n]]
    BY <1>1, <1>2, <1>4
  <2>2. \A n \in DOMAIN new : new[n] \in Exprs
    BY <1>1, <1>3, <1>4
  <2>3. QED
    BY <2>1, <2>2, BindingsAre
<1>6. Read(new, d.name) = Made(env, d)
  BY <1>1 DEF Read
<1>7. \A n : n # d.name => Read(new, n) = Read(env, n)
  BY <1>1 DEF Read
<1>8. QED
  BY <1>5, <1>6, <1>7 DEF new

\* The meanings of the names after each with_column()
DerivingThrough(below, derived, env) ==
    /\ \A k \in 0 .. Len(derived) : env[k] \in Bindings
    /\ env[0] = below
    /\ \A k \in 1 .. Len(derived) : env[k] = Deriving(env[k - 1], derived[k])

\* The recursive definition of DerivingUpTo has a solution, which DerivingUpTo is.
LEMMA DerivingExists ==
    ASSUME NEW below \in Bindings, NEW derived \in Seq(DerivedColumns)
    PROVE  DerivingThrough(below, derived, DerivingUpTo(below, derived))
<1> DEFINE n == Len(derived)
           Onto(k, env) == Deriving(env, derived[k])
           step == [k \in 1 .. n |-> [env \in Bindings |-> Onto(k, env)]]
<1>1. n \in Nat /\ \A k \in 1 .. n : derived[k] \in DerivedColumns
  OBVIOUS
<1>2. ASSUME NEW k \in 1 .. n, NEW env \in Bindings PROVE Onto(k, env) \in Bindings
  <2>1. derived[k] \in DerivedColumns
    BY <1>1
  <2>2. QED
    BY <2>1, DerivingOK
<1> HIDE DEF Onto, n
<1>3. step \in Steps(n, Bindings)
  BY <1>2 DEF Steps
<1>4. \A k \in 1 .. n, env \in Bindings : step[k][env] = Onto(k, env)
  OBVIOUS
<1> HIDE DEF step
<1>5. PICK f : Computes(f, n, Bindings, below, step)
  BY <1>1, <1>3, StepByStepFunction
<1> DEFINE Is(u) == u = [k \in 0 .. n |-> IF k = 0 THEN below ELSE Deriving(u[k - 1], derived[k])]
           env == CHOOSE u : Is(u)
<1>6. Is(f)
  <2> DEFINE Value(k) == IF k = 0 THEN below ELSE Onto(k, f[k - 1])
  <2>1. ASSUME NEW k \in 0 .. n PROVE f[k] = Value(k)
    <3>1. CASE k = 0
      BY <1>5, <3>1 DEF Computes
    <3>2. CASE k # 0
      <4>1. k \in 1 .. n /\ k - 1 \in 0 .. n
        BY <1>1, <3>2
      <4>2. f[k - 1] \in Bindings /\ f[k] = step[k][f[k - 1]]
        BY <1>5, <4>1 DEF Computes
      <4>3. QED
        BY <1>4, <3>2, <4>1, <4>2
    <3>3. QED
      BY <3>1, <3>2
  <2> HIDE DEF Value
  <2>2. f = [k \in 0 .. n |-> Value(k)]
    BY <1>5, <2>1 DEF Computes
  <2>3. QED
    BY <2>2 DEF Value, Onto
<1>7. Is(env)
  BY <1>6
<1>8. DerivingUpTo(below, derived) = env
  BY DEF DerivingUpTo, n
<1>9. DerivingThrough(below, derived, env)
  <2> HIDE DEF env
  <2>1. env[0] = below
    BY <1>1, <1>7
  <2>2. ASSUME NEW k \in 1 .. n PROVE env[k] = Deriving(env[k - 1], derived[k])
    BY <1>1, <1>7
  <2> DEFINE T == {k \in Nat : k <= n => env[k] \in Bindings}
  <2>3. 0 \in T
    BY <2>1
  <2>4. ASSUME NEW k \in Nat, k \in T PROVE k + 1 \in T
    <3>1. SUFFICES ASSUME k + 1 <= n PROVE env[k + 1] \in Bindings
      OBVIOUS
    <3>2. k + 1 \in 1 .. n /\ (k + 1) - 1 = k /\ env[k] \in Bindings
      BY <1>1, <2>4, <3>1
    <3>3. env[k + 1] = Onto(k + 1, env[k])
      BY <2>2, <3>2 DEF Onto
    <3>4. QED
      BY <1>2, <3>2, <3>3
  <2>5. \A k \in Nat : k \in T
    <3> HIDE DEF T
    <3>1. QED
      BY <2>3, <2>4, StepByStep
  <2>6. \A k \in 0 .. n : env[k] \in Bindings
    BY <1>1, <2>5
  <2>7. QED
    BY <2>1, <2>2, <2>6 DEF DerivingThrough, n
<1>10. QED
  BY <1>8, <1>9

\* What with_column() makes of a statement
Statements == [outputs : Seq(OutputRecords), defs : Defs, ok : BOOLEAN]

\* Substitution gives what the name means, if the definitions do.
LEMMA SubstitutedOK ==
    ASSUME NEW defs \in Defs, NEW d \in DerivedColumns
    PROVE  /\ Substituted(d, defs) \in SqlExprs
           /\ \A env \in Bindings : Read(env, d.ref) = Defined(defs, d.ref) =>
                 [ref |-> Substituted(d, defs).ref, calc |-> Substituted(d, defs).calc] = Made(env, d)
<1> DEFINE e == Substituted(d, defs)
           was == Defined(defs, d.ref)
<1>1. d.ref \in FieldNames /\ d.calc \in Nat
  BY DEF DerivedColumns
<1>2. e \in SqlExprs /\ e.ref = was.ref /\ e.calc = was.calc + d.calc
  <2>1. CASE d.ref \in DOMAIN defs
    <3> DEFINE old == defs[d.ref]
    <3>1. old \in SqlExprs
      BY <2>1, DefsAre
    <3>2. e = [old EXCEPT !.calc = @ + d.calc]
      BY <2>1 DEF Substituted
    <3>3. was = [ref |-> old.ref, calc |-> old.calc]
      BY <2>1 DEF Defined
    <3> HIDE DEF old, e, was
    <3>4. QED
      BY <1>1, <3>1, <3>2, <3>3 DEF SqlExprs
  <2>2. CASE d.ref \notin DOMAIN defs
    <3>1. e = [ref |-> d.ref, calc |-> d.calc, measured |-> FALSE]
      BY <2>2 DEF Substituted
    <3>2. was = [ref |-> d.ref, calc |-> 0]
      BY <2>2 DEF Defined
    <3> HIDE DEF e, was
    <3>3. QED
      BY <1>1, <3>1, <3>2 DEF SqlExprs
  <2>3. QED
    BY <2>1, <2>2
<1>3. ASSUME NEW env \in Bindings, Read(env, d.ref) = was PROVE [ref |-> e.ref, calc |-> e.calc] = Made(env, d)
  <2>1. Made(env, d) \in Exprs /\ Made(env, d).ref = was.ref /\ Made(env, d).calc = was.calc + d.calc
    BY <1>1, <1>3, MadeOK
  <2>2. QED
    BY <1>2, <2>1 DEF Exprs
<1>4. QED
  BY <1>2, <1>3

\* Where a with_column() goes, and what else it leaves as it was
PlacedIs(sql, d, new) ==
    \/ ~new.ok
    \/ /\ sql.ok
       /\ new.defs = Define(sql.defs, d.name, d.name, Substituted(d, sql.defs))
       /\ Len(sql.outputs) <= Len(new.outputs)
       /\ \E at \in 1 .. Len(new.outputs) :
             /\ new.outputs[at].name = d.name /\ new.outputs[at].expr = Substituted(d, sql.defs)
             /\ \A i \in 1 .. Len(new.outputs) : i # at => i <= Len(sql.outputs) /\ new.outputs[i] = sql.outputs[i]
             /\ \A i \in 1 .. Len(sql.outputs) : sql.outputs[i].name = d.name =>
                   at <= i /\ sql.outputs[at].name = d.name
             /\ at <= Len(sql.outputs) => sql.outputs[at].name = d.name

\* A with_column() replaces an output or adds one.
LEMMA PlacedOK ==
    ASSUME NEW sql \in Statements, NEW d \in DerivedColumns, NEW aggregated
    PROVE  Placed(sql, d, aggregated) \in Statements /\ PlacedIs(sql, d, Placed(sql, d, aggregated))
<1> DEFINE e == Substituted(d, sql.defs)
           outputs == sql.outputs
           n == Len(outputs)
           same == {i \in DOMAIN outputs : outputs[i].name = d.name}
           at == IF same = {} THEN n + 1 ELSE Min(same)
           output == [name |-> d.name, expr |-> e, key |-> FALSE]
           refuses == \/ aggregated /\ ~e.measured /\ ~\E o \in Range(outputs) : o.key /\ o.expr.ref = e.ref
                      \/ \E i \in same : outputs[i].key
           filled == [i \in DOMAIN outputs \cup {at} |-> IF i = at THEN output ELSE outputs[i]]
           defs == Define(sql.defs, d.name, d.name, e)
           new == Placed(sql, d, aggregated)
<1>1. new = IF refuses THEN NoMore ELSE [outputs |-> filled, defs |-> defs, ok |-> sql.ok]
  BY DEF Placed
<1>2. sql.defs \in Defs /\ outputs \in Seq(OutputRecords) /\ sql.ok \in BOOLEAN
  BY DEF Statements
<1>3. e \in SqlExprs
  BY <1>2, SubstitutedOK
<1>4. d.name \in Outs /\ d.name \in FieldNames
  BY DEF DerivedColumns, Outs
<1>5. output \in OutputRecords /\ output.name = d.name /\ output.expr = e
  BY <1>3, <1>4 DEF OutputRecords
<1>6. defs \in Defs
  BY <1>2, <1>3, <1>4, DefineOK
<1>7. n \in Nat /\ DOMAIN outputs = 1 .. n /\ \A i \in 1 .. n : outputs[i] \in OutputRecords
  BY <1>2
<1>8. same \subseteq 1 .. n /\ \A i \in 1 .. n : i \in same <=> outputs[i].name = d.name
  BY <1>7
<1>9. same # {} => at \in same /\ \A i \in same : at <= i
  <2>1. same \subseteq Nat
    BY <1>7, <1>8
  <2> HIDE DEF same
  <2>2. QED
    BY <2>1, LeastOf
<1>10. same = {} => at = n + 1
  OBVIOUS
<1>11. CASE refuses
  <2>1. new = NoMore
    BY <1>1, <1>11
  <2>2. NoMore \in Statements
    <3>1. <<>> \in Defs
      BY NothingDefined
    <3>2. <<>> \in Seq(OutputRecords)
      BY EmptySeq
    <3>3. NoMore = [outputs |-> <<>>, defs |-> <<>>, ok |-> FALSE]
      BY DEF NoMore
    <3> DEFINE none == <<>>
    <3>4. none \in Defs /\ none \in Seq(OutputRecords) /\ NoMore = [outputs |-> none, defs |-> none, ok |-> FALSE]
      BY <3>1, <3>2, <3>3
    <3> HIDE DEF none
    <3>5. QED
      BY <3>4 DEF Statements
  <2>3. ~NoMore.ok
    BY DEF NoMore
  <2>4. QED
    BY <2>1, <2>2, <2>3 DEF PlacedIs
<1>12. CASE ~refuses
  <2>1. new = [outputs |-> filled, defs |-> defs, ok |-> sql.ok]
    BY <1>1, <1>12
  <2>2. filled = [i \in 1 .. n \cup {at} |-> IF i = at THEN output ELSE outputs[i]]
    BY <1>7
  <2> HIDE DEF e, outputs, n, same, at, output, refuses, filled, defs, new
  <2> DEFINE last == IF same = {} THEN n + 1 ELSE n
  <2>3. 1 .. n \cup {at} = 1 .. last /\ at \in 1 .. last /\ last \in Nat /\ n <= last
    <3>1. CASE same = {}
      BY <1>7, <1>10, <3>1
    <3>2. CASE same # {}
      <4>1. at \in 1 .. n /\ last = n
        BY <1>8, <1>9, <3>2
      <4>2. 1 .. n \cup {at} = 1 .. n
        BY <4>1
      <4>3. QED
        BY <1>7, <4>1, <4>2
    <3>3. QED
      BY <3>1, <3>2
  <2>4. \A i \in 1 .. last : i # at => i \in 1 .. n
    BY <2>3
  <2> HIDE DEF last
  <2>5. filled \in [1 .. last -> OutputRecords]
    BY <1>5, <1>7, <2>2, <2>3, <2>4
  <2>6. filled \in Seq(OutputRecords) /\ Len(filled) = last
    BY <2>3, <2>5
  <2>7. filled[at] = output /\ \A i \in 1 .. last : i # at => filled[i] = outputs[i]
    BY <2>2, <2>3
  <2>8. new \in Statements
    BY <1>2, <1>6, <2>1, <2>6 DEF Statements
  <2>9. new.outputs = filled /\ new.defs = defs /\ new.ok = sql.ok
    BY <2>1
  <2>10. \A i \in 1 .. n : outputs[i].name = d.name => at <= i /\ outputs[at].name = d.name
    BY <1>8, <1>9
  <2>11. at <= n => outputs[at].name = d.name
    <3>1. CASE same = {}
      BY <1>7, <1>10, <3>1
    <3>2. CASE same # {}
      <4>1. at \in same /\ at \in 1 .. n
        BY <1>8, <1>9, <3>2
      <4>2. QED
        BY <1>8, <4>1
    <3>3. QED
      BY <3>1, <3>2
  <2>12. ASSUME sql.ok PROVE PlacedIs(sql, d, new)
    <3>1. at \in 1 .. Len(new.outputs)
      BY <2>3, <2>6, <2>9
    <3>2. new.outputs[at].name = d.name /\ new.outputs[at].expr = e
      BY <1>5, <2>7, <2>9
    <3>3. \A i \in 1 .. Len(new.outputs) : i # at => i <= n /\ new.outputs[i] = outputs[i]
      BY <1>7, <2>4, <2>6, <2>7, <2>9
    <3>4. n <= Len(new.outputs)
      BY <2>3, <2>6, <2>9
    <3>5. QED
      BY <2>9, <2>10, <2>11, <2>12, <3>1, <3>2, <3>3, <3>4 DEF PlacedIs, e, outputs, n, defs
  <2>13. QED
    BY <2>8, <2>9, <2>12 DEF PlacedIs, new
<1>13. QED
  BY <1>11, <1>12

\* The outputs of a select().
LEMMA SelectedOK ==
    ASSUME NEW cols \in Seq(SelectColumns)
    PROVE  /\ Selected(cols) \in Seq(OutputRecords) /\ Len(Selected(cols)) = Len(cols)
           /\ \A i \in 1 .. Len(cols) : /\ Selected(cols)[i].name = OutputOf(cols[i])
                                        /\ Selected(cols)[i].expr = Expr(cols[i])
<1> DEFINE n == Len(cols)
           Key(i) == Aggregated(cols) /\ IsBare(cols[i]) /\ ~cols[i].measured
           One(i) == [name |-> OutputOf(cols[i]), expr |-> Expr(cols[i]), key |-> Key(i)]
           selected == Selected(cols)
<1>1. n \in Nat /\ DOMAIN cols = 1 .. n /\ \A i \in 1 .. n : cols[i] \in SelectColumns
  OBVIOUS
<1>2. ASSUME NEW i \in 1 .. n PROVE [Output(cols[i]) EXCEPT !.key = Key(i)] = One(i)
  BY DEF Output
<1>3. selected = [i \in 1 .. n |-> One(i)]
  BY <1>1, <1>2 DEF Selected
<1>4. ASSUME NEW i \in 1 .. n PROVE One(i) \in OutputRecords /\ One(i).name = OutputOf(cols[i]) /\ One(i).expr = Expr(cols[i])
  <2>1. cols[i] \in SelectColumns
    BY <1>1
  <2>2. OutputOf(cols[i]) \in Outs /\ Expr(cols[i]) \in SqlExprs
    BY <2>1, ColumnsDefine
  <2>3. Key(i) \in BOOLEAN
    OBVIOUS
  <2> HIDE DEF Key
  <2>4. QED
    BY <2>2, <2>3 DEF OutputRecords
<1> HIDE DEF One, selected, n
<1>5. selected \in [1 .. n -> OutputRecords]
  BY <1>3, <1>4
<1>6. selected \in Seq(OutputRecords) /\ Len(selected) = n
  BY <1>1, <1>5
<1>7. \A i \in 1 .. n : selected[i].name = OutputOf(cols[i]) /\ selected[i].expr = Expr(cols[i])
  BY <1>3, <1>4
<1>8. QED
  BY <1>6, <1>7 DEF selected, n

\* The statement after each with_column()
PlacingThrough(cols, derived, sql) ==
    /\ \A k \in 0 .. Len(derived) : sql[k] \in Statements
    /\ sql[0] = [outputs |-> Selected(cols), defs |-> Definitions(cols), ok |-> TRUE]
    /\ \A k \in 1 .. Len(derived) : sql[k] = Placed(sql[k - 1], derived[k], Aggregated(cols))

\* The recursive definition of SqlUpTo has a solution, which SqlUpTo is.
LEMMA StatementsExist ==
    ASSUME NEW cols \in Seq(SelectColumns), ~AliasRefused(cols), NEW derived \in Seq(DerivedColumns)
    PROVE  PlacingThrough(cols, derived, SqlUpTo(cols, derived))
<1> DEFINE n == Len(derived)
           Onto(k, sql) == Placed(sql, derived[k], Aggregated(cols))
           step == [k \in 1 .. n |-> [sql \in Statements |-> Onto(k, sql)]]
           first == [outputs |-> Selected(cols), defs |-> Definitions(cols), ok |-> TRUE]
<1>1. n \in Nat /\ \A k \in 1 .. n : derived[k] \in DerivedColumns
  OBVIOUS
<1>2. first \in Statements
  <2>1. Selected(cols) \in Seq(OutputRecords) /\ Definitions(cols) \in Defs
    BY SelectedOK, DefinitionsMean
  <2>2. QED
    BY <2>1 DEF Statements
<1>3. ASSUME NEW k \in 1 .. n, NEW sql \in Statements PROVE Onto(k, sql) \in Statements
  <2>1. derived[k] \in DerivedColumns
    BY <1>1
  <2>2. QED
    BY <2>1, PlacedOK
<1> HIDE DEF Onto, n, first
<1>4. step \in Steps(n, Statements)
  BY <1>3 DEF Steps
<1>5. \A k \in 1 .. n, sql \in Statements : step[k][sql] = Onto(k, sql)
  OBVIOUS
<1> HIDE DEF step
<1>6. PICK f : Computes(f, n, Statements, first, step)
  BY <1>1, <1>2, <1>4, StepByStepFunction
<1> DEFINE Is(u) == u = [k \in 0 .. n |-> IF k = 0 THEN first ELSE Placed(u[k - 1], derived[k], Aggregated(cols))]
           sql == CHOOSE u : Is(u)
<1>7. Is(f)
  <2> DEFINE Value(k) == IF k = 0 THEN first ELSE Onto(k, f[k - 1])
  <2>1. ASSUME NEW k \in 0 .. n PROVE f[k] = Value(k)
    <3>1. CASE k = 0
      BY <1>6, <3>1 DEF Computes
    <3>2. CASE k # 0
      <4>1. k \in 1 .. n /\ k - 1 \in 0 .. n
        BY <1>1, <3>2
      <4>2. f[k - 1] \in Statements /\ f[k] = step[k][f[k - 1]]
        BY <1>6, <4>1 DEF Computes
      <4>3. QED
        BY <1>5, <3>2, <4>1, <4>2
    <3>3. QED
      BY <3>1, <3>2
  <2> HIDE DEF Value
  <2>2. f = [k \in 0 .. n |-> Value(k)]
    BY <1>6, <2>1 DEF Computes
  <2>3. QED
    BY <2>2 DEF Value, Onto
<1>8. Is(sql)
  BY <1>7
<1>9. SqlUpTo(cols, derived) = sql
  BY DEF SqlUpTo, n, first
<1>10. PlacingThrough(cols, derived, sql)
  <2> HIDE DEF sql
  <2>1. sql[0] = first
    BY <1>1, <1>8
  <2>2. ASSUME NEW k \in 1 .. n PROVE sql[k] = Placed(sql[k - 1], derived[k], Aggregated(cols))
    BY <1>1, <1>8
  <2> DEFINE T == {k \in Nat : k <= n => sql[k] \in Statements}
  <2>3. 0 \in T
    BY <1>2, <2>1
  <2>4. ASSUME NEW k \in Nat, k \in T PROVE k + 1 \in T
    <3>1. SUFFICES ASSUME k + 1 <= n PROVE sql[k + 1] \in Statements
      OBVIOUS
    <3>2. k + 1 \in 1 .. n /\ (k + 1) - 1 = k /\ sql[k] \in Statements
      BY <1>1, <2>4, <3>1
    <3>3. sql[k + 1] = Onto(k + 1, sql[k])
      BY <2>2, <3>2 DEF Onto
    <3>4. QED
      BY <1>3, <3>2, <3>3
  <2>5. \A k \in Nat : k \in T
    <3> HIDE DEF T
    <3>1. QED
      BY <2>3, <2>4, StepByStep
  <2>6. \A k \in 0 .. n : sql[k] \in Statements
    BY <1>1, <2>5
  <2>7. QED
    BY <2>1, <2>2, <2>6 DEF PlacingThrough, n, first
<1>11. QED
  BY <1>9, <1>10

\* What a statement says is what its chain means, by every name's first output; only the
\* select() repeats a name
Describes(cols, sql, env) ==
    /\ \A n \in FieldNames : Defined(sql.defs, n) = Read(env, n)
    /\ Len(cols) <= Len(sql.outputs)
    /\ \A i \in 1 .. Len(cols) : sql.outputs[i].name = OutputOf(cols[i])
    /\ \A i, j \in 1 .. Len(sql.outputs) :
          i # j /\ sql.outputs[i].name = sql.outputs[j].name => i <= Len(cols) /\ j <= Len(cols)
    /\ \A i \in 1 .. Len(sql.outputs) :
          (\A j \in 1 .. i - 1 : sql.outputs[j].name # sql.outputs[i].name) =>
              [ref |-> sql.outputs[i].expr.ref, calc |-> sql.outputs[i].expr.calc]
                  = Read(env, sql.outputs[i].name)

\* The outputs and definitions of a select() are what it means.
LEMMA SelectDescribes ==
    ASSUME NEW cols \in Seq(SelectColumns), ~AliasRefused(cols)
    PROVE  Describes(cols, [outputs |-> Selected(cols), defs |-> Definitions(cols), ok |-> TRUE],
                     Selecting(<<>>, cols))
<1> DEFINE sql == [outputs |-> Selected(cols), defs |-> Definitions(cols), ok |-> TRUE]
           env == Selecting(<<>>, cols)
           n == Len(cols)
<1>1. n \in Nat /\ \A i \in 1 .. n : cols[i] \in SelectColumns
  OBVIOUS
<1>2. Len(sql.outputs) = n /\ \A i \in 1 .. n : sql.outputs[i].name = OutputOf(cols[i]) /\ sql.outputs[i].expr = Expr(cols[i])
  BY SelectedOK
<1>3. \A name \in FieldNames : Defined(sql.defs, name) = Read(env, name)
  BY DefinitionsMean
<1>4. <<>> \in Bindings /\ \A name : Read(<<>>, name) = [ref |-> name, calc |-> 0]
  BY NothingMeans DEF Environments
<1>5. SelectingIs(<<>>, cols)
  BY <1>4, SelectingOK
<1> HIDE DEF sql, env, n
<1>6. ASSUME NEW i \in 1 .. n
      PROVE  [ref |-> sql.outputs[i].expr.ref, calc |-> sql.outputs[i].expr.calc]
                 = Read(env, sql.outputs[i].name)
  <2>1. cols[i] \in SelectColumns
    BY <1>1
  <2>2. cols[i].ref \in FieldNames /\ cols[i].calc \in Nat
    BY <2>1, OutputsOK
  <2>3. sql.outputs[i].name = OutputOf(cols[i]) /\ sql.outputs[i].expr = Expr(cols[i])
    BY <1>2
  <2>4. Expr(cols[i]).ref = cols[i].ref /\ Expr(cols[i]).calc = cols[i].calc
    BY <2>1, ColumnsDefine
  <2>5. Read(env, OutputOf(cols[i])) = Made(<<>>, cols[i])
    BY <1>5 DEF SelectingIs, Read, env, n
  <2>6. Made(<<>>, cols[i]) = [[ref |-> cols[i].ref, calc |-> 0] EXCEPT !.calc = @ + cols[i].calc]
    BY <1>4 DEF Made
  <2>7. Made(<<>>, cols[i]) = [ref |-> cols[i].ref, calc |-> cols[i].calc]
    BY <2>2, <2>6
  <2>8. QED
    BY <2>3, <2>4, <2>5, <2>7
<1>7. Describes(cols, sql, env)
  BY <1>1, <1>2, <1>3, <1>6 DEF Describes, n
<1>8. QED
  BY <1>7 DEF sql, env

\* They stay so through one with_column(),
LEMMA PlacedDescribes ==
    ASSUME NEW cols \in Seq(SelectColumns), NEW sql \in Statements, NEW env \in Bindings,
           NEW d \in DerivedColumns, NEW new \in Statements, PlacedIs(sql, d, new), new.ok,
           Describes(cols, sql, env)
    PROVE  Describes(cols, new, Deriving(env, d))
<1> DEFINE after == Deriving(env, d)
           old == sql.outputs
           outputs == new.outputs
           m == Len(cols)
           e == Substituted(d, sql.defs)
<1>1. sql.defs \in Defs /\ old \in Seq(OutputRecords) /\ outputs \in Seq(OutputRecords)
  BY DEF Statements
<1>2. m \in Nat /\ Len(old) \in Nat /\ Len(outputs) \in Nat
  BY <1>1
<1>3. e \in SqlExprs /\ d.ref \in FieldNames /\ d.name \in FieldNames /\ d.name \in Outs
  BY <1>1, SubstitutedOK DEF DerivedColumns, Outs
<1>4. Read(env, d.ref) = Defined(sql.defs, d.ref)
  BY <1>3 DEF Describes
<1>5. [ref |-> e.ref, calc |-> e.calc] = Made(env, d)
  BY <1>1, <1>4, SubstitutedOK
<1>6. Read(after, d.name) = Made(env, d) /\ \A n : n # d.name => Read(after, n) = Read(env, n)
  BY DerivingOK
<1>7. PICK at \in 1 .. Len(outputs) :
         /\ outputs[at].name = d.name /\ outputs[at].expr = e
         /\ \A i \in 1 .. Len(outputs) : i # at => i <= Len(old) /\ outputs[i] = old[i]
         /\ \A i \in 1 .. Len(old) : old[i].name = d.name => at <= i /\ old[at].name = d.name
         /\ at <= Len(old) => old[at].name = d.name
  BY DEF PlacedIs
<1>8. new.defs = Define(sql.defs, d.name, d.name, e) /\ Len(old) <= Len(outputs)
  BY DEF PlacedIs
<1>9. /\ \A n \in FieldNames : Defined(sql.defs, n) = Read(env, n)
      /\ m <= Len(old)
      /\ \A i \in 1 .. m : old[i].name = OutputOf(cols[i])
      /\ \A i, j \in 1 .. Len(old) : i # j /\ old[i].name = old[j].name => i <= m /\ j <= m
      /\ \A i \in 1 .. Len(old) : (\A j \in 1 .. i - 1 : old[j].name # old[i].name) =>
            [ref |-> old[i].expr.ref, calc |-> old[i].expr.calc] = Read(env, old[i].name)
  BY DEF Describes
<1> HIDE DEF after, old, outputs, m, e
<1>10. ASSUME NEW n \in FieldNames PROVE Defined(new.defs, n) = Read(after, n)
  <2>1. /\ Defined(new.defs, d.name) = [ref |-> e.ref, calc |-> e.calc]
        /\ n # d.name => Defined(new.defs, n) = Defined(sql.defs, n)
    BY <1>1, <1>3, <1>8, DefineOK
  <2>2. CASE n = d.name
    BY <1>5, <1>6, <2>1, <2>2
  <2>3. CASE n # d.name
    BY <1>6, <1>9, <2>1, <2>3
  <2>4. QED
    BY <2>2, <2>3
<1>11. ASSUME NEW i \in 1 .. m PROVE outputs[i].name = OutputOf(cols[i])
  <2>1. i \in 1 .. Len(old) /\ i \in 1 .. Len(outputs)
    BY <1>2, <1>8, <1>9
  <2>2. CASE i = at
    BY <1>7, <1>9, <2>1, <2>2
  <2>3. CASE i # at
    BY <1>7, <1>9, <2>1, <2>3
  <2>4. QED
    BY <2>2, <2>3
<1>12. ASSUME NEW i \in 1 .. Len(outputs), NEW j \in 1 .. Len(outputs), i # j,
              outputs[i].name = outputs[j].name
       PROVE  i <= m /\ j <= m
  <2>1. CASE i # at /\ j # at
    <3>1. i \in 1 .. Len(old) /\ j \in 1 .. Len(old) /\ old[i].name = old[j].name
      BY <1>2, <1>7, <1>12, <2>1
    <3>2. QED
      BY <1>9, <1>12, <3>1
  <2>2. CASE i = at
    <3>1. j \in 1 .. Len(old) /\ old[j].name = d.name
      BY <1>2, <1>7, <1>12, <2>2
    <3>2. at <= j /\ old[at].name = d.name
      BY <1>7, <3>1
    <3>3. at \in 1 .. Len(old) /\ at # j
      BY <1>2, <1>12, <2>2, <3>1, <3>2
    <3>4. QED
      BY <1>9, <2>2, <3>1, <3>2, <3>3
  <2>3. CASE j = at
    <3>1. i \in 1 .. Len(old) /\ old[i].name = d.name
      BY <1>2, <1>7, <1>12, <2>3
    <3>2. at <= i /\ old[at].name = d.name
      BY <1>7, <3>1
    <3>3. at \in 1 .. Len(old) /\ at # i
      BY <1>2, <1>12, <2>3, <3>1, <3>2
    <3>4. QED
      BY <1>9, <2>3, <3>1, <3>2, <3>3
  <2>4. QED
    BY <2>1, <2>2, <2>3
<1>13. ASSUME NEW i \in 1 .. Len(outputs), \A j \in 1 .. i - 1 : outputs[j].name # outputs[i].name
       PROVE  [ref |-> outputs[i].expr.ref, calc |-> outputs[i].expr.calc] = Read(after, outputs[i].name)
  <2>1. CASE i = at
    BY <1>5, <1>6, <1>7, <2>1
  <2>2. CASE i # at
    <3>1. i \in 1 .. Len(old) /\ outputs[i] = old[i]
      BY <1>2, <1>7, <2>2
    <3>2. old[i].name # d.name
      <4>1. SUFFICES ASSUME old[i].name = d.name PROVE FALSE
        OBVIOUS
      <4>2. at <= i
        BY <1>7, <3>1, <4>1
      <4>3. at \in 1 .. i - 1
        BY <1>2, <2>2, <4>2
      <4>4. QED
        BY <1>7, <1>13, <3>1, <4>1, <4>3
    <3>3. ASSUME NEW j \in 1 .. i - 1 PROVE old[j].name # old[i].name
      <4>1. j \in 1 .. Len(outputs) /\ j \in 1 .. Len(old)
        BY <1>2, <3>1
      <4>2. CASE j = at
        BY <1>7, <3>2, <4>1, <4>2
      <4>3. CASE j # at
        BY <1>7, <1>13, <3>1, <4>1, <4>3
      <4>4. QED
        BY <4>2, <4>3
    <3>4. [ref |-> old[i].expr.ref, calc |-> old[i].expr.calc] = Read(env, old[i].name)
      BY <1>9, <3>1, <3>3
    <3>5. QED
      BY <1>6, <3>1, <3>2, <3>4
  <2>3. QED
    BY <2>1, <2>2
<1>14. m <= Len(outputs)
  BY <1>2, <1>8, <1>9
<1>15. QED
  BY <1>10, <1>11, <1>12, <1>13, <1>14 DEF Describes, after, outputs, m

\* and through any number of them.
LEMMA SqlDescribes ==
    ASSUME NEW cols \in Seq(SelectColumns), ~AliasRefused(cols), NEW derived \in Seq(DerivedColumns)
    PROVE  LET sql == SqlOutputs(cols, derived)
           IN  /\ sql \in Statements
               /\ sql.ok => Describes(cols, sql, DerivingUpTo(Selecting(<<>>, cols), derived)[Len(derived)])
<1> DEFINE n == Len(derived)
           below == Selecting(<<>>, cols)
           sql == SqlUpTo(cols, derived)
           env == DerivingUpTo(below, derived)
<1>1. n \in Nat /\ \A k \in 1 .. n : derived[k] \in DerivedColumns
  OBVIOUS
<1>2. <<>> \in Bindings
  BY NothingMeans DEF Environments
<1>3. below \in Bindings
  BY <1>2, SelectingOK
<1>4. PlacingThrough(cols, derived, sql)
  BY StatementsExist
<1>5. DerivingThrough(below, derived, env)
  BY <1>3, DerivingExists
<1>6. Describes(cols, [outputs |-> Selected(cols), defs |-> Definitions(cols), ok |-> TRUE], below)
  BY SelectDescribes
<1> HIDE DEF sql, env, n, below
<1>7. /\ \A k \in 0 .. n : sql[k] \in Statements /\ env[k] \in Bindings
      /\ sql[0] = [outputs |-> Selected(cols), defs |-> Definitions(cols), ok |-> TRUE]
      /\ env[0] = below
      /\ \A k \in 1 .. n : /\ sql[k] = Placed(sql[k - 1], derived[k], Aggregated(cols))
                           /\ env[k] = Deriving(env[k - 1], derived[k])
  BY <1>4, <1>5 DEF PlacingThrough, DerivingThrough, n
<1> DEFINE T == {k \in Nat : k <= n => (sql[k].ok => Describes(cols, sql[k], env[k]))}
<1>8. 0 \in T
  <2>1. Describes(cols, sql[0], env[0])
    BY <1>6, <1>7
  <2>2. QED
    BY <2>1
<1>9. ASSUME NEW k \in Nat, k \in T PROVE k + 1 \in T
  <2>1. SUFFICES ASSUME k + 1 <= n, sql[k + 1].ok PROVE Describes(cols, sql[k + 1], env[k + 1])
    OBVIOUS
  <2>2. k + 1 \in 1 .. n /\ (k + 1) - 1 = k /\ k \in 0 .. n /\ k + 1 \in 0 .. n
    BY <1>1, <2>1
  <2> DEFINE d == derived[k + 1]
             was == sql[k]
             new == sql[k + 1]
             old == env[k]
  <2>3. d \in DerivedColumns
    BY <1>1, <2>2
  <2>4. was \in Statements /\ new \in Statements /\ old \in Bindings
    BY <1>7, <2>2
  <2>5. new = Placed(was, d, Aggregated(cols)) /\ env[k + 1] = Deriving(old, d)
    BY <1>7, <2>2
  <2>6. was.ok => Describes(cols, was, old)
    BY <1>9, <2>2
  <2>7. new.ok
    BY <2>1
  <2> HIDE DEF d, was, new, old
  <2>8. PlacedIs(was, d, new)
    BY <2>3, <2>4, <2>5, PlacedOK
  <2>9. was.ok
    BY <2>7, <2>8 DEF PlacedIs
  <2>10. Describes(cols, new, Deriving(old, d))
    BY <2>3, <2>4, <2>6, <2>7, <2>8, <2>9, PlacedDescribes
  <2>11. QED
    BY <2>5, <2>10 DEF new
<1>10. \A k \in Nat : k \in T
  <2> HIDE DEF T
  <2>1. QED
    BY <1>8, <1>9, StepByStep
<1>11. sql[n] \in Statements /\ (sql[n].ok => Describes(cols, sql[n], env[n]))
  BY <1>1, <1>7, <1>10
<1>12. SqlOutputs(cols, derived) = sql[n]
  BY DEF SqlOutputs, sql, n
<1>13. QED
  BY <1>11, <1>12 DEF env, n, below

(***************************************************************************)
(* What a frame is compiled to.                                            *)
(***************************************************************************)
Frames == [stored : BOOLEAN, selects : Seq(Selects), derived : Seq(Columns), totals : BOOLEAN]

FrameOK ==
    /\ frame \in Frames
    /\ Len(frame.selects) <= MaxSelects /\ Len(frame.derived) <= MaxDerived
    /\ \A k \in 1 .. Len(frame.selects) : ~AliasRefused(frame.selects[k])
    /\ frame.stored => frame.selects = <<>>
    /\ frame.selects = <<>> => frame.derived = <<>>

\* No two columns of one name
Apart(names) == \A i, j \in DOMAIN names : names[i] = names[j] => i = j

\* A query asks for what its frame means, under the names the frame has for it
QueryMeans(query) ==
    /\ QueryOK(query)
    /\ frame.totals => query.totals
    /\ Apart(query.columns) =>
          /\ query.columns = Asked
          /\ Len(Meant) = Len(query.items) /\ DOMAIN Meant = 1 .. Len(query.items)
          /\ \A k \in 1 .. Len(query.items) : /\ Meant[k].ref = query.items[k].ref
                                              /\ Meant[k].calc = query.items[k].calc
    /\ ~Apart(query.columns) =>
          \E i, j \in DOMAIN frame.selects[1] :
              i # j /\ KeyOf(frame.selects[1][i]) = KeyOf(frame.selects[1][j])

\* Without with_column() the plan produces the outputs of the last select().
LEMMA PlanOfSelects ==
    ASSUME frame.derived = <<>>
    PROVE  PlanOutputs(frame) = OutputsOf(Last(frame.selects))
<1> DEFINE names == OutputsOf(Last(frame.selects))
           derived == frame.derived
           Is(u) == u = [k \in 0 .. Len(derived) |->
                           IF k = 0 THEN names
                           ELSE IF derived[k].name \in Range(u[k - 1]) THEN u[k - 1]
                           ELSE Append(u[k - 1], derived[k].name)]
           upTo == CHOOSE u : Is(u)
<1>1. Len(derived) = 0
  OBVIOUS
<1> HIDE DEF names, derived
<1>2. Is([k \in 0 .. 0 |-> names])
  BY <1>1
<1>3. Is(upTo)
  BY <1>2
<1>4. upTo[0] = names
  <2> HIDE DEF upTo
  <2>1. QED
    BY <1>1, <1>3
<1>5. PlanOutputs(frame) = upTo[Len(derived)]
  BY DEF PlanOutputs, PlanUpTo, names, derived
<1>6. QED
  BY <1>1, <1>4, <1>5 DEF names

\* A stored query asks for its own fields under their own names.
LEMMA StoredMeans ==
    ASSUME FrameOK, frame.stored, ~frame.totals
    PROVE  QueryMeans(StoredQuery)
<1>1. /\ QueryOK(StoredQuery)
      /\ StoredQuery.columns = StoredFields /\ Len(StoredQuery.items) = Len(StoredFields)
      /\ \A i \in 1 .. Len(StoredFields) :
            StoredQuery.items[i].ref = StoredFields[i] /\ StoredQuery.items[i].calc = 0
  BY StoredOK
<1>2. StoredFields \in Seq(FieldNames) /\ Apart(StoredFields)
  BY ResultAssumption DEF Apart
<1>3. Asked = StoredFields
  BY DEF Asked
<1>4. Meant = [i \in DOMAIN StoredFields |-> Read(<<>>, StoredFields[i])]
  BY <1>3 DEF Meant
<1>5. \A i \in DOMAIN StoredFields : Meant[i] = [ref |-> StoredFields[i], calc |-> 0]
  BY <1>4, NothingMeans
<1>6. Meant = [i \in DOMAIN StoredFields |-> Meant[i]]
  BY <1>4
<1>7. DOMAIN StoredFields = 1 .. Len(StoredFields) /\ Len(StoredFields) \in Nat
  BY <1>2
<1> DEFINE meant == Meant
<1> HIDE DEF meant
<1>8. DOMAIN meant = 1 .. Len(StoredFields) /\ Len(meant) = Len(StoredFields)
  BY <1>6, <1>7 DEF meant
<1>9. ASSUME NEW i \in 1 .. Len(StoredFields) PROVE meant[i].ref = StoredFields[i] /\ meant[i].calc = 0
  <2>1. meant[i] = [ref |-> StoredFields[i], calc |-> 0]
    BY <1>5, <1>7 DEF meant
  <2>2. QED
    BY <2>1
<1>10. QED
  BY <1>1, <1>2, <1>3, <1>8, <1>9 DEF QueryMeans, meant

\* The selects and with_columns of a frame are what users write.
LEMMA FrameSelects ==
    ASSUME FrameOK
    PROVE  /\ frame.selects \in Seq(Selects) /\ frame.selects \in Seq(Seq(SelectColumns))
           /\ frame.derived \in Seq(DerivedColumns)
           /\ \A k \in 1 .. Len(frame.selects) : /\ frame.selects[k] \in Selects
                                                 /\ frame.selects[k] \in Seq(SelectColumns)
                                                 /\ ~AliasRefused(frame.selects[k])
           /\ frame.stored \in BOOLEAN /\ frame.totals \in BOOLEAN
<1>1. /\ frame.selects \in Seq(Selects) /\ frame.derived \in Seq(Columns)
      /\ frame.stored \in BOOLEAN /\ frame.totals \in BOOLEAN
      /\ \A k \in 1 .. Len(frame.selects) : ~AliasRefused(frame.selects[k])
  BY DEF FrameOK, Frames
<1>2. Selects \subseteq Seq(SelectColumns) /\ Columns \subseteq DerivedColumns
  BY SelectsOK
<1>3. frame.selects \in Seq(Seq(SelectColumns))
  BY <1>1, <1>2
<1>4. frame.derived \in Seq(DerivedColumns)
  BY <1>1, <1>2
<1>5. \A k \in 1 .. Len(frame.selects) : frame.selects[k] \in Selects /\ frame.selects[k] \in Seq(SelectColumns)
  BY <1>1, <1>2
<1>6. QED
  BY <1>1, <1>3, <1>4, <1>5

\* A governed query asks for what a chain of selects means.
LEMMA SemanticMeans ==
    ASSUME FrameOK, ~frame.stored, frame.selects # <<>>, frame.derived = <<>>,
           NEW cols, cols = Composed(frame.selects), cols # <<>>, ~AliasRefused(cols),
           ~Copies(Bare(cols)), \A i \in 1 .. Len(cols) : IsBare(cols[i])
    PROVE  QueryMeans(SemanticQuery(cols, frame.totals))
<1> DEFINE selects == frame.selects
           n == Len(selects)
           outputs == OutputsOf(cols)
           query == SemanticQuery(cols, frame.totals)
           at == Ascending(FirstPlaces(outputs), Len(cols))
           env == SelectingUpTo(selects)
           meant == Meant
           asked == Asked
<1>1. /\ selects \in Seq(Selects) /\ Len(selects) # 0 /\ Len(selects) \in Nat
      /\ \A k \in 1 .. Len(selects) : ~AliasRefused(selects[k])
  BY FrameSelects
<1>2. /\ cols \in Seq(SelectColumns) /\ Len(Last(selects)) = Len(cols)
      /\ \A i \in 1 .. Len(cols) :
            /\ OutputOf(cols[i]) = OutputOf(Last(selects)[i])
            /\ Read(env[n], OutputOf(cols[i])) = [ref |-> cols[i].ref, calc |-> 0]
  <2> HIDE DEF selects
  <2>1. QED
    BY <1>1, ComposedMeans DEF selects
<1>3. /\ QueryOK(query) /\ Len(query.items) = Len(at)
      /\ \A k \in 1 .. Len(at) : query.items[k].ref = cols[at[k]].ref /\ query.items[k].calc = 0
  BY <1>2, SemanticOK
<1>4. query.columns = FirstOnly(outputs) /\ query.totals = frame.totals
  BY DEF SemanticQuery
<1>5. Last(selects) \in Seq(SelectColumns)
  <2>1. Last(selects) = selects[Len(selects)] /\ Len(selects) \in 1 .. Len(selects)
    BY <1>1 DEF Last
  <2>2. QED
    BY <2>1, FrameSelects
<1>6. OutputsOf(Last(selects)) = outputs
  <2>1. DOMAIN Last(selects) = 1 .. Len(cols) /\ DOMAIN cols = 1 .. Len(cols)
    BY <1>2, <1>5
  <2>2. QED
    BY <1>2, <2>1 DEF OutputsOf
<1>7. asked = FirstOnly(outputs)
  <2>1. PlanOutputs(frame) = OutputsOf(Last(selects))
    BY PlanOfSelects
  <2>2. QED
    BY <1>6, <2>1 DEF Asked
<1>8. outputs \in Seq(Outs) /\ Len(outputs) = Len(cols) /\ \A i \in 1 .. Len(cols) : outputs[i] = OutputOf(cols[i])
  <2>1. DOMAIN cols = 1 .. Len(cols) /\ Len(cols) \in Nat
    BY <1>2
  <2>2. \A i \in 1 .. Len(cols) : OutputOf(cols[i]) \in Outs
    BY <1>2 DEF Outs
  <2>3. outputs = [i \in 1 .. Len(cols) |-> OutputOf(cols[i])]
    BY <2>1 DEF OutputsOf
  <2> HIDE DEF outputs
  <2>4. outputs \in [1 .. Len(cols) -> Outs]
    BY <2>2, <2>3
  <2>5. QED
    BY <2>1, <2>3, <2>4
<1>9. /\ FirstAt(outputs, at) /\ Len(asked) = Len(at) /\ asked \in Seq(Outs)
      /\ \A k \in 1 .. Len(asked) : asked[k] = outputs[at[k]]
  BY <1>7, <1>8, FirstPlacesAre
<1>10. Meanings(frame) = env[n]
  <2>1. env[n] \in Bindings
    <3>1. SelectingThrough(selects, env)
      BY <1>1, SelectingExists
    <3> HIDE DEF env
    <3>2. n \in 0 .. n
      BY <1>1
    <3>3. QED
      BY <3>1, <3>2 DEF SelectingThrough, Environments
  <2>2. <<>> \in Seq(DerivedColumns) /\ Len(<<>>) = 0
    BY EmptySeq
  <2>3. DerivingThrough(env[n], <<>>, DerivingUpTo(env[n], <<>>))
    BY <2>1, <2>2, DerivingExists
  <2>4. DerivingUpTo(env[n], <<>>)[0] = env[n]
    BY <2>3 DEF DerivingThrough
  <2>5. Meanings(frame) = DerivingUpTo(env[n], frame.derived)[Len(frame.derived)]
    BY DEF Meanings
  <2>6. QED
    BY <2>2, <2>4, <2>5
<1>11. meant = [k \in DOMAIN asked |-> Read(env[n], asked[k])]
  BY <1>10 DEF Meant
<1> HIDE DEF meant, asked, env, at, outputs, query, n, selects
<1>12. Len(asked) \in Nat /\ DOMAIN asked = 1 .. Len(asked)
  BY <1>9
<1>13. DOMAIN meant = 1 .. Len(query.items) /\ Len(meant) = Len(query.items)
  BY <1>3, <1>9, <1>11, <1>12
<1>14. ASSUME NEW k \in 1 .. Len(query.items)
       PROVE  meant[k].ref = query.items[k].ref /\ meant[k].calc = query.items[k].calc
  <2>1. k \in 1 .. Len(asked) /\ k \in 1 .. Len(at)
    BY <1>3, <1>9, <1>14
  <2>2. at[k] \in 1 .. Len(cols)
    BY <1>8, <1>9, <2>1 DEF FirstAt
  <2>3. asked[k] = OutputOf(cols[at[k]])
    BY <1>8, <1>9, <2>1, <2>2
  <2>4. meant[k] = [ref |-> cols[at[k]].ref, calc |-> 0]
    BY <1>2, <1>11, <1>12, <2>1, <2>2, <2>3
  <2>5. meant[k].ref = cols[at[k]].ref /\ meant[k].calc = 0
    BY <2>4
  <2>6. QED
    BY <1>3, <2>1, <2>5
<1>15. Apart(asked)
  <2>1. \A j, k \in 1 .. Len(at) : outputs[at[j]] = outputs[at[k]] => j = k
    BY <1>9 DEF FirstAt
  <2>2. ASSUME NEW j \in DOMAIN asked, NEW k \in DOMAIN asked, asked[j] = asked[k] PROVE j = k
    <3>1. j \in 1 .. Len(at) /\ k \in 1 .. Len(at) /\ asked[j] = outputs[at[j]] /\ asked[k] = outputs[at[k]]
      BY <1>9, <1>12
    <3>2. QED
      BY <2>1, <2>2, <3>1
  <2>3. QED
    BY <2>2 DEF Apart
<1>16. QED
  BY <1>3, <1>4, <1>7, <1>13, <1>14, <1>15 DEF QueryMeans, meant, asked, query

\* A sequence without repetitions is its own first mentions
LEMMA ApartFirst ==
    ASSUME NEW T, NEW s \in Seq(T), Apart(s)
    PROVE  FirstOnly(s) = s
<1>1. DOMAIN s = 1 .. Len(s) /\ Len(s) \in Nat
  OBVIOUS
<1>2. FirstPlaces(s) = 1 .. Len(s)
  BY <1>1 DEF FirstPlaces, Apart
<1>3. FirstPlaces(s) \cap (1 .. Len(s)) = 1 .. Len(s)
  BY <1>2
<1> DEFINE first == FirstOnly(s)
<1>4. /\ first \in Seq(T) /\ Len(first) = Len(s)
      /\ \A k \in 1 .. Len(s) : first[k] = s[k]
  BY <1>1, <1>3, ChosenPrefix DEF FirstOnly
<1> HIDE DEF first
<1>5. first = s
  BY <1>1, <1>4
<1>6. QED
  BY <1>5 DEF first

\* What is sent of a name is what has it first, when no name is sent twice
LEMMA SentFirst ==
    ASSUME NEW outputs \in Seq(OutputRecords), ~Copies(outputs), Apart(SqlQuery(outputs).columns),
           NEW k \in 1 .. Len(Emitted(outputs)),
           NEW j \in 1 .. Emitted(outputs)[k] - 1
    PROVE  outputs[j].name # outputs[Emitted(outputs)[k]].name
<1> DEFINE at == Emitted(outputs)
           query == SqlQuery(outputs)
<1>1. /\ DOMAIN at = 1 .. Len(at) /\ Len(at) \in Nat
      /\ \A l \in 1 .. Len(at) : at[l] \in 1 .. Len(outputs)
      /\ \A i \in 1 .. Len(outputs) :
            IsBare(outputs[i].expr) =>
                \E l \in 1 .. Len(at) : /\ at[l] <= i /\ IsBare(outputs[at[l]].expr)
                                        /\ outputs[at[l]].expr.ref = outputs[i].expr.ref
      /\ \A i \in 1 .. Len(outputs) : ~IsBare(outputs[i].expr) => \E l \in 1 .. Len(at) : at[l] = i
  BY EmittedAre
<1>2. /\ DOMAIN query.columns = 1 .. Len(at)
      /\ \A l \in 1 .. Len(at) : query.columns[l] = outputs[at[l]].name
  BY SqlQueryOK
<1>3. \A l, m \in 1 .. Len(at) : outputs[at[l]].name = outputs[at[m]].name => l = m
  BY <1>2 DEF Apart
<1>4. DOMAIN outputs = 1 .. Len(outputs) /\ Len(outputs) \in Nat
  OBVIOUS
<1>5. \A i, l \in 1 .. Len(outputs) :
         IsBare(outputs[i].expr) /\ IsBare(outputs[l].expr) /\ outputs[i].expr.ref = outputs[l].expr.ref
             => outputs[i].name = outputs[l].name
  BY <1>4 DEF Copies
<1> HIDE DEF at, query
<1>6. k \in 1 .. Len(at) /\ j \in 1 .. at[k] - 1
  BY DEF at
<1>7. j \in 1 .. Len(outputs) /\ at[k] \in Nat /\ j < at[k]
  BY <1>1, <1>4, <1>6
<1>8. SUFFICES ASSUME outputs[j].name = outputs[at[k]].name PROVE FALSE
  BY DEF at
<1>9. CASE ~IsBare(outputs[j].expr)
  <2>1. PICK l \in 1 .. Len(at) : at[l] = j
    BY <1>1, <1>7, <1>9
  <2>2. l = k
    BY <1>3, <1>6, <1>8, <2>1
  <2>3. QED
    BY <1>7, <2>1, <2>2
<1>10. CASE IsBare(outputs[j].expr)
  <2>1. PICK l \in 1 .. Len(at) : /\ at[l] <= j /\ IsBare(outputs[at[l]].expr)
                                  /\ outputs[at[l]].expr.ref = outputs[j].expr.ref
    BY <1>1, <1>7, <1>10
  <2>2. at[l] \in 1 .. Len(outputs)
    BY <1>1, <2>1
  <2>3. outputs[at[l]].name = outputs[j].name
    BY <1>5, <1>7, <1>10, <2>1, <2>2
  <2>4. l = k
    BY <1>3, <1>6, <1>8, <2>1, <2>3
  <2>5. QED
    BY <1>7, <2>1, <2>4
<1>11. QED
  BY <1>9, <1>10

\* A name that is sent twice is a column that was selected twice
LEMMA SentTwice ==
    ASSUME NEW cols \in Seq(SelectColumns), ~AliasRefused(cols),
           NEW sql \in Statements, NEW env, Describes(cols, sql, env),
           ~Apart(SqlQuery(sql.outputs).columns)
    PROVE  \E i, j \in 1 .. Len(cols) : i # j /\ KeyOf(cols[i]) = KeyOf(cols[j])
<1> DEFINE outputs == sql.outputs
           at == Emitted(outputs)
           query == SqlQuery(outputs)
<1>1. outputs \in Seq(OutputRecords)
  BY DEF Statements
<1>2. /\ \A l \in 1 .. Len(at) : at[l] \in 1 .. Len(outputs)
      /\ \A l, m \in 1 .. Len(at) : at[l] = at[m] => l = m
  BY <1>1, EmittedAre
<1>3. /\ DOMAIN query.columns = 1 .. Len(at)
      /\ \A l \in 1 .. Len(at) : query.columns[l] = outputs[at[l]].name
  BY <1>1, SqlQueryOK
<1>4. /\ Len(cols) <= Len(outputs)
      /\ \A i \in 1 .. Len(cols) : outputs[i].name = OutputOf(cols[i])
      /\ \A i, j \in 1 .. Len(outputs) :
            i # j /\ outputs[i].name = outputs[j].name => i <= Len(cols) /\ j <= Len(cols)
  BY DEF Describes
<1>5. Len(cols) \in Nat /\ Len(outputs) \in Nat
  BY <1>1
<1> HIDE DEF at
<1>6. PICK l, m \in 1 .. Len(at) : l # m /\ outputs[at[l]].name = outputs[at[m]].name
  BY <1>3 DEF Apart
<1> HIDE DEF query, outputs
<1>7. at[l] # at[m] /\ at[l] \in 1 .. Len(outputs) /\ at[m] \in 1 .. Len(outputs)
  BY <1>2, <1>6
<1>8. at[l] \in 1 .. Len(cols) /\ at[m] \in 1 .. Len(cols)
  BY <1>4, <1>5, <1>6, <1>7
<1>9. OutputOf(cols[at[l]]) = OutputOf(cols[at[m]])
  BY <1>4, <1>6, <1>8
<1>10. KeyOf(cols[at[l]]) = KeyOf(cols[at[m]])
  BY <1>8, <1>9, SameOutputs
<1>11. QED
  BY <1>7, <1>8, <1>10

\* What a chain of one select() means
LEMMA MeaningsOfOne ==
    ASSUME FrameOK, Len(frame.selects) = 1
    PROVE  LET below == Selecting(<<>>, frame.selects[1])
           IN  Meanings(frame) = DerivingUpTo(below, frame.derived)[Len(frame.derived)]
<1> DEFINE selects == frame.selects
           env == SelectingUpTo(selects)
<1>1. /\ selects \in Seq(Selects)
      /\ \A k \in 1 .. Len(selects) : ~AliasRefused(selects[k])
  BY FrameSelects
<1>2. SelectingThrough(selects, env)
  BY <1>1, SelectingExists
<1> HIDE DEF env
<1>3. env[1] = Selecting(<<>>, selects[1])
  <2>1. 1 \in 1 .. Len(selects) /\ 1 - 1 = 0
    OBVIOUS
  <2>2. env[1] = Selecting(env[1 - 1], selects[1]) /\ env[0] = <<>>
    BY <1>2, <2>1 DEF SelectingThrough
  <2>3. env[1] = Selecting(env[0], selects[1])
    BY <2>1, <2>2
  <2>4. QED
    BY <2>2, <2>3
<1>4. Meanings(frame) = DerivingUpTo(env[Len(selects)], frame.derived)[Len(frame.derived)]
  BY DEF Meanings, env
<1>5. QED
  BY <1>3, <1>4

\* A statement asks for what a select and the with_columns over it mean.
LEMMA SqlMeans ==
    ASSUME FrameOK, ~frame.stored, ~frame.totals, Len(frame.selects) = 1,
           NEW sql, sql = SqlOutputs(frame.selects[1], frame.derived), sql.ok, ~Copies(sql.outputs),
           SqlQuery(sql.outputs).columns = PlanOutputs(frame)
    PROVE  QueryMeans(SqlQuery(sql.outputs))
<1> DEFINE cols == frame.selects[1]
           outputs == sql.outputs
           query == SqlQuery(outputs)
           at == Emitted(outputs)
           env == Meanings(frame)
           meant == Meant
           asked == Asked
<1>1. /\ cols \in Seq(SelectColumns) /\ ~AliasRefused(cols)
      /\ frame.derived \in Seq(DerivedColumns)
  <2>1. 1 \in 1 .. Len(frame.selects)
    OBVIOUS
  <2>2. QED
    BY <2>1, FrameSelects
<1>2. sql \in Statements /\ Describes(cols, sql, env)
  <2>1. env = DerivingUpTo(Selecting(<<>>, cols), frame.derived)[Len(frame.derived)]
    BY MeaningsOfOne
  <2> HIDE DEF env, cols
  <2>2. sql = SqlOutputs(cols, frame.derived)
    BY DEF cols
  <2>3. QED
    BY <1>1, <2>1, <2>2, SqlDescribes
<1>3. outputs \in Seq(OutputRecords) /\ Len(outputs) \in Nat
  BY <1>2 DEF Statements
<1>4. /\ QueryOK(query)
      /\ Len(query.items) = Len(at) /\ DOMAIN query.columns = 1 .. Len(at)
      /\ \A k \in 1 .. Len(at) : /\ query.items[k].ref = outputs[at[k]].expr.ref
                                 /\ query.items[k].calc = outputs[at[k]].expr.calc
                                 /\ query.columns[k] = outputs[at[k]].name
  BY <1>3, SqlQueryOK
<1>5. /\ Len(at) \in Nat /\ \A k \in 1 .. Len(at) : at[k] \in 1 .. Len(outputs)
  BY <1>3, EmittedAre
<1>6. query.columns \in Seq(Outs)
  <2>1. \A k \in 1 .. Len(at) : query.columns[k] \in Outs
    <3>1. \A i \in 1 .. Len(outputs) : outputs[i].name \in Outs
      <4> HIDE DEF outputs
      <4>1. outputs \in Seq(OutputRecords)
        BY <1>3
      <4>2. \A i \in 1 .. Len(outputs) : outputs[i] \in OutputRecords
        BY <4>1
      <4>3. QED
        BY <4>2 DEF OutputRecords
    <3>2. QED
      BY <1>4, <1>5, <3>1
  <2>2. query.columns = [k \in 1 .. Len(at) |-> query.columns[k]]
    <3> HIDE DEF at
    <3>1. query.columns = [k \in DOMAIN at |-> outputs[at[k]].name]
      BY DEF SqlQuery, at
    <3>2. QED
      BY <1>4, <3>1
  <2> HIDE DEF query
  <2>3. query.columns \in [1 .. Len(at) -> Outs]
    BY <2>1, <2>2
  <2>4. QED
    BY <1>5, <2>3
<1>7. ASSUME Apart(query.columns)
      PROVE  /\ query.columns = asked
             /\ Len(meant) = Len(query.items) /\ DOMAIN meant = 1 .. Len(query.items)
             /\ \A k \in 1 .. Len(query.items) : /\ meant[k].ref = query.items[k].ref
                                                 /\ meant[k].calc = query.items[k].calc
  <2>1. asked = query.columns
    <3>1. asked = FirstOnly(query.columns)
      BY DEF Asked
    <3> HIDE DEF asked, query
    <3>2. QED
      BY <1>6, <1>7, <3>1, ApartFirst
  <2>2. meant = [k \in DOMAIN asked |-> Read(env, asked[k])]
    BY DEF Meant
  <2>3. \A k \in 1 .. Len(at) : \A j \in 1 .. at[k] - 1 : outputs[j].name # outputs[at[k]].name
    BY <1>3, <1>7, SentFirst
  <2> HIDE DEF meant, asked, env, query, at, cols
  <2>4. DOMAIN meant = 1 .. Len(query.items) /\ Len(meant) = Len(query.items)
    BY <1>4, <1>5, <2>1, <2>2
  <2>5. ASSUME NEW k \in 1 .. Len(query.items)
        PROVE  meant[k].ref = query.items[k].ref /\ meant[k].calc = query.items[k].calc
    <3>1. k \in 1 .. Len(at) /\ at[k] \in 1 .. Len(outputs)
      BY <1>4, <1>5, <2>5
    <3>2. [ref |-> outputs[at[k]].expr.ref, calc |-> outputs[at[k]].expr.calc]
             = Read(env, outputs[at[k]].name)
      BY <1>2, <2>3, <3>1 DEF Describes
    <3>3. meant[k] = Read(env, outputs[at[k]].name)
      BY <1>4, <2>1, <2>2, <3>1
    <3>4. meant[k].ref = outputs[at[k]].expr.ref /\ meant[k].calc = outputs[at[k]].expr.calc
      <4> DEFINE e == [ref |-> outputs[at[k]].expr.ref, calc |-> outputs[at[k]].expr.calc]
      <4>1. e.ref = outputs[at[k]].expr.ref /\ e.calc = outputs[at[k]].expr.calc
        OBVIOUS
      <4>2. meant[k] = e
        BY <3>2, <3>3
      <4> HIDE DEF e
      <4>3. QED
        BY <4>1, <4>2
    <3>5. QED
      BY <1>4, <3>1, <3>4
  <2>6. QED
    BY <2>1, <2>4, <2>5
<1>8. ASSUME ~Apart(query.columns)
      PROVE  \E i, j \in DOMAIN cols : i # j /\ KeyOf(cols[i]) = KeyOf(cols[j])
  <2> HIDE DEF cols, env
  <2>1. \E i, j \in 1 .. Len(cols) : i # j /\ KeyOf(cols[i]) = KeyOf(cols[j])
    BY <1>1, <1>2, <1>8, SentTwice
  <2>2. DOMAIN cols = 1 .. Len(cols)
    BY <1>1
  <2>3. QED
    BY <2>1, <2>2
<1>9. QED
  BY <1>4, <1>7, <1>8 DEF QueryMeans

\* Whatever tier it comes from, a query asks for what its frame means
LEMMA CompiledMeans ==
    ASSUME FrameOK, Compiled.verdict = "query"
    PROVE  QueryMeans(Compiled.query)
<1>1. CASE frame.stored
  <2>1. ~frame.totals /\ Compiled = Sends(StoredQuery)
    BY <1>1 DEF Compiled, CompileFrame, Refused
  <2>2. Compiled.query = StoredQuery
    BY <2>1 DEF Sends
  <2>3. QED
    BY <1>1, <2>1, <2>2, StoredMeans
<1>2. CASE ~frame.stored
  <2> DEFINE semantic == CompileSemantic(frame)
             sql == CompileSql(frame)
  <2>1. Compiled = Compile(frame)
    BY <1>2 DEF Compiled, CompileFrame
  <2>2. CASE semantic.verdict # "cannot"
    <3> DEFINE cols == Composed(frame.selects)
    <3>1. Compiled = semantic /\ semantic.verdict = "query"
      <4> HIDE DEF semantic
      <4>1. Compiled = semantic
        BY <2>1, <2>2 DEF Compile, semantic
      <4>2. QED
        BY <4>1
    <3>2. frame.derived = <<>> /\ frame.selects # <<>> /\ semantic = CompileSelect(cols, frame.totals)
      BY <3>1 DEF CompileSemantic, Cannot, Refused
    <3> HIDE DEF cols
    <3>3. cols # <<>> /\ ~AliasRefused(cols)
      BY <3>1, <3>2 DEF CompileSelect, Refused
    <3>4. CompileSelect(cols, frame.totals) =
             IF Copies(Bare(cols)) \/ \E c \in Range(cols) : ~IsBare(c) THEN Cannot
             ELSE IF frame.totals /\ ~HasMeasure(cols) THEN Refused
             ELSE Sends(SemanticQuery(cols, frame.totals))
      BY <3>3 DEF CompileSelect
    <3>5. /\ ~Copies(Bare(cols)) /\ \A c \in Range(cols) : IsBare(c)
          /\ semantic = Sends(SemanticQuery(cols, frame.totals))
      BY <3>1, <3>2, <3>4 DEF Cannot, Refused
    <3>6. \A i \in DOMAIN cols : IsBare(cols[i])
      BY <3>5 DEF Range
    <3>7. Compiled.query = SemanticQuery(cols, frame.totals)
      BY <3>1, <3>5 DEF Sends
    <3>8. /\ frame.selects \in Seq(Selects) /\ Len(frame.selects) # 0
          /\ \A k \in 1 .. Len(frame.selects) : ~AliasRefused(frame.selects[k])
      BY <3>2, FrameSelects
    <3>9. DOMAIN cols = 1 .. Len(cols)
      <4>1. Len(frame.selects) \in Nat /\ Composing(frame.selects, Compositions(frame.selects))
        BY <3>8, FrameSelects, CompositionsExist
      <4>2. cols \in Seq(SelectColumns)
        <5> DEFINE from == Compositions(frame.selects)
        <5>1. cols = from[1] /\ Composing(frame.selects, from)
          BY <4>1 DEF cols, Composed
        <5> HIDE DEF from
        <5>2. 1 \in 1 .. Len(frame.selects)
          BY <3>8, <4>1
        <5>3. QED
          BY <5>1, <5>2 DEF Composing
      <4>3. QED
        BY <4>2
    <3>10. cols = Composed(frame.selects)
      BY DEF cols
    <3>11. QueryMeans(SemanticQuery(cols, frame.totals))
      BY <1>2, <3>2, <3>3, <3>5, <3>6, <3>9, <3>10, SemanticMeans
    <3>12. QED
      BY <3>7, <3>11
  <2>3. CASE semantic.verdict = "cannot"
    <3>1. ~frame.totals /\ sql.verdict = "query" /\ sql.query.columns = PlanOutputs(frame) /\ Compiled = sql
      <4> HIDE DEF sql
      <4>1. Compiled = IF frame.totals THEN Refused
                       ELSE IF sql.verdict = "query" /\ sql.query.columns = PlanOutputs(frame) THEN sql
                       ELSE Local
        <5>1. frame.totals \in BOOLEAN
          BY FrameSelects
        <5>2. QED
          BY <2>1, <2>3, <5>1 DEF Compile, sql
      <4>2. QED
        BY <4>1 DEF Refused, Local
    <3> DEFINE made == SqlOutputs(frame.selects[1], frame.derived)
    <3>2. /\ Len(frame.selects) = 1 /\ made.ok /\ ~Copies(made.outputs)
          /\ sql = Sends(SqlQuery(made.outputs))
      <4> HIDE DEF made
      <4>1. sql = IF \/ Len(frame.selects) # 1
                     \/ /\ Aggregated(frame.selects[1])
                        /\ \E c \in Range(frame.selects[1]) : ~IsBare(c) /\ ~c.measured
                     \/ ~made.ok \/ Copies(made.outputs)
                  THEN Cannot ELSE Sends(SqlQuery(made.outputs))
        BY DEF CompileSql, made
      <4>2. QED
        BY <3>1, <4>1 DEF Cannot
    <3> HIDE DEF made
    <3>3. sql.query = SqlQuery(made.outputs)
      BY <3>2 DEF Sends
    <3> HIDE DEF sql
    <3>4. Compiled.query = SqlQuery(made.outputs) /\ SqlQuery(made.outputs).columns = PlanOutputs(frame)
      BY <3>1, <3>3
    <3>5. made = SqlOutputs(frame.selects[1], frame.derived)
      BY DEF made
    <3>6. QueryMeans(SqlQuery(made.outputs))
      BY <1>2, <3>1, <3>2, <3>4, <3>5, SqlMeans
    <3>7. QED
      BY <3>4, <3>6
  <2>4. QED
    BY <2>2, <2>3
<1>3. QED
  BY <1>1, <1>2

(***************************************************************************)
(* The inductive invariant: a frame is made of what select() and           *)
(* with_column() accept, everything it was said to have is what the query  *)
(* it compiles to announces, and a table is what that query is answered    *)
(* with.                                                                   *)
(***************************************************************************)
Announced == IF Compiled.verdict = "query" THEN Compiled.query.columns ELSE PlanOutputs(frame)
Said == WithRowType(Announced)

TableOK ==
    /\ outcome.request \in Requests
    /\ Compiled.verdict = "query"
    /\ Answered(Compiled.query, outcome.request)
    /\ ~Collides(ItemNames(Compiled.query.items), Compiled.query.aliases)
    /\ outcome.names = Said
    /\ outcome.rows = Normalized(WireTable(Compiled.query, outcome.request), frame.totals)

OutcomeOK ==
    /\ outcome.kind \in {"none", "refused", "local", "error", "collision", "table"}
    /\ outcome.kind = "table" => TableOK
    /\ outcome.kind = "collision" =>
          /\ Compiled.verdict = "query"
          /\ Collides(ItemNames(Compiled.query.items), Compiled.query.aliases)

IInv ==
    /\ FrameOK
    /\ told \subseteq {Said}
    /\ schema \in {NoSchema, Said}
    /\ OutcomeOK

\* An outcome is of its kind.
LEMMA OutcomeKinds == \A kind : Outcome(kind).kind = kind
  BY DEF Outcome

\* The invariant holds at first,
LEMMA InitIInv == Init => IInv
<1> SUFFICES ASSUME Init PROVE IInv
  OBVIOUS
<1>1. <<>> \in Seq(Selects) /\ <<>> \in Seq(Columns) /\ Len(<<>>) = 0
  BY EmptySeq
<1>2. /\ frame.stored \in BOOLEAN /\ frame.selects = <<>> /\ frame.derived = <<>> /\ frame.totals = FALSE
      /\ frame = [stored |-> frame.stored, selects |-> frame.selects,
                  derived |-> frame.derived, totals |-> frame.totals]
  <2> DEFINE none == <<>>
  <2>1. NoFrame = [stored |-> FALSE, selects |-> none, derived |-> none, totals |-> FALSE]
    BY DEF NoFrame
  <2> HIDE DEF none
  <2>2. CASE frame = NoFrame
    <3>1. QED
      BY <2>1, <2>2 DEF none
  <2>3. CASE frame = [NoFrame EXCEPT !.stored = TRUE]
    <3>1. frame = [stored |-> TRUE, selects |-> none, derived |-> none, totals |-> FALSE]
      BY <2>1, <2>3
    <3>2. QED
      BY <3>1 DEF none
  <2>4. QED
    BY <2>2, <2>3 DEF Init
<1>3. frame \in Frames
  BY <1>1, <1>2 DEF Frames
<1>4. FrameOK
  <2>1. MaxSelects \in Nat /\ MaxDerived \in Nat
    BY ResultAssumption
  <2>2. Len(frame.selects) = 0 /\ Len(frame.derived) = 0
    BY <1>1, <1>2
  <2>3. QED
    BY <1>2, <1>3, <2>1, <2>2 DEF FrameOK
<1>5. OutcomeOK
  BY OutcomeKinds DEF Init, None, OutcomeOK
<1>6. QED
  BY <1>4, <1>5 DEF Init, IInv

\* A new frame has nothing said of it yet
LEMMA DeriveKeeps ==
    ASSUME NEW f, Derive(f), FrameOK'
    PROVE  IInv'
<1>1. told' = {} /\ schema' = NoSchema /\ outcome' = None
  BY DEF Derive
<1>2. OutcomeOK'
  BY <1>1, OutcomeKinds DEF None, OutcomeOK
<1>3. QED
  BY <1>1, <1>2 DEF IInv

\* and after every step.
LEMMA NextIInv == IInv /\ [Next]_vars => IInv'
<1> SUFFICES ASSUME IInv, [Next]_vars PROVE IInv'
  OBVIOUS
<1>1. FrameOK /\ told \subseteq {Said} /\ schema \in {NoSchema, Said} /\ OutcomeOK
  BY DEF IInv
<1>2. frame = [stored |-> frame.stored, selects |-> frame.selects,
               derived |-> frame.derived, totals |-> frame.totals]
      /\ frame.stored \in BOOLEAN /\ frame.totals \in BOOLEAN
      /\ frame.selects \in Seq(Selects) /\ frame.derived \in Seq(Columns)
  BY <1>1 DEF FrameOK, Frames
<1>3. ASSUME frame' = frame PROVE FrameOK' /\ Said' = Said /\ Compiled' = Compiled
  BY <1>1, <1>3 DEF FrameOK, Said, Announced, WithRowType, Compiled
<1>4. ASSUME NEW cols \in Selections \cup Narrowings, Select(cols) PROVE IInv'
  <2> DEFINE f == [frame EXCEPT !.selects = Append(@, cols)]
             selects == frame.selects
             longer == Append(selects, cols)
  <2>1. Derive(f) /\ ~frame.stored /\ frame.derived = <<>> /\ Len(selects) < MaxSelects /\ ~AliasRefused(cols)
    BY <1>4 DEF Select
  <2>2. frame' = f
    BY <2>1 DEF Derive
  <2>3. /\ f.stored = frame.stored /\ f.selects = longer /\ f.derived = <<>> /\ f.totals = frame.totals
        /\ f = [stored |-> f.stored, selects |-> f.selects, derived |-> f.derived, totals |-> f.totals]
    <3> HIDE DEF longer
    <3>1. f = [frame EXCEPT !.selects = longer]
      BY DEF longer
    <3> HIDE DEF f
    <3>2. QED
      BY <1>2, <2>1, <3>1
  <2>4. /\ longer \in Seq(Selects) /\ Len(longer) = Len(selects) + 1 /\ Len(selects) \in Nat
        /\ longer[Len(selects) + 1] = cols
        /\ \A k \in 1 .. Len(selects) : longer[k] = selects[k]
    BY <1>2 DEF Selects
  <2> HIDE DEF f, longer
  <2>5. f \in Frames
    BY <1>2, <2>1, <2>3, <2>4 DEF Frames
  <2>6. \A k \in 1 .. Len(longer) : ~AliasRefused(longer[k])
    <3>1. \A k \in 1 .. Len(selects) : ~AliasRefused(selects[k])
      BY <1>1 DEF FrameOK
    <3> HIDE DEF selects
    <3>2. \A k \in 1 .. Len(longer) : k \in 1 .. Len(selects) \/ k = Len(selects) + 1
      BY <2>4
    <3>3. QED
      BY <2>1, <2>4, <3>1, <3>2
  <2>7. Len(longer) <= MaxSelects /\ Len(f.derived) <= MaxDerived
    BY <1>1, <2>1, <2>3, <2>4, ResultAssumption DEF FrameOK
  <2>8. f.derived = <<>> /\ ~f.stored
    BY <2>1, <2>3
  <2>9. FrameOK'
    BY <2>2, <2>3, <2>5, <2>6, <2>7, <2>8 DEF FrameOK
  <2>10. QED
    BY <2>1, <2>9, DeriveKeeps
<1>5. ASSUME NEW column \in Columns, WithColumn(column) PROVE IInv'
  <2> DEFINE f == [frame EXCEPT !.derived = Append(@, column)]
             derived == frame.derived
             longer == Append(derived, column)
  <2>1. Derive(f) /\ frame.selects # <<>> /\ Len(derived) < MaxDerived
    BY <1>5 DEF WithColumn
  <2>2. frame' = f
    BY <2>1 DEF Derive
  <2>3. /\ f.stored = frame.stored /\ f.selects = frame.selects /\ f.derived = longer /\ f.totals = frame.totals
        /\ f = [stored |-> f.stored, selects |-> f.selects, derived |-> f.derived, totals |-> f.totals]
    <3> HIDE DEF longer
    <3>1. f = [frame EXCEPT !.derived = longer]
      BY DEF longer
    <3> HIDE DEF f
    <3>2. QED
      BY <1>2, <2>1, <3>1
  <2>4. longer \in Seq(Columns) /\ Len(longer) = Len(derived) + 1 /\ Len(derived) \in Nat
    BY <1>2
  <2> HIDE DEF f, longer
  <2>5. f \in Frames
    BY <1>2, <2>1, <2>3, <2>4 DEF Frames
  <2>6. Len(longer) <= MaxDerived
    BY <2>1, <2>4, ResultAssumption
  <2>7. FrameOK'
    BY <1>1, <2>1, <2>2, <2>3, <2>5, <2>6 DEF FrameOK
  <2>8. QED
    BY <2>1, <2>7, DeriveKeeps
<1>6. ASSUME WithTotals PROVE IInv'
  <2> DEFINE f == [frame EXCEPT !.totals = TRUE]
  <2>1. Derive(f)
    BY <1>6 DEF WithTotals
  <2>2. frame' = f
    BY <2>1 DEF Derive
  <2>3. /\ f.stored = frame.stored /\ f.selects = frame.selects /\ f.derived = frame.derived /\ f.totals = TRUE
        /\ f = [stored |-> f.stored, selects |-> f.selects, derived |-> f.derived, totals |-> f.totals]
    <3> DEFINE yes == TRUE
    <3>1. f = [frame EXCEPT !.totals = yes]
      OBVIOUS
    <3>2. yes = TRUE
      OBVIOUS
    <3> HIDE DEF f, yes
    <3>3. f = [stored |-> frame.stored, selects |-> frame.selects, derived |-> frame.derived, totals |-> yes]
      BY <1>2, <3>1
    <3>4. QED
      BY <3>2, <3>3
  <2> HIDE DEF f
  <2>4. f \in Frames
    BY <1>2, <2>3 DEF Frames
  <2>5. FrameOK'
    BY <1>1, <2>2, <2>3, <2>4 DEF FrameOK
  <2>6. QED
    BY <2>1, <2>5, DeriveKeeps
<1>7. ASSUME Refuse PROVE IInv'
  <2>1. outcome' = Outcome("refused") /\ frame' = frame /\ schema' = schema /\ told' = told
    BY <1>7 DEF Refuse
  <2>2. OutcomeOK'
    BY <2>1, OutcomeKinds DEF OutcomeOK
  <2>3. QED
    BY <1>1, <1>3, <2>1, <2>2 DEF IInv
<1>8. ASSUME ReadColumns PROVE IInv'
  <2>1. /\ outcome' = None /\ frame' = frame /\ schema' = schema
        /\ told' = told \cup {Said}
    BY <1>8 DEF ReadColumns, Said, Announced
  <2>2. OutcomeOK'
    BY <2>1, OutcomeKinds DEF OutcomeOK, None
  <2>3. QED
    BY <1>1, <1>3, <2>1, <2>2 DEF IInv
<1>9. ASSUME LocalSchema PROVE IInv'
  <2>1. outcome' = Outcome("local") /\ frame' = frame /\ schema' = schema /\ told' = told
    BY <1>9 DEF LocalSchema
  <2>2. OutcomeOK'
    BY <2>1, OutcomeKinds DEF OutcomeOK
  <2>3. QED
    BY <1>1, <1>3, <2>1, <2>2 DEF IInv
<1>10. ASSUME Compiled.verdict = "query"
       PROVE  /\ ItemsOK(Compiled.query.items)
              /\ WithRowType(Renamed(ItemNames(Compiled.query.items), Compiled.query.aliases)) = Said
  <2>1. QueryOK(Compiled.query)
    BY <1>1, <1>10, CompiledMeans DEF QueryMeans
  <2>2. QED
    BY <1>10, <2>1 DEF QueryOK, Said, Announced
<1>11. ASSUME NEW request \in Requests, ReadSchema(request) PROVE IInv'
  <2> DEFINE query == Compiled.query
             names == Planned(query, request.model)
  <2>1. frame' = frame /\ Compiled.verdict = "query"
    BY <1>11 DEF ReadSchema
  <2>2. names = ItemNames(query.items)
    BY <1>10, <2>1, PlannedNames
  <2>3. \/ schema # NoSchema /\ outcome' = None /\ told' = told \cup {schema} /\ schema' = schema
        \/ outcome' = Outcome("error") /\ schema' = schema /\ told' = told
        \/ Collides(names, query.aliases) /\ outcome' = Outcome("collision") /\ schema' = schema /\ told' = told
        \/ /\ schema' = WithRowType(Renamed(names, query.aliases))
           /\ told' = told \cup {schema'} /\ outcome' = None
    BY <1>11 DEF ReadSchema
  <2> HIDE DEF query, names
  <2>4. schema' \in {NoSchema, Said} /\ told' \subseteq {Said}
    BY <1>1, <1>10, <2>1, <2>2, <2>3 DEF query
  <2>5. OutcomeOK'
    <3>1. outcome'.kind \in {"none", "error", "collision"}
          /\ (outcome'.kind = "collision" => Collides(names, query.aliases))
      BY <2>3, OutcomeKinds DEF None
    <3>2. outcome'.kind = "collision" =>
             Compiled.verdict = "query" /\ Collides(ItemNames(Compiled.query.items), Compiled.query.aliases)
      BY <2>1, <2>2, <3>1 DEF query
    <3>3. Compiled' = Compiled
      BY <1>3, <2>1
    <3>4. QED
      BY <3>1, <3>2, <3>3 DEF OutcomeOK
  <2>6. QED
    BY <1>3, <2>1, <2>4, <2>5 DEF IInv
<1>12. ASSUME NEW request \in Requests, Collect(request) PROVE IInv'
  <2> DEFINE query == Compiled.query
             wire == WireTable(query, request)
             names == NamesOf(Visible(wire.columns))
             given == WithRowType(Renamed(names, query.aliases))
             table == [kind |-> "table", names |-> given,
                       rows |-> Normalized(wire, frame.totals), request |-> request]
  <2>1. frame' = frame /\ schema' = schema /\ Compiled.verdict = "query"
    BY <1>12 DEF Collect
  <2>2. names = ItemNames(query.items)
    <3>1. IsStyle(request.style)
      BY ResultAssumption
    <3>2. QED
      BY <1>10, <2>1, <3>1, VisibleNames
  <2>3. \/ outcome' = Outcome("error") /\ told' = told
        \/ Collides(names, query.aliases) /\ outcome' = Outcome("collision") /\ told' = told
        \/ /\ Answered(query, request) /\ ~Collides(names, query.aliases)
           /\ outcome' = table /\ told' = told \cup {given}
    BY <1>12 DEF Collect
  <2>4. given = Said
    BY <1>10, <2>1, <2>2
  <2>5. /\ table.kind = "table" /\ table.names = given /\ table.request = request
        /\ table.rows = Normalized(WireTable(Compiled.query, request), frame.totals)
    OBVIOUS
  <2> HIDE DEF query, wire, names, given, table
  <2>6. told' \subseteq {Said}
    BY <1>1, <2>3, <2>4
  <2>7. OutcomeOK'
    <3>1. Compiled' = Compiled /\ Said' = Said
      BY <1>3, <2>1
    <3>2. CASE outcome' = Outcome("error")
      BY <3>2, OutcomeKinds DEF OutcomeOK
    <3>3. CASE Collides(names, query.aliases) /\ outcome' = Outcome("collision")
      <4>1. Collides(ItemNames(Compiled.query.items), Compiled.query.aliases)
        BY <2>2, <3>3 DEF query
      <4>2. QED
        BY <2>1, <3>1, <3>3, <4>1, OutcomeKinds DEF OutcomeOK
    <3>4. CASE Answered(query, request) /\ ~Collides(names, query.aliases) /\ outcome' = table
      <4>1. Answered(Compiled.query, request)
            /\ ~Collides(ItemNames(Compiled.query.items), Compiled.query.aliases)
        BY <2>2, <3>4 DEF query
      <4>2. TableOK'
        BY <2>1, <2>4, <2>5, <3>1, <3>4, <4>1 DEF TableOK
      <4>3. QED
        BY <2>5, <3>4, <4>2 DEF OutcomeOK
    <3>5. QED
      BY <2>3, <3>2, <3>3, <3>4
  <2>8. QED
    BY <1>1, <1>3, <2>1, <2>6, <2>7 DEF IInv
<1>13. CASE UNCHANGED vars
  <2>1. frame' = frame /\ schema' = schema /\ told' = told /\ outcome' = outcome
    BY <1>13 DEF vars
  <2>2. OutcomeOK'
    <3>1. Compiled' = Compiled /\ Said' = Said
      BY <1>3, <2>1
    <3>2. QED
      BY <1>1, <2>1, <3>1 DEF OutcomeOK, TableOK
  <2>3. QED
    BY <1>1, <1>3, <2>1, <2>2 DEF IInv
<1>14. QED
  BY <1>4, <1>5, <1>6, <1>7, <1>8, <1>9, <1>11, <1>12, <1>13 DEF Next

(* Every state of a frame satisfies the invariant: it is made of what select() and        *)
(* with_column() accept, the query it compiles to asks for what its chain means, and all  *)
(* it was said or given is what that query announces and is answered with.                *)
THEOREM ResultInvariant == Spec => []IInv
<1>1. Init => IInv
  BY InitIInv
<1>2. IInv /\ [Next]_vars => IInv'
  BY NextIInv
<1>3. QED
  BY <1>1, <1>2, PTL DEF Spec

(* .columns, .schema and collect() give a frame one sequence of names, whichever is asked *)
(* first, however often, and however the model is edited between them: the one its query  *)
(* announces, which renaming the answer yields (DataFrame.columns, .schema, normalize).   *)
THEOREM ResultNamesAgree == Spec => []NamesAgree
<1>1. ASSUME told \subseteq {Said} PROVE NamesAgree
  <2> DEFINE said == Said
  <2>1. told = {} \/ told = {said}
    BY <1>1
  <2> HIDE DEF said
  <2>2. Cardinality({}) = 0 /\ Cardinality({said}) = 1
    BY FS_EmptySet, FS_Singleton
  <2>3. Cardinality(told) <= 1
    BY <2>1, <2>2
  <2>4. QED
    BY <2>3 DEF NamesAgree
<1>2. IInv => NamesAgree
  BY <1>1 DEF IInv
<1>3. QED
  BY <1>2, ResultInvariant, PTL

\* What is announced is one name per item; and an answer that is not refused has no name twice
LEMMA AnnouncedColumns ==
    ASSUME NEW query, QueryOK(query)
    PROVE  /\ DOMAIN query.columns = 1 .. Len(query.items) /\ Len(query.items) \in Nat
           /\ query.columns = [i \in 1 .. Len(query.items) |-> query.columns[i]]
           /\ ~Collides(ItemNames(query.items), query.aliases) => Apart(query.columns)
           /\ Collides(ItemNames(query.items), query.aliases) => ~Apart(query.columns)
<1> DEFINE names == ItemNames(query.items)
           aliases == query.aliases
           columns == query.columns
<1>1. ItemsOK(query.items) /\ Renamed(names, aliases) = columns
  BY DEF QueryOK
<1>2. Len(query.items) \in Nat
  BY <1>1 DEF ItemsOK
<1>3. DOMAIN names = 1 .. Len(query.items) /\ \A i \in 1 .. Len(query.items) : names[i] = query.items[i].name
  BY DEF ItemNames
<1>4. names = [i \in DOMAIN names |-> names[i]]
  BY <1>3 DEF ItemNames
<1>5. \A i, j \in 1 .. Len(query.items) : names[i] = names[j] => i = j
  BY <1>1, <1>3 DEF ItemsOK
<1> HIDE DEF names, aliases, columns
<1>6. DOMAIN columns = DOMAIN names /\ columns = [i \in DOMAIN names |-> columns[i]]
  BY <1>1, RenamedDomain
<1>7. ASSUME ~Collides(names, aliases) PROVE Apart(columns)
  <2>1. CASE DOMAIN aliases = {}
    <3>1. columns = names
      BY <1>1, <1>4, <2>1, NothingRenamed
    <3>2. QED
      BY <1>3, <1>5, <3>1 DEF Apart
  <2>2. CASE DOMAIN aliases # {}
    BY <1>1, <1>6, <1>7, <2>2 DEF Collides, Apart
  <2>3. QED
    BY <2>1, <2>2
<1>8. ASSUME Collides(names, aliases) PROVE ~Apart(columns)
  BY <1>1, <1>6, <1>8 DEF Collides, Apart
<1>9. QED
  BY <1>2, <1>3, <1>6, <1>7, <1>8 DEF names, aliases, columns

(* After an alias, a collision can only be one of a select() that has one column twice:   *)
(* every other one is refused while the frame is built, before any request (select(),     *)
(* alias_map, _refuse_collisions).                                                        *)
THEOREM ResultRefusedEarly == Spec => []RefusedEarly
<1>1. ASSUME IInv, outcome.kind = "collision"
      PROVE  \E i, j \in DOMAIN frame.selects[1] :
                i # j /\ KeyOf(frame.selects[1][i]) = KeyOf(frame.selects[1][j])
  <2> DEFINE query == Compiled.query
  <2>1. FrameOK /\ Compiled.verdict = "query" /\ Collides(ItemNames(query.items), query.aliases)
    BY <1>1 DEF IInv, OutcomeOK
  <2>2. QueryMeans(query)
    BY <2>1, CompiledMeans
  <2> HIDE DEF query
  <2>3. ~Apart(query.columns)
    BY <2>1, <2>2, AnnouncedColumns DEF QueryMeans
  <2>4. QED
    BY <2>2, <2>3 DEF QueryMeans
<1>2. IInv => RefusedEarly
  BY <1>1 DEF RefusedEarly
<1>3. QED
  BY <1>2, ResultInvariant, PTL

\* A frame that is given is the answer to a query that asks for what it means
LEMMA TableMeans ==
    ASSUME IInv, Given
    PROVE  LET query == Compiled.query
           IN  /\ TableOK /\ FrameOK
               /\ QueryOK(query) /\ ItemsOK(query.items)
               /\ Apart(query.columns)
               /\ query.columns = Asked
               /\ outcome.names = WithRowType(Asked)
               /\ Len(Meant) = Len(query.items) /\ DOMAIN Meant = 1 .. Len(query.items)
               /\ \A k \in 1 .. Len(query.items) : /\ Meant[k].ref = query.items[k].ref
                                                   /\ Meant[k].calc = query.items[k].calc
               /\ frame.totals => query.totals
<1> DEFINE query == Compiled.query
<1>1. FrameOK /\ TableOK
  BY DEF IInv, OutcomeOK, Given
<1>2. Compiled.verdict = "query" /\ ~Collides(ItemNames(query.items), query.aliases)
  BY <1>1 DEF TableOK
<1>3. QueryMeans(query)
  BY <1>1, <1>2, CompiledMeans
<1>4. outcome.names = WithRowType(query.columns)
  BY <1>1, <1>2 DEF TableOK, Said, Announced
<1> HIDE DEF query
<1>5. QueryOK(query) /\ ItemsOK(query.items)
  BY <1>3 DEF QueryMeans, QueryOK
<1>6. Apart(query.columns)
  BY <1>2, <1>5, AnnouncedColumns
<1>7. QED
  BY <1>1, <1>3, <1>4, <1>5, <1>6 DEF QueryMeans, query

(* A frame is only ever given for a whole answer to the whole question: no line of the    *)
(* body was cut or foreign, no failure was appended to it, and the model knew every field *)
(* that the columns mean (parse_response, _absorb, check_missing_fields).                 *)
THEOREM ResultNeverPartial == Spec => []NeverPartial
<1>1. ASSUME IInv, Given
      PROVE  LET request == outcome.request
             IN  /\ Range(request.body) \subseteq {"header", "job", "footer"}
                 /\ \A i \in DOMAIN Meant : Meant[i].ref.base \in request.model.known
  <2> DEFINE query == Compiled.query
             request == outcome.request
             meant == Meant
  <2>1. /\ TableOK /\ ItemsOK(query.items) /\ DOMAIN meant = 1 .. Len(query.items)
        /\ \A k \in 1 .. Len(query.items) : meant[k].ref = query.items[k].ref
    BY <1>1, TableMeans
  <2>2. request \in Requests /\ Answered(query, request)
    BY <2>1 DEF TableOK
  <2> HIDE DEF query, request, meant
  <2>3. request.body \in Seq(Lines) /\ ~Upstream(request.body) /\ Dropped(query, request.model) = {}
    BY <2>2, ResultAssumption DEF Answered
  <2>4. \A i \in DOMAIN request.body :
           /\ request.body[i] \in Lines /\ request.body[i] # "message"
           /\ request.body[i] \notin {"junk", "torn"}
    <3>1. DOMAIN request.body = 1 .. Len(request.body)
      BY <2>3
    <3>2. \A i \in DOMAIN request.body : request.body[i] \in Lines
      BY <2>3, <3>1
    <3>3. QED
      BY <2>3, <3>2 DEF Upstream, Malformed, Range
  <2>5. Range(request.body) \subseteq {"header", "job", "footer"}
    BY <2>4 DEF Range, Lines
  <2>6. DOMAIN query.items = 1 .. Len(query.items)
    BY <2>1 DEF ItemsOK
  <2>7. \A i \in DOMAIN meant : meant[i].ref.base \in request.model.known
    BY <2>1, <2>3, <2>6 DEF Dropped
  <2>8. QED
    BY <2>5, <2>7 DEF request, meant
<1>2. IInv => NeverPartial
  BY <1>1 DEF NeverPartial
<1>3. QED
  BY <1>2, ResultInvariant, PTL

(***************************************************************************)
(* The rows of an answer.                                                  *)
(***************************************************************************)
\* Every place of an answer: an item's column, a sidecar, the sort column, an indicator, or
\* the formatted half of a grain; only the fourth has the name of an indicator
LEMMA OnlyIndicators ==
    ASSUME NEW items, NEW model, NEW style, NEW wire, NEW sidecars, NEW indicators, NEW formatted,
           IsAnswer(items, model, style, wire, sidecars, indicators, formatted),
           NEW k \in 1 .. Len(wire), IsIndicator(wire[k].name)
    PROVE  \E i \in 1 .. Len(indicators) : wire[k] = indicators[i]
<1>1. /\ ItemsOK(items) /\ SidecarsAre(items, style, sidecars) /\ IndicatorsAre(style, indicators)
      /\ FormattedAre(items, model, formatted)
      /\ Laid(items, model, style, wire, sidecars, indicators, formatted)
  BY DEF IsAnswer
<1>2. wire[k].name.part \in {"$omni", "__omni"}
  BY IndicatorNames DEF IsIndicator
<1>3. CASE k > Len(items)
  <2>1. \/ wire[k].name.part \in {"summ", "summ_1", "sort"}
        \/ \E i \in 1 .. Len(indicators) : wire[k] = indicators[i]
        \/ \E i \in 1 .. Len(items) : wire[k].name = items[i].name
    BY <1>1, <1>3, WirePlaces
  <2>2. \A i \in 1 .. Len(items) : items[i].name.part \in {"name", "scoped"}
    BY <1>1, InWireNames
  <2>3. QED
    BY <1>2, <2>1, <2>2
<1>4. CASE k \in 1 .. Len(items)
  <2>1. wire[k].name = InWire(items[k], model)
    BY <1>1, <1>4 DEF Laid
  <2>2. wire[k].name.part \in {"name", "scoped", "raw"}
    BY <1>1, <1>4, <2>1, InWireNames
  <2>3. QED
    BY <1>2, <2>2
<1>5. QED
  <2>1. Len(items) \in Nat
    BY <1>1 DEF Laid
  <2>2. QED
    BY <1>3, <1>4, <2>1

\* What a row holds in the indicators: nothing in the row of data, and in the row of totals
\* what the style says
IndicatorCells(wire, style) ==
    \A c \in Range(wire) : IsIndicator(c.name) =>
        /\ c.data = style.empty
        /\ c.total = IF c.name = style.flag THEN Grand ELSE style.empty

\* A totals row is flagged in an indicator that the answer has.
LEMMA CellsOfIndicators ==
    ASSUME NEW items, NEW model, NEW style, NEW wire, NEW sidecars, NEW indicators, NEW formatted,
           IsAnswer(items, model, style, wire, sidecars, indicators, formatted), IsStyle(style)
    PROVE  /\ IndicatorCells(wire, style)
           /\ style.total => \E c \in Range(wire) : c.name = style.flag /\ IsIndicator(c.name)
<1>1. /\ IndicatorsAre(style, indicators)
      /\ Laid(items, model, style, wire, sidecars, indicators, formatted)
  BY DEF IsAnswer
<1>2. DOMAIN wire = 1 .. Len(wire)
  BY <1>1 DEF Laid
<1>3. ASSUME NEW c \in Range(wire), IsIndicator(c.name)
      PROVE  /\ c.data = style.empty
             /\ c.total = IF c.name = style.flag THEN Grand ELSE style.empty
  <2>1. PICK k \in 1 .. Len(wire) : c = wire[k]
    BY <1>2 DEF Range
  <2>2. PICK i \in 1 .. Len(indicators) : wire[k] = indicators[i]
    BY <1>3, <2>1, OnlyIndicators
  <2>3. QED
    BY <1>1, <2>1, <2>2 DEF IndicatorsAre
<1>4. ASSUME style.total PROVE \E c \in Range(wire) : c.name = style.flag /\ IsIndicator(c.name)
  <2>1. style.flag \in style.indicators /\ style.flag \in Range(Indicators)
    BY <1>4 DEF IsStyle
  <2>2. PICK i \in 1 .. Len(indicators) : indicators[i].name = style.flag
    BY <1>1, <2>1 DEF IndicatorsAre
  <2> DEFINE k == Len(items) + Len(sidecars) + 1 + i
  <2>3. wire[k] = indicators[i] /\ k \in 1 .. Len(wire)
    BY <1>1, <2>2 DEF Laid
  <2> HIDE DEF k
  <2>4. wire[k] \in Range(wire)
    BY <1>2, <2>3 DEF Range
  <2>5. QED
    BY <2>1, <2>2, <2>3, <2>4 DEF IsIndicator
<1>5. QED
  BY <1>3, <1>4 DEF IndicatorCells

\* A row of data is never taken for totals, and a row of totals always is, and labelled so
LEMMA FlagsAre ==
    ASSUME NEW table, NEW style, IsStyle(style), IndicatorCells(table.columns, style),
           style.total => \E c \in Range(table.columns) : c.name = style.flag /\ IsIndicator(c.name)
    PROVE  /\ ~Flagged(table, "data")
           /\ style.total => Flagged(table, "total") /\ RowLabel(table, "total") = "total"
<1> DEFINE columns == table.columns
<1>1. \A c : c["data"] = c.data /\ c["total"] = c.total
  OBVIOUS
<1>2. style.empty \in {Null, Blank} /\ Null # Blank /\ Null # Grand /\ Blank # Grand
  BY CellsOfItems DEF IsStyle
<1>3. ~Flagged(table, "data")
  BY <1>1, <1>2 DEF Flagged, IndicatorCells
<1>4. ASSUME style.total PROVE Flagged(table, "total") /\ RowLabel(table, "total") = "total"
  <2>1. PICK c \in Range(columns) : c.name = style.flag /\ IsIndicator(c.name)
    BY <1>4
  <2>2. c.total = Grand
    BY <2>1 DEF IndicatorCells
  <2>3. Flagged(table, "total")
    BY <1>1, <1>2, <2>1, <2>2 DEF Flagged
  <2> DEFINE Valued(i) == \E d \in Range(columns) : d.name = Indicators[i] /\ d["total"] # Null
             valued == {i \in DOMAIN Indicators : Valued(i)}
             least == Min(valued)
             Named(d) == d.name = Indicators[least]
             first == CHOOSE d \in Range(columns) : Named(d)
  <2>4. PICK i \in 1 .. 4 : Indicators[i] = style.flag
    BY <2>1, IndicatorNames DEF IsIndicator
  <2>5. i \in valued
    BY <1>1, <1>2, <2>1, <2>2, <2>4, IndicatorNames
  <2>6. valued \subseteq Nat
    BY IndicatorNames
  <2>7. least \in valued
    <3> HIDE DEF valued
    <3>1. QED
      BY <2>5, <2>6, LeastOf
  <2>8. PICK d \in Range(columns) : d.name = Indicators[least] /\ d["total"] # Null
    <3> HIDE DEF least
    <3>1. QED
      BY <2>7
  <2>9. first \in Range(columns) /\ first.name = Indicators[least]
    <3> HIDE DEF least
    <3>1. \E x \in Range(columns) : Named(x)
      BY <2>8
    <3>2. first \in Range(columns) /\ Named(first)
      BY <3>1
    <3>3. QED
      BY <3>2
  <2>10. RowLabel(table, "total") =
            IF first["total"] \in {Blank, Grand} THEN "total" ELSE first["total"].what
    BY DEF RowLabel
  <2>11. IsIndicator(Indicators[least])
    <3>1. least \in 1 .. 4
      <4> HIDE DEF least
      <4>1. QED
        BY <2>7, IndicatorNames
    <3>2. QED
      BY <3>1, IndicatorNames DEF IsIndicator, Range
  <2> HIDE DEF first, least, valued
  <2>12. first.total = d.total
    BY <2>8, <2>9, <2>11 DEF IndicatorCells
  <2>13. first.total # Null /\ first.total \in {Grand, style.empty}
    BY <1>1, <2>8, <2>9, <2>11, <2>12 DEF IndicatorCells
  <2>14. QED
    BY <1>1, <1>2, <2>3, <2>10, <2>13
<1>5. QED
  BY <1>3, <1>4

\* An item is a field or an expression over one.
LEMMA ItemFields ==
    ASSUME NEW items, ItemsOK(items), NEW i \in 1 .. Len(items)
    PROVE  /\ items[i].ref \in FieldNames /\ items[i].calc \in Nat
           /\ items[i].calc = 0 => items[i].name = items[i].ref
           /\ items[i].calc # 0 => items[i].name.part = "scoped"
<1>1. items \in Seq(Items)
  BY DEF ItemsOK
<1>2. items[i] \in Items
  BY <1>1
<1>3. items[i].ref \in FieldNames /\ items[i].calc \in Nat
  BY <1>2 DEF Items
<1>4. QED
  BY <1>3 DEF ItemsOK

\* Only a sidecar is named like one
LEMMA OnlySidecars ==
    ASSUME NEW items, NEW model, NEW style, NEW wire, NEW sidecars, NEW indicators, NEW formatted,
           IsAnswer(items, model, style, wire, sidecars, indicators, formatted),
           NEW k \in 1 .. Len(wire), wire[k].name.part \in {"summ", "summ_1"}
    PROVE  /\ k - Len(items) \in 1 .. Len(sidecars) /\ wire[k] = sidecars[k - Len(items)]
           /\ Len(items) \in Nat
<1>1. /\ ItemsOK(items) /\ SidecarsAre(items, style, sidecars) /\ IndicatorsAre(style, indicators)
      /\ FormattedAre(items, model, formatted)
      /\ Laid(items, model, style, wire, sidecars, indicators, formatted)
  BY DEF IsAnswer
<1>2. Len(items) \in Nat
  BY <1>1 DEF Laid
<1>3. ~(k \in 1 .. Len(items))
  <2>1. SUFFICES ASSUME k \in 1 .. Len(items) PROVE FALSE
    OBVIOUS
  <2>2. wire[k].name = InWire(items[k], model)
    BY <1>1, <2>1 DEF Laid
  <2>3. wire[k].name.part \in {"name", "scoped", "raw"}
    BY ZenonT(60), <1>1, <2>1, <2>2, InWireNames
  <2>4. QED
    BY <2>3
<1>4. k > Len(items)
  BY <1>2, <1>3
<1>5. \/ k - Len(items) \in 1 .. Len(sidecars) /\ wire[k] = sidecars[k - Len(items)]
      \/ wire[k].name.part \in {"sort", "$omni", "__omni"}
      \/ \E i \in 1 .. Len(items) : wire[k].name = items[i].name
  BY <1>1, <1>4, WirePlaces
<1>6. \A i \in 1 .. Len(items) : items[i].name.part \in {"name", "scoped"}
  BY <1>1, InWireNames
<1>7. QED
  BY <1>2, <1>5, <1>6

\* The sidecar that counts is of a measure of that name, and carries its totals if any does
LEMMA SidecarsThatCount ==
    ASSUME NEW items, NEW model, NEW style, NEW wire, NEW sidecars, NEW indicators, NEW formatted,
           IsAnswer(items, model, style, wire, sidecars, indicators, formatted),
           NEW name, NEW s \in SidecarFor(wire, name)
    PROVE  /\ s \in 1 .. Len(wire) /\ s - Len(items) \in 1 .. Len(sidecars)
           /\ \E i \in 1 .. Len(items) :
                 /\ IsMeasured(items[i]) /\ name = Name(items[i].ref.base)
                 /\ wire[s].total = IF style.sidecar = "kept" THEN Cell("total", items[i]) ELSE Null
<1>1. SidecarsAre(items, style, sidecars) /\ Laid(items, model, style, wire, sidecars, indicators, formatted)
  BY DEF IsAnswer
<1>2. DOMAIN wire = 1 .. Len(wire) /\ Len(wire) \in Nat /\ Len(items) \in Nat
  BY <1>1 DEF Laid
<1>3. /\ s \in 1 .. Len(wire) /\ wire[s].name.part \in {"summ", "summ_1"} /\ Name(wire[s].name.base) = name
      /\ \A j \in 1 .. s - 1 : \/ wire[j].name.base # wire[s].name.base
                               \/ wire[j].name.part \notin {"summ", "summ_1"}
  BY <1>2 DEF SidecarFor
<1> DEFINE k == s - Len(items)
<1>4. k \in 1 .. Len(sidecars) /\ wire[s] = sidecars[k] /\ s = Len(items) + k
  BY <1>2, <1>3, OnlySidecars
<1> HIDE DEF k
<1>5. wire[s].name.part = "summ"
  <2>1. SUFFICES ASSUME wire[s].name.part = "summ_1" PROVE FALSE
    BY <1>3
  <2>2. PICK j \in 1 .. Len(sidecars) : j < k /\ sidecars[j].name = [sidecars[k].name EXCEPT !.part = "summ"]
    BY <1>1, <1>4, <2>1 DEF SidecarsAre
  <2>3. sidecars[k] \in WireColumns
    BY <1>1, <1>4 DEF SidecarsAre
  <2>4. sidecars[j].name.base = wire[s].name.base /\ sidecars[j].name.part = "summ"
    BY <1>4, <2>2, <2>3 DEF WireColumns, Names
  <2>5. wire[Len(items) + j] = sidecars[j] /\ Len(items) + j \in 1 .. s - 1
    BY SMTT(60), <1>1, <1>2, <1>3, <1>4, <2>2 DEF Laid
  <2>6. QED
    BY <1>3, <2>4, <2>5
<1>6. PICK i \in 1 .. Len(items) :
         /\ IsMeasured(items[i]) /\ sidecars[k].name.base = items[i].ref.base
         /\ sidecars[k].name.part = "summ" =>
               sidecars[k].total = IF style.sidecar = "kept" THEN Cell("total", items[i]) ELSE Null
  BY <1>1, <1>4 DEF SidecarsAre
<1>7. QED
  BY <1>3, <1>4, <1>5, <1>6 DEF k

\* A measure that has sidecars has one that counts
LEMMA MeasuresHaveSidecars ==
    ASSUME NEW items, NEW model, NEW style, NEW wire, NEW sidecars, NEW indicators, NEW formatted,
           IsAnswer(items, model, style, wire, sidecars, indicators, formatted),
           style.sidecar # "none", NEW i \in 1 .. Len(items), IsMeasured(items[i])
    PROVE  SidecarFor(wire, Name(items[i].ref.base)) # {}
<1>1. /\ ItemsOK(items) /\ SidecarsAre(items, style, sidecars)
      /\ Laid(items, model, style, wire, sidecars, indicators, formatted)
  BY DEF IsAnswer
<1>2. DOMAIN wire = 1 .. Len(wire) /\ Len(wire) \in Nat /\ Len(items) \in Nat /\ Len(sidecars) \in Nat
  BY <1>1 DEF Laid
<1>3. PICK k \in 1 .. Len(sidecars) : sidecars[k].name = [items[i].ref EXCEPT !.part = "summ"]
  BY <1>1 DEF SidecarsAre
<1>4. items[i].ref \in FieldNames
  BY <1>1, ItemFields
<1>5. sidecars[k].name.base = items[i].ref.base /\ sidecars[k].name.part = "summ"
  BY <1>3, <1>4, PartOfField DEF AllParts
<1> DEFINE base == items[i].ref.base
           Is(s) == wire[s].name.part \in {"summ", "summ_1"} /\ wire[s].name.base = base
           places == {s \in 1 .. Len(wire) : Is(s)}
           first == Min(places)
<1>6. Len(items) + k \in places
  <2>1. wire[Len(items) + k] = sidecars[k] /\ Len(items) + k \in 1 .. Len(wire)
    BY <1>1, <1>2 DEF Laid
  <2>2. QED
    BY <1>5, <2>1
<1>7. places \subseteq Nat
  BY <1>2
<1>8. first \in places /\ \A s \in places : first <= s
  <2> HIDE DEF places
  <2>1. QED
    BY <1>6, <1>7, LeastOf
<1> HIDE DEF first
<1>9. \A j \in 1 .. first - 1 : ~Is(j)
  <2> SUFFICES ASSUME NEW j \in 1 .. first - 1, Is(j) PROVE FALSE
    OBVIOUS
  <2>1. j \in 1 .. Len(wire) /\ j < first
    BY <1>2, <1>8
  <2>2. j \in places
    BY <2>1
  <2>3. QED
    BY <1>7, <1>8, <2>1, <2>2
<1>10. first \in SidecarFor(wire, Name(base))
  <2>1. first \in DOMAIN wire /\ Is(first)
    BY <1>2, <1>8
  <2>2. QED
    BY <1>9, <2>1 DEF SidecarFor
<1>11. QED
  BY <1>10

\* After a merge the totals of the measures are in their own columns, and nothing is in others'
MergedAre(items, wire, merged) ==
    /\ merged \in Seq(WireColumns) /\ Len(merged) = Len(wire)
    /\ \A k \in 1 .. Len(wire) : merged[k].name = wire[k].name /\ merged[k].data = wire[k].data
    /\ \A i \in 1 .. Len(items) :
          merged[i].total = IF IsMeasured(items[i]) THEN Cell("total", items[i]) ELSE Null

\* After the merge every measure has its total in its own column.
LEMMA MergedTotals ==
    ASSUME NEW items, NEW model, NEW style, NEW table, NEW sidecars, NEW indicators, NEW formatted,
           IsAnswer(items, model, style, table.columns, sidecars, indicators, formatted),
           IsStyle(style), model.formatted \cap Measures = {},
           table = [columns |-> table.columns, rows |-> table.rows]
    PROVE  MergedAre(items, table.columns, Merged(table).columns)
<1> DEFINE wire == table.columns
           merged == Merged(table).columns
           For(k) == SidecarFor(wire, wire[k].name)
           AnyOf(k) == \E s \in For(k) : wire[s].total # Null
           Total(k) == IF AnyOf(k) THEN wire[Min(For(k))].total ELSE wire[k].total
           New(k) == [wire[k] EXCEPT !.total = Total(k)]
<1>1. /\ ItemsOK(items) /\ SidecarsAre(items, style, sidecars)
      /\ Laid(items, model, style, wire, sidecars, indicators, formatted)
  BY DEF IsAnswer
<1>2. /\ wire \in Seq(WireColumns) /\ Len(wire) \in Nat /\ DOMAIN wire = 1 .. Len(wire)
      /\ Len(items) \in Nat /\ Len(items) <= Len(wire)
  BY <1>1 DEF Laid
<1>3. merged = [k \in 1 .. Len(wire) |-> New(k)]
  <2> DEFINE columns == [k \in DOMAIN wire |-> New(k)]
  <2>1. Merged(table) = [table EXCEPT !.columns = columns]
    BY DEF Merged
  <2> HIDE DEF columns
  <2>2. Merged(table).columns = columns
    BY <2>1
  <2>3. QED
    BY <1>2, <2>2 DEF columns
<1> HIDE DEF wire, merged
<1>4. \A k : For(k) \subseteq 1 .. Len(wire)
  BY <1>2 DEF SidecarFor
<1>5. ASSUME NEW k, For(k) # {} PROVE Min(For(k)) \in For(k) /\ Min(For(k)) \in 1 .. Len(wire)
  <2> DEFINE all == For(k)
  <2>1. all \subseteq Nat /\ all # {}
    BY <1>2, <1>4, <1>5
  <2>2. all \subseteq 1 .. Len(wire)
    BY <1>4
  <2> HIDE DEF all
  <2>3. Min(all) \in all
    BY <2>1, LeastOf
  <2>4. QED
    BY <2>2, <2>3 DEF all
<1>6. ASSUME NEW k \in 1 .. Len(wire)
      PROVE  /\ wire[k] \in WireColumns /\ Total(k) \in Cells
             /\ New(k) = [name |-> wire[k].name, data |-> wire[k].data, total |-> Total(k)]
  <2>1. wire[k] \in WireColumns
    BY <1>2
  <2>2. Total(k) \in Cells
    <3>1. CASE AnyOf(k)
      <4>1. Min(For(k)) \in 1 .. Len(wire)
        BY <1>5, <3>1
      <4>2. wire[Min(For(k))] \in WireColumns
        BY <1>2, <4>1
      <4>3. wire[Min(For(k))].total \in Cells
        BY <4>2 DEF WireColumns
      <4>4. QED
        BY <3>1, <4>3
    <3>2. CASE ~AnyOf(k)
      BY <2>1, <3>2 DEF WireColumns
    <3>3. QED
      BY <3>1, <3>2
  <2> HIDE DEF Total
  <2>3. QED
    BY <2>1, <2>2 DEF WireColumns
<1>7. ASSUME NEW i \in 1 .. Len(items)
      PROVE  Total(i) = IF IsMeasured(items[i]) THEN Cell("total", items[i]) ELSE Null
  <2>1. /\ wire[i].name = InWire(items[i], model) /\ i \in 1 .. Len(wire)
        /\ wire[i].total = IF ~IsMeasured(items[i]) THEN Null
                           ELSE IF style.sidecar = "kept" THEN Other
                           ELSE Cell("total", items[i])
    BY <1>1, <1>2 DEF Laid
  <2>2. /\ items[i].ref \in FieldNames
        /\ items[i].calc = 0 => items[i].name = items[i].ref
        /\ items[i].calc # 0 => items[i].name.part = "scoped"
    BY <1>1, ItemFields
  <2>3. items[i].ref = Name(items[i].ref.base)
    BY <2>2 DEF FieldNames, Name
  <2>4. ASSUME NEW s \in For(i)
        PROVE  \E j \in 1 .. Len(items) :
                  /\ IsMeasured(items[j]) /\ wire[i].name = Name(items[j].ref.base)
                  /\ wire[s].total = IF style.sidecar = "kept" THEN Cell("total", items[j]) ELSE Null
    BY <1>1, SidecarsThatCount DEF wire
  <2>5. CASE IsMeasured(items[i])
    <3>1. items[i].ref.base \in Measures /\ items[i].calc = 0 /\ ~IsFormatted(items[i], model)
      BY <2>5 DEF IsMeasured, IsFormatted
    <3>2. wire[i].name = Name(items[i].ref.base)
      BY <2>1, <2>2, <2>3, <3>1 DEF InWire
    <3>3. CASE style.sidecar = "kept"
      <4>1. For(i) # {}
        BY <2>5, <3>2, <3>3, MeasuresHaveSidecars DEF wire
      <4>2. ASSUME NEW s \in For(i) PROVE wire[s].total = Cell("total", items[i])
        <5>1. PICK j \in 1 .. Len(items) :
                 /\ IsMeasured(items[j]) /\ wire[i].name = Name(items[j].ref.base)
                 /\ wire[s].total = Cell("total", items[j])
          BY <2>4, <3>3
        <5>2. items[j].ref \in FieldNames /\ items[j].calc = 0
          BY <1>1, <5>1, ItemFields DEF IsMeasured
        <5>3. Name(items[j].ref.base) = items[j].ref
          BY <5>2 DEF FieldNames, Name
        <5>4. items[j].ref = items[i].ref /\ items[j].calc = items[i].calc
          BY <2>3, <3>1, <3>2, <5>1, <5>2, <5>3
        <5>5. QED
          BY <5>1, <5>4 DEF Cell
      <4>3. Cell("total", items[i]) # Null
        BY CellsOfItems
      <4>4. AnyOf(i)
        BY <4>1, <4>2, <4>3
      <4>5. wire[Min(For(i))].total = Cell("total", items[i])
        BY <1>5, <4>1, <4>2
      <4>6. QED
        BY <2>5, <4>4, <4>5
    <3>4. CASE style.sidecar # "kept"
      <4>1. ~AnyOf(i)
        BY <2>4, <3>4
      <4>2. QED
        BY <2>1, <2>5, <3>4, <4>1
    <3>5. QED
      BY <3>3, <3>4
  <2>6. CASE ~IsMeasured(items[i])
    <3>1. For(i) = {}
      <4>1. SUFFICES ASSUME NEW s \in For(i) PROVE FALSE
        OBVIOUS
      <4>2. PICK j \in 1 .. Len(items) : IsMeasured(items[j]) /\ wire[i].name = Name(items[j].ref.base)
        BY <2>4, <4>1
      <4>3. wire[i].name.part = "name" /\ wire[i].name.base = items[j].ref.base
        BY <4>2 DEF Name
      <4>4. items[j].ref.base \in Measures
        BY <4>2 DEF IsMeasured
      <4>5. CASE items[i].calc # 0
        <5>1. InWire(items[i], model).part = "scoped"
          BY <2>2, <4>5 DEF InWire, IsFormatted
        <5>2. QED
          BY <2>1, <4>3, <5>1
      <4>6. CASE items[i].calc = 0 /\ IsFormatted(items[i], model)
        <5>1. InWire(items[i], model).part = "raw"
          BY <2>2, <4>6, PartOfField DEF InWire, AllParts
        <5>2. QED
          BY <2>1, <4>3, <5>1
      <4>7. CASE items[i].calc = 0 /\ ~IsFormatted(items[i], model)
        <5>1. wire[i].name = items[i].ref
          BY <2>1, <2>2, <4>7 DEF InWire
        <5>2. QED
          BY <2>6, <4>3, <4>4, <4>7, <5>1 DEF IsMeasured
      <4>8. QED
        BY <4>5, <4>6, <4>7
    <3>2. ~AnyOf(i)
      BY <3>1
    <3>3. QED
      BY <2>1, <2>6, <3>2
  <2>7. QED
    BY <2>5, <2>6
<1> HIDE DEF Total
<1>8. ASSUME NEW k \in 1 .. Len(wire)
      PROVE  /\ merged[k] \in WireColumns /\ merged[k].name = wire[k].name
             /\ merged[k].data = wire[k].data /\ merged[k].total = Total(k)
  <2>1. merged[k] = [name |-> wire[k].name, data |-> wire[k].data, total |-> Total(k)]
    BY <1>3, <1>6
  <2>2. QED
    <3> DEFINE e == merged[k]
               total == Total(k)
    <3>1. e = [name |-> wire[k].name, data |-> wire[k].data, total |-> total]
      BY <2>1
    <3>2. wire[k].name \in Names /\ wire[k].data \in Cells /\ total \in Cells
      BY <1>6 DEF WireColumns
    <3> HIDE DEF e, total
    <3>3. e \in WireColumns /\ e.name = wire[k].name /\ e.data = wire[k].data /\ e.total = total
      BY <3>1, <3>2 DEF WireColumns
    <3>4. QED
      BY <3>3 DEF e, total
<1>9. merged \in Seq(WireColumns) /\ Len(merged) = Len(wire)
  <2>1. merged = [k \in 1 .. Len(wire) |-> merged[k]]
    <3> HIDE DEF New
    <3>1. QED
      BY <1>3
  <2>2. merged \in [1 .. Len(wire) -> WireColumns]
    BY <1>8, <2>1
  <2>3. QED
    BY <1>2, <2>2
<1>10. \A i \in 1 .. Len(items) :
          merged[i].total = IF IsMeasured(items[i]) THEN Cell("total", items[i]) ELSE Null
  BY <1>2, <1>7, <1>8
<1>11. MergedAre(items, wire, merged)
  BY <1>8, <1>9, <1>10 DEF MergedAre
<1>12. QED
  BY <1>11 DEF wire, merged

DataCells(items) == [i \in 1 .. Len(items) |-> Cell("data", items[i])]
TotalCells(items) == [i \in 1 .. Len(items) |-> IF IsMeasured(items[i]) THEN Cell("total", items[i]) ELSE Null]
Row(cells, label) == [cells |-> cells, label |-> label]

\* The data, and after it the totals of whoever keeps those that are sent
LEMMA NormalizedRows ==
    ASSUME NEW query, ItemsOK(query.items), NEW request \in Requests,
           NEW keep \in BOOLEAN, keep => query.totals
    PROVE  Normalized(WireTable(query, request), keep)
               = <<Row(DataCells(query.items), "data")>>
                 \o (IF keep /\ request.style.total THEN <<Row(TotalCells(query.items), "total")>> ELSE <<>>)
<1> DEFINE wire == WireTable(query, request)
           items == query.items
           style == request.style
           model == request.model
           sidecars == SidecarsOf(items, style)
           indicators == IndicatorColumns(style)
           formatted == FormattedOf(items, model)
           merge == keep /\ Flagged(wire, "total")
           merged == IF merge THEN Merged(wire) ELSE wire
           columns == Visible(merged.columns)
           n == Len(items)
<1>1. IsStyle(style) /\ model.formatted \cap Measures = {}
  BY ResultAssumption
<1>2. IsAnswer(items, model, style, wire.columns, sidecars, indicators, formatted)
  BY <1>1, WireIsAnswer
<1>3. wire = [columns |-> wire.columns, rows |-> wire.rows]
      /\ wire.rows = IF style.total /\ query.totals THEN {"data", "total"} ELSE {"data"}
  BY DEF WireTable
<1>4. Normalized(wire, keep) = RowsOf(wire, columns, "data", keep) \o RowsOf(wire, columns, "total", keep)
  BY DEF Normalized
<1> HIDE DEF wire, items, style, model, sidecars, indicators, formatted
<1>5. /\ ~Flagged(wire, "data")
      /\ style.total => Flagged(wire, "total") /\ RowLabel(wire, "total") = "total"
  BY <1>1, <1>2, CellsOfIndicators, FlagsAre
<1>6. /\ Laid(items, model, style, wire.columns, sidecars, indicators, formatted)
      /\ wire.columns \in Seq(WireColumns) /\ n \in Nat /\ n <= Len(wire.columns)
      /\ \A i \in 1 .. n : wire.columns[i].data = Cell("data", items[i])
  BY <1>2 DEF IsAnswer, Laid
<1>7. /\ DOMAIN columns = 1 .. n
      /\ \A i \in 1 .. n : columns[i].data = Cell("data", items[i])
      /\ merge => \A i \in 1 .. n :
            columns[i].total = IF IsMeasured(items[i]) THEN Cell("total", items[i]) ELSE Null
  <2> DEFINE shown == merged.columns
             Kept(i) == [shown[i] EXCEPT !.name = items[i].name]
  <2>1. /\ shown \in Seq(WireColumns) /\ Len(shown) = Len(wire.columns)
        /\ \A k \in 1 .. Len(wire.columns) : /\ shown[k].name = wire.columns[k].name
                                             /\ shown[k].data = wire.columns[k].data
        /\ merge => \A i \in 1 .. n :
              shown[i].total = IF IsMeasured(items[i]) THEN Cell("total", items[i]) ELSE Null
    <3>1. CASE merge
      <4>1. MergedAre(items, wire.columns, Merged(wire).columns)
        BY <1>1, <1>2, <1>3, MergedTotals
      <4>2. shown = Merged(wire).columns
        BY <3>1
      <4>3. QED
        BY <4>1, <4>2 DEF MergedAre
    <3>2. CASE ~merge
      <4>1. shown = wire.columns
        BY <3>2
      <4>2. QED
        BY <1>6, <3>2, <4>1
    <3>3. QED
      BY <3>1, <3>2
  <2>2. columns = Visible(shown)
    OBVIOUS
  <2> HIDE DEF shown, columns, merge, merged
  <2>3. DOMAIN columns = 1 .. n /\ \A i \in 1 .. n : columns[i] = Kept(i)
    <3>1. \A k \in 1 .. Len(wire.columns) : shown[k].name = wire.columns[k].name
      BY <2>1
    <3>2. shown \in Seq(WireColumns) /\ Len(shown) = Len(wire.columns)
      BY <2>1
    <3>3. /\ DOMAIN Visible(shown) = 1 .. Len(items)
          /\ \A i \in 1 .. Len(items) : Visible(shown)[i] = [shown[i] EXCEPT !.name = items[i].name]
      BY <1>2, <3>1, <3>2, VisibleColumns
    <3>4. QED
      BY <2>2, <3>3
  <2>4. ASSUME NEW i \in 1 .. n
        PROVE  columns[i].data = shown[i].data /\ columns[i].total = shown[i].total
               /\ i \in 1 .. Len(wire.columns)
    <3>1. shown[i] \in WireColumns /\ i \in 1 .. Len(wire.columns)
      BY <1>6, <2>1
    <3>2. QED
      BY <2>3, <3>1 DEF WireColumns
  <2>5. QED
    BY <1>6, <2>1, <2>3, <2>4
<1> HIDE DEF columns, n
<1>8. \A c : c["data"] = c.data /\ c["total"] = c.total
  OBVIOUS
<1>9. RowsOf(wire, columns, "data", keep) = <<Row(DataCells(items), "data")>>
  <2>1. "data" \in wire.rows
    BY <1>3
  <2>2. RowsOf(wire, columns, "data", keep) =
           <<[cells |-> [i \in DOMAIN columns |-> columns[i]["data"]], label |-> "data"]>>
    BY <1>5, <2>1 DEF RowsOf
  <2>3. [i \in DOMAIN columns |-> columns[i]["data"]] = DataCells(items)
    BY <1>7, <1>8 DEF DataCells, n
  <2>4. QED
    BY <2>2, <2>3 DEF Row
<1>10. RowsOf(wire, columns, "total", keep) =
          IF keep /\ style.total THEN <<Row(TotalCells(items), "total")>> ELSE <<>>
  <2>1. CASE keep /\ style.total
    <3>1. "total" \in wire.rows /\ Flagged(wire, "total") /\ RowLabel(wire, "total") = "total" /\ merge
      BY <1>3, <1>5, <2>1
    <3>2. RowsOf(wire, columns, "total", keep) =
             <<[cells |-> [i \in DOMAIN columns |-> columns[i]["total"]], label |-> "total"]>>
      BY <2>1, <3>1 DEF RowsOf
    <3>3. [i \in DOMAIN columns |-> columns[i]["total"]] = TotalCells(items)
      BY <1>7, <1>8, <3>1 DEF TotalCells, n
    <3>4. QED
      BY <2>1, <3>2, <3>3 DEF Row
  <2>2. CASE ~(keep /\ style.total)
    <3>1. "total" \notin wire.rows \/ (Flagged(wire, "total") /\ ~keep)
      BY <1>3, <1>5, <2>2
    <3>2. QED
      BY <2>2, <3>1 DEF RowsOf
  <2>3. QED
    BY <2>1, <2>2
<1>11. QED
  BY <1>4, <1>9, <1>10 DEF wire, items, style

\* The rows a frame is given, said of what its chain means
LEMMA RowsGiven ==
    ASSUME IInv, Given
    PROVE  LET sent == frame.totals /\ outcome.request.style.total
               rows == outcome.rows
               data == Row([i \in DOMAIN Meant |-> Cell("data", Meant[i])], "data")
               total == Row([i \in DOMAIN Meant |->
                                IF IsMeasured(Meant[i]) THEN Cell("total", Meant[i]) ELSE Null], "total")
           IN  /\ sent => Len(rows) = 2 /\ Range(rows) = {data, total} /\ Last(rows) = total
               /\ ~sent => Len(rows) = 1 /\ Range(rows) = {data}
               /\ DOMAIN Meant = 1 .. Len(Asked) /\ Len(Asked) \in Nat
<1> DEFINE query == Compiled.query
           items == query.items
           request == outcome.request
           sent == frame.totals /\ outcome.request.style.total
           rows == outcome.rows
           meant == Meant
           asked == Asked
           data == Row([i \in DOMAIN meant |-> Cell("data", meant[i])], "data")
           total == Row([i \in DOMAIN meant |->
                            IF IsMeasured(meant[i]) THEN Cell("total", meant[i]) ELSE Null], "total")
<1>1. /\ TableOK /\ FrameOK /\ QueryOK(query) /\ ItemsOK(items) /\ query.columns = asked
      /\ DOMAIN meant = 1 .. Len(items)
      /\ \A k \in 1 .. Len(items) : meant[k].ref = items[k].ref /\ meant[k].calc = items[k].calc
      /\ frame.totals => query.totals
  BY TableMeans
<1>2. /\ request \in Requests /\ rows = Normalized(WireTable(query, request), frame.totals)
      /\ frame.totals \in BOOLEAN
  BY <1>1, FrameSelects DEF TableOK
<1> HIDE DEF query, request
<1>3. rows = <<Row(DataCells(items), "data")>>
             \o (IF frame.totals /\ request.style.total THEN <<Row(TotalCells(items), "total")>> ELSE <<>>)
  BY <1>1, <1>2, NormalizedRows
<1> HIDE DEF meant, items, asked
<1>4. data = Row(DataCells(items), "data") /\ total = Row(TotalCells(items), "total")
  <2>1. \A k \in 1 .. Len(items) : /\ Cell("data", meant[k]) = Cell("data", items[k])
                                   /\ Cell("total", meant[k]) = Cell("total", items[k])
                                   /\ IsMeasured(meant[k]) <=> IsMeasured(items[k])
    BY <1>1 DEF Cell, IsMeasured
  <2>2. [i \in DOMAIN meant |-> Cell("data", meant[i])] = DataCells(items)
    BY <1>1, <2>1 DEF DataCells
  <2>3. [i \in DOMAIN meant |-> IF IsMeasured(meant[i]) THEN Cell("total", meant[i]) ELSE Null]
           = TotalCells(items)
    <3>1. \A k \in 1 .. Len(items) :
             (IF IsMeasured(meant[k]) THEN Cell("total", meant[k]) ELSE Null)
                = (IF IsMeasured(items[k]) THEN Cell("total", items[k]) ELSE Null)
      BY <2>1
    <3>2. QED
      BY <1>1, <3>1 DEF TotalCells
  <2>4. QED
    BY <2>2, <2>3
<1> HIDE DEF data, total, rows
<1>5. ASSUME sent PROVE Len(rows) = 2 /\ Range(rows) = {data, total} /\ Last(rows) = total
  <2>1. rows = <<data>> \o <<total>>
    BY <1>3, <1>4, <1>5 DEF request
  <2> DEFINE both == {data, total}
             one == <<data>>
             other == <<total>>
  <2>2. /\ one \in Seq(both) /\ Len(one) = 1 /\ one[1] = data
        /\ other \in Seq(both) /\ Len(other) = 1 /\ other[1] = total
    OBVIOUS
  <2> HIDE DEF both, one, other
  <2>3. Len(rows) = 2 /\ rows[1] = data /\ rows[2] = total /\ DOMAIN rows = 1 .. 2
    <3>1. rows = one \o other
      BY <2>1 DEF one, other
    <3> DEFINE rowsOf == one \o other
    <3>2. rowsOf \in Seq(both) /\ Len(rowsOf) = 1 + 1
      BY <2>2
    <3>3. rowsOf[1] = one[1]
      BY <2>2
    <3>4. rowsOf[2] = other[1]
      <4>1. \A i \in 1 .. Len(one) + Len(other) :
               rowsOf[i] = IF i <= Len(one) THEN one[i] ELSE other[i - Len(one)]
        BY <2>2, ConcatProperties
      <4>2. 2 \in 1 .. Len(one) + Len(other) /\ ~(2 <= Len(one)) /\ 2 - Len(one) = 1
        BY <2>2
      <4>3. rowsOf[2] = other[2 - Len(one)]
        BY <4>1, <4>2
      <4>4. QED
        BY <4>2, <4>3
    <3> HIDE DEF rowsOf
    <3>5. DOMAIN rowsOf = 1 .. 2 /\ Len(rowsOf) = 2 /\ rowsOf[1] = data /\ rowsOf[2] = total
      BY <2>2, <3>2, <3>3, <3>4
    <3>6. QED
      BY <3>1, <3>5 DEF rowsOf
  <2>4. QED
    BY <2>3 DEF Range, Last
<1>6. ASSUME ~sent PROVE Len(rows) = 1 /\ Range(rows) = {data}
  <2>1. rows = <<data>> \o <<>>
    BY <1>3, <1>4, <1>6 DEF request
  <2>2. rows = <<data>>
    BY <2>1
  <2>3. Len(rows) = 1 /\ rows[1] = data /\ DOMAIN rows = 1 .. 1
    BY <2>2
  <2>4. QED
    BY <2>3 DEF Range
<1>7. DOMAIN meant = 1 .. Len(asked) /\ Len(asked) \in Nat
  <2>1. /\ DOMAIN asked = 1 .. Len(items) /\ Len(items) \in Nat
        /\ asked = [i \in 1 .. Len(items) |-> asked[i]]
    <3>1. /\ DOMAIN query.columns = 1 .. Len(query.items) /\ Len(query.items) \in Nat
          /\ query.columns = [i \in 1 .. Len(query.items) |-> query.columns[i]]
      BY <1>1, AnnouncedColumns
    <3>2. QED
      BY <1>1, <3>1 DEF items
  <2>2. Len(asked) = Len(items)
    BY <2>1
  <2>3. QED
    BY <1>1, <2>1, <2>2
<1>8. QED
  BY <1>5, <1>6, <1>7 DEF data, total, rows, meant, asked

(* A frame has the columns its chain of select() and with_column() asked for, in that     *)
(* order and under those names, and its row of data holds what each of them means: never  *)
(* a formatted string, a sidecar, or another column's values, whichever tier compiled it  *)
(* (semantic.py, sqlgen.py, normalize.py).                                                *)
THEOREM ResultAnswersAsSelected == Spec => []AnswersAsSelected
<1>1. ASSUME IInv, Given
      PROVE  /\ outcome.names = WithRowType(Asked)
             /\ \E row \in Range(outcome.rows) : row.label = "data"
             /\ \A row \in Range(outcome.rows) : row.label = "data" =>
                    row.cells = [i \in DOMAIN Meant |-> Cell("data", Meant[i])]
  <2> DEFINE cells == [i \in DOMAIN Meant |-> Cell("data", Meant[i])]
             totals == [i \in DOMAIN Meant |->
                           IF IsMeasured(Meant[i]) THEN Cell("total", Meant[i]) ELSE Null]
             data == Row(cells, "data")
             total == Row(totals, "total")
  <2>1. outcome.names = WithRowType(Asked)
    BY <1>1, TableMeans
  <2>2. Range(outcome.rows) = {data} \/ Range(outcome.rows) = {data, total}
    BY <1>1, RowsGiven
  <2> HIDE DEF cells, totals
  <2>3. data.label = "data" /\ total.label = "total" /\ data.cells = cells
    BY DEF Row
  <2> HIDE DEF data, total
  <2>4. QED
    BY <2>1, <2>2, <2>3 DEF cells
<1>2. IInv => AnswersAsSelected
  BY <1>1 DEF AnswersAsSelected
<1>3. QED
  BY <1>2, ResultInvariant, PTL

(* However the server spells its indicators, and wherever it puts the totals of a         *)
(* measure, the totals row is kept out of a frame that did not ask for it and is the last *)
(* row, labelled and with the totals of the measures, of one that did                     *)
(* (_totals_mask, _merge_summ_sidecars, _with_row_type).                                  *)
THEOREM ResultTotalsApart == Spec => []TotalsApart
<1>1. ASSUME IInv, Given
      PROVE  LET sent == frame.totals /\ outcome.request.style.total
                 total == Last(outcome.rows)
             IN  /\ Len(outcome.rows) = IF sent THEN 2 ELSE 1
                 /\ sent => /\ total.label = "total"
                            /\ total.cells = [i \in DOMAIN Meant |->
                                   IF IsMeasured(Meant[i]) THEN Cell("total", Meant[i]) ELSE Null]
  <2> DEFINE totals == [i \in DOMAIN Meant |->
                           IF IsMeasured(Meant[i]) THEN Cell("total", Meant[i]) ELSE Null]
             sent == frame.totals /\ outcome.request.style.total
             total == Row(totals, "total")
             last == Last(outcome.rows)
             rows == outcome.rows
  <2>1. /\ sent => Len(rows) = 2 /\ last = total
        /\ ~sent => Len(rows) = 1
    BY <1>1, RowsGiven
  <2> HIDE DEF totals
  <2>2. total.label = "total" /\ total.cells = totals
    BY DEF Row
  <2> HIDE DEF total, last
  <2>3. QED
    BY <2>1, <2>2 DEF totals, last
<1>2. IInv => TotalsApart
  BY <1>1 DEF TotalsApart
<1>3. QED
  BY <1>2, ResultInvariant, PTL

(* The states of a frame are well-formed: a chain within its bounds, and a table whose    *)
(* columns have different names and whose rows are as wide as they are many.              *)
THEOREM ResultTypeOK == Spec => []TypeOK
<1>1. ASSUME IInv, Given
      PROVE  LET width == Len(outcome.names) - (IF frame.totals THEN 1 ELSE 0)
             IN  /\ outcome.request \in Requests
                 /\ \A i, j \in 1 .. width : outcome.names[i] = outcome.names[j] => i = j
                 /\ \A row \in Range(outcome.rows) : Len(row.cells) = width
  <2> DEFINE query == Compiled.query
             asked == Asked
             names == outcome.names
             n == Len(query.items)
             width == Len(names) - (IF frame.totals THEN 1 ELSE 0)
             meant == Meant
             cells == [i \in DOMAIN meant |-> Cell("data", meant[i])]
             totals == [i \in DOMAIN meant |->
                           IF IsMeasured(meant[i]) THEN Cell("total", meant[i]) ELSE Null]
             data == Row(cells, "data")
             total == Row(totals, "total")
             values == {asked[i] : i \in 1 .. n}
  <2>1. /\ TableOK /\ FrameOK /\ QueryOK(query) /\ Apart(query.columns) /\ query.columns = asked
        /\ names = WithRowType(asked)
        /\ DOMAIN meant = 1 .. n
    BY <1>1, TableMeans
  <2>2. outcome.request \in Requests /\ frame.totals \in BOOLEAN
    BY <2>1, FrameSelects DEF TableOK
  <2>3. Range(outcome.rows) = {data} \/ Range(outcome.rows) = {data, total}
    BY <1>1, RowsGiven
  <2> HIDE DEF query, asked, meant, names
  <2>4. DOMAIN asked = 1 .. n /\ n \in Nat /\ asked = [i \in 1 .. n |-> asked[i]]
    BY <2>1, AnnouncedColumns
  <2> HIDE DEF n
  <2>5. asked \in Seq(values) /\ Len(asked) = n
    <3>1. \A i \in 1 .. n : asked[i] \in values
      OBVIOUS
    <3> HIDE DEF values
    <3>2. asked \in [1 .. n -> values]
      BY <2>4, <3>1
    <3>3. QED
      BY <2>4, <3>2
  <2> HIDE DEF values
  <2>6. width = n /\ \A i \in 1 .. n : names[i] = asked[i]
    <3>1. CASE frame.totals
      <4> DEFINE wide == values \cup {RowType}
                 longer == Append(asked, RowType)
      <4>1. asked \in Seq(wide) /\ RowType \in wide
        BY <2>5
      <4> HIDE DEF wide
      <4>2. Len(longer) = n + 1 /\ \A i \in 1 .. n : longer[i] = asked[i]
        BY <2>4, <2>5, <4>1
      <4>3. names = longer
        BY <2>1, <3>1 DEF WithRowType
      <4>4. QED
        BY <2>4, <3>1, <4>2, <4>3
    <3>2. CASE ~frame.totals
      <4>1. names = asked
        BY <2>1, <3>2 DEF WithRowType
      <4>2. QED
        BY <2>4, <2>5, <3>2, <4>1
    <3>3. QED
      BY <2>2, <3>1, <3>2
  <2>7. Len(cells) = n /\ Len(totals) = n
    BY <2>1, <2>4
  <2>8. data.cells = cells /\ total.cells = totals
    <3> HIDE DEF cells, totals
    <3>1. QED
      BY DEF Row
  <2> HIDE DEF data, total, cells, totals, width
  <2>9. \A row \in Range(outcome.rows) : Len(row.cells) = width
    BY <2>3, <2>6, <2>7, <2>8
  <2>10. \A i, j \in 1 .. width : names[i] = names[j] => i = j
    BY <2>1, <2>4, <2>6 DEF Apart
  <2>11. QED
    BY <2>2, <2>9, <2>10 DEF width, names
<1>2. ASSUME IInv PROVE TypeOK
  <2>1. FrameOK /\ OutcomeOK
    BY <1>2 DEF IInv
  <2>2. /\ frame.stored \in BOOLEAN /\ frame.totals \in BOOLEAN
        /\ Len(frame.selects) <= MaxSelects /\ Len(frame.derived) <= MaxDerived
    BY <2>1, FrameSelects DEF FrameOK
  <2>3. outcome.kind \in {"none", "refused", "local", "error", "collision", "table"}
    BY <2>1 DEF OutcomeOK
  <2>4. QED
    BY <1>1, <1>2, <2>2, <2>3 DEF TypeOK, Given
<1>3. IInv => TypeOK
  BY <1>2
<1>4. QED
  BY <1>3, ResultInvariant, PTL

=============================================================================

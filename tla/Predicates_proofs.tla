------------------------- MODULE Predicates_proofs -------------------------
(***************************************************************************)
(* What Predicates promises, for expressions of any size over any tests    *)
(* and rows: where the tiers agree on the rows a filter keeps, and that    *)
(* nulls stay out.                                                         *)
(***************************************************************************)
EXTENDS Predicates, SequenceTheorems, WellFoundedInduction, TLAPS

(***************************************************************************)
(* Induction over the natural numbers, stated with sets: what holds of a   *)
(* number is a set of numbers.                                             *)
(***************************************************************************)
\* A set of numbers that is not empty has a least one.
LEMMA LeastNumber ==
    ASSUME NEW T, T \subseteq Nat, T # {}
    PROVE  \E m \in T : \A n \in T : m <= n
<1> DEFINE R == OpToRel(<, Nat)
<1>1. IsWellFoundedOn(R, Nat)
  BY NatLessThanWellFounded, Zenon
<1>2. \A m, n \in Nat : n < m => <<n, m>> \in R
  BY Zenon DEF OpToRel
<1> HIDE DEF R
<1>3. PICK m \in T : \A n \in T : <<n, m>> \notin R
  BY <1>1, WFMin
<1>4. \A n \in T : ~(n < m)
  BY <1>2, <1>3
<1>5. QED
  BY <1>4

\* What holds of a number when it holds of all smaller ones holds of every number.
LEMMA CourseOfValues ==
    ASSUME NEW T, \A n \in Nat : (\A m \in 0 .. n - 1 : m \in T) => n \in T
    PROVE  \A n \in Nat : n \in T
<1>1. SUFFICES ASSUME Nat \ T # {} PROVE FALSE
  OBVIOUS
<1>2. PICK n \in Nat \ T : \A m \in Nat \ T : n <= m
  BY <1>1, LeastNumber
<1>3. \A m \in 0 .. n - 1 : m \in T
  BY <1>2
<1>4. QED
  BY <1>2, <1>3

\* From a number to the next.
LEMMA StepByStep ==
    ASSUME NEW T, 0 \in T, \A n \in Nat : n \in T => n + 1 \in T
    PROVE  \A n \in Nat : n \in T
<1>1. SUFFICES ASSUME Nat \ T # {} PROVE FALSE
  OBVIOUS
<1>2. PICK n \in Nat \ T : \A m \in Nat \ T : n <= m
  BY <1>1, LeastNumber
<1>3. n - 1 \in Nat /\ (n - 1) + 1 = n /\ n - 1 \in T
  BY <1>2
<1>4. QED
  BY <1>2, <1>3

(***************************************************************************)
(* Expressions are made one upon another.                                  *)
(***************************************************************************)
Nodes == Tests \cup Connectives

\* A method of Column makes a well-formed expression of well-formed ones.
LEMMA MakeKeepsOrder ==
    ASSUME TypeOK, NEW e \in Nodes, NEW rest \in Seq(DOMAIN made), Make(e, rest),
           Operated(e) \subseteq DOMAIN made,
           e.op \in {"and", "or"} => e.args # {} /\ \A j \in e.args : made[j].op # e.op
    PROVE  TypeOK'
<1>1. /\ made \in Seq(Nodes) /\ columns \in Seq(DOMAIN made) /\ filters \subseteq DOMAIN made
      /\ made' = Append(made, e) /\ columns' = Append(rest, Len(made) + 1) /\ filters' = filters
  BY DEF TypeOK, Make, Nodes
<1>2. /\ made' \in Seq(Nodes) /\ DOMAIN made = 1 .. Len(made)
      /\ Len(made) \in Nat /\ Len(made') = Len(made) + 1 /\ DOMAIN made' = 1 .. Len(made) + 1
      /\ \A i \in DOMAIN made : made'[i] = made[i]
      /\ made'[Len(made) + 1] = e
  BY <1>1, AppendProperties, LenProperties
<1>3. \A i \in DOMAIN made' : Operated(made'[i]) \subseteq 1 .. i - 1
  <2>1. \A i \in DOMAIN made : Operated(made'[i]) \subseteq 1 .. i - 1
    BY <1>2 DEF TypeOK
  <2>2. Operated(made'[Len(made) + 1]) \subseteq 1 .. (Len(made) + 1) - 1
    BY <1>2
  <2>3. QED
    BY <1>2, <2>1, <2>2
<1>4. ASSUME NEW i \in DOMAIN made', made'[i].op \in {"and", "or"}
      PROVE  made'[i].args # {} /\ \A j \in made'[i].args : made'[j].op # made'[i].op
  <2>1. made'[i].args = Operated(made'[i])
    BY <1>4 DEF Operated, IsLeaf
  <2>2. \A j \in made'[i].args : j \in DOMAIN made /\ made'[j] = made[j]
    BY <1>2, <1>3, <2>1
  <2>3. CASE i \in DOMAIN made
    BY <1>2, <1>4, <2>2, <2>3 DEF TypeOK
  <2>4. CASE i = Len(made) + 1
    BY <1>2, <1>4, <2>2, <2>4
  <2>5. QED
    BY <1>2, <2>3, <2>4
<1>5. columns' \in Seq(DOMAIN made')
  <2>1. rest \in Seq(DOMAIN made')
    BY <1>2, SeqMonotonic
  <2>2. Len(made) + 1 \in DOMAIN made'
    BY <1>2
  <2>3. QED
    BY <1>1, <2>1, <2>2, AppendProperties
<1>6. filters' \subseteq DOMAIN made'
  BY <1>1, <1>2
<1>7. QED
  BY <1>2, <1>3, <1>4, <1>5, <1>6 DEF TypeOK, Nodes

\* A test is no connective.
LEMMA TestsAreLeaves == \A e \in Tests : IsLeaf(e) /\ Operated(e) = {}
<1>1. \A e \in Tests : e.op \in {"cmp", "fields", "isin", "between", "string", "field"}
  BY PredicatesAssumption DEF TestShapes
<1>2. QED
  BY <1>1 DEF IsLeaf, Operated

\* What is left in hand
LEMMA WithoutIsHeld ==
    ASSUME TypeOK, NEW k \in Nat, k <= Len(columns)
    PROVE  Without(k) \in Seq(DOMAIN made)
<1>1. columns \in Seq(DOMAIN made) /\ Len(columns) \in Nat
  BY LenProperties DEF TypeOK
<1>2. Len(columns) - k \in 0 .. Len(columns)
  BY <1>1
<1>3. \A i \in 1 .. Len(columns) - k : columns[i] \in DOMAIN made
  BY <1>1, <1>2, ElementOfSeq
<1>4. QED
  BY <1>1, <1>2, <1>3, SubSeqProperties DEF Without

\* The Columns in hand are expressions that were made.
LEMMA InHand ==
    ASSUME TypeOK, columns # <<>>
    PROVE  /\ Len(columns) \in Nat \ {0} /\ Top \in DOMAIN made
           /\ Len(columns) > 1 => Below \in DOMAIN made
<1>1. columns \in Seq(DOMAIN made) /\ Len(columns) \in Nat \ {0}
  BY LenProperties, EmptySeq DEF TypeOK
<1>2. QED
  BY <1>1, ElementOfSeq DEF Top, Below

\* The operands of a connective that absorbs its own kind
LEMMA OperandsAreMade ==
    ASSUME TypeOK, NEW op \in {"and", "or"}, NEW i \in DOMAIN made
    PROVE  /\ Operands(op, i) \subseteq 1 .. i /\ Operands(op, i) \subseteq DOMAIN made
           /\ Operands(op, i) # {} /\ \A j \in Operands(op, i) : made[j].op # op
<1>1. DOMAIN made = 1 .. Len(made) /\ Len(made) \in Nat
  BY LenProperties DEF TypeOK
<1>2. CASE made[i].op = op
  <2>1. made[i].args = Operated(made[i])
    BY <1>2 DEF Operated, IsLeaf
  <2>2. QED
    BY <1>1, <1>2, <2>1 DEF TypeOK, Operands
<1>3. CASE made[i].op # op
  BY <1>1, <1>3 DEF Operands
<1>4. QED
  BY <1>2, <1>3

\* & and | connect two of them without nesting a connective in itself.
LEMMA ConnectKeepsOrder ==
    ASSUME TypeOK, NEW op \in {"and", "or"}, Connect(op)
    PROVE  TypeOK'
<1>1. columns # <<>> /\ Len(columns) > 1 /\ Make(Connected(op, Below, Top), Without(2))
  BY DEF Connect
<1>2. Top \in DOMAIN made /\ Below \in DOMAIN made /\ Without(2) \in Seq(DOMAIN made)
  BY <1>1, InHand, WithoutIsHeld
<1>3. DOMAIN made \subseteq Nat
  BY LenProperties DEF TypeOK
<1>4. /\ Connected(op, Below, Top).op = op
      /\ Connected(op, Below, Top).args = Operands(op, Below) \cup Operands(op, Top)
  BY DEF Connected
<1>5. /\ Operands(op, Below) \cup Operands(op, Top) \subseteq DOMAIN made
      /\ Operands(op, Below) \cup Operands(op, Top) # {}
      /\ \A j \in Operands(op, Below) \cup Operands(op, Top) : made[j].op # op
  BY <1>2, OperandsAreMade
<1>6. Connected(op, Below, Top) \in Nodes
  BY <1>3, <1>5 DEF Connected, Nodes, Connectives
<1>7. Operated(Connected(op, Below, Top)) \subseteq DOMAIN made
  BY <1>4, <1>5 DEF Operated, IsLeaf
<1>8. QED
  BY <1>1, <1>2, <1>4, <1>5, <1>6, <1>7, MakeKeepsOrder

\* Every step keeps the expressions in order.
LEMMA TypeInvariant == TypeOK /\ [Next]_vars => TypeOK'
<1>1. SUFFICES ASSUME TypeOK, [Next]_vars PROVE TypeOK'
  OBVIOUS
<1>2. CASE Write
  <2>1. PICK t \in Tests : Make(t, columns)
    BY <1>2 DEF Write
  <2>2. t \in Nodes /\ Operated(t) = {} /\ t.op \notin {"and", "or"}
    BY TestsAreLeaves DEF Nodes, IsLeaf
  <2>3. columns \in Seq(DOMAIN made)
    BY <1>1 DEF TypeOK
  <2>4. QED
    BY <1>1, <2>1, <2>2, <2>3, MakeKeepsOrder
<1>3. CASE Invert \/ IsNull
  <2>1. PICK e \in {NotOf(Top), NullOf(Top)} : columns # <<>> /\ Make(e, Without(1))
    BY <1>3 DEF Invert, IsNull
  <2>2. Top \in DOMAIN made /\ Without(1) \in Seq(DOMAIN made) /\ DOMAIN made \subseteq Nat
    BY <1>1, <2>1, InHand, WithoutIsHeld, LenProperties DEF TypeOK
  <2>3. PICK op \in {"not", "null"} : e = [op |-> op, arg |-> Top]
    BY DEF NotOf, NullOf
  <2>4. e \in Nodes
    BY <2>2, <2>3 DEF Nodes, Connectives
  <2>5. Operated(e) = {Top} /\ e.op \notin {"and", "or"}
    BY <2>3 DEF Operated, IsLeaf
  <2>6. QED
    BY <1>1, <2>1, <2>2, <2>4, <2>5, MakeKeepsOrder
<1>4. CASE Connect("and") \/ Connect("or")
  BY <1>1, <1>4, ConnectKeepsOrder
<1>5. CASE FilterBy
  <2>1. Top \in DOMAIN made
    BY <1>1, <1>5, InHand, EmptySeq DEF FilterBy, TypeOK
  <2>2. <<>> \in Seq(DOMAIN made)
    BY EmptySeq
  <2>3. QED
    BY <1>1, <1>5, <2>1, <2>2 DEF FilterBy, TypeOK
<1>6. CASE UNCHANGED vars
  BY <1>1, <1>6 DEF vars, TypeOK
<1>7. QED
  BY <1>1, <1>2, <1>3, <1>4, <1>5, <1>6 DEF Next

\* However an expression is put together, its operands are earlier ones and connectives
\* are flat (BooleanOp.__post_init__).
THEOREM PredicatesTypeOK == Spec => []TypeOK
<1>1. Init => TypeOK
  <2>1. \A S : <<>> \in Seq(S) /\ DOMAIN <<>> = {}
    BY EmptySeq
  <2>2. QED
    BY <2>1 DEF Init, TypeOK
<1>2. QED
  BY <1>1, TypeInvariant, PTL DEF Spec

(***************************************************************************)
(* What a function over the expressions is, given what it is at a place in *)
(* terms of the places below.  A recursive definition denotes such a       *)
(* function because one exists, which is shown place by place.             *)
(***************************************************************************)
Ordered == TypeOK

\* The places are the numbers up to how many were made.
LEMMA Places == Ordered => Len(made) \in Nat /\ DOMAIN made = 1 .. Len(made)
  BY LenProperties DEF Ordered, TypeOK

\* The operands of what stands at a place stand before it
LEMMA OperandsBefore ==
    ASSUME Ordered, NEW i \in DOMAIN made
    PROVE  /\ made[i].op \in {"not", "null"} => made[i].arg \in 1 .. i - 1
           /\ made[i].op \in {"and", "or"} => made[i].args \subseteq 1 .. i - 1 /\ made[i].args # {}
           /\ 1 .. i - 1 \subseteq DOMAIN made
<1>1. Operated(made[i]) \subseteq 1 .. i - 1
  BY DEF Ordered, TypeOK
<1>2. made[i].op \in {"not", "null"} => made[i].arg \in 1 .. i - 1
  BY <1>1 DEF Operated, IsLeaf
<1>3. made[i].op \in {"and", "or"} => made[i].args \subseteq 1 .. i - 1 /\ made[i].args # {}
  BY <1>1 DEF Operated, IsLeaf, Ordered, TypeOK
<1>4. QED
  BY <1>2, <1>3, Places

\* A truth value depends on those of the operands, which are earlier.
LEMMA TruthBelow ==
    ASSUME Ordered, NEW i \in DOMAIN made, NEW engine, NEW r, NEW f, NEW g,
           \A j \in 1 .. i - 1 : f[j] = g[j]
    PROVE  Evaluated(f, engine, made[i], r) = Evaluated(g, engine, made[i], r)
<1>1. CASE made[i].op \in {"not", "null"}
  BY <1>1, OperandsBefore DEF Evaluated, IsLeaf
<1>2. CASE made[i].op \in {"and", "or"}
  <2>1. {f[j] : j \in made[i].args} = {g[j] : j \in made[i].args}
    BY <1>2, OperandsBefore
  <2>2. QED
    BY <1>2, <2>1 DEF Evaluated, IsLeaf
<1>3. CASE made[i].op \notin {"not", "null", "and", "or"}
  BY <1>3 DEF Evaluated, IsLeaf
<1>4. QED
  BY <1>1, <1>2, <1>3

AreTruths(f, engine, r) == f = [i \in DOMAIN made |-> Evaluated(f, engine, made[i], r)]

\* So the recursive definition of Truth has a solution,
LEMMA TruthExists ==
    ASSUME Ordered, NEW engine, NEW r
    PROVE  \E f : AreTruths(f, engine, r)
<1> DEFINE Truths(n, f) == f = [i \in 1 .. n |-> Evaluated(f, engine, made[i], r)]
<1> DEFINE T == {n \in Nat : n <= Len(made) => \E f : Truths(n, f)}
<1>1. 0 \in T
  <2> DEFINE none == [i \in 1 .. 0 |-> 0]
  <2>1. Truths(0, none)
    OBVIOUS
  <2>2. QED
    BY <2>1
<1>2. ASSUME NEW n \in Nat, n \in T PROVE n + 1 \in T
  <2>1. SUFFICES ASSUME n + 1 <= Len(made) PROVE \E f : Truths(n + 1, f)
    OBVIOUS
  <2>2. PICK f : Truths(n, f)
    BY <1>2, <2>1, Places
  <2> DEFINE more == [i \in 1 .. n + 1 |-> Evaluated(f, engine, made[i], r)]
  <2>3. \A i \in 1 .. n : more[i] = f[i]
    BY <2>2
  <2> HIDE DEF more
  <2>4. \A i \in 1 .. n + 1 : i \in DOMAIN made /\ \A j \in 1 .. i - 1 : f[j] = more[j]
    BY <2>1, <2>3, Places
  <2>5. \A i \in 1 .. n + 1 : Evaluated(f, engine, made[i], r) = Evaluated(more, engine, made[i], r)
    BY <2>4, TruthBelow
  <2>6. more = [i \in 1 .. n + 1 |-> Evaluated(more, engine, made[i], r)]
    BY <2>5 DEF more
  <2>7. QED
    BY <2>6
<1>3. Len(made) \in T
  <2> HIDE DEF T
  <2>1. QED
    BY <1>1, <1>2, StepByStep, Places
<1>4. QED
  BY <1>3, Places DEF AreTruths

\* and Truth satisfies it.
LEMMA TruthAtPlaces ==
    ASSUME Ordered, NEW engine, NEW r, NEW i \in DOMAIN made
    PROVE  Truth(engine, r)[i] = Evaluated(Truth(engine, r), engine, made[i], r)
<1>1. AreTruths(CHOOSE f : AreTruths(f, engine, r), engine, r)
  BY TruthExists
<1>2. AreTruths(Truth(engine, r), engine, r)
  BY <1>1 DEF Truth, AreTruths
<1>3. QED
  BY <1>2 DEF AreTruths

(***************************************************************************)
(* Three-valued logic.                                                     *)
(***************************************************************************)
Three == {False3, Unknown, True3}

\* A non-empty set of truth values has a least and a greatest one.
LEMMA LeastAndMost ==
    ASSUME NEW S \in SUBSET Three, S # {}
    PROVE  /\ Least(S) \in S /\ \A t \in S : Least(S) <= t
           /\ Most(S) \in S /\ \A t \in S : t <= Most(S)
<1>1. S \subseteq {0, 1, 2}
  BY DEF Three, False3, Unknown, True3
<1>2. \E t \in S : \A u \in S : t <= u
  <2>1. CASE 0 \in S
    BY <1>1, <2>1
  <2>2. CASE 0 \notin S /\ 1 \in S
    BY <1>1, <2>2
  <2>3. CASE 0 \notin S /\ 1 \notin S
    <3>1. \A t \in S : t = 2
      BY <1>1, <2>3
    <3>2. QED
      BY <3>1
  <2>4. QED
    BY <2>1, <2>2, <2>3
<1>3. \E t \in S : \A u \in S : t >= u
  <2>1. CASE 2 \in S
    BY <1>1, <2>1
  <2>2. CASE 2 \notin S /\ 1 \in S
    BY <1>1, <2>2
  <2>3. CASE 2 \notin S /\ 1 \notin S
    <3>1. \A t \in S : t = 0
      BY <1>1, <2>3
    <3>2. QED
      BY <3>1
  <2>4. QED
    BY <2>1, <2>2, <2>3
<1>4. Least(S) \in S /\ \A t \in S : Least(S) <= t
  BY <1>2 DEF Least
<1>5. Most(S) \in S /\ \A t \in S : Most(S) >= t
  BY <1>3 DEF Most
<1>6. QED
  BY <1>1, <1>4, <1>5

\* What decides a conjunction and a disjunction
LEMMA CombinedValues ==
    ASSUME NEW S \in SUBSET Three, S # {}
    PROVE  /\ \A op \in {"and", "or"} : Combined(op, S) \in S
           /\ Combined("and", S) = True3 <=> \A t \in S : t = True3
           /\ Combined("or", S) = True3 <=> \E t \in S : t = True3
<1>1. S \subseteq {0, 1, 2} /\ True3 = 2
  BY DEF Three, False3, Unknown, True3
<1>2. Combined("and", S) = Least(S) /\ Combined("or", S) = Most(S)
  BY DEF Combined
<1>3. /\ Least(S) \in S /\ \A t \in S : Least(S) <= t
      /\ Most(S) \in S /\ \A t \in S : t <= Most(S)
  BY LeastAndMost
<1>4. Least(S) = 2 <=> (\A t \in S : t = 2)
  <2>1. Least(S) \in {0, 1, 2} /\ \A t \in S : t \in {0, 1, 2} /\ Least(S) <= t
    BY <1>1, <1>3
  <2>2. QED
    BY <1>3, <2>1
<1>5. Most(S) = 2 <=> (\E t \in S : t = 2)
  <2>1. Most(S) \in {0, 1, 2} /\ \A t \in S : t \in {0, 1, 2} /\ t <= Most(S)
    BY <1>1, <1>3
  <2>2. QED
    BY <1>3, <2>1
<1>6. QED
  BY <1>1, <1>2, <1>3, <1>4, <1>5

\* A Boolean is true or false, never unknown.
LEMMA LiftIsThree == \A b \in BOOLEAN : Lift(b) \in Three /\ (Lift(b) = True3 <=> b) /\ Lift(b) # Unknown
  BY DEF Lift, Three, False3, Unknown, True3

\* NOT is its own inverse and leaves the unknown unknown.
LEMMA NegIsThree == \A t \in Three : Neg(t) \in Three /\ Neg(Neg(t)) = t /\ (Neg(t) = Unknown <=> t = Unknown)
  BY DEF Neg, Three, False3, Unknown, True3

\* A comparison with null is unknown.
LEMMA CompareIsThree ==
    \A cmp, a, b : Compare(cmp, a, b) \in Three /\ (a = Null \/ b = Null => Compare(cmp, a, b) = Unknown)
  BY DEF Compare, Lift, Three, False3, Unknown, True3

\* An equality is true of two equal values that are not null,
LEMMA EqualityIsTrue == \A a, b : Compare("=", a, b) = True3 <=> (a = b /\ a # Null)
  BY DEF Compare, Lift, False3, Unknown, True3

\* and unknown only of nulls.
LEMMA EqualityIsUnknown == \A a, b : Compare("=", a, b) = Unknown <=> (a = Null \/ b = Null)
  BY DEF Compare, Lift, False3, Unknown, True3

\* A range test has a truth value, unknown for null.
LEMMA RangeIsThree ==
    \A v, low, high, upper :
        /\ Range3(v, low, high, upper) \in Three
        /\ v = Null => Range3(v, low, high, upper) = Unknown
<1>1. SUFFICES ASSUME NEW v, NEW low, NEW high, NEW upper
               PROVE  /\ Range3(v, low, high, upper) \in Three
                      /\ v = Null => Range3(v, low, high, upper) = Unknown
  OBVIOUS
<1> DEFINE S == {Compare(">=", v, low), Compare(upper, v, high)}
<1>2. S \in SUBSET Three /\ S # {} /\ (v = Null => \A t \in S : t = Unknown)
  BY CompareIsThree
<1>3. Range3(v, low, high, upper) = Least(S)
  BY DEF Range3
<1> HIDE DEF S
<1>4. QED
  BY <1>2, <1>3, LeastAndMost

(***************************************************************************)
(* Tests.                                                                  *)
(***************************************************************************)
LEMMA TestShape ==
    ASSUME NEW e \in Tests
    PROVE  /\ e.op \in {"cmp", "fields", "isin", "between", "string", "field"}
           /\ e.field \in Fields
           /\ e.op = "cmp" => e.cmp \in Comparisons /\ e.lit \in Literals
           /\ e.op = "fields" => e.cmp \in Comparisons /\ e.other \in Fields
           /\ e.op = "isin" => e.lits \in Seq(Literals) /\ e.lits # <<>>
           /\ e.op = "between" => e.low \in Literals /\ e.high \in Literals
  BY PredicatesAssumption DEF TestShapes

\* A membership is decided by its equalities
LEMMA SqlMembership ==
    ASSUME NEW v, NEW lits \in Seq(Literals), lits # <<>>
    PROVE  /\ InSql(v, lits) \in Three
           /\ v = Null => InSql(v, lits) = Unknown
           /\ InSql(v, lits) = True3 <=> v # Null /\ \E i \in DOMAIN lits : lits[i].v = v
           /\ (v # Null /\ \A i \in DOMAIN lits : lits[i].v # Null) => InSql(v, lits) # Unknown
<1> DEFINE S == {Compare("=", v, lits[i].v) : i \in DOMAIN lits}
<1>1. DOMAIN lits # {}
  BY EmptySeq, LenProperties
<1>2. S \in SUBSET Three /\ S # {}
  BY <1>1, CompareIsThree
<1>3. InSql(v, lits) = Most(S)
  BY DEF InSql
<1>4. True3 \in S <=> v # Null /\ \E i \in DOMAIN lits : lits[i].v = v
  <2>1. \A i \in DOMAIN lits :
            Compare("=", v, lits[i].v) = True3 <=> (v = lits[i].v /\ v # Null)
    BY EqualityIsTrue
  <2>2. QED
    BY <2>1
<1>5. v = Null => S \subseteq {Unknown}
  BY CompareIsThree
<1>6. (v # Null /\ \A i \in DOMAIN lits : lits[i].v # Null) => Unknown \notin S
  <2>1. \A i \in DOMAIN lits : Compare("=", v, lits[i].v) = Unknown <=> (v = Null \/ lits[i].v = Null)
    BY EqualityIsUnknown
  <2>2. QED
    BY <2>1
<1> HIDE DEF S
<1>7. Most(S) \in S /\ \A t \in S : t <= Most(S)
  BY <1>2, LeastAndMost
<1>8. Most(S) = True3 <=> True3 \in S
  <2>1. S \subseteq {0, 1, 2} /\ True3 = 2
    BY <1>2 DEF Three, True3, False3, Unknown
  <2>2. Most(S) \in {0, 1, 2} /\ Most(S) \in S /\ \A t \in S : t \in {0, 1, 2} /\ t <= Most(S)
    BY <1>7, <2>1
  <2>3. Most(S) = 2 <=> 2 \in S
    BY <2>2
  <2>4. QED
    BY <2>1, <2>3
<1>9. QED
  BY <1>2, <1>3, <1>4, <1>5, <1>6, <1>7, <1>8

\* Every test of a null is unknown, on either engine
LEMMA LeafTruths ==
    ASSUME NEW e \in Tests, NEW r, NEW engine \in {"sql", "arrow"}
    PROVE  /\ LeafTruth(engine, e, r) \in Three
           /\ r[e.field] = Null => LeafTruth(engine, e, r) = Unknown
<1>1. CASE e.op = "isin"
  <2>1. LeafTruth(engine, e, r) \in {InArrow(r[e.field], e.lits), InSql(r[e.field], e.lits)}
    BY <1>1 DEF LeafTruth
  <2>2. InArrow(r[e.field], e.lits) \in Three
    BY DEF InArrow, Lift, Three, False3, Unknown, True3
  <2>3. r[e.field] = Null => InArrow(r[e.field], e.lits) = Unknown
    BY DEF InArrow
  <2>4. QED
    BY <1>1, <2>1, <2>2, <2>3, TestShape, SqlMembership
<1>2. CASE e.op = "string"
  BY <1>2 DEF LeafTruth, Lift, Three, False3, Unknown, True3
<1>3. CASE e.op = "between"
  BY <1>3, RangeIsThree DEF LeafTruth
<1>4. CASE e.op \in {"cmp", "fields", "field"}
  BY <1>4, CompareIsThree DEF LeafTruth
<1>5. QED
  BY <1>1, <1>2, <1>3, <1>4, TestShape

\* An expression is a test or a connective.
LEMMA Shapes ==
    ASSUME Ordered, NEW i \in DOMAIN made
    PROVE  /\ IsLeaf(made[i]) => made[i] \in Tests
           /\ ~IsLeaf(made[i]) => made[i].op \in {"not", "null", "and", "or"}
<1>1. made[i] \in Tests \cup Connectives
  BY ElementOfSeq, LenProperties DEF Ordered, TypeOK
<1>2. \A e \in Connectives : e.op \in {"not", "null", "and", "or"}
  BY DEF Connectives
<1>3. QED
  BY <1>1, <1>2 DEF IsLeaf

\* What is put together from truth values is one.
LEMMA EvaluatedIsThree ==
    ASSUME Ordered, NEW i \in DOMAIN made, NEW engine \in {"sql", "arrow"}, NEW r, NEW f,
           \A j \in 1 .. i - 1 : f[j] \in Three
    PROVE  Evaluated(f, engine, made[i], r) \in Three
<1>1. CASE made[i].op = "not"
  BY <1>1, OperandsBefore, NegIsThree DEF Evaluated, IsLeaf
<1>2. CASE made[i].op = "null"
  <2>1. Evaluated(f, engine, made[i], r) = Lift(f[made[i].arg] = Unknown)
    BY <1>2 DEF Evaluated, IsLeaf
  <2>2. QED
    BY <2>1, LiftIsThree
<1>3. CASE made[i].op \in {"and", "or"}
  <2> DEFINE S == {f[j] : j \in made[i].args}
  <2>1. S \in SUBSET Three /\ S # {}
    BY <1>3, OperandsBefore
  <2>2. Evaluated(f, engine, made[i], r) = Combined(made[i].op, S)
    BY <1>3 DEF Evaluated, IsLeaf
  <2> HIDE DEF S
  <2>3. QED
    BY <1>3, <2>1, <2>2, CombinedValues
<1>4. CASE IsLeaf(made[i])
  <2>1. Evaluated(f, engine, made[i], r) = LeafTruth(engine, made[i], r)
    BY <1>4 DEF Evaluated, IsLeaf
  <2>2. QED
    BY <1>4, <2>1, Shapes, LeafTruths
<1>5. QED
  BY <1>1, <1>2, <1>3, <1>4, Shapes

\* What a predicate is worth is one of three values, at every place.
LEMMA TruthIsThree ==
    ASSUME Ordered, NEW engine \in {"sql", "arrow"}, NEW r
    PROVE  \A i \in DOMAIN made : Truth(engine, r)[i] \in Three
<1> DEFINE T == {n \in Nat : n \in DOMAIN made => Truth(engine, r)[n] \in Three}
<1>1. ASSUME NEW i \in Nat, \A j \in 0 .. i - 1 : j \in T PROVE i \in T
  <2>1. SUFFICES ASSUME i \in DOMAIN made PROVE Truth(engine, r)[i] \in Three
    OBVIOUS
  <2>2. \A j \in 1 .. i - 1 : Truth(engine, r)[j] \in Three
    BY <1>1, <2>1, OperandsBefore
  <2>3. Truth(engine, r)[i] = Evaluated(Truth(engine, r), engine, made[i], r)
    BY <2>1, TruthAtPlaces
  <2>4. QED
    BY <2>1, <2>2, <2>3, EvaluatedIsThree
<1>2. \A i \in Nat : i \in T
  <2> HIDE DEF T
  <2>1. QED
    BY <1>1, CourseOfValues
<1>3. QED
  BY <1>2, Places

\* The values a function takes at some places
At(f, places) == {f[j] : j \in places}

\* What the truth of a connective is made of
LEMMA TruthOf ==
    ASSUME Ordered, NEW engine, NEW r, NEW i \in DOMAIN made
    PROVE  LET T == Truth(engine, r)
           IN  /\ made[i].op = "not" => T[i] = Neg(T[made[i].arg])
               /\ made[i].op = "null" => T[i] = Lift(T[made[i].arg] = Unknown)
               /\ made[i].op \in {"and", "or"} => T[i] = Combined(made[i].op, At(T, made[i].args))
               /\ IsLeaf(made[i]) => T[i] = LeafTruth(engine, made[i], r)
<1> DEFINE T == Truth(engine, r)
<1>1. T[i] = Evaluated(T, engine, made[i], r)
  BY TruthAtPlaces
<1> HIDE DEF T
<1>2. /\ made[i].op = "not" => T[i] = Neg(T[made[i].arg])
      /\ made[i].op = "null" => T[i] = Lift(T[made[i].arg] = Unknown)
  BY <1>1 DEF Evaluated, IsLeaf
<1>3. made[i].op \in {"and", "or"} => T[i] = Combined(made[i].op, At(T, made[i].args))
  BY <1>1 DEF Evaluated, IsLeaf, At
<1>4. IsLeaf(made[i]) => T[i] = LeafTruth(engine, made[i], r)
  BY <1>1 DEF Evaluated, IsLeaf
<1>5. QED
  BY <1>2, <1>3, <1>4 DEF T

\* The operands' values are worth connecting
LEMMA OperandValues ==
    ASSUME Ordered, NEW engine \in {"sql", "arrow"}, NEW r, NEW i \in DOMAIN made,
           made[i].op \in {"and", "or"}
    PROVE  At(Truth(engine, r), made[i].args) \in SUBSET Three /\ At(Truth(engine, r), made[i].args) # {}
<1>1. \A j \in made[i].args : Truth(engine, r)[j] \in Three
  BY TruthIsThree, OperandsBefore
<1>2. made[i].args # {}
  BY OperandsBefore
<1>3. QED
  BY <1>1, <1>2 DEF At

(***************************************************************************)
(* Tier 3: Arrow's membership and SQL's.                                   *)
(***************************************************************************)
LEMMA ArrowMembership ==
    ASSUME NEW v, NEW lits
    PROVE  /\ InArrow(v, lits) \in Three
           /\ v = Null => InArrow(v, lits) = Unknown
           /\ v # Null => InArrow(v, lits) # Unknown
           /\ InArrow(v, lits) = True3 <=> (v # Null /\ \E i \in DOMAIN lits : lits[i].v = v)
  BY DEF InArrow, Lift, Three, False3, Unknown, True3

\* The two engines hold the same tests true, and without a None in a list they give
\* every test the same value.
LEMMA EnginesOnLeaves ==
    ASSUME NEW e \in Tests, NEW r
    PROVE  /\ LeafTruth("arrow", e, r) = True3 <=> LeafTruth("sql", e, r) = True3
           /\ (e.op = "isin" => \A i \in DOMAIN e.lits : e.lits[i].type # "none")
                => LeafTruth("arrow", e, r) = LeafTruth("sql", e, r)
<1>1. CASE e.op # "isin"
  BY <1>1 DEF LeafTruth
<1>2. CASE e.op = "isin"
  <2> DEFINE A == InArrow(r[e.field], e.lits)
             S == InSql(r[e.field], e.lits)
  <2>1. LeafTruth("arrow", e, r) = A /\ LeafTruth("sql", e, r) = S
    BY <1>2 DEF LeafTruth
  <2>2. e.lits \in Seq(Literals) /\ e.lits # <<>>
    BY <1>2, TestShape
  <2>3. /\ A \in Three
        /\ r[e.field] = Null => A = Unknown
        /\ r[e.field] # Null => A # Unknown
        /\ A = True3 <=> (r[e.field] # Null /\ \E i \in DOMAIN e.lits : e.lits[i].v = r[e.field])
    BY ArrowMembership
  <2>4. /\ S \in Three
        /\ r[e.field] = Null => S = Unknown
        /\ (r[e.field] # Null /\ \A i \in DOMAIN e.lits : e.lits[i].v # Null) => S # Unknown
        /\ S = True3 <=> (r[e.field] # Null /\ \E i \in DOMAIN e.lits : e.lits[i].v = r[e.field])
    BY <2>2, SqlMembership
  <2>5. (\A i \in DOMAIN e.lits : e.lits[i].type # "none") => \A i \in DOMAIN e.lits : e.lits[i].v # Null
    BY <2>2, ElementOfSeq, LenProperties DEF Literals
  <2> HIDE DEF A, S
  <2>6. A = True3 <=> S = True3
    BY <2>3, <2>4
  <2>7. (\A i \in DOMAIN e.lits : e.lits[i].type # "none") => A = S
    BY <2>3, <2>4, <2>5, <2>6 DEF Three
  <2>8. QED
    BY <1>2, <2>1, <2>6, <2>7
<1>3. QED
  BY <1>1, <1>2

\* No list holds a None: the engines agree at every place.
LEMMA EnginesAgree ==
    ASSUME Ordered, NEW r,
           \A e \in Leaves : e.op = "isin" => \A i \in DOMAIN e.lits : e.lits[i].type # "none"
    PROVE  \A i \in DOMAIN made : Truth("arrow", r)[i] = Truth("sql", r)[i]
<1> DEFINE A == Truth("arrow", r)
           S == Truth("sql", r)
           T == {n \in Nat : n \in DOMAIN made => A[n] = S[n]}
<1>1. ASSUME NEW i \in Nat, \A j \in 0 .. i - 1 : j \in T PROVE i \in T
  <2>1. SUFFICES ASSUME i \in DOMAIN made PROVE A[i] = S[i]
    OBVIOUS
  <2>2. \A j \in 1 .. i - 1 : A[j] = S[j]
    BY <1>1, <2>1, OperandsBefore
  <2>3. CASE IsLeaf(made[i])
    <3>1. made[i] \in Tests /\ made[i] \in Leaves
      BY <2>1, <2>3, Shapes DEF Leaves
    <3>2. A[i] = LeafTruth("arrow", made[i], r) /\ S[i] = LeafTruth("sql", made[i], r)
      BY <2>1, <2>3, TruthOf
    <3>3. QED
      BY <3>1, <3>2, EnginesOnLeaves
  <2>4. CASE ~IsLeaf(made[i])
    <3>1. made[i].op \in {"and", "or"} => At(A, made[i].args) = At(S, made[i].args)
      BY <2>1, <2>2, OperandsBefore DEF At
    <3>2. made[i].op \in {"not", "null"} => A[made[i].arg] = S[made[i].arg]
      BY <2>1, <2>2, OperandsBefore
    <3>3. made[i].op \in {"not", "null", "and", "or"}
      BY <2>1, <2>4, Shapes
    <3>4. QED
      BY <2>1, <3>1, <3>2, <3>3, TruthOf
  <2>5. QED
    BY <2>3, <2>4
<1>2. \A i \in Nat : i \in T
  <2> HIDE DEF T
  <2>1. QED
    BY <1>1, CourseOfValues
<1>3. QED
  BY <1>2, Places

\* Nothing is negated: the engines hold the same expressions true.
LEMMA EnginesHoldTrue ==
    ASSUME Ordered, NEW r, \A i \in DOMAIN made : made[i].op \notin {"not", "null"}
    PROVE  \A i \in DOMAIN made : Truth("arrow", r)[i] = True3 <=> Truth("sql", r)[i] = True3
<1> DEFINE A == Truth("arrow", r)
           S == Truth("sql", r)
           T == {n \in Nat : n \in DOMAIN made => (A[n] = True3 <=> S[n] = True3)}
<1>1. ASSUME NEW i \in Nat, \A j \in 0 .. i - 1 : j \in T PROVE i \in T
  <2>1. SUFFICES ASSUME i \in DOMAIN made PROVE A[i] = True3 <=> S[i] = True3
    OBVIOUS
  <2>2. \A j \in 1 .. i - 1 : A[j] = True3 <=> S[j] = True3
    BY <1>1, <2>1, OperandsBefore
  <2>3. CASE IsLeaf(made[i])
    <3>1. made[i] \in Tests
      BY <2>1, <2>3, Shapes
    <3>2. A[i] = LeafTruth("arrow", made[i], r) /\ S[i] = LeafTruth("sql", made[i], r)
      BY <2>1, <2>3, TruthOf
    <3>3. QED
      BY <3>1, <3>2, EnginesOnLeaves
  <2>4. CASE ~IsLeaf(made[i])
    <3>1. made[i].op \in {"and", "or"}
      BY <2>1, <2>4, Shapes
    <3>2. /\ A[i] = Combined(made[i].op, At(A, made[i].args))
          /\ S[i] = Combined(made[i].op, At(S, made[i].args))
      BY <2>1, <3>1, TruthOf
    <3>3. /\ (\A t \in At(A, made[i].args) : t = True3) <=> (\A t \in At(S, made[i].args) : t = True3)
          /\ (\E t \in At(A, made[i].args) : t = True3) <=> (\E t \in At(S, made[i].args) : t = True3)
      BY <2>1, <2>2, <3>1, OperandsBefore DEF At
    <3>4. /\ At(A, made[i].args) \in SUBSET Three /\ At(A, made[i].args) # {}
          /\ At(S, made[i].args) \in SUBSET Three /\ At(S, made[i].args) # {}
      BY <2>1, <3>1, OperandValues
    <3> HIDE DEF A, S
    <3>5. CASE made[i].op = "and"
      BY <3>2, <3>3, <3>4, <3>5, CombinedValues
    <3>6. CASE made[i].op = "or"
      BY <3>2, <3>3, <3>4, <3>6, CombinedValues
    <3>7. QED
      BY <3>1, <3>5, <3>6
  <2>5. QED
    BY <2>3, <2>4
<1>2. \A i \in Nat : i \in T
  <2> HIDE DEF T
  <2>1. QED
    BY <1>1, CourseOfValues
<1>3. QED
  BY <1>2, Places

\* The local engine keeps the rows that are meant, unless a None was listed and negated.
LEMMA LocalTierAgrees ==
    ASSUME Ordered, ~NullListed
    PROVE  Kept(3) = Meant
<1>1. ASSUME NEW r
      PROVE  \A i \in DOMAIN made : Truth("arrow", r)[i] = True3 <=> Truth("sql", r)[i] = True3
  <2>1. CASE \A e \in Leaves : e.op = "isin" => \A i \in DOMAIN e.lits : e.lits[i].type # "none"
    BY <2>1, EnginesAgree
  <2>2. CASE \A i \in DOMAIN made : made[i].op \notin {"not", "null"}
    BY <2>2, EnginesHoldTrue
  <2>3. QED
    BY <2>1, <2>2 DEF NullListed
<1>2. filters \subseteq DOMAIN made
  BY DEF Ordered, TypeOK
<1>3. Passing("arrow") = Passing("sql")
  BY <1>1, <1>2 DEF Passing
<1>4. QED
  BY <1>3 DEF Kept, Meant

(***************************************************************************)
(* Tier 2: the text as it is read back.                                    *)
(***************************************************************************)
Readings(R, places) == {R[j].is : j \in places}

\* What is read back, connective by connective.
LEMMA RereadParts ==
    ASSUME Ordered, NEW i \in DOMAIN made, NEW R, NEW r
    PROVE  LET e == made[i]
               read == Reread(R, e, r)
           IN  /\ e.op = "not" => read.is = Neg(R[e.arg].is) /\ read.null = Neg(R[e.arg].null)
               /\ e.op = "null" => read.is = R[e.arg].null
               /\ e.op \in {"and", "or"} => read.is = Combined(e.op, Readings(R, e.args))
               /\ IsLeaf(e) => read.is = LeafTruth("sql", e, r)
               /\ e.op # "not" => read.null = Lift(read.is = Unknown)
               /\ read = [is |-> read.is, null |-> read.null]
<1> DEFINE e == made[i]
           read == Reread(R, e, r)
<1>1. CASE e.op = "not"
  BY <1>1 DEF Reread, IsLeaf
<1>2. CASE e.op = "null"
  BY <1>2 DEF Reread, IsLeaf
<1>3. CASE e.op \in {"and", "or"}
  BY <1>3 DEF Reread, IsLeaf, Readings
<1>4. CASE IsLeaf(e)
  BY <1>4 DEF Reread, IsLeaf
<1>5. QED
  BY <1>1, <1>2, <1>3, <1>4, Shapes

\* It depends on what was read at the operands, which are earlier.
LEMMA RereadBelow ==
    ASSUME Ordered, NEW i \in DOMAIN made, NEW r, NEW f, NEW g,
           \A j \in 1 .. i - 1 : f[j] = g[j]
    PROVE  Reread(f, made[i], r) = Reread(g, made[i], r)
<1> DEFINE a == Reread(f, made[i], r)
           b == Reread(g, made[i], r)
<1>1. made[i].op \in {"not", "null"} => f[made[i].arg] = g[made[i].arg]
  BY OperandsBefore
<1>2. made[i].op \in {"and", "or"} => Readings(f, made[i].args) = Readings(g, made[i].args)
  BY OperandsBefore DEF Readings
<1>3. a.is = b.is
  BY <1>1, <1>2, RereadParts, Shapes
<1>4. a.null = b.null
  BY <1>1, <1>3, RereadParts
<1>5. a = [is |-> a.is, null |-> a.null] /\ b = [is |-> b.is, null |-> b.null]
  BY RereadParts
<1> HIDE DEF a, b
<1>6. QED
  BY <1>3, <1>4, <1>5 DEF a, b

AreReadings(R, r) == R = [i \in DOMAIN made |-> Reread(R, made[i], r)]

\* So the recursive definition of ReadBack has a solution,
LEMMA ReadingExists ==
    ASSUME Ordered, NEW r
    PROVE  \E R : AreReadings(R, r)
<1> DEFINE Upto(n, R) == R = [i \in 1 .. n |-> Reread(R, made[i], r)]
           T == {n \in Nat : n <= Len(made) => \E R : Upto(n, R)}
<1>1. 0 \in T
  <2> DEFINE none == [i \in 1 .. 0 |-> 0]
  <2>1. Upto(0, none)
    OBVIOUS
  <2>2. QED
    BY <2>1
<1>2. ASSUME NEW n \in Nat, n \in T PROVE n + 1 \in T
  <2>1. SUFFICES ASSUME n + 1 <= Len(made) PROVE \E R : Upto(n + 1, R)
    OBVIOUS
  <2>2. PICK f : Upto(n, f)
    BY <1>2, <2>1, Places
  <2> DEFINE more == [i \in 1 .. n + 1 |-> Reread(f, made[i], r)]
  <2>3. \A i \in 1 .. n : more[i] = f[i]
    BY <2>2
  <2> HIDE DEF more
  <2>4. \A i \in 1 .. n + 1 : i \in DOMAIN made /\ \A j \in 1 .. i - 1 : f[j] = more[j]
    BY <2>1, <2>3, Places
  <2>5. \A i \in 1 .. n + 1 : Reread(f, made[i], r) = Reread(more, made[i], r)
    BY <2>4, RereadBelow
  <2>6. more = [i \in 1 .. n + 1 |-> Reread(more, made[i], r)]
    BY <2>5 DEF more
  <2>7. QED
    BY <2>6
<1>3. Len(made) \in T
  <2> HIDE DEF T
  <2>1. QED
    BY <1>1, <1>2, StepByStep, Places
<1>4. QED
  BY <1>3, Places DEF AreReadings

\* and ReadBack satisfies it.
LEMMA ReadBackAtPlaces ==
    ASSUME Ordered, NEW r, NEW i \in DOMAIN made
    PROVE  ReadBack(r)[i] = Reread(ReadBack(r), made[i], r)
<1>1. AreReadings(CHOOSE R : AreReadings(R, r), r)
  BY ReadingExists
<1>2. AreReadings(ReadBack(r), r)
  BY <1>1 DEF ReadBack, AreReadings
<1>3. QED
  BY <1>2 DEF AreReadings

\* What is read is what was meant; after anything but a NOT, so is IS NULL.
LEMMA ReadAsMeant ==
    ASSUME Ordered, ~NullOfNot, NEW r
    PROVE  \A i \in DOMAIN made : ReadBack(r)[i].is = Truth("sql", r)[i]
<1> DEFINE R == ReadBack(r)
           S == Truth("sql", r)
           Meaning(i) == /\ R[i].is = S[i]
                         /\ made[i].op # "not" => R[i].null = Lift(S[i] = Unknown)
           T == {n \in Nat : n \in DOMAIN made => Meaning(n)}
<1>1. ASSUME NEW i \in Nat, \A j \in 0 .. i - 1 : j \in T PROVE i \in T
  <2>1. SUFFICES ASSUME i \in DOMAIN made PROVE Meaning(i)
    OBVIOUS
  <2>2. \A j \in 1 .. i - 1 : Meaning(j)
    BY <1>1, <2>1, OperandsBefore
  <2>3. R[i] = Reread(R, made[i], r)
    BY <2>1, ReadBackAtPlaces
  <2>4. R[i].is = S[i]
    <3>1. CASE made[i].op = "not"
      BY <2>1, <2>2, <2>3, <3>1, OperandsBefore, TruthOf, RereadParts
    <3>2. CASE made[i].op = "null"
      <4>1. made[made[i].arg].op # "not" /\ made[i].arg \in 1 .. i - 1
        BY <2>1, <3>2, OperandsBefore DEF NullOfNot
      <4>2. QED
        BY <2>1, <2>2, <2>3, <3>2, <4>1, TruthOf, RereadParts
    <3>3. CASE made[i].op \in {"and", "or"}
      <4>1. Readings(R, made[i].args) = At(S, made[i].args)
        BY <2>1, <2>2, <3>3, OperandsBefore DEF Readings, At
      <4>2. QED
        BY <2>1, <2>3, <3>3, <4>1, TruthOf, RereadParts
    <3>4. CASE IsLeaf(made[i])
      BY <2>1, <2>3, <3>4, TruthOf, RereadParts
    <3>5. QED
      BY <2>1, <3>1, <3>2, <3>3, <3>4, Shapes
  <2>5. made[i].op # "not" => R[i].null = Lift(S[i] = Unknown)
    BY <2>1, <2>3, <2>4, RereadParts
  <2>6. QED
    BY <2>4, <2>5
<1>2. \A i \in Nat : i \in T
  <2> HIDE DEF T
  <2>1. QED
    BY <1>1, CourseOfValues
<1>3. QED
  BY <1>2, Places

\* The query's text keeps the rows that are meant, unless a negation was asked for null.
LEMMA SqlTierAgrees ==
    ASSUME Ordered, ~NullOfNot
    PROVE  Kept(2) = Meant
<1>1. \A r : \A i \in DOMAIN made : ReadBack(r)[i].is = Truth("sql", r)[i]
  BY ReadAsMeant
<1>2. filters \subseteq DOMAIN made
  BY DEF Ordered, TypeOK
<1>3. Kept(2) = {r \in Rows : \A i \in filters : ReadBack(r)[i].is = True3}
  BY DEF Kept
<1>4. QED
  BY <1>1, <1>2, <1>3 DEF Meant, Passing

(***************************************************************************)
(* Tier 1: the entries.                                                    *)
(***************************************************************************)
IsFilter(flt) ==
    /\ flt = [type |-> flt.type, kind |-> flt.kind, lits |-> flt.lits,
              neg |-> flt.neg, parts |-> flt.parts]
    /\ flt.neg \in BOOLEAN
IsEntry(entry) ==
    /\ entry = [verdict |-> "entry", key |-> entry.key, filter |-> entry.filter]
    /\ IsFilter(entry.filter)

\* A filter entry has the parts it is made of.
LEMMA FilterParts ==
    ASSUME NEW type, NEW kind, NEW lits
    PROVE  LET flt == Filter(type, kind, lits)
           IN  /\ flt.type = type /\ flt.kind = kind /\ flt.lits = lits /\ ~flt.neg
               /\ IsFilter(flt)
  BY DEF Filter, IsFilter

\* So has a composite.
LEMMA CompositeIsFilter ==
    ASSUME NEW op, NEW places
    PROVE  LET flt == Composite(op, places)
           IN  /\ flt.type = "composite" /\ flt.kind = op /\ ~flt.neg /\ flt.parts = places
               /\ IsFilter(flt)
<1> DEFINE none == <<>>
<1>1. Composite(op, places) = [[type |-> "composite", kind |-> op, lits |-> none,
                                neg |-> FALSE, parts |-> {}] EXCEPT !.parts = places]
  BY Zenon DEF Composite, Filter
<1> HIDE DEF none
<1>2. Composite(op, places) = [type |-> "composite", kind |-> op, lits |-> none,
                               neg |-> FALSE, parts |-> places]
  BY <1>1
<1>3. QED
  BY <1>2 DEF IsFilter

\* A negation flips is_negative and nothing else.
LEMMA NegatedParts ==
    ASSUME NEW flt, IsFilter(flt)
    PROVE  LET neg == Negated(flt)
           IN  /\ neg.type = flt.type /\ neg.kind = flt.kind /\ neg.lits = flt.lits
               /\ neg.parts = flt.parts /\ (neg.neg <=> ~flt.neg) /\ IsFilter(neg)
<1> DEFINE t == flt.type
           k == flt.kind
           l == flt.lits
           n == flt.neg
           p == flt.parts
<1>1. flt = [type |-> t, kind |-> k, lits |-> l, neg |-> n, parts |-> p] /\ n \in BOOLEAN
  BY DEF IsFilter
<1> HIDE DEF t, k, l, n, p
<1>2. Negated(flt) = [type |-> t, kind |-> k, lits |-> l, neg |-> ~n, parts |-> p]
  BY <1>1 DEF Negated
<1>3. /\ Negated(flt).type = t /\ Negated(flt).kind = k /\ Negated(flt).lits = l
      /\ Negated(flt).neg = ~n /\ Negated(flt).parts = p
  BY <1>2
<1>4. IsFilter(Negated(flt))
  BY <1>1, <1>2, <1>3 DEF IsFilter
<1>5. QED
  BY <1>3, <1>4 DEF t, k, l, n, p

\* An entry is a key and a filter,
LEMMA EntryParts ==
    ASSUME NEW key, NEW flt, IsFilter(flt)
    PROVE  /\ Entry(key, flt).verdict = "entry" /\ Entry(key, flt).key = key
           /\ Entry(key, flt).filter = flt /\ IsEntry(Entry(key, flt))
  BY DEF Entry, IsEntry

\* negated or not.
LEMMA NegatedEntryParts ==
    ASSUME NEW entry, IsEntry(entry)
    PROVE  /\ NegatedEntry(entry).verdict = "entry" /\ NegatedEntry(entry).key = entry.key
           /\ NegatedEntry(entry).filter = Negated(entry.filter) /\ IsEntry(NegatedEntry(entry))
<1> DEFINE k == entry.key
           f == entry.filter
<1>1. entry = [verdict |-> "entry", key |-> k, filter |-> f] /\ IsFilter(f)
  BY DEF IsEntry
<1> HIDE DEF k, f
<1>2. NegatedEntry(entry) = [verdict |-> "entry", key |-> k, filter |-> Negated(f)]
  BY <1>1 DEF NegatedEntry
<1>3. IsFilter(Negated(f))
  BY <1>1, NegatedParts
<1>4. QED
  BY <1>1, <1>2, <1>3 DEF IsEntry, k, f

\* What an operand list fails at
LEMMA FirstIsThere ==
    ASSUME NEW S \in SUBSET Nat, S # {}
    PROVE  First(S) \in S /\ \A j \in S : First(S) <= j
  BY LeastNumber DEF First

\* A connective's entry depends on those of its operands,
LEMMA SameFieldBelow ==
    ASSUME NEW op, NEW places \in SUBSET Nat, places # {}, NEW f, NEW g,
           \A j \in places : f[j] = g[j]
    PROVE  SameField(op, places, f) = SameField(op, places, g)
<1>1. FailedAt(f, places) = FailedAt(g, places) /\ FailedAt(f, places) \subseteq places
  BY DEF FailedAt
<1>2. FailedAt(f, places) # {} => First(FailedAt(f, places)) \in places
  BY <1>1, FirstIsThere
<1>3. First(places) \in places
  BY FirstIsThere
<1>4. CASE FailedAt(f, places) # {}
  BY <1>1, <1>2, <1>4 DEF SameField
<1>5. CASE FailedAt(f, places) = {}
  <2>1. (\E i, j \in places : f[i].key # f[j].key) <=> (\E i, j \in places : g[i].key # g[j].key)
    OBVIOUS
  <2>2. QED
    BY <1>1, <1>3, <1>5, <2>1 DEF SameField
<1>6. QED
  BY <1>4, <1>5

\* and so does any entry on those of earlier places.
LEMMA CompileBelow ==
    ASSUME Ordered, NEW i \in DOMAIN made, NEW f, NEW g, \A j \in 1 .. i - 1 : f[j] = g[j]
    PROVE  CompilePredicate(f, made[i]) = CompilePredicate(g, made[i])
<1>1. CASE made[i].op = "not"
  BY <1>1, OperandsBefore DEF CompilePredicate, IsLeaf
<1>2. CASE made[i].op = "null"
  BY <1>2 DEF CompilePredicate, IsLeaf
<1>3. CASE made[i].op \in {"and", "or"}
  <2>1. made[i].args \in SUBSET Nat /\ made[i].args # {} /\ \A j \in made[i].args : f[j] = g[j]
    BY <1>3, OperandsBefore, Places
  <2>2. QED
    BY <1>3, <2>1, SameFieldBelow DEF CompilePredicate, IsLeaf
<1>4. CASE IsLeaf(made[i])
  BY <1>4 DEF CompilePredicate, IsLeaf
<1>5. QED
  BY <1>1, <1>2, <1>3, <1>4, Shapes

AreEntries(E) == E = [i \in DOMAIN made |-> CompilePredicate(E, made[i])]

\* So the recursive definition of Entries has a solution.
LEMMA EntriesExist ==
    ASSUME Ordered
    PROVE  \E E : AreEntries(E)
<1> DEFINE Upto(n, E) == E = [i \in 1 .. n |-> CompilePredicate(E, made[i])]
           T == {n \in Nat : n <= Len(made) => \E E : Upto(n, E)}
<1>1. 0 \in T
  <2> DEFINE none == [i \in 1 .. 0 |-> 0]
  <2>1. Upto(0, none)
    OBVIOUS
  <2>2. QED
    BY <2>1
<1>2. ASSUME NEW n \in Nat, n \in T PROVE n + 1 \in T
  <2>1. SUFFICES ASSUME n + 1 <= Len(made) PROVE \E E : Upto(n + 1, E)
    OBVIOUS
  <2>2. PICK f : Upto(n, f)
    BY <1>2, <2>1, Places
  <2> DEFINE more == [i \in 1 .. n + 1 |-> CompilePredicate(f, made[i])]
  <2>3. \A i \in 1 .. n : more[i] = f[i]
    BY <2>2
  <2> HIDE DEF more
  <2>4. \A i \in 1 .. n + 1 : i \in DOMAIN made /\ \A j \in 1 .. i - 1 : f[j] = more[j]
    BY <2>1, <2>3, Places
  <2>5. \A i \in 1 .. n + 1 : CompilePredicate(f, made[i]) = CompilePredicate(more, made[i])
    BY <2>4, CompileBelow
  <2>6. more = [i \in 1 .. n + 1 |-> CompilePredicate(more, made[i])]
    BY <2>5 DEF more
  <2>7. QED
    BY <2>6
<1>3. Len(made) \in T
  <2> HIDE DEF T
  <2>1. QED
    BY <1>1, <1>2, StepByStep, Places
<1>4. QED
  BY <1>3, Places DEF AreEntries

\* What the entry of a connective is made of
LEMMA EntryOf ==
    ASSUME Ordered, NEW i \in DOMAIN made
    PROVE  /\ made[i].op = "not" => Entries[i] = NegatedEntry(Entries[made[i].arg])
           /\ made[i].op = "null" => Entries[i] = NullEntry(made[made[i].arg])
           /\ made[i].op \in {"and", "or"} => Entries[i] = SameField(made[i].op, made[i].args, Entries)
           /\ IsLeaf(made[i]) => Entries[i] = LeafEntry(made[i])
<1>1. AreEntries(CHOOSE E : AreEntries(E))
  BY EntriesExist
<1>2. AreEntries(Entries)
  BY <1>1 DEF Entries, AreEntries
<1>3. Entries[i] = CompilePredicate(Entries, made[i])
  BY <1>2 DEF AreEntries
<1>4. QED
  BY <1>3 DEF CompilePredicate, IsLeaf

(***************************************************************************)
(* The entries of tests.                                                   *)
(***************************************************************************)
LEMMA KindOfLiteral ==
    ASSUME NEW field \in Fields, NEW lit \in Literals
    PROVE  /\ Kind(field, lit) \in {"boolean", "string", "number", "date", "none"}
           /\ lit.type # "none" => Kind(field, lit) # "none"
  BY DEF Kind, Arm, IsDate, IsString, IsMeasure, Literals, LiteralTypes

\* How a comparison is sent
LEMMA ComparisonIsSent ==
    ASSUME NEW e \in Tests, e.op = "cmp"
    PROVE  LET entry == ComparisonEntry(e)
               flt == entry.filter
               kind == Kind(e.field, e.lit)
           IN  /\ entry.verdict \in {"entry", "cannot", "refused"}
               /\ entry.verdict = "entry" =>
                    /\ IsEntry(entry) /\ entry.key = Key(e.field) /\ e.lit.type # "none"
                    /\ \/ /\ kind = "boolean" /\ e.cmp \in {"=", "#"}
                          /\ flt.type = "boolean" /\ flt.kind = "="
                          /\ flt.neg <=> ((e.cmp = "=") # (e.lit.v = 1))
                       \/ /\ kind \in {"string", "number"} /\ flt.type = kind
                          /\ kind = "string" => e.cmp \in {"=", "#"}
                          /\ flt.kind = (IF e.cmp = "#" THEN "=" ELSE e.cmp)
                          /\ flt.lits = <<e.lit>> /\ (flt.neg <=> e.cmp = "#")
                       \/ /\ kind = "date" /\ flt.type = "date"
                          /\ e.cmp \in DOMAIN DateKinds /\ flt.kind = DateKinds[e.cmp]
                          /\ flt.lits = <<e.lit>> /\ (flt.neg <=> e.cmp = "#")
<1> DEFINE kind == Kind(e.field, e.lit)
           one == <<e.lit>>
           base == IF e.cmp = "#" THEN Negated(Filter(kind, "=", one)) ELSE Filter(kind, e.cmp, one)
           yes == Filter("boolean", "=", <<>>)
<1>1. e.cmp \in Comparisons /\ e.lit \in Literals /\ e.field \in Fields
  BY TestShape
<1>2. kind \in {"boolean", "string", "number", "date", "none"} /\ (e.lit.type # "none" => kind # "none")
  BY <1>1, KindOfLiteral
<1> HIDE DEF one
<1>3. /\ IsFilter(base) /\ base.type = kind /\ base.lits = one
      /\ base.kind = (IF e.cmp = "#" THEN "=" ELSE e.cmp)
      /\ base.neg <=> (e.cmp = "#")
  <2> HIDE DEF kind
  <2>1. CASE e.cmp = "#"
    BY <2>1, FilterParts, NegatedParts
  <2>2. CASE e.cmp # "#"
    BY <2>2, FilterParts
  <2>3. QED
    BY <2>1, <2>2
<1>4. /\ IsFilter(yes) /\ yes.type = "boolean" /\ yes.kind = "=" /\ ~yes.neg
      /\ IsFilter(Negated(yes)) /\ Negated(yes).type = "boolean"
      /\ Negated(yes).kind = "=" /\ Negated(yes).neg
  BY FilterParts, NegatedParts
<1> HIDE DEF kind, base, yes
<1>5. CASE e.lit.type = "none"
  BY <1>5 DEF ComparisonEntry, RefusedFilter
<1>6. CASE e.lit.type # "none" /\ kind = "boolean"
  <2>1. ComparisonEntry(e) =
            IF e.cmp \notin {"=", "#"} THEN Cannot
            ELSE IF (e.cmp = "=") = (e.lit.v = 1) THEN Entry(Key(e.field), yes)
            ELSE Entry(Key(e.field), Negated(yes))
    BY <1>6, Zenon DEF ComparisonEntry, kind, yes
  <2>2. QED
    BY <1>4, <1>6, <2>1, EntryParts DEF Cannot, kind
<1>7. CASE e.lit.type # "none" /\ kind = "string"
  <2>1. ComparisonEntry(e) = IF e.cmp \notin {"=", "#"} THEN Cannot ELSE Entry(Key(e.field), base)
    BY <1>7 DEF ComparisonEntry, kind, base, one
  <2>2. QED
    BY <1>3, <1>7, <2>1, EntryParts DEF Cannot, kind, one
<1>8. CASE e.lit.type # "none" /\ kind = "number"
  <2>1. ComparisonEntry(e) = Entry(Key(e.field), base)
    BY <1>8 DEF ComparisonEntry, kind, base, one
  <2>2. QED
    BY <1>3, <1>8, <2>1, EntryParts DEF kind, one
<1>9. CASE e.lit.type # "none" /\ kind = "date"
  <2> DEFINE dated == [base EXCEPT !.kind = DateKinds[e.cmp]]
  <2>1. ComparisonEntry(e) = IF e.cmp \notin DOMAIN DateKinds THEN Cannot
                             ELSE Entry(Key(e.field), dated)
    BY <1>9 DEF ComparisonEntry, kind, base, one
  <2>2. /\ IsFilter(dated) /\ dated.type = base.type /\ dated.lits = base.lits
        /\ dated.kind = DateKinds[e.cmp] /\ dated.neg = base.neg
    BY <1>3 DEF IsFilter
  <2> HIDE DEF dated
  <2>3. QED
    BY <1>3, <1>9, <2>1, <2>2, EntryParts DEF Cannot, kind, one
<1>10. QED
  BY <1>2, <1>5, <1>6, <1>7, <1>8, <1>9

\* How the other tests are sent
LEMMA TestIsSent ==
    ASSUME NEW e \in Tests, e.op # "cmp"
    PROVE  LET entry == LeafEntry(e)
               flt == entry.filter
           IN  /\ entry.verdict \in {"entry", "cannot", "refused"}
               /\ entry.verdict = "entry" =>
                    /\ IsEntry(entry) /\ entry.key = Key(e.field) /\ ~flt.neg
                    /\ \/ e.op = "isin" /\ flt.type \in {"string", "number"} /\ flt.kind = "=" /\ flt.lits = e.lits
                       \/ /\ e.op = "between" /\ flt.type = "number" /\ flt.kind = "ENDS"
                          /\ flt.lits = <<e.low, e.high>> /\ Kind(e.field, e.high) = "number"
                       \/ /\ e.op = "between" /\ flt.type = "date" /\ flt.kind = "BETWEEN"
                          /\ flt.lits = <<e.low, e.high>> /\ Kind(e.field, e.high) = "date"
                       \/ e.op = "string" /\ flt.type = "string" /\ flt.kind = "MATCHES" /\ flt.lits = e.matches
                       \/ e.op = "field" /\ flt.type = "boolean" /\ flt.kind = "="
<1>1. CASE e.op = "fields"
  BY <1>1 DEF LeafEntry, Cannot
<1>2. CASE e.op = "isin"
  <2> DEFINE kinds == {Kind(e.field, e.lits[i]) : i \in DOMAIN e.lits}
             sent(k) == Filter(k, "=", e.lits)
  <2>1. LeafEntry(e) = IF kinds \in {{"string"}, {"number"}}
                       THEN Entry(Key(e.field), sent(CHOOSE k \in kinds : TRUE)) ELSE Cannot
    BY <1>2, Zenon DEF LeafEntry, ListEntry
  <2> HIDE DEF kinds
  <2>2. kinds \in {{"string"}, {"number"}} => (CHOOSE k \in kinds : TRUE) \in {"string", "number"}
    OBVIOUS
  <2>3. \A k \in {"string", "number"} :
           sent(k).type = k /\ sent(k).kind = "=" /\ sent(k).lits = e.lits /\ ~sent(k).neg /\ IsFilter(sent(k))
    BY FilterParts
  <2> HIDE DEF sent
  <2>4. QED
    BY <1>2, <2>1, <2>2, <2>3, EntryParts DEF Cannot
<1>3. CASE e.op = "between"
  <2> DEFINE kinds == {Kind(e.field, e.low), Kind(e.field, e.high)}
             ends == <<e.low, e.high>>
             numbers == Filter("number", "ENDS", ends)
             dates == Filter("date", "BETWEEN", ends)
  <2>1. LeafEntry(e) = BetweenEntry(e)
    BY <1>3 DEF LeafEntry
  <2>2. /\ kinds = {"number"} => BetweenEntry(e) = Entry(Key(e.field), numbers)
        /\ kinds = {"date"} => BetweenEntry(e) = Entry(Key(e.field), dates)
        /\ kinds \notin {{"number"}, {"date"}} => BetweenEntry(e) = Cannot
    <3>1. {"number"} # {"date"}
      OBVIOUS
    <3> HIDE DEF kinds, numbers, dates
    <3>2. QED
      BY <3>1 DEF BetweenEntry, kinds, numbers, dates
  <2>3. /\ numbers.type = "number" /\ numbers.kind = "ENDS" /\ numbers.lits = ends
        /\ ~numbers.neg /\ IsFilter(numbers)
        /\ dates.type = "date" /\ dates.kind = "BETWEEN" /\ dates.lits = ends
        /\ ~dates.neg /\ IsFilter(dates)
    <3> HIDE DEF ends
    <3>1. QED
      BY FilterParts
  <2>4. \A k \in {"number", "date"} : kinds = {k} => Kind(e.field, e.high) = k
    OBVIOUS
  <2> HIDE DEF kinds, ends, numbers, dates
  <2>5. QED
    BY <1>3, <2>1, <2>2, <2>3, <2>4, EntryParts DEF Cannot, ends
<1>4. CASE e.op = "string"
  <2> DEFINE sent == Filter("string", "MATCHES", e.matches)
  <2>1. LeafEntry(e) = IF IsMeasure(e.field) \/ e.field = "month" THEN Cannot ELSE Entry(Key(e.field), sent)
    BY <1>4 DEF LeafEntry, StringEntry
  <2>2. sent.type = "string" /\ sent.kind = "MATCHES" /\ sent.lits = e.matches /\ ~sent.neg /\ IsFilter(sent)
    BY FilterParts
  <2> HIDE DEF sent
  <2>3. QED
    BY <1>4, <2>1, <2>2, EntryParts DEF Cannot
<1>5. CASE e.op = "field"
  <2> DEFINE sent == Filter("boolean", "=", <<>>)
  <2>1. LeafEntry(e) = Entry(Key(e.field), sent)
    BY <1>5 DEF LeafEntry
  <2>2. sent.type = "boolean" /\ sent.kind = "=" /\ ~sent.neg /\ IsFilter(sent)
    BY FilterParts
  <2> HIDE DEF sent
  <2>3. QED
    BY <1>5, <2>1, <2>2, EntryParts
<1>6. QED
  BY <1>1, <1>2, <1>3, <1>4, <1>5, TestShape

\* What the server makes of an entry of each kind
LEMMA ArmTruthOf ==
    ASSUME NEW flt, NEW v
    PROVE  /\ flt.type = "null" /\ flt.kind = "=" => ArmTruth(flt, v) = Lift(v = Null)
           /\ flt.type = "boolean" /\ flt.kind = "=" => ArmTruth(flt, v) = Compare("=", v, 1)
           /\ flt.type \in {"string", "number"} /\ flt.kind = "=" => ArmTruth(flt, v) = InSql(v, flt.lits)
           /\ flt.type \in {"string", "number"} /\ flt.kind \in {"<", "<=", ">", ">="} =>
                ArmTruth(flt, v) = Compare(flt.kind, v, flt.lits[1].v)
           /\ flt.type = "string" /\ flt.kind = "MATCHES" =>
                ArmTruth(flt, v) = (IF v = Null THEN Unknown ELSE Lift(v \in flt.lits))
           /\ flt.type = "number" /\ flt.kind = "ENDS" =>
                ArmTruth(flt, v) = Range3(v, flt.lits[1].v, flt.lits[2].v, "<=")
           /\ flt.type = "date" /\ flt.kind = "BETWEEN" =>
                ArmTruth(flt, v) = Range3(v, flt.lits[1].v, flt.lits[2].v, "<")
           /\ flt.type = "date" /\ flt.kind = "UNIT" =>
                ArmTruth(flt, v) = Range3(v, flt.lits[1].v, flt.lits[1].v + UnitOf(flt.lits[1]), "<")
           /\ flt.type = "date" /\ flt.kind = "ON_OR_AFTER" =>
                ArmTruth(flt, v) = Compare(">=", v, flt.lits[1].v)
           /\ flt.type = "date" /\ flt.kind = "BEFORE" =>
                ArmTruth(flt, v) = Compare("<", v, flt.lits[1].v)
<1>1. flt.type = "null" /\ flt.kind = "=" => ArmTruth(flt, v) = Lift(v = Null)
  BY DEF ArmTruth
<1>2. flt.type = "boolean" /\ flt.kind = "=" => ArmTruth(flt, v) = Compare("=", v, 1)
  BY DEF ArmTruth
<1>3. ASSUME flt.type \in {"string", "number", "date"}
      PROVE  /\ flt.type \in {"string", "number"} /\ flt.kind = "=" => ArmTruth(flt, v) = InSql(v, flt.lits)
             /\ flt.kind \in {"<", "<=", ">", ">="} => ArmTruth(flt, v) = Compare(flt.kind, v, flt.lits[1].v)
             /\ flt.kind = "MATCHES" => ArmTruth(flt, v) = (IF v = Null THEN Unknown ELSE Lift(v \in flt.lits))
  BY <1>3 DEF ArmTruth
<1>4. ASSUME flt.type \in {"string", "number", "date"}
      PROVE  /\ flt.kind = "ENDS" => ArmTruth(flt, v) = Range3(v, flt.lits[1].v, flt.lits[2].v, "<=")
             /\ flt.kind = "BETWEEN" => ArmTruth(flt, v) = Range3(v, flt.lits[1].v, flt.lits[2].v, "<")
             /\ flt.kind = "UNIT" =>
                  ArmTruth(flt, v) = Range3(v, flt.lits[1].v, flt.lits[1].v + UnitOf(flt.lits[1]), "<")
             /\ flt.kind = "ON_OR_AFTER" => ArmTruth(flt, v) = Compare(">=", v, flt.lits[1].v)
             /\ flt.kind = "BEFORE" => ArmTruth(flt, v) = Compare("<", v, flt.lits[1].v)
  BY <1>4 DEF ArmTruth
<1>5. QED
  BY <1>1, <1>2, <1>3, <1>4

\* A literal of its field's type says which kind of entry it makes.
LEMMA KindFits ==
    ASSUME NEW field \in Fields, NEW lit \in Literals, lit.type \in Fitting[field], field # "month"
    PROVE  /\ Kind(field, lit) = "boolean" => field = "flag" /\ lit.v \in {0, 1}
           /\ Kind(field, lit) = "date" => IsDate(lit)
           /\ Kind(field, lit) = "number" => ~IsDate(lit)
<1>1. lit.type = "boolean" => field = "flag" /\ lit.v \in {0, 1}
  BY DEF Fitting, Fields, Literals
<1>2. IsMeasure(field) => ~IsDate(lit) /\ lit.type # "boolean"
  BY DEF Fitting, Fields, IsMeasure, IsDate
<1>3. QED
  BY <1>1, <1>2 DEF Kind, Arm, IsDate, IsString, Literals, LiteralTypes

\* A comparison's literals are of its field's type (PredicatesAssumption).
LEMMA LiteralsFit ==
    ASSUME NEW e \in Tests
    PROVE  /\ e.op = "cmp" => e.lit.type \in Fitting[e.field]
           /\ e.op = "between" => e.low.type \in Fitting[e.field] /\ e.high.type \in Fitting[e.field]
<1>1. \A lit \in SqlLiterals(e) : lit.type \in Fitting[e.field]
  BY PredicatesAssumption
<1>2. e.op = "cmp" => SqlLiterals(e) = {e.lit}
  BY DEF SqlLiterals
<1>3. e.op = "between" => SqlLiterals(e) = {e.low, e.high}
  BY DEF SqlLiterals
<1>4. QED
  BY <1>1, <1>2, <1>3

\* An IN of one value is an equality.
LEMMA OneValue ==
    ASSUME NEW v, NEW lit
    PROVE  InSql(v, <<lit>>) = Compare("=", v, lit.v)
<1> DEFINE t == Compare("=", v, lit.v)
<1>1. {Compare("=", v, <<lit>>[i].v) : i \in DOMAIN <<lit>>} = {t}
  <2>1. DOMAIN <<lit>> = {1} /\ <<lit>>[1] = lit
    OBVIOUS
  <2>2. QED
    BY <2>1
<1>2. Most({t}) = t
  <2>1. t \in Three
    BY CompareIsThree
  <2> HIDE DEF t
  <2>2. {t} \in SUBSET Three /\ {t} # {}
    BY <2>1
  <2>3. QED
    BY <2>2, LeastAndMost
<1>3. QED
  BY <1>1, <1>2 DEF InSql

\* != is the negation of =, for nulls too.
LEMMA Unequal == \A a, b : Compare("#", a, b) = Neg(Compare("=", a, b))
  BY DEF Compare, Neg, Lift, False3, Unknown, True3

\* To equal 0 is, of a flag, not to equal 1.
LEMMA Unlike ==
    \A v \in {Null, 0, 1} : Compare("=", v, 0) = Neg(Compare("=", v, 1))
  BY DEF Compare, Neg, Lift, Null, False3, Unknown, True3

\* Two negations of an equality are none.
LEMMA DoubleNegation == \A a, b : Neg(Neg(Compare("=", a, b))) = Compare("=", a, b)
  BY CompareIsThree, NegIsThree

\* The server answers a comparison that could be sent as it was meant, the days and
\* months of dates apart.
LEMMA ComparisonIsAnswered ==
    ASSUME NEW e \in Tests, e.op = "cmp", NEW r \in Rows, ~Calendar(e),
           ComparisonEntry(e).verdict = "entry"
    PROVE  LET flt == ComparisonEntry(e).filter
           IN  Signed(flt, ArmTruth(flt, r[Key(e.field)])) = Compare(e.cmp, r[e.field], e.lit.v)
<1> DEFINE flt == ComparisonEntry(e).filter
           kind == Kind(e.field, e.lit)
           v == r[e.field]
           w == e.lit.v
<1>1. /\ \/ /\ kind = "boolean" /\ e.cmp \in {"=", "#"}
            /\ flt.type = "boolean" /\ flt.kind = "="
            /\ flt.neg <=> ((e.cmp = "=") # (e.lit.v = 1))
         \/ /\ kind \in {"string", "number"} /\ flt.type = kind
            /\ kind = "string" => e.cmp \in {"=", "#"}
            /\ flt.kind = (IF e.cmp = "#" THEN "=" ELSE e.cmp)
            /\ flt.lits = <<e.lit>> /\ (flt.neg <=> e.cmp = "#")
         \/ /\ kind = "date" /\ flt.type = "date"
            /\ e.cmp \in DOMAIN DateKinds /\ flt.kind = DateKinds[e.cmp]
            /\ flt.lits = <<e.lit>> /\ (flt.neg <=> e.cmp = "#")
      /\ IsFilter(flt)
  BY ComparisonIsSent DEF IsEntry
<1>2. /\ e.field \in Fields /\ e.cmp \in Comparisons /\ e.lit \in Literals
      /\ e.lit.type \in Fitting[e.field] /\ e.field # "month" /\ Key(e.field) = e.field
  BY TestShape, LiteralsFit DEF Calendar, Key
<1>3. /\ kind = "boolean" => e.field = "flag" /\ w \in {0, 1}
      /\ kind = "date" => IsDate(e.lit)
  BY <1>2, KindFits
<1>4. SUFFICES Signed(flt, ArmTruth(flt, v)) = Compare(e.cmp, v, w)
  BY <1>2
<1>5. InSql(v, <<e.lit>>) = Compare("=", v, w)
  BY OneValue
<1> HIDE DEF flt, kind
<1>6. CASE kind = "boolean"
  <2>1. v \in {Null, 0, 1} /\ w \in {0, 1}
    BY <1>3, <1>6, PredicatesAssumption
  <2>2. flt.type = "boolean" /\ flt.kind = "=" /\ e.cmp \in {"=", "#"} /\ (flt.neg <=> ((e.cmp = "=") # (w = 1)))
    BY <1>1, <1>6
  <2>3. ArmTruth(flt, v) = Compare("=", v, 1)
    BY <2>2, ArmTruthOf
  <2>4. /\ Compare("#", v, w) = Neg(Compare("=", v, w))
        /\ Compare("=", v, 0) = Neg(Compare("=", v, 1))
        /\ Neg(Neg(Compare("=", v, 1))) = Compare("=", v, 1)
    BY <2>1, Unequal, Unlike, DoubleNegation
  <2> HIDE DEF v, w
  <2>5. QED
    BY <2>1, <2>2, <2>3, <2>4 DEF Signed
<1>7. CASE kind \in {"string", "number"}
  <2>1. /\ flt.type = kind /\ flt.lits = <<e.lit>> /\ (flt.neg <=> e.cmp = "#")
        /\ flt.kind = (IF e.cmp = "#" THEN "=" ELSE e.cmp)
    BY <1>1, <1>7
  <2>2. CASE e.cmp \in {"=", "#"}
    <3>1. ArmTruth(flt, v) = Compare("=", v, w)
      BY <1>5, <1>7, <2>1, <2>2, ArmTruthOf
    <3>2. QED
      BY <2>1, <2>2, <3>1, Unequal DEF Signed
  <2>3. CASE e.cmp \notin {"=", "#"}
    <3>1. flt.lits[1] = e.lit /\ flt.kind = e.cmp /\ e.cmp \in {"<", "<=", ">", ">="} /\ ~flt.neg
      BY <1>2, <2>1, <2>3 DEF Comparisons
    <3>2. ArmTruth(flt, v) = Compare(e.cmp, v, w)
      BY <1>7, <2>1, <3>1, ArmTruthOf
    <3>3. QED
      BY <3>1, <3>2 DEF Signed
  <2>4. QED
    BY <2>2, <2>3
<1>8. CASE kind = "date"
  <2>1. /\ flt.type = "date" /\ flt.lits = <<e.lit>> /\ (flt.neg <=> e.cmp = "#")
        /\ e.cmp \in DOMAIN DateKinds /\ flt.kind = DateKinds[e.cmp]
    BY <1>1, <1>8
  <2>2. e.cmp \in {">=", "<"}
    BY <1>3, <1>8, <2>1 DEF Calendar, DateKinds
  <2>3. flt.kind = (IF e.cmp = ">=" THEN "ON_OR_AFTER" ELSE "BEFORE") /\ flt.lits[1] = e.lit /\ ~flt.neg
    BY <2>1, <2>2 DEF DateKinds
  <2>4. ArmTruth(flt, v) = Compare(e.cmp, v, w)
    BY <2>1, <2>2, <2>3, ArmTruthOf
  <2>5. QED
    BY <2>3, <2>4 DEF Signed
<1>9. QED
  BY <1>1, <1>6, <1>7, <1>8

\* So for every test.
LEMMA TestIsAnswered ==
    ASSUME NEW e \in Tests, NEW r \in Rows, ~Calendar(e), LeafEntry(e).verdict = "entry"
    PROVE  LET flt == LeafEntry(e).filter
           IN  Signed(flt, ArmTruth(flt, r[Key(e.field)])) = LeafTruth("sql", e, r)
<1> DEFINE flt == LeafEntry(e).filter
           v == r[e.field]
<1>1. CASE e.op = "cmp"
  <2>1. LeafEntry(e) = ComparisonEntry(e) /\ LeafTruth("sql", e, r) = Compare(e.cmp, v, e.lit.v)
    BY <1>1 DEF LeafEntry, LeafTruth
  <2>2. QED
    BY <1>1, <2>1, ComparisonIsAnswered
<1>2. CASE e.op # "cmp"
  <2>1. /\ ~flt.neg
        /\ \/ e.op = "isin" /\ flt.type \in {"string", "number"} /\ flt.kind = "=" /\ flt.lits = e.lits
           \/ /\ e.op = "between" /\ flt.type = "number" /\ flt.kind = "ENDS"
              /\ flt.lits = <<e.low, e.high>> /\ Kind(e.field, e.high) = "number"
           \/ /\ e.op = "between" /\ flt.type = "date" /\ flt.kind = "BETWEEN"
              /\ flt.lits = <<e.low, e.high>> /\ Kind(e.field, e.high) = "date"
           \/ e.op = "string" /\ flt.type = "string" /\ flt.kind = "MATCHES" /\ flt.lits = e.matches
           \/ e.op = "field" /\ flt.type = "boolean" /\ flt.kind = "="
    BY <1>2, TestIsSent
  <2>2. e.field \in Fields /\ e.field # "month" /\ Key(e.field) = e.field
    BY TestShape DEF Calendar, Key
  <2>3. SUFFICES ArmTruth(flt, v) = LeafTruth("sql", e, r)
    BY <2>1, <2>2 DEF Signed
  <2> HIDE DEF flt
  <2>4. CASE e.op = "isin"
    <3>1. LeafTruth("sql", e, r) = InSql(v, e.lits)
      BY <2>4 DEF LeafTruth
    <3>2. ArmTruth(flt, v) = InSql(v, e.lits)
      BY <2>1, <2>4, ArmTruthOf
    <3>3. QED
      BY <3>1, <3>2
  <2>5. CASE e.op = "between"
    <3>1. LeafTruth("sql", e, r) = Range3(v, e.low.v, e.high.v, UpperBound(e.high))
      BY <2>5 DEF LeafTruth
    <3>2. e.high \in Literals /\ e.high.type \in Fitting[e.field]
      BY <2>5, TestShape, LiteralsFit
    <3>3. flt.lits[1] = e.low /\ flt.lits[2] = e.high
      BY <2>1, <2>5
    <3>4. CASE Kind(e.field, e.high) = "number"
      <4>1. UpperBound(e.high) = "<="
        BY <2>2, <3>2, <3>4, KindFits DEF UpperBound
      <4>2. flt.type = "number" /\ flt.kind = "ENDS"
        BY <2>1, <2>5, <3>4
      <4>3. QED
        BY <3>1, <3>3, <4>1, <4>2, ArmTruthOf
    <3>5. CASE Kind(e.field, e.high) = "date"
      <4>1. UpperBound(e.high) = "<"
        BY <2>2, <3>2, <3>5, KindFits DEF UpperBound
      <4>2. flt.type = "date" /\ flt.kind = "BETWEEN"
        BY <2>1, <2>5, <3>5
      <4>3. QED
        BY <3>1, <3>3, <4>1, <4>2, ArmTruthOf
    <3>6. QED
      BY <2>1, <2>5, <3>4, <3>5
  <2>6. CASE e.op = "string"
    <3>1. LeafTruth("sql", e, r) = (IF v = Null THEN Unknown ELSE Lift(v \in e.matches))
      BY <2>6 DEF LeafTruth
    <3>2. QED
      BY <2>1, <2>6, <3>1, ArmTruthOf
  <2>7. CASE e.op = "field"
    <3>1. LeafTruth("sql", e, r) = Compare("=", v, 1)
      BY <2>7 DEF LeafTruth
    <3>2. QED
      BY <2>1, <2>7, <3>1, ArmTruthOf
  <2>8. QED
    BY <2>1, <2>4, <2>5, <2>6, <2>7
<1>3. QED
  BY <1>1, <1>2

\* What an entry's own arm says is one of three values, and of a null unknown.
LEMMA ArmIsThree ==
    ASSUME NEW e \in Tests, LeafEntry(e).verdict = "entry", NEW v
    PROVE  LET flt == LeafEntry(e).filter
           IN  /\ flt.type \notin {"composite", "null"}
               /\ ArmTruth(flt, v) \in Three /\ (v = Null => ArmTruth(flt, v) = Unknown)
<1> DEFINE flt == LeafEntry(e).filter
<1> SUFFICES /\ flt.type \notin {"composite", "null"}
             /\ ArmTruth(flt, v) \in Three /\ (v = Null => ArmTruth(flt, v) = Unknown)
  OBVIOUS
<1>1. CASE e.op = "cmp"
  <2>1. LeafEntry(e) = ComparisonEntry(e) /\ e.lit \in Literals /\ e.cmp \in Comparisons
    BY <1>1, TestShape DEF LeafEntry
  <2>2. \/ flt.type = "boolean" /\ flt.kind = "="
        \/ /\ flt.type \in {"string", "number"}
           /\ flt.kind = (IF e.cmp = "#" THEN "=" ELSE e.cmp) /\ flt.lits = <<e.lit>>
        \/ /\ flt.type = "date" /\ e.cmp \in DOMAIN DateKinds /\ flt.kind = DateKinds[e.cmp]
    BY <1>1, <2>1, ComparisonIsSent
  <2> HIDE DEF flt
  <2>3. CASE flt.type = "boolean" /\ flt.kind = "="
    BY <2>3, ArmTruthOf, CompareIsThree
  <2>4. CASE /\ flt.type \in {"string", "number"}
             /\ flt.kind = (IF e.cmp = "#" THEN "=" ELSE e.cmp) /\ flt.lits = <<e.lit>>
    <3>1. CASE flt.kind = "="
      <4>1. ArmTruth(flt, v) = Compare("=", v, e.lit.v)
        BY <2>4, <3>1, ArmTruthOf, OneValue
      <4>2. QED
        BY <2>4, <4>1, CompareIsThree
    <3>2. CASE flt.kind \in {"<", "<=", ">", ">="}
      <4>1. ArmTruth(flt, v) = Compare(flt.kind, v, flt.lits[1].v)
        BY <2>4, <3>2, ArmTruthOf
      <4>2. QED
        BY <2>4, <4>1, CompareIsThree
    <3>3. QED
      BY <2>1, <2>4, <3>1, <3>2 DEF Comparisons
  <2>5. CASE flt.type = "date" /\ e.cmp \in DOMAIN DateKinds /\ flt.kind = DateKinds[e.cmp]
    <3>1. flt.kind \in {"UNIT", "ON_OR_AFTER", "BEFORE"}
      BY <2>5 DEF DateKinds
    <3>2. \/ ArmTruth(flt, v) = Range3(v, flt.lits[1].v, flt.lits[1].v + UnitOf(flt.lits[1]), "<")
          \/ ArmTruth(flt, v) = Compare(">=", v, flt.lits[1].v)
          \/ ArmTruth(flt, v) = Compare("<", v, flt.lits[1].v)
      BY <2>5, <3>1, ArmTruthOf
    <3>3. QED
      BY <2>5, <3>2, CompareIsThree, RangeIsThree
  <2>6. QED
    BY <2>2, <2>3, <2>4, <2>5
<1>2. CASE e.op # "cmp"
  <2>1. \/ e.op = "isin" /\ flt.type \in {"string", "number"} /\ flt.kind = "=" /\ flt.lits = e.lits
        \/ flt.type = "number" /\ flt.kind = "ENDS"
        \/ flt.type = "date" /\ flt.kind = "BETWEEN"
        \/ flt.type = "string" /\ flt.kind = "MATCHES"
        \/ flt.type = "boolean" /\ flt.kind = "="
    BY <1>2, TestIsSent
  <2> HIDE DEF flt
  <2>2. CASE e.op = "isin" /\ flt.type \in {"string", "number"} /\ flt.kind = "=" /\ flt.lits = e.lits
    <3>1. ArmTruth(flt, v) = InSql(v, e.lits)
      BY <2>2, ArmTruthOf
    <3>2. e.lits \in Seq(Literals) /\ e.lits # <<>>
      BY <2>2, TestShape
    <3>3. QED
      BY <2>2, <3>1, <3>2, SqlMembership
  <2>3. CASE flt.type = "number" /\ flt.kind = "ENDS"
    BY <2>3, ArmTruthOf, RangeIsThree
  <2>4. CASE flt.type = "date" /\ flt.kind = "BETWEEN"
    BY <2>4, ArmTruthOf, RangeIsThree
  <2>5. CASE flt.type = "string" /\ flt.kind = "MATCHES"
    <3>1. ArmTruth(flt, v) = (IF v = Null THEN Unknown ELSE Lift(v \in flt.lits))
      BY <2>5, ArmTruthOf
    <3>2. QED
      BY <2>5, <3>1 DEF Lift, Three, False3, Unknown, True3
  <2>6. CASE flt.type = "boolean" /\ flt.kind = "="
    BY <2>6, ArmTruthOf, CompareIsThree
  <2>7. QED
    BY <2>1, <2>2, <2>3, <2>4, <2>5, <2>6
<1>3. QED
  BY <1>1, <1>2

\* Whether a test can be sent, and on which field
LEMMA TestEntry ==
    ASSUME NEW e \in Tests
    PROVE  /\ LeafEntry(e).verdict \in {"entry", "cannot", "refused"}
           /\ LeafEntry(e).verdict = "entry" => IsEntry(LeafEntry(e)) /\ LeafEntry(e).key = Key(e.field)
<1>1. CASE e.op = "cmp"
  <2>1. LeafEntry(e) = ComparisonEntry(e)
    BY <1>1 DEF LeafEntry
  <2>2. QED
    BY <1>1, <2>1, ComparisonIsSent
<1>2. CASE e.op # "cmp"
  BY <1>2, TestIsSent
<1>3. QED
  BY <1>1, <1>2

(***************************************************************************)
(* The entries of every expression.                                        *)
(***************************************************************************)
LEMMA SameFieldParts ==
    ASSUME NEW op, NEW places \in SUBSET Nat, places # {}, NEW E
    PROVE  LET entry == SameField(op, places, E)
           IN  \/ \E i \in places : E[i].verdict # "entry" /\ entry = E[i]
               \/ entry = Cannot
               \/ /\ \A i \in places : E[i].verdict = "entry"
                  /\ \A i, j \in places : E[i].key = E[j].key
                  /\ entry = Entry(E[First(places)].key, Composite(op, places))
<1>1. CASE FailedAt(E, places) # {}
  <2>1. First(FailedAt(E, places)) \in FailedAt(E, places)
    BY <1>1, FirstIsThere DEF FailedAt
  <2>2. SameField(op, places, E) = E[First(FailedAt(E, places))]
    BY <1>1 DEF SameField
  <2>3. QED
    BY <2>1, <2>2 DEF FailedAt
<1>2. CASE FailedAt(E, places) = {}
  BY <1>2 DEF SameField, FailedAt
<1>3. QED
  BY <1>1, <1>2

\* The keys of the fields that are tested
LeafKeys == {Key(e.field) : e \in Leaves}

\* What is known of the entry at a place
Sent(i) ==
    LET entry == Entries[i]
    IN  /\ entry.verdict \in {"entry", "cannot", "refused"}
        /\ entry.verdict = "entry" =>
             /\ IsEntry(entry) /\ entry.key \in LeafKeys
             /\ entry.filter.type = "composite" =>
                  /\ entry.filter.kind \in {"and", "or"}
                  /\ entry.filter.parts \subseteq 1 .. i - 1 /\ entry.filter.parts # {}
                  /\ \A j \in entry.filter.parts :
                        Entries[j].verdict = "entry" /\ Entries[j].key = entry.key

\* What a test is sent as,
LEMMA TestSent ==
    ASSUME Ordered, NEW i \in DOMAIN made, IsLeaf(made[i])
    PROVE  Sent(i)
<1> DEFINE e == made[i]
<1>1. e \in Tests /\ e \in Leaves /\ Entries[i] = LeafEntry(e)
  BY Shapes, EntryOf DEF Leaves
<1> HIDE DEF e
<1>2. /\ LeafEntry(e).verdict \in {"entry", "cannot", "refused"}
      /\ LeafEntry(e).verdict = "entry" => IsEntry(LeafEntry(e)) /\ LeafEntry(e).key = Key(e.field)
  BY <1>1, TestEntry
<1>3. QED
  BY <1>1, <1>2, ArmIsThree DEF Sent, LeafKeys

\* what a null test is sent as: one on a bare field,
LEMMA NullSent ==
    ASSUME Ordered, NEW i \in DOMAIN made, made[i].op = "null"
    PROVE  /\ Sent(i)
           /\ Entries[i].verdict = "entry" =>
                /\ made[made[i].arg].op = "field" /\ made[made[i].arg] \in Leaves
                /\ Entries[i].key = Key(made[made[i].arg].field)
                /\ Entries[i].filter.type = "null" /\ Entries[i].filter.kind = "="
                /\ ~Entries[i].filter.neg
<1> DEFINE arg == made[made[i].arg]
           flt == Filter("null", "=", <<>>)
<1>1. made[i].arg \in DOMAIN made
  BY OperandsBefore
<1>2. arg.op = "field" => arg \in Leaves
  BY <1>1 DEF Leaves, IsLeaf
<1>3. Entries[i] = IF arg.op # "field" \/ IsMeasure(arg.field) THEN Cannot ELSE Entry(Key(arg.field), flt)
  BY EntryOf DEF NullEntry
<1>4. flt.type = "null" /\ flt.kind = "=" /\ ~flt.neg /\ IsFilter(flt)
  BY FilterParts
<1> HIDE DEF arg, flt
<1>5. CASE arg.op # "field" \/ IsMeasure(arg.field)
  BY <1>3, <1>5 DEF Cannot, Sent
<1>6. CASE ~(arg.op # "field" \/ IsMeasure(arg.field))
  <2>1. /\ Entries[i].verdict = "entry" /\ Entries[i].key = Key(arg.field)
        /\ Entries[i].filter = flt /\ IsEntry(Entries[i])
    BY <1>3, <1>4, <1>6, EntryParts
  <2>2. QED
    BY <1>2, <1>4, <1>6, <2>1 DEF Sent, LeafKeys, arg
<1>7. QED
  BY <1>5, <1>6

\* and every expression: by induction over the places.
LEMMA EveryPlaceSent ==
    ASSUME Ordered
    PROVE  \A i \in DOMAIN made : Sent(i)
<1> DEFINE T == {n \in Nat : n \in DOMAIN made => Sent(n)}
<1>1. ASSUME NEW i \in Nat, \A j \in 0 .. i - 1 : j \in T PROVE i \in T
  <2>1. SUFFICES ASSUME i \in DOMAIN made PROVE Sent(i)
    OBVIOUS
  <2>2. \A j \in 1 .. i - 1 : Sent(j)
    BY <1>1, <2>1, OperandsBefore
  <2>3. CASE made[i].op = "not"
    <3> DEFINE arg == made[i].arg
               below == Entries[arg]
    <3>1. arg \in 1 .. i - 1 /\ Sent(arg) /\ Entries[i] = NegatedEntry(below)
      BY <2>1, <2>2, <2>3, OperandsBefore, EntryOf
    <3>2. CASE below.verdict = "entry"
      <4>1. IsEntry(below) /\ IsFilter(below.filter)
        BY <3>1, <3>2 DEF Sent, IsEntry
      <4>2. /\ Entries[i].verdict = "entry" /\ Entries[i].key = below.key
            /\ Entries[i].filter = Negated(below.filter) /\ IsEntry(Entries[i])
        BY <3>1, <4>1, NegatedEntryParts
      <4>3. /\ Entries[i].filter.type = below.filter.type /\ Entries[i].filter.kind = below.filter.kind
            /\ Entries[i].filter.parts = below.filter.parts
        BY <4>1, <4>2, NegatedParts
      <4>4. below.filter.parts \subseteq 1 .. arg - 1 => below.filter.parts \subseteq 1 .. i - 1
        BY <2>1, <3>1, Places
      <4>5. QED
        BY <3>1, <3>2, <4>2, <4>3, <4>4 DEF Sent
    <3>3. CASE below.verdict # "entry"
      BY <3>1, <3>3 DEF NegatedEntry, Sent
    <3>4. QED
      BY <3>2, <3>3
  <2>4. CASE made[i].op = "null"
    BY <2>1, <2>4, NullSent
  <2>5. CASE made[i].op \in {"and", "or"}
    <3> DEFINE args == made[i].args
               key == Entries[First(args)].key
    <3>1. /\ args \subseteq 1 .. i - 1 /\ args # {} /\ args \in SUBSET Nat
          /\ Entries[i] = SameField(made[i].op, args, Entries)
      BY <2>1, <2>5, OperandsBefore, EntryOf
    <3>2. First(args) \in args /\ \A j \in args : Sent(j)
      BY <2>2, <3>1, FirstIsThere
    <3>3. CASE \E j \in args : Entries[j].verdict # "entry" /\ Entries[i] = Entries[j]
      BY <3>2, <3>3 DEF Sent
    <3>4. CASE Entries[i] = Cannot
      BY <3>4 DEF Cannot, Sent
    <3>5. CASE /\ \A j \in args : Entries[j].verdict = "entry"
               /\ \A j, k \in args : Entries[j].key = Entries[k].key
               /\ Entries[i] = Entry(key, Composite(made[i].op, args))
      <4>1. /\ IsFilter(Composite(made[i].op, args)) /\ Composite(made[i].op, args).kind = made[i].op
            /\ Composite(made[i].op, args).parts = args
        BY CompositeIsFilter
      <4>2. /\ Entries[i].verdict = "entry" /\ Entries[i].key = key
            /\ Entries[i].filter = Composite(made[i].op, args) /\ IsEntry(Entries[i])
        BY <3>5, <4>1, EntryParts
      <4>3. key \in LeafKeys
        BY <3>2, <3>5 DEF Sent
      <4>4. \A j \in args : Entries[j].key = key
        BY <3>2, <3>5
      <4> HIDE DEF args, key
      <4>5. QED
        BY <2>5, <3>1, <3>5, <4>1, <4>2, <4>3, <4>4 DEF Sent
    <3>6. QED
      BY <3>1, <3>3, <3>4, <3>5, SameFieldParts
  <2>6. CASE IsLeaf(made[i])
    BY <2>1, <2>6, TestSent
  <2>7. QED
    BY <2>1, <2>3, <2>4, <2>5, <2>6, Shapes
<1>2. \A i \in Nat : i \in T
  <2> HIDE DEF T
  <2>1. QED
    BY <1>1, CourseOfValues
<1>3. QED
  BY <1>2, Places

(***************************************************************************)
(* The server's answers.                                                   *)
(***************************************************************************)
\* What a filter says before its sign
Unsigned(S, i, v) ==
    LET flt == Entries[i].filter
    IN  IF flt.type = "composite" THEN Combined(flt.kind, At(S, flt.parts)) ELSE ArmTruth(flt, v)

\* The server's answer is the filter's, signed.
LEMMA AnsweredIs ==
    ASSUME NEW S, NEW i, NEW v
    PROVE  Answered(Entries, S, i, v) =
               IF Entries[i].verdict # "entry" THEN Unknown ELSE Signed(Entries[i].filter, Unsigned(S, i, v))
  BY DEF Answered, Unsigned, At

\* It depends on the answers at the parts, which are earlier.
LEMMA AnsweredBelow ==
    ASSUME Ordered, NEW i \in DOMAIN made, NEW v, NEW f, NEW g, \A j \in 1 .. i - 1 : f[j] = g[j]
    PROVE  Answered(Entries, f, i, v) = Answered(Entries, g, i, v)
<1>1. CASE Entries[i].verdict # "entry"
  BY <1>1, AnsweredIs
<1>2. CASE Entries[i].verdict = "entry"
  <2>1. Sent(i)
    BY EveryPlaceSent
  <2>2. Entries[i].filter.type = "composite" =>
            At(f, Entries[i].filter.parts) = At(g, Entries[i].filter.parts)
    BY <1>2, <2>1 DEF Sent, At
  <2>3. Unsigned(f, i, v) = Unsigned(g, i, v)
    BY <2>2 DEF Unsigned
  <2>4. QED
    BY <2>3, AnsweredIs
<1>3. QED
  BY <1>1, <1>2

AreAnswers(S, v) == S = [i \in DOMAIN made |-> Answered(Entries, S, i, v)]

\* So the recursive definition of ServerTruth has a solution,
LEMMA AnswersExist ==
    ASSUME Ordered, NEW v
    PROVE  \E S : AreAnswers(S, v)
<1> DEFINE Upto(n, S) == S = [i \in 1 .. n |-> Answered(Entries, S, i, v)]
           T == {n \in Nat : n <= Len(made) => \E S : Upto(n, S)}
<1>1. 0 \in T
  <2> DEFINE none == [i \in 1 .. 0 |-> 0]
  <2>1. Upto(0, none)
    OBVIOUS
  <2>2. QED
    BY <2>1
<1>2. ASSUME NEW n \in Nat, n \in T PROVE n + 1 \in T
  <2>1. SUFFICES ASSUME n + 1 <= Len(made) PROVE \E S : Upto(n + 1, S)
    OBVIOUS
  <2>2. PICK f : Upto(n, f)
    BY <1>2, <2>1, Places
  <2> DEFINE more == [i \in 1 .. n + 1 |-> Answered(Entries, f, i, v)]
  <2>3. \A i \in 1 .. n : more[i] = f[i]
    BY <2>2
  <2> HIDE DEF more
  <2>4. \A i \in 1 .. n + 1 : i \in DOMAIN made /\ \A j \in 1 .. i - 1 : f[j] = more[j]
    BY <2>1, <2>3, Places
  <2>5. \A i \in 1 .. n + 1 : Answered(Entries, f, i, v) = Answered(Entries, more, i, v)
    BY <2>4, AnsweredBelow
  <2>6. more = [i \in 1 .. n + 1 |-> Answered(Entries, more, i, v)]
    BY <2>5 DEF more
  <2>7. QED
    BY <2>6
<1>3. Len(made) \in T
  <2> HIDE DEF T
  <2>1. QED
    BY <1>1, <1>2, StepByStep, Places
<1>4. QED
  BY <1>3, Places DEF AreAnswers

Served(v) == ServerTruth(Entries, v)

\* and ServerTruth satisfies it.
LEMMA ServedOf ==
    ASSUME Ordered, NEW v, NEW i \in DOMAIN made, Entries[i].verdict = "entry"
    PROVE  Served(v)[i] = Signed(Entries[i].filter, Unsigned(Served(v), i, v))
<1>1. AreAnswers(CHOOSE S : AreAnswers(S, v), v)
  BY AnswersExist
<1>2. AreAnswers(Served(v), v)
  BY <1>1 DEF Served, ServerTruth, AreAnswers
<1>3. Served(v)[i] = Answered(Entries, Served(v), i, v)
  BY <1>2 DEF AreAnswers
<1>4. QED
  BY <1>3, AnsweredIs

\* is_negative is no part of what a single filter tests.
LEMMA ArmHasNoSign ==
    ASSUME NEW flt, IsFilter(flt), NEW v
    PROVE  ArmTruth(Negated(flt), v) = ArmTruth(flt, v)
  BY NegatedParts DEF ArmTruth

\* A negated entry differs by its sign.
LEMMA NegatedIsSent ==
    ASSUME Ordered, NEW i \in DOMAIN made, made[i].op = "not", Entries[i].verdict = "entry"
    PROVE  LET arg == made[i].arg
           IN  /\ arg \in 1 .. i - 1 /\ Entries[arg].verdict = "entry"
               /\ Entries[i].key = Entries[arg].key
               /\ Entries[i].filter.neg <=> ~Entries[arg].filter.neg
               /\ \A S, v : Unsigned(S, i, v) = Unsigned(S, arg, v)
<1> DEFINE arg == made[i].arg
           below == Entries[arg]
           flt == below.filter
<1>1. arg \in 1 .. i - 1 /\ arg \in DOMAIN made /\ Entries[i] = NegatedEntry(below) /\ Sent(arg)
  BY OperandsBefore, EntryOf, EveryPlaceSent
<1>2. below.verdict = "entry" /\ IsEntry(below) /\ IsFilter(flt)
  BY <1>1 DEF NegatedEntry, Sent, IsEntry
<1>3. Entries[i].key = below.key /\ Entries[i].filter = Negated(flt)
  BY <1>1, <1>2, NegatedEntryParts
<1>4. /\ Negated(flt).type = flt.type /\ Negated(flt).kind = flt.kind
      /\ Negated(flt).parts = flt.parts /\ (Negated(flt).neg <=> ~flt.neg)
  BY <1>2, NegatedParts
<1>5. ASSUME NEW S, NEW v PROVE Unsigned(S, i, v) = Unsigned(S, arg, v)
  <2>1. ArmTruth(Negated(flt), v) = ArmTruth(flt, v)
    BY <1>2, ArmHasNoSign
  <2>2. QED
    BY <1>3, <1>4, <2>1 DEF Unsigned
<1>6. QED
  BY <1>1, <1>2, <1>3, <1>4, <1>5

\* A connective is sent when all its operands are sent on one key.
LEMMA ConnectiveIsSent ==
    ASSUME Ordered, NEW i \in DOMAIN made, made[i].op \in {"and", "or"}, Entries[i].verdict = "entry"
    PROVE  LET flt == Entries[i].filter
           IN  /\ flt.type = "composite" /\ flt.kind = made[i].op /\ ~flt.neg
               /\ flt.parts = made[i].args
               /\ \A j \in made[i].args : Entries[j].verdict = "entry" /\ Entries[j].key = Entries[i].key
<1> DEFINE args == made[i].args
           key == Entries[First(args)].key
           flt == Composite(made[i].op, args)
<1>1. args \in SUBSET Nat /\ args # {} /\ Entries[i] = SameField(made[i].op, args, Entries)
  BY OperandsBefore, EntryOf, Places
<1>2. First(args) \in args
  BY <1>1, FirstIsThere
<1>3. /\ \A j \in args : Entries[j].verdict = "entry"
      /\ \A j, k \in args : Entries[j].key = Entries[k].key
      /\ Entries[i] = Entry(key, flt)
  <2>1. CASE \E j \in args : Entries[j].verdict # "entry" /\ Entries[i] = Entries[j]
    BY <2>1
  <2>2. CASE Entries[i] = Cannot
    BY <2>2 DEF Cannot
  <2>3. CASE /\ \A j \in args : Entries[j].verdict = "entry"
             /\ \A j, k \in args : Entries[j].key = Entries[k].key
             /\ Entries[i] = Entry(key, flt)
    BY <2>3
  <2>4. \/ \E j \in args : Entries[j].verdict # "entry" /\ Entries[i] = Entries[j]
        \/ Entries[i] = Cannot
        \/ /\ \A j \in args : Entries[j].verdict = "entry"
           /\ \A j, k \in args : Entries[j].key = Entries[k].key
           /\ Entries[i] = Entry(key, flt)
    <3> HIDE DEF args
    <3>1. QED
      BY <1>1, SameFieldParts DEF key, flt
  <2>5. QED
    BY <2>1, <2>2, <2>3, <2>4
<1>4. /\ flt.type = "composite" /\ flt.kind = made[i].op /\ ~flt.neg /\ flt.parts = args
      /\ IsFilter(flt)
  BY CompositeIsFilter
<1>5. \A j \in args : Entries[j].key = key
  BY <1>2, <1>3
<1> HIDE DEF key, flt
<1>6. Entries[i].key = key /\ Entries[i].filter = flt
  BY <1>3, <1>4, EntryParts
<1>7. QED
  BY <1>3, <1>4, <1>5, <1>6

\* What is_negative makes of a truth value.
LEMMA SignedParts ==
    ASSUME NEW flt, NEW t \in Three
    PROVE  /\ ~flt.neg => Signed(flt, t) = t
           /\ flt.neg => Signed(flt, t) = Neg(t)
           /\ Signed(flt, t) \in Three
           /\ t = Unknown => Signed(flt, t) = Unknown
  BY NegIsThree DEF Signed

\* No test reads a date its own way: where an entry could be sent, the server answers
\* what was meant.
LEMMA ServerAnswersAsMeant ==
    ASSUME Ordered, NEW r \in Rows, \A e \in Leaves : ~Calendar(e)
    PROVE  \A i \in DOMAIN made :
              Entries[i].verdict = "entry" => Served(r[Entries[i].key])[i] = Truth("sql", r)[i]
<1> DEFINE S(i) == Served(r[Entries[i].key])
           U(i) == Unsigned(S(i), i, r[Entries[i].key])
           M == Truth("sql", r)
           Meaning(i) == U(i) \in Three /\ S(i)[i] = M[i]
           T == {n \in Nat : n \in DOMAIN made /\ Entries[n].verdict = "entry" => Meaning(n)}
<1>1. ASSUME NEW i \in Nat, \A j \in 0 .. i - 1 : j \in T PROVE i \in T
  <2>1. SUFFICES ASSUME i \in DOMAIN made, Entries[i].verdict = "entry" PROVE Meaning(i)
    OBVIOUS
  <2>2. \A j \in 1 .. i - 1 : j \in DOMAIN made /\ (Entries[j].verdict = "entry" => Meaning(j))
    BY <1>1, <2>1, OperandsBefore
  <2>3. S(i)[i] = Signed(Entries[i].filter, U(i))
    BY <2>1, ServedOf
  <2>4. CASE made[i].op = "not"
    <3> DEFINE arg == made[i].arg
    <3>1. /\ arg \in 1 .. i - 1 /\ Entries[arg].verdict = "entry"
          /\ Entries[i].key = Entries[arg].key
          /\ Entries[i].filter.neg <=> ~Entries[arg].filter.neg
          /\ U(i) = U(arg)
      BY <2>1, <2>4, NegatedIsSent
    <3>2. Meaning(arg) /\ arg \in DOMAIN made
      BY <2>2, <3>1
    <3>3. S(arg)[arg] = Signed(Entries[arg].filter, U(arg))
      BY <3>1, <3>2, ServedOf
    <3>4. M[i] = Neg(M[arg])
      BY <2>1, <2>4, TruthOf
    <3> HIDE DEF S, U, M
    <3>5. U(i) \in Three /\ M[arg] = Signed(Entries[arg].filter, U(i))
      BY <3>1, <3>2, <3>3
    <3>6. Signed(Entries[i].filter, U(i)) = Neg(Signed(Entries[arg].filter, U(i)))
      BY <3>1, <3>5, NegIsThree DEF Signed
    <3>7. QED
      BY <2>3, <3>4, <3>5, <3>6
  <2>5. CASE made[i].op = "null"
    <3> DEFINE arg == made[made[i].arg]
               v == r[arg.field]
    <3>1. /\ arg.op = "field" /\ arg \in Leaves /\ Entries[i].key = Key(arg.field)
          /\ Entries[i].filter.type = "null" /\ Entries[i].filter.kind = "=" /\ ~Entries[i].filter.neg
      BY <2>1, <2>5, NullSent
    <3>2. r[Entries[i].key] = v
      BY <3>1 DEF Key, Calendar
    <3>3. U(i) = Lift(v = Null)
      BY <3>1, <3>2, ArmTruthOf DEF Unsigned
    <3>4. M[i] = Lift(Compare("=", v, 1) = Unknown)
      <4>1. made[i].arg \in DOMAIN made
        BY <2>1, <2>5, OperandsBefore
      <4>2. M[made[i].arg] = LeafTruth("sql", arg, r)
        BY <3>1, <4>1, TruthOf DEF IsLeaf
      <4>3. LeafTruth("sql", arg, r) = Compare("=", v, 1)
        BY <3>1 DEF LeafTruth
      <4>4. QED
        BY <2>1, <2>5, <4>2, <4>3, TruthOf
    <3>5. Compare("=", v, 1) = Unknown <=> v = Null
      BY EqualityIsUnknown DEF Null
    <3> HIDE DEF v, S, U, M
    <3>6. U(i) \in Three /\ M[i] = U(i)
      BY <3>3, <3>4, <3>5, LiftIsThree
    <3>7. QED
      BY <2>3, <3>1, <3>6, SignedParts
  <2>6. CASE made[i].op \in {"and", "or"}
    <3> DEFINE args == made[i].args
    <3>1. /\ Entries[i].filter.type = "composite" /\ Entries[i].filter.kind = made[i].op
          /\ ~Entries[i].filter.neg /\ Entries[i].filter.parts = args
          /\ \A j \in args : Entries[j].verdict = "entry" /\ Entries[j].key = Entries[i].key
      BY <2>1, <2>6, ConnectiveIsSent
    <3>2. \A j \in args : S(i)[j] = M[j]
      BY <2>1, <2>2, <2>6, <3>1, OperandsBefore
    <3>3. At(S(i), args) = At(M, args)
      BY <3>2 DEF At
    <3>4. U(i) = Combined(made[i].op, At(M, args))
      BY <3>1, <3>3 DEF Unsigned
    <3>5. M[i] = Combined(made[i].op, At(M, args))
      BY <2>1, <2>6, TruthOf
    <3>6. M[i] \in Three
      BY <2>1, TruthIsThree
    <3> HIDE DEF S, U, M
    <3>7. QED
      BY <2>3, <3>1, <3>4, <3>5, <3>6, SignedParts
  <2>7. CASE IsLeaf(made[i])
    <3> DEFINE e == made[i]
               flt == LeafEntry(e).filter
    <3>1. e \in Tests /\ e \in Leaves /\ Entries[i] = LeafEntry(e)
      BY <2>1, <2>7, Shapes, EntryOf DEF Leaves
    <3>2. Entries[i].key = Key(e.field)
      BY <2>1, <3>1, TestEntry
    <3>3. flt.type # "composite" /\ ArmTruth(flt, r[Key(e.field)]) \in Three
      BY <2>1, <3>1, ArmIsThree
    <3>4. U(i) = ArmTruth(flt, r[Key(e.field)])
      BY <3>1, <3>2, <3>3 DEF Unsigned
    <3>5. Signed(flt, ArmTruth(flt, r[Key(e.field)])) = LeafTruth("sql", e, r)
      BY <2>1, <3>1, TestIsAnswered
    <3>6. M[i] = LeafTruth("sql", e, r)
      BY <2>1, <2>7, TruthOf
    <3> HIDE DEF S, U, M
    <3>7. QED
      BY <2>3, <3>1, <3>3, <3>4, <3>5, <3>6
  <2>8. QED
    BY <2>1, <2>4, <2>5, <2>6, <2>7, Shapes
<1>2. \A i \in Nat : i \in T
  <2> HIDE DEF T
  <2>1. QED
    BY <1>1, CourseOfValues
<1>3. QED
  BY <1>2, Places

\* The conjuncts of a frame are its filters, those that are conjunctions taken apart.
LEMMA ConjunctsHold ==
    ASSUME Ordered, NEW r
    PROVE  LET M == Truth("sql", r)
           IN  (\A i \in filters : M[i] = True3) <=> (\A j \in Conjuncts : M[j] = True3)
<1> DEFINE M == Truth("sql", r)
<1>1. filters \subseteq DOMAIN made
  BY DEF Ordered, TypeOK
<1>2. \A i \in filters : M[i] = True3 <=> \A j \in Operands("and", i) : M[j] = True3
  <2>1. SUFFICES ASSUME NEW i \in filters
                 PROVE  M[i] = True3 <=> \A j \in Operands("and", i) : M[j] = True3
    OBVIOUS
  <2>2. CASE made[i].op = "and"
    <3>1. M[i] = Combined("and", At(M, made[i].args))
      BY <1>1, <2>2, TruthOf
    <3>2. At(M, made[i].args) \in SUBSET Three /\ At(M, made[i].args) # {}
      BY <1>1, <2>2, OperandValues
    <3>3. (\A t \in At(M, made[i].args) : t = True3) <=> (\A j \in made[i].args : M[j] = True3)
      BY DEF At
    <3>4. Operands("and", i) = made[i].args
      BY <2>2 DEF Operands
    <3> HIDE DEF M
    <3>5. QED
      BY <3>1, <3>2, <3>3, <3>4, CombinedValues
  <2>3. CASE made[i].op # "and"
    <3>1. Operands("and", i) = {i}
      BY <2>3 DEF Operands
    <3>2. QED
      BY <3>1
  <2>4. QED
    BY <2>2, <2>3
<1> HIDE DEF M
<1>3. (\A i \in filters : M[i] = True3) <=> (\A j \in Conjuncts : M[j] = True3)
  BY <1>2 DEF Conjuncts
<1>4. QED
  BY <1>3 DEF M

\* The conjuncts of a frame are expressions, and a filtered frame has some.
LEMMA ConjunctsAreMade ==
    Ordered => Conjuncts \subseteq DOMAIN made /\ (filters # {} => Conjuncts # {})
<1>1. SUFFICES ASSUME Ordered
               PROVE  Conjuncts \subseteq DOMAIN made /\ (filters # {} => Conjuncts # {})
  OBVIOUS
<1>2. \A i \in filters : Operands("and", i) \subseteq DOMAIN made /\ Operands("and", i) # {}
  <2>1. filters \subseteq DOMAIN made
    BY <1>1 DEF Ordered, TypeOK
  <2>2. QED
    BY <1>1, <2>1, OperandsAreMade DEF Ordered
<1>3. QED
  BY <1>2 DEF Conjuncts

\* The query carries a frame's filters when every conjunct has an entry.
LEMMA CarriedByEntries ==
    ASSUME Ordered, Carries(1)
    PROVE  /\ \A i \in Conjuncts : Entries[i].verdict = "entry"
           /\ CompileFilters(Entries).entries = FilterSet(Entries)
<1>1. CompileFilters(Entries).verdict = "filters"
  BY DEF Carries
<1>2. FailedAt(Entries, Conjuncts) = {}
  <2>1. SUFFICES ASSUME FailedAt(Entries, Conjuncts) # {} PROVE FALSE
    OBVIOUS
  <2>2. FailedAt(Entries, Conjuncts) \in SUBSET Nat /\ FailedAt(Entries, Conjuncts) \subseteq DOMAIN made
    BY ConjunctsAreMade, Places DEF FailedAt
  <2> DEFINE i == First(FailedAt(Entries, Conjuncts))
  <2>3. i \in DOMAIN made
    BY <2>1, <2>2, FirstIsThere
  <2>4. CompileFilters(Entries) = Entries[i]
    BY <2>1 DEF CompileFilters
  <2>5. Entries[i].verdict \in {"entry", "cannot", "refused"}
    BY <2>3, EveryPlaceSent DEF Sent
  <2> HIDE DEF i
  <2>6. QED
    BY <1>1, <2>4, <2>5
<1>3. QED
  BY <1>2 DEF FailedAt, CompileFilters

\* One entry per field, its conditions merged, keeps what all of them keep.
LEMMA MergedConditions ==
    ASSUME NEW r, Ordered, Carries(1), \A i \in Conjuncts : Served(r[Entries[i].key])[i] \in Three
    PROVE  (\A key \in DOMAIN FilterSet(Entries) :
               Combined("and", At(Served(r[key]), FilterSet(Entries)[key])) = True3)
           <=> \A i \in Conjuncts : Served(r[Entries[i].key])[i] = True3
<1> DEFINE keys == {Entries[i].key : i \in Conjuncts}
           on(key) == Merged(Entries, key)
<1>1. DOMAIN FilterSet(Entries) = keys /\ \A key \in keys : FilterSet(Entries)[key] = on(key)
  BY DEF FilterSet
<1>2. ASSUME NEW key \in keys
      PROVE  Combined("and", At(Served(r[key]), on(key))) = True3
             <=> \A i \in on(key) : Served(r[Entries[i].key])[i] = True3
  <2> DEFINE S == At(Served(r[key]), on(key))
  <2>1. \A i \in on(key) : i \in Conjuncts /\ Entries[i].key = key
    BY DEF Merged
  <2>2. on(key) # {}
    BY DEF Merged
  <2>3. S \in SUBSET Three /\ S # {}
    BY <2>1, <2>2 DEF At
  <2>4. (\A t \in S : t = True3) <=> (\A i \in on(key) : Served(r[Entries[i].key])[i] = True3)
    BY <2>1 DEF At
  <2> HIDE DEF S
  <2>5. Combined("and", S) = True3 <=> \A t \in S : t = True3
    BY <2>3, CombinedValues
  <2>6. QED
    BY <2>4, <2>5 DEF S
<1>3. (\A key \in keys : \A i \in on(key) : Served(r[Entries[i].key])[i] = True3)
      <=> \A i \in Conjuncts : Served(r[Entries[i].key])[i] = True3
  BY DEF Merged
<1> HIDE DEF keys, on
<1>4. QED
  BY <1>1, <1>2, <1>3

\* A row is kept by the query when every conjunct's answer is true.
LEMMA KeptByQuery ==
    ASSUME Ordered, Carries(1)
    PROVE  Kept(1) = {r \in Rows : \A key \in DOMAIN FilterSet(Entries) :
                         Combined("and", At(Served(r[key]), FilterSet(Entries)[key])) = True3}
<1>1. Kept(1) = PassingFilters(Entries, CompileFilters(Entries).entries)
  BY DEF Kept
<1>2. Kept(1) = PassingFilters(Entries, FilterSet(Entries))
  BY <1>1, CarriedByEntries
<1>3. QED
  BY <1>2, Zenon DEF PassingFilters, At, Served

\* The query keeps the rows that are meant, unless a date is tested by its days.
LEMMA QueryTierAgrees ==
    ASSUME Ordered, Carries(1), \A e \in Leaves : ~Calendar(e)
    PROVE  Kept(1) = Meant
<1>1. ASSUME NEW r \in Rows
      PROVE  (\A key \in DOMAIN FilterSet(Entries) :
                 Combined("and", At(Served(r[key]), FilterSet(Entries)[key])) = True3)
             <=> \A i \in filters : Truth("sql", r)[i] = True3
  <2>1. \A i \in Conjuncts : Served(r[Entries[i].key])[i] = Truth("sql", r)[i]
    BY CarriedByEntries, ConjunctsAreMade, ServerAnswersAsMeant
  <2>2. \A i \in Conjuncts : Served(r[Entries[i].key])[i] \in Three
    BY <2>1, ConjunctsAreMade, TruthIsThree
  <2>3. QED
    BY <2>1, <2>2, MergedConditions, ConjunctsHold
<1>2. QED
  BY <1>1, KeptByQuery DEF Meant, Passing

\* Remote and local execution of the same predicate agree (docs/mental-model.md:445),
\* whatever it is built of: every tier that carries the filters of a frame keeps the rows
\* they mean, with the exceptions Parted names.
THEOREM PredicatesTiersAgree == Spec => []TiersAgree
<1>1. TypeOK => TiersAgree
  <2>1. SUFFICES ASSUME Ordered, NEW tier \in Tiers, Carries(tier), ~Parted(tier)
                 PROVE  Kept(tier) = Meant
    BY DEF TiersAgree, Ordered
  <2>2. CASE tier = 1
    BY <2>1, <2>2, QueryTierAgrees DEF Parted
  <2>3. CASE tier = 2
    BY <2>1, <2>3, SqlTierAgrees DEF Parted
  <2>4. CASE tier = 3
    BY <2>1, <2>4, LocalTierAgrees DEF Parted
  <2>5. QED
    BY <2>1, <2>2, <2>3, <2>4 DEF Tiers
<1>2. QED
  BY <1>1, PredicatesTypeOK, PTL

(***************************************************************************)
(* Nulls stay out.                                                         *)
(***************************************************************************)
LEMMA OnlyUnknown ==
    ASSUME NEW op \in {"and", "or"}, NEW f, NEW places, places # {}, \A j \in places : f[j] = Unknown
    PROVE  Combined(op, At(f, places)) = Unknown
<1> DEFINE S == At(f, places)
<1>1. S \in SUBSET Three /\ S # {} /\ \A t \in S : t = Unknown
  BY DEF At, Three
<1> HIDE DEF S
<1>2. Combined(op, S) \in S
  BY <1>1, CombinedValues
<1>3. QED
  BY <1>1, <1>2 DEF S

\* Unknown is a truth value, is not true, and is its own negation.
LEMMA UnknownsDiffer == Unknown # True3 /\ Neg(Unknown) = Unknown /\ Unknown \in Three
  BY DEF Unknown, True3, Neg, Three

\* Where every test is of a null and none asks for it, every expression is unknown...
LEMMA UnknownThroughout ==
    ASSUME Ordered, NEW engine \in {"sql", "arrow"}, NEW r,
           \A i \in DOMAIN made : made[i].op # "null", \A e \in Leaves : r[e.field] = Null
    PROVE  \A i \in DOMAIN made : Truth(engine, r)[i] = Unknown
<1> DEFINE M == Truth(engine, r)
           T == {n \in Nat : n \in DOMAIN made => M[n] = Unknown}
<1>1. ASSUME NEW i \in Nat, \A j \in 0 .. i - 1 : j \in T PROVE i \in T
  <2>1. SUFFICES ASSUME i \in DOMAIN made PROVE M[i] = Unknown
    OBVIOUS
  <2>2. \A j \in 1 .. i - 1 : M[j] = Unknown
    BY <1>1, <2>1, OperandsBefore
  <2>3. CASE made[i].op = "not"
    BY <2>1, <2>2, <2>3, OperandsBefore, TruthOf, UnknownsDiffer
  <2>4. CASE made[i].op \in {"and", "or"}
    <3>1. M[i] = Combined(made[i].op, At(M, made[i].args))
      BY <2>1, <2>4, TruthOf
    <3>2. made[i].args # {} /\ \A j \in made[i].args : M[j] = Unknown
      BY <2>1, <2>2, <2>4, OperandsBefore
    <3> HIDE DEF M
    <3>3. QED
      BY <2>4, <3>1, <3>2, OnlyUnknown
  <2>5. CASE IsLeaf(made[i])
    <3>1. made[i] \in Tests /\ made[i] \in Leaves
      BY <2>1, <2>5, Shapes DEF Leaves
    <3>2. M[i] = LeafTruth(engine, made[i], r)
      BY <2>1, <2>5, TruthOf
    <3>3. QED
      BY <3>1, <3>2, LeafTruths
  <2>6. QED
    BY <2>1, <2>3, <2>4, <2>5, Shapes
<1>2. \A i \in Nat : i \in T
  <2> HIDE DEF T
  <2>1. QED
    BY <1>1, CourseOfValues
<1>3. QED
  BY <1>2, Places

\* ... and the server answers a null with unknown.
LEMMA ServerAnswersUnknown ==
    ASSUME Ordered, \A i \in DOMAIN made : made[i].op # "null"
    PROVE  \A i \in DOMAIN made : Entries[i].verdict = "entry" => Served(Null)[i] = Unknown
<1> DEFINE S == Served(Null)
           U(i) == Unsigned(S, i, Null)
           T == {n \in Nat : n \in DOMAIN made /\ Entries[n].verdict = "entry" => U(n) = Unknown}
<1>1. \A i \in DOMAIN made : Entries[i].verdict = "entry" /\ U(i) = Unknown => S[i] = Unknown
  BY ServedOf, SignedParts, UnknownsDiffer
<1>2. ASSUME NEW i \in Nat, \A j \in 0 .. i - 1 : j \in T PROVE i \in T
  <2>1. SUFFICES ASSUME i \in DOMAIN made, Entries[i].verdict = "entry" PROVE U(i) = Unknown
    OBVIOUS
  <2>2. \A j \in 1 .. i - 1 : j \in DOMAIN made /\ (Entries[j].verdict = "entry" => U(j) = Unknown)
    BY <1>2, <2>1, OperandsBefore
  <2>3. CASE made[i].op = "not"
    BY <2>1, <2>2, <2>3, NegatedIsSent
  <2>4. CASE made[i].op \in {"and", "or"}
    <3>1. /\ Entries[i].filter.type = "composite" /\ Entries[i].filter.kind = made[i].op
          /\ Entries[i].filter.parts = made[i].args
          /\ \A j \in made[i].args : Entries[j].verdict = "entry"
      BY <2>1, <2>4, ConnectiveIsSent
    <3>2. made[i].args # {} /\ \A j \in made[i].args : S[j] = Unknown
      BY <1>1, <2>1, <2>2, <2>4, <3>1, OperandsBefore
    <3>3. U(i) = Combined(made[i].op, At(S, made[i].args))
      BY <3>1 DEF Unsigned
    <3> HIDE DEF S, U
    <3>4. QED
      BY <2>4, <3>2, <3>3, OnlyUnknown
  <2>5. CASE IsLeaf(made[i])
    <3>1. made[i] \in Tests /\ Entries[i] = LeafEntry(made[i])
      BY <2>1, <2>5, Shapes, EntryOf
    <3>2. /\ Entries[i].filter.type # "composite"
          /\ ArmTruth(Entries[i].filter, Null) = Unknown
      BY <2>1, <3>1, ArmIsThree
    <3>3. QED
      BY <3>2 DEF Unsigned
  <2>6. QED
    BY <2>1, <2>3, <2>4, <2>5, Shapes
<1>3. \A i \in Nat : i \in T
  <2> HIDE DEF T
  <2>1. QED
    BY <1>2, CourseOfValues
<1>4. QED
  BY <1>1, <1>3, Places

\* A month is null where its timestamp is.
LEMMA MonthOfNull ==
    ASSUME NEW r \in Rows, NEW field \in Fields, r[field] = Null
    PROVE  r[Key(field)] = Null
<1>1. CASE field = "month"
  <2>1. r.time \in Values /\ r.month = Month(r.time) /\ r.month = Null
    BY <1>1, PredicatesAssumption DEF Fields
  <2>2. \A t \in Nat : 4 * (t \div 4) \in Nat
    OBVIOUS
  <2>3. r.time = Null
    BY <2>1, <2>2 DEF Month, Values, Null
  <2>4. QED
    BY <1>1, <2>3 DEF Key
<1>2. CASE field # "month"
  BY <1>2 DEF Key
<1>3. QED
  BY <1>1, <1>2

\* No tier keeps a row whose every tested field is null.
LEMMA NullRowsAreLeft ==
    ASSUME Ordered, filters # {}, \A i \in DOMAIN made : made[i].op # "null",
           NEW tier \in Tiers, Carries(tier), NEW r \in Rows, \A e \in Leaves : r[e.field] = Null
    PROVE  r \notin Kept(tier)
<1>1. filters \subseteq DOMAIN made
  BY DEF Ordered, TypeOK
<1>2. \A engine \in {"sql", "arrow"} : r \notin Passing(engine)
  BY <1>1, UnknownThroughout, UnknownsDiffer DEF Passing
<1>3. CASE tier = 1
  <2>1. \A i \in DOMAIN made : Entries[i].verdict = "entry" => r[Entries[i].key] = Null
    <3>1. \A key \in LeafKeys : r[key] = Null
      <4>1. \A e \in Leaves : e.field \in Fields
        BY Shapes, TestShape DEF Leaves
      <4>2. QED
        BY <4>1, MonthOfNull DEF LeafKeys
    <3>2. QED
      BY <3>1, EveryPlaceSent DEF Sent
  <2>2. \A i \in Conjuncts : Served(r[Entries[i].key])[i] = Unknown
    BY <1>3, <2>1, CarriedByEntries, ConjunctsAreMade, ServerAnswersUnknown
  <2>3. \E i \in Conjuncts : Served(r[Entries[i].key])[i] # True3
    BY <2>2, ConjunctsAreMade, UnknownsDiffer
  <2>4. \A i \in Conjuncts : Served(r[Entries[i].key])[i] \in Three
    BY <2>2, UnknownsDiffer
  <2>5. QED
    BY <1>3, <2>3, <2>4, MergedConditions, KeptByQuery
<1>4. CASE tier = 2
  <2>1. ~NullOfNot
    BY DEF NullOfNot
  <2>2. Kept(2) = Passing("sql")
    BY <2>1, SqlTierAgrees DEF Meant
  <2>3. QED
    BY <1>2, <1>4, <2>2
<1>5. CASE tier = 3
  BY <1>2, <1>5 DEF Kept
<1>6. QED
  BY <1>3, <1>4, <1>5 DEF Tiers

\* A negated predicate never resurrects NULLs (docs/mental-model.md:467), however deep the
\* negation: a row that is null wherever the filters look is kept by no tier, unless one
\* of them asks for null.
THEOREM PredicatesNullsStayOut == Spec => []NullsStayOut
<1>1. TypeOK => NullsStayOut
  <2>1. SUFFICES ASSUME Ordered, filters # {}, \A i \in DOMAIN made : made[i].op # "null",
                        NEW tier \in Tiers, Carries(tier), NEW r \in Kept(tier)
                 PROVE  \E e \in Leaves : \E f \in NamesField(e) : r[f] # Null
    BY DEF NullsStayOut, Settled, Ordered
  <2>2. r \in Rows
    BY <2>1 DEF Kept, PassingFilters, Passing, Tiers
  <2>3. \E e \in Leaves : r[e.field] # Null
    BY <2>1, <2>2, NullRowsAreLeft
  <2>4. QED
    BY <2>3 DEF NamesField
<1>2. QED
  BY <1>1, PredicatesTypeOK, PTL

=============================================================================

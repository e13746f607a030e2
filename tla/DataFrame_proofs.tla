--------------------------- MODULE DataFrame_proofs ---------------------------
(***************************************************************************)
(* Theorems about the plans a frame can hold, for every session, alphabet  *)
(* and length, and about the limits in them, for every table.              *)
(*                                                                         *)
(* A plan is always in the normal form its methods keep (dataframe.py,     *)
(* limit, offset and sort rewrite a node of their kind that they are       *)
(* written on): no limit stands on a limit and no sort on a sort, so the   *)
(* tiers, which read one limit and one sort, miss none.  And rewriting two *)
(* limits into one means what the two meant.                               *)
(***************************************************************************)
EXTENDS DataFrame, SequenceTheorems, TLAPS

Settled(p) ==
    \A i \in 1 .. Len(p) - 1 : p[i].op \in {"limit", "sort"} => p[i + 1].op # p[i].op

\* No step of a plan undoes or repeats the one right below it.
Normal == Settled(plan)

-----------------------------------------------------------------------------
(* The steps *)

\* A limit has a number of rows and an offset,
LEMMA LimitStep ==
    ASSUME NEW s \in Steps, s.op = "limit"
    PROVE  s.n \in Limits /\ s.offset \in Nat
  BY DEF Steps, Filters, Selects, Groups, SortSteps, LimitSteps, Derives, Pandas

\* and with those is a step.
LEMMA LimitIsStep ==
    ASSUME NEW n \in Limits, NEW k \in Nat
    PROVE  Limit(n, k) \in Steps /\ Limit(n, k).op = "limit"
  BY DEF Limit, Steps, LimitSteps

\* The tighter of two limits is one.
LEMMA TightestIsLimit ==
    ASSUME NEW n \in Limits, NEW m \in Limits
    PROVE  Tightest(n, m) \in Limits
  BY DEF Tightest

\* Users ask for limits.
LEMMA UserLimitsAreLimits == UserLimits \subseteq Limits /\ PreviewRows \subseteq Limits
  BY DEF UserLimits, PreviewRows, Limits, Unlimited, Unset

\* What a method adds to a plan is a step.
LEMMA WordsAreSteps == Alphabet \subseteq Steps
  BY DataFrameAssumption DEF Steps

\* A step on top of a plan that ends otherwise keeps it settled
LEMMA OnTop ==
    ASSUME NEW p \in Seq(Steps), Settled(p), NEW s \in Steps,
           p # <<>> /\ s.op \in {"limit", "sort"} => Last(p).op # s.op
    PROVE  Append(p, s) \in Seq(Steps) /\ Settled(Append(p, s))
<1>1. /\ Append(p, s) \in Seq(Steps) /\ Len(p) \in Nat /\ Len(Append(p, s)) = Len(p) + 1
      /\ \A i \in 1 .. Len(p) : Append(p, s)[i] = p[i]
      /\ Append(p, s)[Len(p) + 1] = s
  BY AppendProperties, LenProperties
<1>2. SUFFICES ASSUME NEW i \in 1 .. Len(p), p[i].op \in {"limit", "sort"}
               PROVE  Append(p, s)[i + 1].op # p[i].op
  BY <1>1 DEF Settled
<1>3. CASE i < Len(p)
  BY <1>1, <1>2, <1>3 DEF Settled
<1>4. CASE i = Len(p)
  BY <1>1, <1>2, <1>4, EmptySeq DEF Last
<1>. QED
  BY <1>1, <1>3, <1>4

\* A step in place of the last one, of the same kind, keeps it settled
LEMMA InPlace ==
    ASSUME NEW p \in Seq(Steps), p # <<>>, Settled(p), NEW s \in Steps, s.op = Last(p).op
    PROVE  Append(Front(p), s) \in Seq(Steps) /\ Settled(Append(Front(p), s))
<1>1. Len(p) \in Nat \ {0} /\ Front(p) \in Seq(Steps) /\ Len(Front(p)) = Len(p) - 1
      /\ \A i \in 1 .. Len(p) - 1 : Front(p)[i] = p[i]
  <2>1. Len(p) \in Nat \ {0} /\ \A i \in 1 .. Len(p) : p[i] \in Steps
    BY EmptySeq, ElementOfSeq
  <2>2. PICK n \in Nat : Len(p) = n + 1
    BY <2>1
  <2>3. Front(p) = SubSeq(p, 1, n)
    BY <2>2 DEF Front
  <2>4. n \in Int /\ 1 \in Int /\ \A i \in 1 .. n : p[i] \in Steps
    BY <2>1, <2>2
  <2>5. /\ SubSeq(p, 1, n) \in Seq(Steps)
        /\ Len(SubSeq(p, 1, n)) = IF 1 <= n THEN n - 1 + 1 ELSE 0
        /\ \A i \in 1 .. n - 1 + 1 : SubSeq(p, 1, n)[i] = p[1 + i - 1]
    BY <2>4, SubSeqProperties
  <2>6. (IF 1 <= n THEN n - 1 + 1 ELSE 0) = n
    OBVIOUS
  <2>7. ASSUME NEW i \in 1 .. n PROVE SubSeq(p, 1, n)[i] = p[i]
    <3>1. i \in 1 .. n - 1 + 1 /\ 1 + i - 1 = i
      OBVIOUS
    <3>. QED
      BY <2>5, <3>1
  <2>. QED
    BY <2>1, <2>2, <2>3, <2>5, <2>6, <2>7
<1>2. Settled(Front(p))
  BY <1>1 DEF Settled
<1>3. Front(p) # <<>> /\ s.op \in {"limit", "sort"} => Last(Front(p)).op # s.op
  <2>1. SUFFICES ASSUME Front(p) # <<>>, s.op \in {"limit", "sort"} PROVE Last(Front(p)).op # s.op
    OBVIOUS
  <2>2. Len(p) - 1 \in 1 .. Len(p) - 1
    BY <1>1, <2>1, EmptySeq
  <2>3. Last(Front(p)) = p[Len(p) - 1]
    BY <1>1, <2>2 DEF Last
  <2>. QED
    BY <1>1, <2>1, <2>2, <2>3 DEF Settled, Last
<1>. QED
  BY <1>1, <1>2, <1>3, OnTop

\* The last step of a plan is one.
LEMMA LastIsStep ==
    ASSUME NEW p \in Seq(Steps), p # <<>>
    PROVE  Last(p) \in Steps
<1>1. Len(p) \in Nat \ {0}
  BY EmptySeq
<1>. QED
  BY <1>1, ElementOfSeq DEF Last

-----------------------------------------------------------------------------
(* The methods that rewrite the node they are written on *)

\* A sort replaces the sort it is written on,
LEMMA SortedSettles ==
    ASSUME NEW p \in Seq(Steps), Settled(p)
    PROVE  Sorted(p) \in Seq(Steps) /\ Settled(Sorted(p))
<1>. DEFINE s == [op |-> "sort"]
<1>1. s \in Steps /\ s.op = "sort"
  BY DEF Steps, SortSteps
<1>2. CASE p # <<>> /\ Last(p).op = "sort"
  BY <1>2 DEF Sorted
<1>3. CASE ~(p # <<>> /\ Last(p).op = "sort")
  <2>1. Sorted(p) = Append(p, s)
    BY <1>3 DEF Sorted
  <2>. HIDE DEF s
  <2>. QED
    BY <1>1, <1>3, <2>1, OnTop
<1>. QED
  BY <1>2, <1>3

\* A limit in place of the one a plan ends in, or on top of any other plan
LEMMA LimitSettles ==
    ASSUME NEW p \in Seq(Steps), Settled(p), NEW q, NEW n \in Limits, NEW k \in Nat,
           q = IF p # <<>> /\ Last(p).op = "limit" THEN Append(Front(p), Limit(n, k))
               ELSE Append(p, Limit(n, k))
    PROVE  q \in Seq(Steps) /\ Settled(q)
<1>1. Limit(n, k) \in Steps /\ Limit(n, k).op = "limit"
  BY LimitIsStep
<1>2. CASE p # <<>> /\ Last(p).op = "limit"
  BY <1>1, <1>2, InPlace
<1>3. CASE ~(p # <<>> /\ Last(p).op = "limit")
  BY <1>1, <1>3, OnTop
<1>. QED
  BY <1>2, <1>3

\* a limit the limit,
LEMMA LimitedSettles ==
    ASSUME NEW p \in Seq(Steps), Settled(p), NEW n \in Limits
    PROVE  LimitedTo(p, n) \in Seq(Steps) /\ Settled(LimitedTo(p, n))
<1>1. CASE p # <<>> /\ Last(p).op = "limit"
  <2>1. Last(p).n \in Limits /\ Last(p).offset \in Nat
    BY <1>1, LastIsStep, LimitStep
  <2>2. Tightest(Last(p).n, n) \in Limits
    BY <2>1, TightestIsLimit
  <2>3. LimitedTo(p, n) = Append(Front(p), Limit(Tightest(Last(p).n, n), Last(p).offset))
    BY <1>1 DEF LimitedTo
  <2>. QED
    BY <1>1, <2>1, <2>2, <2>3, LimitSettles
<1>2. CASE ~(p # <<>> /\ Last(p).op = "limit")
  BY <1>2, LimitSettles DEF LimitedTo
<1>. QED
  BY <1>1, <1>2

\* and an offset is part of one: plans stay in normal form.
LEMMA SkippingSettles ==
    ASSUME NEW p \in Seq(Steps), Settled(p), NEW k \in Nat
    PROVE  Skipping(p, k) \in Seq(Steps) /\ Settled(Skipping(p, k))
<1>1. CASE p # <<>> /\ Last(p).op = "limit"
  <2>1. Last(p).n \in Limits /\ Last(p).offset \in Nat
    BY <1>1, LastIsStep, LimitStep
  <2>2. Last(p).offset + k \in Nat
    BY <2>1
  <2>3. Skipping(p, k) = Append(Front(p), Limit(Last(p).n, Last(p).offset + k))
    BY <1>1 DEF Skipping
  <2>. QED
    BY <1>1, <2>1, <2>2, <2>3, LimitSettles
<1>2. CASE ~(p # <<>> /\ Last(p).op = "limit")
  <2>1. Unset \in Limits
    BY DEF Limits, Unset
  <2>. QED
    BY <1>2, <2>1, LimitSettles DEF Skipping
<1>. QED
  BY <1>1, <1>2

-----------------------------------------------------------------------------
(* The frame *)

FInv == TypeOK /\ Normal

\* The invariant holds at first,
LEMMA FrameStarts == Init => FInv
<1>1. SUFFICES ASSUME Init PROVE FInv
  OBVIOUS
<1>2. plan = <<>> /\ options \in Options /\ outcome = [action |-> "none"] /\ MaxSteps \in Nat
  BY <1>1, DataFrameAssumption DEF Init, NoOutcome
<1>3. Len(<<>>) = 0 /\ <<>> \in Seq(Steps)
  BY EmptySeq
<1>4. TypeOK
  BY <1>2, <1>3 DEF TypeOK
<1>5. Normal
  BY <1>2, <1>3 DEF Normal, Settled
<1>. QED
  BY <1>4, <1>5 DEF FInv

\* when a method builds a frame,
LEMMA BuildKeeps ==
    ASSUME FInv, NEW p \in Seq(Steps), Settled(p), Build(p)
    PROVE  FInv'
<1>1. plan' = p /\ outcome' = [action |-> "none"] /\ options' = options /\ Within(p)
  BY DEF Build, NoOutcome
<1>2. Len(p) <= MaxSteps + 1
  BY <1>1, LenProperties, DataFrameAssumption DEF Within
<1>3. TypeOK'
  BY <1>1, <1>2 DEF FInv, TypeOK
<1>4. Normal'
  BY <1>1 DEF Normal, Settled
<1>. QED
  BY <1>3, <1>4 DEF FInv

\* when one is run,
LEMMA ActKeeps ==
    ASSUME FInv, NEW action \in {"collect", "preview"}, NEW n, NEW p, NEW warn,
           Act(action, n, p, warn)
    PROVE  FInv'
<1>1. outcome'.action = action /\ options' = options /\ plan' = plan
  BY DEF Act
<1>. QED
  BY <1>1 DEF FInv, TypeOK, Normal, Settled

\* and so after every step.
LEMMA FrameSteps == FInv /\ [Next]_vars => FInv'
<1>1. SUFFICES ASSUME FInv, [Next]_vars PROVE FInv'
  OBVIOUS
<1>2. plan \in Seq(Steps) /\ Settled(plan)
  BY <1>1 DEF FInv, TypeOK, Normal
<1>3. ASSUME NEW op \in {"select", "agg", "filter", "derive"}, Transform(op) PROVE FInv'
  <2>1. PICK s \in Alphabet : s.op = op /\ Build(Append(plan, s))
    BY <1>3 DEF Transform
  <2>2. Append(plan, s) \in Seq(Steps) /\ Settled(Append(plan, s))
    BY <1>2, <2>1, WordsAreSteps, OnTop
  <2>. QED
    BY <1>1, <2>1, <2>2, BuildKeeps
<1>4. CASE Sort
  BY <1>1, <1>2, <1>4, SortedSettles, BuildKeeps DEF Sort
<1>5. CASE LimitRows
  BY <1>1, <1>2, <1>5, UserLimitsAreLimits, LimitedSettles, BuildKeeps DEF LimitRows
<1>6. CASE Offset
  BY <1>1, <1>2, <1>6, SkippingSettles, BuildKeeps DEF Offset
<1>7. CASE MapPandas
  <2>. DEFINE s == [op |-> "pandas"]
  <2>1. s \in Steps /\ s.op = "pandas" /\ Build(Append(plan, s))
    BY <1>7 DEF MapPandas, Steps, Pandas
  <2>. HIDE DEF s
  <2>2. Append(plan, s) \in Seq(Steps) /\ Settled(Append(plan, s))
    BY <1>2, <2>1, OnTop
  <2>. QED
    BY <1>1, <2>1, <2>2, BuildKeeps
<1>8. CASE Collect
  BY <1>1, <1>8, ActKeeps DEF Collect
<1>9. CASE Preview
  BY <1>1, <1>9, ActKeeps DEF Preview
<1>10. CASE UNCHANGED vars
  BY <1>1, <1>10 DEF vars, FInv, TypeOK, Normal, Settled
<1>. QED
  BY <1>1, <1>3, <1>4, <1>5, <1>6, <1>7, <1>8, <1>9, <1>10 DEF Next

-----------------------------------------------------------------------------
(* The theorems *)

\* The two invariants below hold together, which is how they are proved.
THEOREM FrameInvariant == Spec => []FInv
<1>1. Init => FInv
  BY FrameStarts
<1>2. FInv /\ [Next]_vars => FInv'
  BY FrameSteps
<1>. QED
  BY <1>1, <1>2, PTL DEF Spec

\* Every plan a frame can hold is made of steps, limits and offsets of which are counts.
THEOREM FrameTypeOK == Spec => []TypeOK
<1>1. FInv => TypeOK
  BY DEF FInv
<1>. QED
  BY <1>1, FrameInvariant, PTL

\* No plan has a limit on a limit or a sort on a sort (DataFrame.limit, offset and sort),
\* which is why a tier may look for one of each at the top of what it compiles.
THEOREM FramePlansAreNormal == Spec => []Normal
<1>1. FInv => Normal
  BY DEF FInv
<1>. QED
  BY <1>1, FrameInvariant, PTL

-----------------------------------------------------------------------------
(* What limits mean *)

\* The rows of rest that a limit lets through
Count(n, rest) == IF rest < 0 THEN 0 ELSE IF n > 0 /\ n < rest THEN n ELSE rest

\* What a limit returns: a slice, row by row.
LEMMA LimitIsSlice ==
    ASSUME NEW S, NEW t \in Seq(S), NEW n \in Limits, NEW k \in Nat
    PROVE  /\ LocalLimit(t, n, k) \in Seq(S)
           /\ Len(LocalLimit(t, n, k)) = Count(n, Len(t) - k)
           /\ \A i \in 1 .. Count(n, Len(t) - k) : LocalLimit(t, n, k)[i] = t[k + i]
<1>. DEFINE rest == SubSeq(t, k + 1, Len(t))
<1>1. Len(t) \in Nat /\ \A i \in 1 .. Len(t) : t[i] \in S
  BY LenProperties, ElementOfSeq
<1>2. /\ rest \in Seq(S)
      /\ Len(rest) = IF k + 1 <= Len(t) THEN Len(t) - (k + 1) + 1 ELSE 0
      /\ \A i \in 1 .. Len(t) - (k + 1) + 1 : rest[i] = t[k + 1 + i - 1]
  <2>1. k + 1 \in Int /\ Len(t) \in Int /\ \A i \in k + 1 .. Len(t) : t[i] \in S
    BY <1>1
  <2>. QED
    BY <2>1, SubSeqProperties
<1>3. Len(rest) = IF Len(t) - k < 0 THEN 0 ELSE Len(t) - k
  BY <1>1, <1>2
<1>4. \A i \in 1 .. Len(rest) : rest[i] = t[k + i] /\ rest[i] \in S
  <2>1. \A i \in 1 .. Len(rest) : i \in 1 .. Len(t) - (k + 1) + 1 /\ k + 1 + i - 1 = k + i
    BY <1>1, <1>3
  <2>. QED
    BY <1>1, <1>2, <1>3, <2>1
<1>. HIDE DEF rest
<1>5. LocalLimit(t, n, k) = IF n > 0 /\ n < Len(rest) THEN SubSeq(rest, 1, n) ELSE rest
  BY DEF LocalLimit, rest
<1>6. CASE n > 0 /\ n < Len(rest)
  <2>1. n \in Nat \ {0} /\ Count(n, Len(t) - k) = n /\ \A i \in 1 .. n : rest[i] \in S
    BY <1>1, <1>3, <1>4, <1>6 DEF Limits, Count
  <2>2. /\ SubSeq(rest, 1, n) \in Seq(S)
        /\ Len(SubSeq(rest, 1, n)) = IF 1 <= n THEN n - 1 + 1 ELSE 0
        /\ \A i \in 1 .. n - 1 + 1 : SubSeq(rest, 1, n)[i] = rest[1 + i - 1]
    BY <2>1, SubSeqProperties
  <2>3. \A i \in 1 .. n : i \in 1 .. n - 1 + 1 /\ 1 + i - 1 = i /\ i \in 1 .. Len(rest)
    BY <1>1, <1>3, <1>6, <2>1
  <2>. QED
    BY <1>4, <1>5, <1>6, <2>1, <2>2, <2>3
<1>7. CASE ~(n > 0 /\ n < Len(rest))
  <2>1. Count(n, Len(t) - k) = Len(rest)
    BY <1>1, <1>3, <1>7 DEF Limits, Count
  <2>. QED
    BY <1>2, <1>4, <1>5, <1>7, <2>1
<1>. QED
  BY <1>6, <1>7

\* A limit written on a limit is the tighter of the two over the offset that was there
\* (DataFrame.limit, _tightest): for every table the one node that is kept returns the rows
\* the two would have returned.
THEOREM LimitsCompose ==
    ASSUME NEW S, NEW t \in Seq(S), NEW n \in Limits, NEW m \in Nat, NEW k \in Nat
    PROVE  LocalLimit(LocalLimit(t, n, k), m, 0) = LocalLimit(t, Tightest(n, m), k)
<1>. DEFINE once == LocalLimit(t, n, k)
            twice == LocalLimit(once, m, 0)
            tight == LocalLimit(t, Tightest(n, m), k)
<1>1. Len(t) \in Nat /\ m \in Limits /\ Tightest(n, m) \in Limits
  <2>1. m \in Limits
    BY DEF Limits, Unset
  <2>. QED
    BY <2>1, LenProperties, TightestIsLimit
<1>2. /\ once \in Seq(S) /\ Len(once) = Count(n, Len(t) - k)
      /\ \A i \in 1 .. Count(n, Len(t) - k) : once[i] = t[k + i]
  BY <1>1, LimitIsSlice
<1>3. /\ tight \in Seq(S) /\ Len(tight) = Count(Tightest(n, m), Len(t) - k)
      /\ \A i \in 1 .. Count(Tightest(n, m), Len(t) - k) : tight[i] = t[k + i]
  BY <1>1, LimitIsSlice
<1>. HIDE DEF once, tight
<1>4. /\ twice \in Seq(S) /\ Len(twice) = Count(m, Len(once) - 0)
      /\ \A i \in 1 .. Count(m, Len(once) - 0) : twice[i] = once[0 + i]
  <2>1. 0 \in Nat
    OBVIOUS
  <2>. QED
    BY ZenonT(60), <1>1, <1>2, <2>1, LimitIsSlice
<1>. HIDE DEF twice
<1>5. Count(m, Count(n, Len(t) - k) - 0) = Count(Tightest(n, m), Len(t) - k)
  BY <1>1 DEF Count, Tightest, Limits, Unset, Unlimited
<1>6. Count(m, Len(once) - 0) <= Len(once) /\ Len(once) \in Nat
  BY <1>1, <1>2 DEF Count, Limits
<1>7. \A i \in 1 .. Len(twice) : twice[i] = tight[i]
  <2>1. \A i \in 1 .. Len(twice) : i \in 1 .. Len(once) /\ 0 + i = i
    BY <1>1, <1>4, <1>6 DEF Count
  <2>. QED
    BY <1>2, <1>3, <1>4, <1>5, <2>1
<1>8. Len(twice) = Len(tight)
  BY <1>2, <1>3, <1>4, <1>5
<1>9. twice = tight
  BY <1>3, <1>4, <1>7, <1>8, SeqEqual
<1>. QED
  BY <1>9 DEF twice, tight, once

\* A limit that fewer rows came back than is a limit that cut nothing off.
LEMMA NotFullIsWhole ==
    ASSUME NEW S, NEW t \in Seq(S), NEW n \in Nat, NEW k \in Nat,
           n = Unlimited \/ Len(LocalLimit(t, n, k)) # n
    PROVE  LocalLimit(t, n, k) = LocalLimit(t, Unlimited, k)
<1>. DEFINE cut == LocalLimit(t, n, k)
            whole == LocalLimit(t, Unlimited, k)
<1>1. n \in Limits /\ Unlimited \in Limits /\ Len(t) \in Nat
  BY LenProperties DEF Limits, Unset, Unlimited
<1>2. /\ cut \in Seq(S) /\ Len(cut) = Count(n, Len(t) - k)
      /\ \A i \in 1 .. Count(n, Len(t) - k) : cut[i] = t[k + i]
  BY <1>1, LimitIsSlice
<1>3. /\ whole \in Seq(S) /\ Len(whole) = Count(Unlimited, Len(t) - k)
      /\ \A i \in 1 .. Count(Unlimited, Len(t) - k) : whole[i] = t[k + i]
  BY <1>1, LimitIsSlice
<1>4. n = Unlimited \/ Len(cut) # n
  OBVIOUS
<1>. HIDE DEF cut, whole
<1>5. Count(n, Len(t) - k) = Count(Unlimited, Len(t) - k)
  BY <1>1, <1>2, <1>4 DEF Count, Unlimited
<1>6. cut = whole
  BY <1>2, <1>3, <1>5, SeqEqual
<1>. QED
  BY <1>6 DEF cut, whole

\* Every limit a step is sent with is a number of rows, or none at all.
LEMMA AppliedIsNat ==
    ASSUME NEW o \in Options, NEW q, q.limit \in Limits
    PROVE  AppliedLimit(o, q) \in Nat
<1>1. FetchLimit \in Nat /\ ServerLimit \in Nat /\ StoredLimit \in Nat
  BY SplitterAssumption
<1>2. CASE ~Stored(o)
  BY <1>1, <1>2 DEF AppliedLimit, Limits, Unset
<1>3. CASE Stored(o)
  <2>1. o.source \in {"stored", "storedLimited", "storedAll"}
    BY <1>3 DEF Stored, Opaque, Options, Sources
  <2>. QED
    BY <1>1, <1>3, <2>1 DEF AppliedLimit, Unlimited
<1>. QED
  BY <1>2, <1>3

\* The comparison that warns (_truncation: rows returned == the limit applied) misses
\* nothing: a remote step that neither alarms nor leaves a notice returned every row its
\* query has after the offset, whosever the limit was and whatever the source.
THEOREM SilentStepIsWhole ==
    ASSUME NEW o \in Options, NEW q, NEW userLimit \in BOOLEAN, NEW S,
           Answer(q) \in Seq(S), q.limit \in Limits, q.offset \in Nat,
           LET f == Remote(o, q, userLimit) IN f.ok /\ ~f.alarm /\ ~f.notice
    PROVE  Remote(o, q, userLimit).rows = LocalLimit(Answer(q), Unlimited, q.offset)
<1>. DEFINE limit == AppliedLimit(o, q)
            rows == LocalLimit(Answer(q), limit, q.offset)
            full == limit # Unlimited /\ Len(rows) = limit
            f == Remote(o, q, userLimit)
<1>1. limit \in Nat
  BY AppliedIsNat
<1>2. ~Unknown(q)
  <2>1. ~Rejected.ok
    BY DEF Rejected
  <2>. QED
    BY <2>1 DEF Remote
<1>3. f.rows = rows /\ f.alarm = (full /\ ~userLimit) /\ f.notice = (full /\ userLimit)
  BY <1>2, Zenon DEF Remote
<1>4. ~full
  BY <1>3
<1>5. rows = LocalLimit(Answer(q), Unlimited, q.offset)
  <2>. HIDE DEF limit
  <2>. QED
    BY <1>1, <1>4, NotFullIsWhole
<1>. QED
  BY <1>3, <1>5

\* A frame whose rows are of S.
Holding(S) ==
    [ok : {TRUE}, rows : Seq(S), cols : SUBSET Columns, planned : SUBSET Columns, remote : BOOLEAN,
     alarm : BOOLEAN, notice : BOOLEAN]

\* Nor does the one on decomposition_row_cap where it is applied in this process
\* (_local_truncation): a cap that does not alarm kept every row, and hushed no alarm below it.
THEOREM SilentCapIsWhole ==
    ASSUME NEW S, NEW f \in Holding(S), NEW cap \in Nat \ {0}, ~Capped(f, cap).alarm
    PROVE  Capped(f, cap).rows = f.rows /\ ~f.alarm
<1>. DEFINE cut == LocalLimit(f.rows, cap, 0)
            whole == LocalLimit(f.rows, Unlimited, 0)
<1>1. Capped(f, cap).rows = cut /\ Capped(f, cap).alarm = (f.alarm \/ Len(cut) = cap)
  <2>. DEFINE then == Then(f, cut, f.cols, f.planned)
  <2>1. DOMAIN then = DOMAIN f /\ then.rows = cut /\ then.alarm = f.alarm
    BY DEF Then, Holding
  <2>2. DOMAIN f = {"ok", "rows", "cols", "planned", "remote", "alarm", "notice"}
    BY DEF Holding
  <2>3. Capped(f, cap) = [then EXCEPT !.alarm = then.alarm \/ Len(cut) = cap]
    BY DEF Capped
  <2>. HIDE DEF then, cut
  <2>. QED
    BY <2>1, <2>2, <2>3
<1>2. f.rows \in Seq(S) /\ Len(f.rows) \in Nat
  BY LenProperties DEF Holding
<1>3. cut = whole
  <2>1. cap \in Nat /\ 0 \in Nat /\ Len(cut) # cap
    BY <1>1
  <2>. QED
    BY <1>2, <2>1, NotFullIsWhole
<1>4. whole = f.rows
  <2>1. /\ whole \in Seq(S) /\ Len(whole) = Count(Unlimited, Len(f.rows) - 0)
        /\ \A i \in 1 .. Count(Unlimited, Len(f.rows) - 0) : whole[i] = f.rows[0 + i]
    <3>1. Unlimited \in Limits /\ 0 \in Nat
      BY DEF Limits, Unset, Unlimited
    <3>. QED
      BY ZenonT(60), <1>2, <3>1, LimitIsSlice
  <2>2. Count(Unlimited, Len(f.rows) - 0) = Len(f.rows)
    BY <1>2 DEF Count, Unlimited
  <2>. HIDE DEF whole
  <2>3. \A i \in 1 .. Len(f.rows) : 0 + i = i
    OBVIOUS
  <2>. QED
    BY <1>2, <2>1, <2>2, <2>3, SeqEqual
<1>. QED
  BY <1>1, <1>3, <1>4
=============================================================================

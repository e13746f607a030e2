--------------------------- MODULE QueryRun_proofs ---------------------------
(***************************************************************************)
(* Theorems about HttpTransport.run and .plan, for every set of jobs,      *)
(* deadline, pace and retry limit, and for a server that repeats the line  *)
(* of a reported job as well as for one that does not.                     *)
(*                                                                         *)
(* The inductive invariant says where each held line came from: it repeats *)
(* what became of its job, or it is the server's "Unable to find job" for  *)
(* a job whose line was lost or that was asked about again; and that a     *)
(* line which ended a job, once it has arrived, is never given up.         *)
(***************************************************************************)
EXTENDS QueryRun, WellFoundedInduction, TLAPS

\* Every non-empty set of natural numbers has a least element.
LEMMA LeastNatural ==
    ASSUME NEW T \in SUBSET Nat, T # {}
    PROVE  \E n \in T : \A m \in T : n <= m
<1>1. PICK n \in T : \A m \in T : ~ (<<m, n>> \in OpToRel(<, Nat))
  BY NatLessThanWellFounded, WFMin
<1>2. \A m \in T : ~ (m < n)
  BY <1>1 DEF OpToRel
<1>. QED
  BY <1>2

\* First picks one of the jobs it is given, and none of them was submitted earlier.
LEMMA FirstIsFirst ==
    ASSUME NEW S \in SUBSET Jobs, S # {}
    PROVE  /\ First(S) \in S
           /\ Submitted[1] \in S => First(S) = Submitted[1]
<1>. DEFINE T == {i \in 1 .. Len(Submitted) : Submitted[i] \in S}
<1>1. T \in SUBSET Nat /\ T # {}
  <2>1. PICK j \in S : j \in {Submitted[i] : i \in 1 .. Len(Submitted)}
    BY Zenon, RunAssumption
  <2>2. PICK i \in 1 .. Len(Submitted) : Submitted[i] = j
    BY <2>1
  <2>3. QED
    BY <2>1, <2>2
<1>2. PICK i \in T : \A k \in T : i <= k
  BY <1>1, LeastNatural
<1>3. \A k \in 1 .. i - 1 : Submitted[k] \notin S
  <2>1. SUFFICES ASSUME NEW k \in 1 .. i - 1, Submitted[k] \in S PROVE FALSE
    OBVIOUS
  <2>2. i \in 1 .. Len(Submitted) /\ Len(Submitted) \in Nat
    BY RunAssumption
  <2>3. k \in T /\ ~(i <= k)
    BY <2>1, <2>2
  <2>4. QED
    BY <1>2, <2>3
<1>4. \E j \in S : \E n \in 1 .. Len(Submitted) :
         Submitted[n] = j /\ \A k \in 1 .. n - 1 : Submitted[k] \notin S
  BY <1>2, <1>3
<1>5. /\ First(S) \in S
      /\ \E n \in 1 .. Len(Submitted) :
            Submitted[n] = First(S) /\ \A k \in 1 .. n - 1 : Submitted[k] \notin S
  BY <1>4 DEF First
<1>6. ASSUME Submitted[1] \in S
      PROVE  First(S) = Submitted[1]
  <2>1. PICK n \in 1 .. Len(Submitted) :
           Submitted[n] = First(S) /\ \A k \in 1 .. n - 1 : Submitted[k] \notin S
    BY <1>5
  <2>2. Len(Submitted) \in Nat /\ n \in Nat /\ n >= 1
    BY RunAssumption
  <2>3. n = 1
    <3>1. CASE n > 1
      <4>1. 1 \in 1 .. n - 1
        BY <3>1, <2>2
      <4>. QED
        BY <4>1, <2>1, <1>6
    <3>. QED
      BY <3>1, <2>2
  <2>. QED
    BY <2>1, <2>3
<1>. QED
  BY <1>5, <1>6

-----------------------------------------------------------------------------
Phase ==
    /\ pc = "post" => submitted = 0
    /\ pc \in {"posted", "loop", "wait"} => submitted = 1
    /\ pc = "done" <=> outcome.kind # "none"
    /\ pc # "done" => outcome = None
    /\ pc \in {"post", "posted"} => told = {} /\ lines = [j \in Jobs |-> NoLine]
    /\ pc = "wait" => previous \in SUBSET Jobs

\* Where the lines held come from, and that a line which ends a job stays with the client.
Provenance ==
    /\ reasked \subseteq told
    /\ \A j \in told \cup lost : truth[j] # "running"
    /\ \A j \in told : /\ lines[j] # NoLine
                       /\ truth[j] \in Terminal => lines[j] \in Terminal
    /\ \A j \in Jobs : lines[j] \notin {NoLine, "executing", "unknown_job"} =>
                          lines[j] = truth[j] /\ j \in told
    /\ \A j \in Jobs : lines[j] = "unknown_job" => ~Redelivers /\ j \in lost \cup reasked

\* A wait about a job that had answered is on record.
Recorded == pc = "wait" => previous \cap told \subseteq reasked

\* No job is forgotten by the client: it is asked about, its line has come, or was lost.
Accounted ==
    /\ pc = "loop" => Jobs \subseteq Pending \cup told \cup lost
    /\ pc = "wait" => Jobs \subseteq previous \cup told \cup lost

Clock ==
    /\ pc \in {"post", "posted"} => now = 0
    /\ pc = "wait" => now < budget + retries * MaxSend
    /\ OvershootBounded

\* What an ending says, and of which job.
Verdicts ==
    /\ AnswerIsSound
    /\ NoSpuriousError

RInv == TypeOK /\ Phase /\ Provenance /\ Recorded /\ Accounted /\ Clock /\ Verdicts
        /\ ResolvedIsNotAwaited

-----------------------------------------------------------------------------
(* The accumulator and one response *)

\* Merging a line never forgets a terminal one, and always leaves one if it got one.
LEMMA KeepFacts ==
    ASSUME NEW held \in LineOrNone, NEW line \in LineOrNone
    PROVE  /\ Keep(held, line) \in {held, line}
           /\ line = NoLine => Keep(held, line) = held
           /\ held # NoLine => Keep(held, line) # NoLine
           /\ line # NoLine => Keep(held, line) # NoLine
           /\ held \in Terminal => Keep(held, line) \in Terminal
           /\ line \in Terminal => Keep(held, line) \in Terminal
BY DEF Keep, Terminal, NoLine, LineOrNone, Kinds

\* A response about the jobs the client asked for, those of them that had answered being on
\* record: every line still has its source, and no job is forgotten.
LEMMA Responded ==
    ASSUME TypeOK, Provenance, NEW asked \in SUBSET Jobs,
           asked \cap told \subseteq reasked,
           Jobs \subseteq asked \cup told \cup lost,
           Respond(asked), UNCHANGED <<truth, lost, reasked>>
    PROVE  /\ lines' \in [Jobs -> LineOrNone] /\ footer' \subseteq Jobs /\ told' \subseteq Jobs
           /\ Provenance'
           /\ Jobs \subseteq Pending' \cup told' \cup lost'
<1>1. PICK final \in SUBSET Deliverable(asked), interim \in SUBSET asked, late \in BOOLEAN :
         \E unknown \in SUBSET (asked \cap Spent), stale \in SUBSET final :
               Merge(asked, final, unknown, interim, late, stale)
  BY DEF Respond
<1>2. PICK unknown \in SUBSET (asked \cap Spent), stale \in SUBSET final :
               Merge(asked, final, unknown, interim, late, stale)
  BY <1>1
<1>. DEFINE last(j)  == IF j \in final THEN truth[j]
                        ELSE IF j \in unknown THEN "unknown_job" ELSE NoLine
            aside(j) == IF j \in interim THEN "executing" ELSE NoLine
<1>3. /\ lines' = [j \in Jobs |-> IF late THEN Keep(Keep(lines[j], last(j)), aside(j))
                                          ELSE Keep(Keep(lines[j], aside(j)), last(j))]
      /\ footer' = (asked \ (final \cup Spent)) \cup stale
      /\ told' = told \cup final
  BY <1>2 DEF Merge
<1>4. /\ final \subseteq asked
      /\ \A j \in final : truth[j] # "running"
      /\ \A j \in unknown : ~Redelivers /\ j \in lost \cup reasked
      /\ Spent \subseteq told \cup lost
  BY DEF Deliverable, Spent
<1>5. \A j \in Jobs : /\ lines[j] \in LineOrNone
                      /\ aside(j) \in {NoLine, "executing"}
                      /\ last(j) \in LineOrNone
  BY <1>4 DEF TypeOK, LineOrNone, Kinds, Endings, Terminal, NoLine
<1>6. \A j \in Jobs :
         /\ lines'[j] \in {lines[j], last(j), aside(j)}
         /\ lines[j] # NoLine \/ last(j) # NoLine => lines'[j] # NoLine
         /\ lines[j] \in Terminal \/ last(j) \in Terminal => lines'[j] \in Terminal
         /\ j \notin asked => lines'[j] = lines[j]
  <2>. SUFFICES ASSUME NEW j \in Jobs
                PROVE  /\ lines'[j] \in {lines[j], last(j), aside(j)}
                       /\ lines[j] # NoLine \/ last(j) # NoLine => lines'[j] # NoLine
                       /\ lines[j] \in Terminal \/ last(j) \in Terminal
                             => lines'[j] \in Terminal
                       /\ j \notin asked => lines'[j] = lines[j]
    OBVIOUS
  <2>1. /\ lines[j] \in LineOrNone /\ aside(j) \in LineOrNone /\ last(j) \in LineOrNone
        /\ j \notin asked => aside(j) = NoLine /\ last(j) = NoLine
    BY <1>4, <1>5 DEF LineOrNone, Kinds
  <2>2. CASE late
    <3>1. lines'[j] = Keep(Keep(lines[j], last(j)), aside(j))
      BY <1>3, <2>2
    <3>. HIDE DEF last, aside
    <3>2. Keep(lines[j], last(j)) \in LineOrNone
      BY <2>1, KeepFacts
    <3>. QED
      BY <2>1, <3>1, <3>2, KeepFacts
  <2>3. CASE ~late
    <3>1. lines'[j] = Keep(Keep(lines[j], aside(j)), last(j))
      BY <1>3, <2>3
    <3>. HIDE DEF last, aside
    <3>2. Keep(lines[j], aside(j)) \in LineOrNone
      BY <2>1, KeepFacts
    <3>. QED
      BY <2>1, <3>1, <3>2, KeepFacts
  <2>. QED
    BY <2>2, <2>3
<1>7. Provenance'
  <2>1. reasked' \subseteq told' /\ \A j \in told' \cup lost' : truth'[j] # "running"
    BY <1>3, <1>4 DEF Provenance
  <2>2. \A j \in told' : /\ lines'[j] # NoLine
                         /\ truth'[j] \in Terminal => lines'[j] \in Terminal
    <3>1. ASSUME NEW j \in told
          PROVE  lines'[j] # NoLine /\ (truth[j] \in Terminal => lines'[j] \in Terminal)
      BY <1>6 DEF Provenance, TypeOK
    <3>2. ASSUME NEW j \in final
          PROVE  lines'[j] # NoLine /\ (truth[j] \in Terminal => lines'[j] \in Terminal)
      BY <1>4, <1>6 DEF TypeOK, Endings, NoLine
    <3>. QED
      BY <1>3, <3>1, <3>2
  <2>3. \A j \in Jobs : lines'[j] \notin {NoLine, "executing", "unknown_job"} =>
                            lines'[j] = truth'[j] /\ j \in told'
    BY <1>3, <1>5, <1>6 DEF Provenance
  <2>4. \A j \in Jobs : lines'[j] = "unknown_job" => ~Redelivers /\ j \in lost' \cup reasked'
    BY <1>4, <1>5, <1>6 DEF Provenance, TypeOK, Endings, NoLine
  <2>. QED
    BY <2>1, <2>2, <2>3, <2>4 DEF Provenance
<1>8. /\ lines' \in [Jobs -> LineOrNone]
      /\ footer' \subseteq Jobs
      /\ told' \subseteq Jobs
  <2>1. \A j \in Jobs : lines'[j] \in LineOrNone
    BY <1>5, <1>6 DEF LineOrNone, Kinds
  <2>. QED
    BY <1>3, <1>4, <2>1 DEF TypeOK
<1>9. Jobs \subseteq Pending' \cup told' \cup lost'
  <2>. SUFFICES ASSUME NEW j \in Jobs, j \notin told', j \notin lost
                PROVE  j \in Pending'
    OBVIOUS
  <2>1. j \in asked /\ j \notin final \cup Spent
    BY <1>3, <1>4
  <2>2. lines'[j] \notin Terminal
    BY <1>4, <1>7 DEF Provenance, Terminal, NoLine
  <2>. QED
    BY <1>3, <2>1, <2>2 DEF Pending
<1>. QED
  BY <1>7, <1>8, <1>9

-----------------------------------------------------------------------------
(* The inductive invariant *)

\* The time of several requests is a number.
LEMMA Product ==
    ASSUME NEW r \in Nat
    PROVE  r * MaxSend \in Nat
BY RunAssumption

\* One request more, of those that may be replayed, stays within the bound.
LEMMA Growth ==
    ASSUME NEW r \in 0 .. MaxRetries
    PROVE  /\ r * MaxSend \in Nat
           /\ r * MaxSend + MaxSend <= (MaxRetries + 1) * MaxSend
           /\ (r + 1) * MaxSend = r * MaxSend + MaxSend
BY RunAssumption

\* The invariant holds at first,
LEMMA InitRInv == Init => RInv
<1>. SUFFICES ASSUME Init PROVE RInv
  OBVIOUS
<1>. USE DEF Init
<1>1. TypeOK
  <2>1. plan_only \in BOOLEAN /\ budget \in Nat /\ retries \in 0 .. MaxRetries
    BY RunAssumption
  <2>2. /\ truth \in [Jobs -> {"running"} \cup Endings]
        /\ lines \in [Jobs -> LineOrNone]
    BY DEF LineOrNone
  <2>3. outcome \in [kind : OutcomeKinds, jobs : SUBSET Jobs]
    BY DEF OutcomeKinds, None
  <2>4. /\ told \subseteq Jobs /\ footer \subseteq Jobs /\ lost \subseteq Jobs
        /\ reasked \subseteq Jobs
        /\ submitted \in {0, 1} /\ now \in Nat
        /\ pc \in {"post", "posted", "loop", "wait", "done"}
    OBVIOUS
  <2>5. previous \in (SUBSET Jobs) \cup {NotYet}
    OBVIOUS
  <2>. QED
    BY <2>1, <2>2, <2>3, <2>4, <2>5 DEF TypeOK
<1>2. Phase /\ Provenance /\ Recorded /\ Accounted
  <2>1. Phase
    BY DEF Phase, None
  <2>2. Provenance
    BY DEF Provenance, NoLine
  <2>3. Recorded /\ Accounted
    BY DEF Recorded, Accounted
  <2>. QED
    BY <2>1, <2>2, <2>3
<1>3. Clock
  BY RunAssumption DEF Clock, OvershootBounded
<1>4. Verdicts /\ ResolvedIsNotAwaited
  BY DEF Verdicts, AnswerIsSound, NoSpuriousError, ResolvedIsNotAwaited, None
<1>. QED
  BY <1>1, <1>2, <1>3, <1>4 DEF RInv

\* The clock after a request, and after a pause.
LEMMA ClockOfARequest ==
    ASSUME TypeOK, Phase, Clock, Elapse, pc \in {"posted", "wait"}
    PROVE  /\ now' \in Nat
           /\ pc = "posted" => now' <= MaxSend
           /\ pc = "wait" => now' < budget + retries * MaxSend + MaxSend
           /\ now' <= MaxSend \/ now' < budget + (MaxRetries + 1) * MaxSend
<1>1. PICK d \in 0 .. MaxSend : now' = now + d
  BY DEF Elapse
<1>2. retries \in 0 .. MaxRetries /\ budget \in Nat /\ now \in Nat /\ MaxSend \in Nat
  BY RunAssumption DEF TypeOK
<1>3. retries * MaxSend \in Nat /\ (MaxRetries + 1) * MaxSend \in Nat
      /\ retries * MaxSend + MaxSend <= (MaxRetries + 1) * MaxSend
  <2>1. MaxRetries + 1 \in Nat
    BY RunAssumption
  <2>. QED
    BY <1>2, <2>1, Growth, Product
<1>. QED
  <2>1. CASE pc = "posted"
    BY <1>1, <1>2, <2>1 DEF Clock
  <2>2. CASE pc = "wait"
    <3>. DEFINE a == retries * MaxSend
                b == (MaxRetries + 1) * MaxSend
    <3>1. now < budget + a
      BY <2>2 DEF Clock
    <3>2. a \in Nat /\ b \in Nat /\ a + MaxSend <= b
      BY <1>3
    <3>3. now' \in Nat /\ now' < budget + a + MaxSend /\ now' < budget + b
      <4>. HIDE DEF a, b
      <4>. QED
        BY <1>1, <1>2, <3>1, <3>2
    <3>4. now' \in Nat
      BY <3>3
    <3>5. now' < budget + retries * MaxSend + MaxSend
      BY <3>3
    <3>6. now' < budget + (MaxRetries + 1) * MaxSend
      BY <3>3
    <3>. QED
      BY <2>2, <3>4, <3>5, <3>6
  <2>. QED
    BY <2>1, <2>2

\* An ending that is neither an answer nor about a missing one claims nothing of a job.
LEMMA PlainEnd ==
    ASSUME NEW kind \in OutcomeKinds \ {"none", "answer", "no_lines", "no_answer"},
           NEW jobs \in SUBSET Jobs, End(kind, jobs)
    PROVE  /\ outcome' \in [kind : OutcomeKinds, jobs : SUBSET Jobs]
           /\ pc' = "done"
           /\ Phase' /\ Recorded' /\ Accounted' /\ Verdicts'
<1>1. pc' = "done" /\ outcome' = [kind |-> kind, jobs |-> jobs]
  BY DEF End
<1>2. outcome'.kind = kind
  BY <1>1
<1>3. Phase' /\ Recorded' /\ Accounted'
  BY <1>1, <1>2 DEF Phase, Recorded, Accounted
<1>4. Verdicts'
  BY <1>2 DEF Verdicts, AnswerIsSound, NoSpuriousError
<1>. QED
  BY <1>1, <1>3, <1>4

\* While the call goes on there is no verdict.
LEMMA NotEnded ==
    ASSUME outcome' = None
    PROVE  Verdicts'
BY DEF Verdicts, AnswerIsSound, NoSpuriousError, None

\* Nothing is asked, and no deadline passes.
LEMMA NothingAwaited ==
    ASSUME ResolvedIsNotAwaited, UNCHANGED <<truth, reasked>>, outcome'.kind # "timeout"
    PROVE  ResolvedIsNotAwaited'
BY DEF ResolvedIsNotAwaited

\* A job that is still pending although its line has come was planned.
LEMMA PendingWasPlanned ==
    ASSUME TypeOK, Provenance
    PROVE  Pending \cap told \subseteq {j \in Jobs : truth[j] \in {"planned", "planned_missing"}}
<1>. SUFFICES ASSUME NEW j \in Pending \cap told
              PROVE  j \in Jobs /\ truth[j] \in {"planned", "planned_missing"}
  OBVIOUS
<1>1. j \in Jobs /\ truth[j] \in Endings /\ truth[j] \notin Terminal
  BY DEF TypeOK, Provenance, Pending
<1>. QED
  BY <1>1 DEF Endings, Terminal

\* Nothing of what the lines say changes.
LEMMA SameLines ==
    ASSUME UNCHANGED <<truth, told, lines, lost, reasked>>, Provenance
    PROVE  Provenance'
BY DEF Provenance

\* when a job ends,
LEMMA JobEndsRInv ==
    ASSUME RInv, NEW j \in Jobs, JobEnds(j)
    PROVE  RInv'
<1>. USE DEF RInv
<1>1. PICK ending \in Endings : truth' = [truth EXCEPT ![j] = ending]
  BY DEF JobEnds
<1>2. /\ truth[j] = "running" /\ submitted > 0
      /\ UNCHANGED <<plan_only, budget, told, submitted, pc, lines, footer, previous,
                     retries, now, outcome, lost, reasked>>
  BY DEF JobEnds, accumulator
<1>3. TypeOK'
  <2>1. Endings' = Endings
    BY <1>2 DEF Endings
  <2>2. truth' \in [Jobs -> {"running"} \cup Endings']
    BY <1>1, <2>1 DEF TypeOK
  <2>. QED
    BY <1>2, <2>2 DEF TypeOK
<1>4. j \notin told \cup lost /\ \A k \in Jobs \ {j} : truth'[k] = truth[k]
  BY <1>1, <1>2 DEF Provenance, TypeOK
<1>5. Phase'
  BY <1>2 DEF Phase
<1>6. Provenance'
  BY <1>2, <1>4 DEF Provenance, TypeOK
<1>7. Recorded'
  BY <1>2 DEF Recorded
<1>8. Accounted'
  BY <1>2 DEF Accounted, Pending
<1>9. Clock'
  BY <1>2 DEF Clock, OvershootBounded
<1>10. Verdicts'
  <2>1. AnswerIsSound'
    BY <1>2, <1>4 DEF Verdicts, AnswerIsSound
  <2>2. NoSpuriousError'
    <3>1. \A k \in outcome.jobs : truth[k] = "no_result" => truth'[k] = "no_result"
      BY <1>2, <1>4 DEF TypeOK
    <3>. QED
      BY <1>2, <3>1 DEF Verdicts, NoSpuriousError
  <2>. QED
    BY <2>1, <2>2 DEF Verdicts
<1>11. ResolvedIsNotAwaited'
  BY <1>2, <1>4 DEF ResolvedIsNotAwaited, Provenance
<1>. QED
  BY <1>3, <1>5, <1>6, <1>7, <1>8, <1>9, <1>10, <1>11

\* when the POST is sent,
LEMMA PostRInv ==
    ASSUME RInv, Post
    PROVE  RInv'
<1>. USE DEF RInv
<1>1. /\ pc = "post" /\ submitted = 0 /\ told = {} /\ lines = [j \in Jobs |-> NoLine]
      /\ outcome = None /\ now = 0
      /\ UNCHANGED <<plan_only, budget, truth, told, lines, footer, previous, retries, now,
                     lost, reasked>>
  BY DEF Post, Phase, Clock, accumulator
<1>2. Provenance' /\ Clock'
  BY <1>1, RunAssumption, SameLines DEF Clock, OvershootBounded, TypeOK, Post, End
<1>3. CASE submitted' = submitted + 1 /\ pc' = "posted" /\ outcome' = outcome
  <2>1. TypeOK'
    BY <1>1, <1>3 DEF TypeOK, Endings
  <2>2. Phase'
    BY <1>1, <1>3 DEF Phase, None
  <2>3. Recorded' /\ Accounted'
    BY <1>3 DEF Recorded, Accounted
  <2>4. ResolvedIsNotAwaited'
    BY <1>1, <1>3, NothingAwaited DEF None
  <2>. QED
    BY <1>1, <1>2, <1>3, <2>1, <2>2, <2>3, <2>4, NotEnded
<1>4. CASE submitted' = submitted /\ End("rejected", {})
  <2>1. /\ outcome' \in [kind : OutcomeKinds, jobs : SUBSET Jobs]
        /\ pc' = "done"
        /\ Phase' /\ Recorded' /\ Accounted' /\ Verdicts'
    BY <1>4, PlainEnd DEF OutcomeKinds
  <2>2. TypeOK'
    BY <1>1, <1>4, <2>1 DEF TypeOK, Endings
  <2>3. ResolvedIsNotAwaited'
    BY <1>1, <1>4, NothingAwaited DEF End
  <2>. QED
    BY <1>2, <2>1, <2>2, <2>3
<1>. QED
  BY <1>3, <1>4 DEF Post

\* Every way a request can end the call without the server having been heard.
LEMMA RequestFails ==
    ASSUME RInv, pc \in {"posted", "wait"}, Elapse,
           NEW kind \in {"unreachable", "upstream", "rejected"}, End(kind, {}),
           UNCHANGED <<plan_only, budget, truth, told, submitted, lines, footer, previous,
                       retries, lost, reasked>>
    PROVE  RInv'
<1>. USE DEF RInv
<1>1. /\ outcome' \in [kind : OutcomeKinds, jobs : SUBSET Jobs]
      /\ pc' = "done"
      /\ Phase' /\ Recorded' /\ Accounted' /\ Verdicts'
  BY PlainEnd DEF OutcomeKinds
<1>2. /\ now' \in Nat
      /\ now' <= MaxSend \/ now' < budget + (MaxRetries + 1) * MaxSend
  BY ClockOfARequest
<1>3. TypeOK'
  BY <1>1, <1>2 DEF TypeOK, Endings
<1>4. Provenance'
  BY SameLines
<1>5. Clock'
  BY <1>1, <1>2 DEF Clock, OvershootBounded
<1>6. ResolvedIsNotAwaited'
  BY NothingAwaited DEF End
<1>. QED
  BY <1>1, <1>3, <1>4, <1>5, <1>6

\* when it is answered,
LEMMA RunAnsweredRInv ==
    ASSUME RInv, RunAnswered
    PROVE  RInv'
<1>. USE DEF RInv
<1>1. /\ pc = "posted" /\ told = {} /\ outcome = None /\ submitted = 1
      /\ Elapse /\ Respond(Jobs) /\ pc' = "loop"
      /\ UNCHANGED <<plan_only, budget, truth, submitted, previous, retries, outcome, lost,
                     reasked>>
  BY DEF RunAnswered, Phase
<1>2. /\ lines' \in [Jobs -> LineOrNone] /\ footer' \subseteq Jobs /\ told' \subseteq Jobs
      /\ Provenance'
      /\ Jobs \subseteq Pending' \cup told' \cup lost'
  BY <1>1, Responded
<1>3. now' \in Nat /\ now' <= MaxSend
  BY <1>1, ClockOfARequest
<1>4. TypeOK'
  BY <1>1, <1>2, <1>3 DEF TypeOK, Endings
<1>5. Phase' /\ Recorded' /\ Accounted'
  BY <1>1, <1>2 DEF Phase, Recorded, Accounted, None
<1>6. Clock'
  BY <1>1, <1>3 DEF Clock, OvershootBounded
<1>7. ResolvedIsNotAwaited'
  BY <1>1, NothingAwaited DEF None
<1>. QED
  BY <1>1, <1>2, <1>4, <1>5, <1>6, <1>7, NotEnded

\* when a wait is answered, whatever lines it has,
LEMMA WaitAnsweredRInv ==
    ASSUME RInv, WaitAnswered
    PROVE  RInv'
<1>. USE DEF RInv
<1>1. /\ pc = "wait" /\ previous \in SUBSET Jobs /\ outcome = None /\ submitted = 1
      /\ Elapse /\ Respond(previous) /\ pc' = "loop"
      /\ UNCHANGED <<plan_only, budget, truth, submitted, previous, retries, outcome, lost,
                     reasked>>
  BY DEF WaitAnswered, Phase
<1>2. /\ previous \cap told \subseteq reasked
      /\ Jobs \subseteq previous \cup told \cup lost
  BY <1>1 DEF Recorded, Accounted
<1>3. /\ lines' \in [Jobs -> LineOrNone] /\ footer' \subseteq Jobs /\ told' \subseteq Jobs
      /\ Provenance'
      /\ Jobs \subseteq Pending' \cup told' \cup lost'
  BY <1>1, <1>2, Responded
<1>4. now' \in Nat /\ (now' <= MaxSend \/ now' < budget + (MaxRetries + 1) * MaxSend)
  BY <1>1, ClockOfARequest
<1>5. TypeOK'
  BY <1>1, <1>3, <1>4 DEF TypeOK, Endings
<1>6. Phase' /\ Recorded' /\ Accounted'
  BY <1>1, <1>3 DEF Phase, Recorded, Accounted, None
<1>7. Clock'
  BY <1>1, <1>4 DEF Clock, OvershootBounded
<1>8. ResolvedIsNotAwaited'
  BY <1>1, NothingAwaited DEF None
<1>. QED
  BY <1>1, <1>3, <1>5, <1>6, <1>7, <1>8, NotEnded

\* when it is not,
LEMMA WaitUnansweredRInv ==
    ASSUME RInv, WaitUnanswered
    PROVE  RInv'
<1>. USE DEF RInv
<1>1. /\ pc = "wait" /\ previous \in SUBSET Jobs /\ outcome = None /\ submitted = 1 /\ Elapse
      /\ UNCHANGED <<plan_only, budget, truth, told, submitted, lines, footer, previous,
                     reasked>>
  BY DEF WaitUnanswered, Phase, accumulator
<1>2. PICK unseen \in SUBSET Deliverable(previous) :
         IF retries < MaxRetries
         THEN /\ retries' = retries + 1
              /\ lost' = IF Redelivers THEN lost ELSE lost \cup unseen
              /\ UNCHANGED <<pc, outcome>>
         ELSE End("unreachable", {}) /\ UNCHANGED <<retries, lost>>
  BY DEF WaitUnanswered, MayReplay
<1>3. unseen \in SUBSET {j \in Jobs : truth[j] # "running"} /\ unseen \subseteq previous
  BY <1>1 DEF Deliverable
<1>4. CASE ~(retries < MaxRetries)
  BY <1>1, <1>2, <1>3, <1>4, RequestFails
<1>5. CASE retries < MaxRetries
  <2>1. /\ retries' = retries + 1 /\ retries' \in 0 .. MaxRetries
        /\ lost' = IF Redelivers THEN lost ELSE lost \cup unseen
        /\ UNCHANGED <<pc, outcome>>
    BY <1>2, <1>5, RunAssumption DEF TypeOK
  <2>2. /\ now' \in Nat
        /\ now' < budget + retries * MaxSend + MaxSend
        /\ now' <= MaxSend \/ now' < budget + (MaxRetries + 1) * MaxSend
    BY <1>1, ClockOfARequest
  <2>3. TypeOK'
    BY <1>1, <1>2, <1>3, <2>1, <2>2 DEF TypeOK, Endings
  <2>4. Phase' /\ Recorded'
    BY <1>1, <1>2, <1>3, <2>1 DEF Phase, Recorded, None
  <2>5. Provenance'
    BY <1>1, <1>2, <1>3, <2>1 DEF Provenance
  <2>6. Accounted'
    BY <1>1, <2>1 DEF Accounted
  <2>7. Clock'
    <3>1. retries \in Nat /\ budget \in Nat /\ MaxSend \in Nat
      BY RunAssumption DEF TypeOK
    <3>2. retries * MaxSend \in Nat /\ retries' * MaxSend = retries * MaxSend + MaxSend
      BY <2>1, Growth DEF TypeOK
    <3>. DEFINE a == retries * MaxSend
                b == retries' * MaxSend
    <3>3. now' < budget + b
      <4>1. a \in Nat /\ b = a + MaxSend /\ now' < budget + a + MaxSend
        BY <2>2, <3>2
      <4>. HIDE DEF a, b
      <4>. QED
        BY <2>2, <3>1, <4>1
    <3>4. now' < budget' + retries' * MaxSend
      BY <1>1, <3>3
    <3>. QED
      BY <1>1, <2>1, <2>2, <3>4 DEF Clock, OvershootBounded
  <2>8. ResolvedIsNotAwaited'
    BY <1>1, <2>1, NothingAwaited DEF None
  <2>. QED
    BY <1>1, <2>1, <2>3, <2>4, <2>5, <2>6, <2>7, <2>8, NotEnded
<1>. QED
  BY <1>4, <1>5

\* when the client decides to ask again,
LEMMA AskRInv ==
    ASSUME RInv, Ask
    PROVE  RInv'
<1>. USE DEF RInv
<1>1. /\ pc = "loop" /\ Pending # {} /\ outcome = None /\ submitted = 1
      /\ now' = IF now < budget /\ ~Shrank THEN now + PollInterval ELSE now
      /\ UNCHANGED <<plan_only, budget, truth, told, submitted, lines, footer, lost>>
  BY DEF Ask, Phase, server, accumulator
<1>2. now \in Nat /\ budget \in Nat /\ PollInterval \in Nat /\ now' \in Nat
  BY <1>1, RunAssumption DEF TypeOK
<1>3. /\ Pending \in SUBSET Jobs
      /\ Pending \cap told \subseteq {j \in Jobs : truth[j] \in {"planned", "planned_missing"}}
  BY PendingWasPlanned DEF TypeOK, Pending
<1>4. reasked' \in {reasked, reasked \cup (Pending \cap told)} /\ Provenance'
  <2>1. reasked' \in {reasked, reasked \cup (Pending \cap told)}
    BY DEF Ask
  <2>. QED
    BY <1>1, <2>1 DEF Provenance
<1>5. CASE now' < budget
  <2>1. /\ pc' = "wait" /\ previous' = Pending /\ retries' = 0 /\ outcome' = outcome
        /\ reasked' = reasked \cup (Pending \cap told)
    BY <1>5 DEF Ask
  <2>2. 0 * MaxSend = 0
    BY RunAssumption
  <2>3. TypeOK'
    <3>1. reasked' \subseteq Jobs /\ previous' \in (SUBSET Jobs) \cup {NotYet}
      BY <1>3, <2>1 DEF TypeOK
    <3>2. retries' \in 0 .. MaxRetries
      BY <2>1, RunAssumption
    <3>. QED
      BY <1>1, <1>2, <2>1, <3>1, <3>2 DEF TypeOK, Endings
  <2>4. Phase'
    BY <1>1, <1>3, <2>1 DEF Phase, None
  <2>5. Recorded' /\ Accounted'
    BY <1>1, <2>1 DEF Recorded, Accounted
  <2>6. Clock'
    <3>1. now' < budget' + retries' * MaxSend
      BY <1>1, <1>2, <1>5, <2>1, <2>2
    <3>2. now' < budget' + PollInterval
      BY <1>1, <1>2, <1>5
    <3>. QED
      BY <2>1, <3>1, <3>2 DEF Clock, OvershootBounded
  <2>7. ResolvedIsNotAwaited'
    BY <1>1, <1>3, <2>1 DEF ResolvedIsNotAwaited, None
  <2>. QED
    BY <1>1, <1>4, <2>1, <2>3, <2>4, <2>5, <2>6, <2>7, NotEnded
<1>6. CASE ~(now' < budget)
  <2>1. End("timeout", Pending) /\ UNCHANGED <<previous, retries, reasked>>
    BY <1>6 DEF Ask, TimeOut
  <2>2. /\ outcome' \in [kind : OutcomeKinds, jobs : SUBSET Jobs]
        /\ pc' = "done"
        /\ Phase' /\ Recorded' /\ Accounted' /\ Verdicts'
    BY <1>3, <2>1, PlainEnd DEF OutcomeKinds
  <2>3. TypeOK'
    BY <1>1, <1>2, <2>1, <2>2 DEF TypeOK, Endings
  <2>4. Clock'
    <3>1. OvershootBounded'
      <4>1. CASE now' = now
        BY <1>1, <4>1 DEF Clock, OvershootBounded
      <4>2. CASE now' # now
        BY <1>1, <1>2, <4>2 DEF OvershootBounded
      <4>. QED
        BY <4>1, <4>2
    <3>. QED
      BY <2>2, <3>1 DEF Clock
  <2>5. ResolvedIsNotAwaited'
    BY <1>1, <1>3, <2>1 DEF ResolvedIsNotAwaited, End
  <2>. QED
    BY <1>4, <2>2, <2>3, <2>4, <2>5
<1>. QED
  BY <1>5, <1>6

\* What is known of a line when no job is pending, and none has failed.
LEMMA NothingPending ==
    ASSUME RInv, pc = "loop", Pending = {}, NEW j \in Jobs, j \notin lost,
           lines[j] # "unknown_job"
    PROVE  /\ truth[j] \in Endings
           /\ lines[j] # NoLine
           /\ lines[j] = "executing" => truth[j] \notin Terminal
           /\ lines[j] # "executing" => lines[j] = truth[j]
<1>. USE DEF RInv
<1>1. j \in told
  BY DEF Accounted
<1>2. truth[j] \in Endings
  BY <1>1 DEF Provenance, TypeOK
<1>3. lines[j] # NoLine /\ (truth[j] \in Terminal => lines[j] \in Terminal)
  BY <1>1 DEF Provenance
<1>. QED
  BY <1>2, <1>3 DEF Provenance, Terminal

\* The five ways run and plan end once no job is pending, and what each says.
LEMMA ConcludeCases ==
    ASSUME RInv, Conclude
    PROVE  /\ pc = "loop" /\ Pending = {} /\ pc' = "done"
           /\ UNCHANGED <<plan_only, budget, truth, told, submitted, lines, footer, previous,
                          retries, now, lost, reasked>>
           /\ \/ /\ outcome'.kind = "query_error"
                 /\ \E j \in Reported : /\ lines[j] \in Failing \cup
                                                      {"missing_fields", "planned_missing"}
                                        /\ outcome' = [kind |-> "query_error", jobs |-> {j}]
              \/ Reported = {} /\ outcome' = [kind |-> "no_lines", jobs |-> {}]
              \/ /\ \A j \in Reported : lines[j] \notin Failing
                 /\ First(Reported) \in Reported
                 /\ lines[First(Reported)] = IF plan_only THEN "planned" ELSE "complete"
                 /\ outcome' = [kind |-> "answer", jobs |-> {First(Reported)}]
              \/ /\ \A j \in Reported : lines[j] \notin Failing
                 /\ First(Reported) \in Reported
                 /\ lines[First(Reported)] # IF plan_only THEN "planned" ELSE "complete"
                 /\ lines[First(Reported)] \notin {"missing_fields", "planned_missing"}
                 /\ outcome' = [kind |-> "no_answer", jobs |-> {First(Reported)}]
<1>. DEFINE failing == {j \in Reported : lines[j] \in Failing}
            primary == First(Reported)
            answer  == IF plan_only THEN "planned" ELSE "complete"
<1>1. /\ pc = "loop" /\ Pending = {}
      /\ UNCHANGED <<plan_only, budget, truth, told, submitted, lines, footer, previous,
                     retries, now, lost, reasked>>
      /\ CASE failing # {}  -> End("query_error", {First(failing)})
           [] Reported = {} -> End("no_lines", {})
           [] OTHER ->
                CASE lines[primary] = answer -> End("answer", {primary})
                  [] lines[primary] \in {"missing_fields", "planned_missing"} ->
                        End("query_error", {primary})
                  [] OTHER -> End("no_answer", {primary})
  BY DEF Conclude, server, accumulator
<1>2. Reported \in SUBSET Jobs /\ failing \in SUBSET Jobs
  BY DEF Reported
<1>3. CASE failing # {}
  <2>1. First(failing) \in failing
    BY <1>2, <1>3, FirstIsFirst
  <2>2. pc' = "done" /\ outcome' = [kind |-> "query_error", jobs |-> {First(failing)}]
    <3>1. End("query_error", {First(failing)})
      BY <1>1, <1>2, <1>3 DEF Failing
    <3>. QED
      BY <3>1 DEF End
  <2>. QED
    BY <1>1, <2>1, <2>2
<1>4. CASE failing = {} /\ Reported = {}
  <2>1. pc' = "done" /\ outcome' = [kind |-> "no_lines", jobs |-> {}]
    <3>1. End("no_lines", {})
      BY <1>1, <1>4
    <3>. QED
      BY <3>1 DEF End
  <2>. QED
    BY <1>1, <1>4, <2>1
<1>5. CASE failing = {} /\ Reported # {}
  <2>1. primary \in Reported
    BY <1>2, <1>5, FirstIsFirst
  <2>2. \A j \in Reported : lines[j] \notin Failing
    BY <1>5
  <2>. HIDE DEF failing, primary
  <2>3. CASE lines[primary] = answer
    <3>1. End("answer", {primary})
      BY <1>1, <1>5, <2>3
    <3>2. pc' = "done" /\ outcome' = [kind |-> "answer", jobs |-> {primary}]
      BY <3>1 DEF End
    <3>. QED
      BY <1>1, <2>1, <2>2, <2>3, <3>2 DEF primary
  <2>4. CASE lines[primary] # answer /\ lines[primary] \in {"missing_fields", "planned_missing"}
    <3>1. End("query_error", {primary})
      BY <1>1, <1>5, <2>4
    <3>2. pc' = "done" /\ outcome' = [kind |-> "query_error", jobs |-> {primary}]
      BY <3>1 DEF End
    <3>. QED
      BY <1>1, <2>1, <2>4, <3>2 DEF primary
  <2>5. CASE lines[primary] # answer /\ lines[primary] \notin {"missing_fields", "planned_missing"}
    <3>1. End("no_answer", {primary})
      BY <1>1, <1>5, <2>5
    <3>2. pc' = "done" /\ outcome' = [kind |-> "no_answer", jobs |-> {primary}]
      BY <3>1 DEF End
    <3>. QED
      BY <1>1, <2>1, <2>2, <2>5, <3>2 DEF primary
  <2>. QED
    BY <2>3, <2>4, <2>5
<1>. QED
  BY <1>3, <1>4, <1>5

\* when it concludes,
LEMMA ConcludeRInv ==
    ASSUME RInv, Conclude
    PROVE  RInv'
<1>. USE DEF RInv
<1>1. /\ pc = "loop" /\ Pending = {} /\ pc' = "done" /\ submitted = 1
      /\ UNCHANGED <<plan_only, budget, truth, told, submitted, lines, footer, previous,
                     retries, now, lost, reasked>>
  BY ConcludeCases DEF Phase
<1>2. Reported \in SUBSET Jobs
  BY DEF Reported
<1>3. /\ outcome' \in [kind : OutcomeKinds, jobs : SUBSET Jobs]
      /\ outcome'.kind # "none"
  BY <1>2, ConcludeCases DEF OutcomeKinds
<1>4. TypeOK'
  BY <1>1, <1>3 DEF TypeOK, Endings
<1>5. Phase' /\ Provenance' /\ Recorded' /\ Accounted' /\ Clock'
  BY <1>1, <1>3, SameLines DEF Phase, Recorded, Accounted, Clock, OvershootBounded
<1>6. AnswerIsSound'
  <2>. SUFFICES ASSUME outcome'.kind = "answer"
                PROVE  /\ Submitted[1] \in outcome'.jobs \cup lost
                       /\ \A j \in Jobs \ lost : truth[j] \notin Failing \cup {"running"}
    BY <1>1 DEF AnswerIsSound
  <2>1. /\ \A j \in Reported : lines[j] \notin Failing
        /\ First(Reported) \in Reported
        /\ outcome'.jobs = {First(Reported)}
    BY ConcludeCases
  <2>2. \A j \in Jobs \ lost : /\ j \in Reported
                               /\ truth[j] \in Endings
                               /\ truth[j] \notin Failing
    <3>. SUFFICES ASSUME NEW j \in Jobs \ lost
                  PROVE  j \in Reported /\ truth[j] \in Endings /\ truth[j] \notin Failing
      OBVIOUS
    <3>1. lines[j] # "unknown_job"
      BY <2>1 DEF Reported, Failing, NoLine
    <3>. QED
      BY <1>1, <2>1, <3>1, NothingPending DEF Reported, Failing, Terminal
  <2>3. Submitted[1] \in Jobs
    BY RunAssumption
  <2>4. Submitted[1] \in lost \/ First(Reported) = Submitted[1]
    BY <1>2, <2>1, <2>2, <2>3, FirstIsFirst
  <2>. QED
    BY <2>1, <2>2, <2>4 DEF Endings
<1>7. NoSpuriousError'
  <2>. SUFFICES ASSUME outcome'.kind \in {"no_lines", "no_answer"}, lost = {}
                PROVE  \/ plan_only /\ \E j \in outcome'.jobs : lines[j] = "executing"
                       \/ \E j \in outcome'.jobs : truth[j] = "no_result"
    BY <1>1 DEF NoSpuriousError
  <2>1. Reported = Jobs /\ Jobs # {}
    BY <1>1, RunAssumption DEF Reported, Accounted, Provenance
  <2>2. /\ \A j \in Reported : lines[j] \notin Failing
        /\ First(Reported) \in Reported
        /\ lines[First(Reported)] # IF plan_only THEN "planned" ELSE "complete"
        /\ lines[First(Reported)] \notin {"missing_fields", "planned_missing"}
        /\ outcome' = [kind |-> "no_answer", jobs |-> {First(Reported)}]
    BY <2>1, ConcludeCases
  <2>3. PICK j \in Jobs :
                         /\ outcome'.jobs = {j}
                         /\ lines[j] \notin Failing
                         /\ lines[j] # IF plan_only THEN "planned" ELSE "complete"
                         /\ lines[j] \notin {"missing_fields", "planned_missing"}
    BY <2>1, <2>2
  <2>4. /\ truth[j] \in Endings
        /\ lines[j] = "executing" => truth[j] \notin Terminal
        /\ lines[j] # "executing" => lines[j] = truth[j]
    <3>1. j \notin lost /\ lines[j] # "unknown_job"
      BY <2>3 DEF Failing
    <3>. QED
      BY <1>1, <3>1, NothingPending
  <2>5. CASE lines[j] = "executing"
    <3>1. plan_only
      BY <2>4, <2>5 DEF Endings, Terminal
    <3>. QED
      BY <2>3, <2>5, <3>1
  <2>6. CASE lines[j] # "executing"
    <3>1. truth[j] = "no_result"
      <4>1. CASE plan_only
        BY <2>3, <2>4, <2>6, <4>1 DEF Endings, Failing
      <4>2. CASE ~plan_only
        BY <2>3, <2>4, <2>6, <4>2 DEF Endings, Failing
      <4>. QED
        BY <4>1, <4>2
    <3>. QED
      BY <2>3, <3>1
  <2>. QED
    BY <2>5, <2>6
<1>8. ResolvedIsNotAwaited'
  BY <1>1, ConcludeCases, NothingAwaited
<1>. QED
  BY <1>4, <1>5, <1>6, <1>7, <1>8 DEF Verdicts

\* and so after every step.
LEMMA NextRInv ==
    ASSUME RInv, [Next]_vars
    PROVE  RInv'
<1>1. ASSUME NEW j \in Jobs, JobEnds(j) PROVE RInv'
  BY <1>1, JobEndsRInv
<1>2. CASE Post
  BY <1>2, PostRInv
<1>3. CASE PostUnanswered
  BY <1>3, RequestFails DEF PostUnanswered, server, accumulator
<1>4. CASE RunAnswered
  BY <1>4, RunAnsweredRInv
<1>5. CASE UpstreamFailure
  BY <1>5, RequestFails DEF UpstreamFailure, server, accumulator
<1>6. CASE Ask
  BY <1>6, AskRInv
<1>7. CASE WaitAnswered
  BY <1>7, WaitAnsweredRInv
<1>8. CASE WaitUnanswered
  BY <1>8, WaitUnansweredRInv
<1>9. CASE WaitRejected
  BY <1>9, RequestFails DEF WaitRejected, server, accumulator
<1>10. CASE Conclude
  BY <1>10, ConcludeRInv
<1>11. CASE UNCHANGED vars
  BY <1>11 DEF vars, server, accumulator, RInv, TypeOK, Endings, Phase, Provenance, Recorded,
       Pending, Accounted, Clock, OvershootBounded, Verdicts, AnswerIsSound, NoSpuriousError,
       ResolvedIsNotAwaited
<1>. QED
  BY <1>1, <1>2, <1>3, <1>4, <1>5, <1>6, <1>7, <1>8, <1>9, <1>10, <1>11 DEF Next, Client

-----------------------------------------------------------------------------
(* The theorems *)

\* The strengthened invariant holds throughout every call.
THEOREM RunInvariant == Spec => []RInv
BY InitRInv, NextRInv, PTL DEF Spec

\* Every variable of a call keeps its type: what http.py's _drive and its accumulator hold.
THEOREM RunTypeOK == Spec => []TypeOK
<1>1. RInv => TypeOK
  BY DEF RInv
<1>. QED
  BY <1>1, RunInvariant, PTL

\* An answer is the submission's first job and no job failed, for every number of jobs and
\* every way the responses of run and wait can spread and repeat their lines.
THEOREM RunAnswerIsSound == Spec => []AnswerIsSound
<1>1. RInv => AnswerIsSound
  BY DEF RInv, Verdicts
<1>. QED
  BY <1>1, RunInvariant, PTL

\* "Carried no result" is never said of a job that had one and whose line arrived.
THEOREM RunNoSpuriousError == Spec => []NoSpuriousError
<1>1. RInv => NoSpuriousError
  BY DEF RInv, Verdicts
<1>. QED
  BY <1>1, RunInvariant, PTL

\* A job whose line has arrived is asked about again, or blamed for a deadline, only when
\* that line was a plan, for every order in which lines and lagging footers can come.
THEOREM RunResolvedIsNotAwaited == Spec => []ResolvedIsNotAwaited
<1>1. RInv => ResolvedIsNotAwaited
  BY DEF RInv
<1>. QED
  BY <1>1, RunInvariant, PTL

\* A call outlives its deadline by less than one wait with all its replays.
THEOREM RunOvershootBounded == Spec => []OvershootBounded
<1>1. RInv => OvershootBounded
  BY DEF RInv, Clock
<1>. QED
  BY <1>1, RunInvariant, PTL

\* A call that fails without a verdict breaks down, in the terms of QueryCall.
LEMMA BreaksDown ==
    ASSUME outcome = None, UNCHANGED <<submitted, truth, lost, reasked>>,
           NEW kind \in {"unreachable", "upstream", "rejected", "no_lines", "no_answer"},
           NEW jobs, outcome' = [kind |-> kind, jobs |-> jobs]
    PROVE  Call!Next
<1>. DEFINE seen == IF outcome.kind \in {"none", "answer", "query_error", "timeout"}
                    THEN outcome
                    ELSE [kind |-> "transport_error", jobs |-> {}]
<1>1. seen = None /\ seen.kind = "none" /\ (submitted > 0)' = (submitted > 0)
  BY DEF None
<1>2. seen' = [kind |-> "transport_error", jobs |-> {}]
  BY DEF None
<1>3. Call!BreakDown
  BY <1>2 DEF Call!BreakDown
<1>. QED
  BY <1>1, <1>3 DEF Call!Next, Call!Conclude

\* Every step is a step of QueryCall or leaves it alone.
LEMMA RunStepSimulation ==
    ASSUME RInv, [Next]_vars
    PROVE  [Call!Next]_(Call!vars)
<1>. USE DEF Call!vars
<1>1. TypeOK /\ Phase /\ Provenance
  BY DEF RInv
<1>2. ASSUME NEW j \in Jobs, JobEnds(j) PROVE [Call!Next]_(Call!vars)
  <2>1. /\ submitted > 0 /\ truth[j] = "running"
        /\ \E ending \in Endings : truth' = [truth EXCEPT ![j] = ending]
        /\ UNCHANGED <<submitted, outcome, lost, reasked>>
    BY <1>2 DEF JobEnds
  <2>2. Call!JobEnds(j)
    BY <2>1 DEF Call!JobEnds, Call!Endings, Endings
  <2>. QED
    BY <2>2 DEF Call!Next
<1>3. CASE Post
  <2>1. /\ outcome = None /\ submitted = 0 /\ UNCHANGED <<truth, lost, reasked>>
    BY <1>1, <1>3 DEF Post, Phase
  <2>2. CASE submitted' = submitted + 1 /\ outcome' = outcome
    <3>1. Call!Submit
      BY <2>1, <2>2 DEF Call!Submit, None
    <3>. QED
      BY <3>1 DEF Call!Next
  <2>3. CASE submitted' = submitted /\ End("rejected", {})
    BY <2>1, <2>3, BreaksDown DEF End
  <2>. QED
    BY <1>3, <2>2, <2>3 DEF Post
<1>4. CASE PostUnanswered \/ UpstreamFailure \/ WaitRejected
  <2>1. /\ outcome = None /\ UNCHANGED <<submitted, truth, lost, reasked>>
        /\ End("unreachable", {}) \/ End("upstream", {}) \/ End("rejected", {})
    BY <1>1, <1>4 DEF PostUnanswered, UpstreamFailure, WaitRejected, Phase, server
  <2>. QED
    BY <2>1, BreaksDown DEF End
<1>5. CASE RunAnswered \/ WaitAnswered
  BY <1>5 DEF RunAnswered, WaitAnswered
<1>6. CASE Ask
  <2>1. /\ outcome = None /\ submitted = 1 /\ UNCHANGED <<submitted, truth, lost>>
        /\ Pending # {} /\ Pending \in SUBSET Jobs
    BY <1>1, <1>6 DEF Ask, Phase, server, Pending, TypeOK
  <2>2. CASE outcome' = outcome /\ reasked' = reasked \cup (Pending \cap told)
    <3>1. Pending \cap told \in SUBSET {j \in Jobs : truth[j] # "running"}
      BY <1>1, <2>1 DEF Provenance
    <3>2. CASE Redelivers
      BY <2>1, <2>2, <3>2
    <3>3. CASE ~Redelivers
      <4>1. Call!Forget
        BY <2>1, <2>2, <3>1, <3>3 DEF Call!Forget, None
      <4>. QED
        BY <4>1 DEF Call!Next
    <3>. QED
      BY <3>2, <3>3
  <2>3. CASE End("timeout", Pending) /\ reasked' = reasked
    <3>1. outcome' = [kind |-> "timeout", jobs |-> Pending]
      BY <2>3 DEF End
    <3>2. Call!TimeOut
      BY <2>1, <3>1 DEF Call!TimeOut
    <3>. QED
      BY <2>1, <2>3, <3>2 DEF Call!Next, Call!Conclude, None
  <2>. QED
    BY <1>6, <2>2, <2>3 DEF Ask, TimeOut
<1>7. CASE WaitUnanswered
  <2>1. /\ outcome = None /\ previous \in SUBSET Jobs
        /\ UNCHANGED <<submitted, truth, reasked>>
    BY <1>1, <1>7 DEF WaitUnanswered, Phase
  <2>2. PICK unseen \in SUBSET Deliverable(previous) :
           IF retries < MaxRetries
           THEN /\ lost' = IF Redelivers THEN lost ELSE lost \cup unseen
                /\ UNCHANGED outcome
           ELSE End("unreachable", {}) /\ UNCHANGED lost
    BY <1>7 DEF WaitUnanswered, MayReplay
  <2>3. unseen \in SUBSET {j \in Jobs : truth[j] # "running"}
    BY <2>1 DEF Deliverable
  <2>4. CASE ~(retries < MaxRetries)
    BY <2>1, <2>2, <2>4, BreaksDown DEF End
  <2>5. CASE retries < MaxRetries /\ Redelivers
    BY <2>1, <2>2, <2>5
  <2>6. CASE retries < MaxRetries /\ ~Redelivers
    <3>1. Call!Forget
      BY <2>1, <2>2, <2>3, <2>6 DEF Call!Forget, None
    <3>. QED
      BY <3>1 DEF Call!Next
  <2>. QED
    BY <2>4, <2>5, <2>6
<1>8. CASE Conclude
  <2>1. /\ outcome = None /\ submitted = 1 /\ Pending = {} /\ pc = "loop"
        /\ UNCHANGED <<submitted, truth, lost, reasked>>
    BY <1>1, <1>8, ConcludeCases DEF Phase
  <2>2. CASE outcome'.kind = "query_error"
    <3>1. PICK j \in Reported :
             /\ lines[j] \in Failing \cup {"missing_fields", "planned_missing"}
             /\ outcome' = [kind |-> "query_error", jobs |-> {j}]
      BY <1>8, <2>2, ConcludeCases
    <3>2. j \in Jobs
      BY DEF Reported
    <3>3. \/ truth[j] \in {"missing_fields", "planned_missing", "disguised", "failed"}
          \/ ~Redelivers /\ j \in lost \cup reasked
      BY <1>1, <3>1, <3>2 DEF Provenance, Failing, NoLine
    <3>4. Call!Blame(j)
      BY <2>1, <3>1, <3>3 DEF Call!Blame
    <3>. QED
      BY <2>1, <3>2, <3>4 DEF Call!Next, Call!Conclude, None
  <2>3. CASE outcome'.kind = "answer"
    <3>1. /\ First(Reported) \in Reported
          /\ lines[First(Reported)] \in {"planned", "complete"}
          /\ outcome' = [kind |-> "answer", jobs |-> {First(Reported)}]
      BY <1>8, <2>3, ConcludeCases
    <3>2. First(Reported) \in Jobs
      BY <3>1 DEF Reported
    <3>3. truth[First(Reported)] \in {"planned", "complete"}
      BY <1>1, <3>1, <3>2 DEF Provenance, NoLine
    <3>4. Call!Answer(First(Reported))
      BY <2>1, <3>1, <3>3 DEF Call!Answer
    <3>. QED
      BY <2>1, <3>2, <3>4 DEF Call!Next, Call!Conclude, None
  <2>4. CASE outcome'.kind \notin {"query_error", "answer"}
    <3>1. \E kind \in {"no_lines", "no_answer"}, jobs \in SUBSET Jobs :
             outcome' = [kind |-> kind, jobs |-> jobs]
      BY <1>8, <2>4, ConcludeCases DEF Reported
    <3>. QED
      BY <2>1, <3>1, BreaksDown
  <2>. QED
    BY <2>2, <2>3, <2>4
<1>9. CASE UNCHANGED vars
  BY <1>9 DEF vars, server
<1>. QED
  BY <1>2, <1>3, <1>4, <1>5, <1>6, <1>7, <1>8, <1>9 DEF Next, Client

\* The poll loop implements the one-call promise of QueryCall: one submission, one ending,
\* an answer from a job that succeeded and blame for one that failed, or that the server
\* had dropped before it was asked about again.
THEOREM RunImplementsQueryCall == Spec => ImplementsQueryCall
<1>1. Init => Call!Init
  BY DEF Init, Call!Init, None
<1>. QED
  BY <1>1, RunStepSimulation, RunInvariant, PTL DEF Spec, ImplementsQueryCall, Call!Spec
=============================================================================

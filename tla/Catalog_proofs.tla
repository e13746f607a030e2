--------------------------- MODULE Catalog_proofs ---------------------------
(***************************************************************************)
(* Theorems about the catalog, for every set of models, names and callers, *)
(* every page size and a server that changes at any time.                  *)
(*                                                                         *)
(* The inductive invariant has three parts.  Asking says where a call is   *)
(* and what it holds: a read that looks a second time looks for the name   *)
(* of the model it found the first time.  Stored says that what is cached  *)
(* is of the right shape and right about names.  Walking says that a walk  *)
(* has passed over no model that was there all along, up to its cursor,    *)
(* except for those on a page it could not read.                           *)
(***************************************************************************)
EXTENDS Catalog, WellFoundedInduction, SequenceTheorems, TLAPS

Looking == {"resolve", "by_id", "by_name", "walk"}

\* What a call holds, and where
Working ==
    /\ pc = "idle" => call = NoCall /\ key = Nobody /\ info = Nobody
    /\ pc # "idle" => call \in Calls
    /\ pc \notin {"idle", "walk"} => call.op # "models"
    /\ pc # "idle" /\ call.op # "models" => key \in Ids \cup Names
    /\ pc = "list" => key \in Ids /\ call.op \in {"listing", "read"}

\* A read looks for the name of the model it found, and lists that model
SecondLook ==
    pc # "idle" /\ call.op = "read" =>
        /\ pc \in Looking /\ info # Nobody => key = NameOf[info]
        /\ pc = "list" => info # Nobody /\ (UniqueNames => key = info)

Asking ==
    /\ call \in Calls \cup {NoCall}
    /\ pc \in Looking \cup {"idle", "list"}
    /\ key \in Ids \cup Names \cup {Nobody}
    /\ info \in Ids \cup {Nobody}
    /\ page \in [collected : Seq(Ids), cursor : 0 .. Len(Order), count : 0 .. MaxPages - 1]
    /\ result.kind \in ResultKinds
    /\ Working /\ SecondLook /\ ScanIsSound

Stored ==
    /\ live \in SUBSET Ids
    /\ content \in [Kinds -> [Ids -> SUBSET Entries]]
    /\ models = NotWalked \/ models \in Seq(Ids)
    /\ resolved \in [Ids \cup Names -> Ids \cup {Nobody}]
    /\ listings \in [Kinds -> [Ids -> (SUBSET Entries) \cup {NotCached}]]
    /\ owed \in SUBSET Ids
    /\ ResolutionIsSound

Once(seq) == \A i, k \in 1 .. Len(seq) : seq[i] = seq[k] => i = k

\* A walk holds, once, the models up to its cursor that were there all along to be read
Walking ==
    /\ pc \in {"by_id", "by_name", "walk"} => models = NotWalked
    /\ pc = "walk" =>
          /\ owed \subseteq live
          /\ Once(page.collected)
          /\ \A id \in Listed(page.collected) : Position(id) <= page.cursor
          /\ \A id \in owed : Position(id) <= page.cursor => id \in Listed(page.collected)
    /\ ListingIsComplete

IInv == Asking /\ Stored /\ Walking

-----------------------------------------------------------------------------
(* The order of the models *)

\* Every non-empty set of natural numbers has a least element.
LEMMA LeastNatural ==
    ASSUME NEW T \in SUBSET Nat, T # {}
    PROVE  \E n \in T : \A m \in T : n <= m
<1>1. PICK n \in T : \A m \in T : ~ (<<m, n>> \in OpToRel(<, Nat))
  BY NatLessThanWellFounded, WFMin
<1>2. \A m \in T : ~ (m < n)
  BY <1>1 DEF OpToRel
<1>. QED
  BY <1>2

\* FirstOf picks one of the models it is given when the listing has one of them.
LEMMA FirstOfIsOne ==
    ASSUME NEW seq \in Seq(Ids), NEW ids, \E id \in ids : id \in Listed(seq)
    PROVE  FirstOf(seq, ids) \in ids \cap Ids
<1>. DEFINE T == {i \in 1 .. Len(seq) : seq[i] \in ids}
<1>1. T \in SUBSET Nat /\ T # {}
  BY DEF Listed
<1>2. PICK i \in T : \A k \in T : i <= k
  BY <1>1, LeastNatural
<1>3. \A k \in 1 .. i - 1 : seq[k] \notin ids
  BY <1>2
<1>4. \E n \in 1 .. Len(seq) : seq[n] \in ids /\ \A k \in 1 .. n - 1 : seq[k] \notin ids
  BY <1>2, <1>3
<1>. DEFINE n == CHOOSE n \in 1 .. Len(seq) :
                    seq[n] \in ids /\ \A k \in 1 .. n - 1 : seq[k] \notin ids
<1>5. n \in 1 .. Len(seq) /\ seq[n] \in ids
  BY <1>4
<1>6. seq[n] \in Ids
  BY <1>5, ElementOfSeq
<1>. QED
  BY <1>5, <1>6 DEF FirstOf

\* The server's order lists every model.
LEMMA OrderListsIds == Order \in Seq(Ids) /\ Listed(Order) = Ids
  BY CatalogAssumption DEF Ids, Listed

\* Every model has a position of its own.
LEMMA PositionIsPlace ==
    ASSUME NEW id \in Ids
    PROVE  Position(id) \in 1 .. Len(Order) /\ Order[Position(id)] = id
<1>1. \E i \in 1 .. Len(Order) : Order[i] = id
  BY DEF Ids
<1>. QED
  BY <1>1 DEF Position

-----------------------------------------------------------------------------
(* The ways a call goes on *)

\* A walk that has not begun is a page of nothing.
LEMMA NoPageIsPage ==
    NoPage \in [collected : Seq(Ids), cursor : 0 .. Len(Order), count : 0 .. MaxPages - 1]
<1>1. Len(Order) \in Nat /\ MaxPages \in Nat \ {0}
  BY CatalogAssumption
<1>2. <<>> \in Seq(Ids) /\ 0 \in 0 .. Len(Order) /\ 0 \in 0 .. MaxPages - 1
  BY <1>1
<1>. QED
  BY <1>2 DEF NoPage

\* A call that returns leaves nothing behind, and a scan is of the model that was listed.
LEMMA ReturnKeeps ==
    ASSUME NEW outcome, outcome.kind \in ResultKinds, Return(outcome),
           UniqueNames /\ outcome.kind \in {"scan", "no_entry"} => outcome.source = outcome.id
    PROVE  Asking' /\ pc' = "idle"
<1>1. /\ pc' = "idle" /\ result' = outcome
      /\ call' = NoCall /\ key' = Nobody /\ info' = Nobody /\ page' = NoPage
  BY DEF Return
<1>. QED
  BY <1>1, NoPageIsPage DEF Asking, Working, SecondLook, ScanIsSound, UniqueNames

\* A call that fails ends.
LEMMA FailKeeps ==
    ASSUME NEW kind \in ResultKinds \ {"scan", "no_entry"}, Fail(kind)
    PROVE  Asking' /\ pc' = "idle"
<1>. DEFINE outcome == [NoResult EXCEPT !.kind = kind]
<1>1. Return(outcome) /\ outcome.kind = kind
  BY DEF Fail, NoResult
<1>. HIDE DEF outcome
<1>. QED
  BY <1>1, ReturnKeeps

\* Found goes on with a model that answers to what was asked.
LEMMA FoundKeeps ==
    ASSUME Asking, pc \in Looking, call.op # "models",
           NEW id \in Ids, Answers(id, key), Found(id)
    PROVE  Asking' /\ pc' \in {"idle", "resolve", "list"}
<1>1. call \in Calls /\ call.op \in {"model", "listing", "read"}
  BY DEF Asking, Working, Calls, Looking
<1>2. CASE call.op = "model"
  <2>. DEFINE outcome == [NoResult EXCEPT !.kind = "model", !.id = id]
  <2>1. Return(outcome) /\ outcome.kind = "model"
    BY <1>2 DEF Found, NoResult
  <2>. HIDE DEF outcome
  <2>. QED
    BY <2>1, ReturnKeeps DEF ResultKinds
<1>3. CASE call.op = "read" /\ info = Nobody
  <2>1. /\ info' = id /\ key' = NameOf[id] /\ pc' = "resolve"
        /\ call' = call /\ page' = page /\ result' = result
    BY <1>3 DEF Found
  <2>2. NameOf[id] \in Names
    BY DEF Names
  <2>. QED
    BY <1>1, <1>3, <2>1, <2>2 DEF Asking, Working, SecondLook, ScanIsSound, UniqueNames, Looking
<1>4. CASE call.op = "listing" \/ (call.op = "read" /\ info # Nobody)
  <2>1. /\ key' = id /\ pc' = "list"
        /\ call' = call /\ info' = info /\ page' = page /\ result' = result
    BY <1>4 DEF Found
  <2>2. call.op = "read" /\ UniqueNames => id = info
    <3>1. SUFFICES ASSUME call.op = "read", UniqueNames PROVE id = info
      OBVIOUS
    <3>2. key = NameOf[info] /\ info \in Ids
      BY <1>4, <3>1 DEF Asking, SecondLook, Looking
    <3>3. key \in Names /\ key \notin Ids
      BY <3>2, CatalogAssumption DEF Names
    <3>4. NameOf[id] = NameOf[info]
      BY <3>2, <3>3 DEF Answers
    <3>. QED
      BY <3>1, <3>2, <3>4 DEF UniqueNames
  <2>3. info \in Ids \/ call.op # "read"
    BY <1>4 DEF Asking
  <2>. QED
    BY <1>1, <1>4, <2>1, <2>2, <2>3 DEF Asking, Working, SecondLook, ScanIsSound, UniqueNames, Looking
<1>. QED
  BY <1>1, <1>2, <1>3, <1>4

\* So does a listing that is delivered.
LEMMA DeliverKeeps ==
    ASSUME Asking, pc = "list", NEW entries, Deliver(entries)
    PROVE  Asking' /\ pc' = "idle"
<1>1. call \in Calls /\ call.op \in {"listing", "read"}
  BY DEF Asking, Working
<1>2. call.op = "read" /\ UniqueNames => key = info
  BY DEF Asking, SecondLook
<1>3. CASE call.op = "listing"
  <2>. DEFINE outcome == [NoResult EXCEPT !.kind = "listed", !.source = key]
  <2>1. Return(outcome) /\ outcome.kind = "listed"
    BY <1>3 DEF Deliver, NoResult
  <2>. HIDE DEF outcome
  <2>. QED
    BY <2>1, ReturnKeeps DEF ResultKinds
<1>4. CASE call.op = "read" /\ call.entry \in entries
  <2>. DEFINE outcome == [kind |-> "scan", of |-> call.kind, id |-> info, entry |-> call.entry,
                          source |-> key]
  <2>1. Return(outcome) /\ outcome.kind = "scan" /\ outcome.id = info /\ outcome.source = key
    BY <1>4 DEF Deliver
  <2>. HIDE DEF outcome
  <2>. QED
    BY <1>2, <1>4, <2>1, ReturnKeeps DEF ResultKinds
<1>5. CASE call.op = "read" /\ call.entry \notin entries
  <2>. DEFINE outcome == [NoResult EXCEPT !.kind = "no_entry", !.id = info, !.source = key]
  <2>1. Return(outcome) /\ outcome.kind = "no_entry" /\ outcome.id = info /\ outcome.source = key
    BY <1>5 DEF Deliver, NoResult
  <2>. HIDE DEF outcome
  <2>. QED
    BY <1>2, <1>5, <2>1, ReturnKeeps DEF ResultKinds
<1>. QED
  BY <1>1, <1>3, <1>4, <1>5

\* What is remembered of a model is right when the model answers to what was asked.
LEMMA RememberKeeps ==
    ASSUME Stored, key \in Ids \cup Names, NEW id \in Ids, Answers(id, key), Remember(id)
    PROVE  resolved' \in [Ids \cup Names -> Ids \cup {Nobody}] /\ ResolutionIsSound'
<1>1. resolved' = [k \in Ids \cup Names |->
                      IF k \in {key, id, NameOf[id]} \ {Unnamed} THEN id ELSE resolved[k]]
  BY DEF Remember
<1>2. \A k \in Ids \cup Names : resolved[k] \in Ids \cup {Nobody}
  BY DEF Stored
<1>3. \A k \in {key, id, NameOf[id]} : Answers(id, k)
  BY DEF Answers
<1>4. ASSUME NEW k \in Ids \cup Names, resolved'[k] # Nobody
      PROVE  Answers(resolved'[k], k) /\ k # Unnamed
  <2>1. CASE k \in {key, id, NameOf[id]} \ {Unnamed}
    BY <1>1, <1>3, <2>1
  <2>2. CASE k \notin {key, id, NameOf[id]} \ {Unnamed}
    BY <1>1, <1>4, <2>2 DEF Stored, ResolutionIsSound
  <2>. QED
    BY <2>1, <2>2
<1>5. ResolutionIsSound'
  BY <1>4 DEF ResolutionIsSound, Answers
<1>. QED
  BY <1>1, <1>2, <1>5

\* What is cached stays right while neither it nor the names change.
LEMMA StoredStays ==
    ASSUME Stored, UNCHANGED <<live, content, models, resolved, listings>>, owed' \in SUBSET Ids
    PROVE  Stored'
  BY DEF Stored, ResolutionIsSound, Answers

\* Away from a walk, the listing stays as complete as it was.
LEMMA WalkingStays ==
    ASSUME Walking, UNCHANGED <<models, owed>>, pc' \in {"idle", "resolve", "list"}
    PROVE  Walking'
  BY DEF Walking, ListingIsComplete, Listed

\* A walk that begins has passed over nothing.
LEMMA StartWalkWalks ==
    ASSUME Stored, models = NotWalked, models' = models, live' = live, StartWalk
    PROVE  Walking' /\ owed' \in SUBSET Ids
<1>1. pc' = "walk" /\ page' = NoPage /\ owed' = live /\ live \in SUBSET Ids
  BY DEF StartWalk, Stored
<1>2. page'.collected = <<>> /\ page'.cursor = 0 /\ Listed(<<>>) = {}
  BY <1>1 DEF NoPage, Listed
<1>3. \A id \in Ids : ~(Position(id) <= 0)
  <2>1. Len(Order) \in Nat
    BY CatalogAssumption
  <2>. QED
    BY <2>1, PositionIsPlace
<1>4. Once(<<>>)
  BY DEF Once
<1>5. ListingIsComplete'
  BY DEF ListingIsComplete
<1>6. /\ owed' \subseteq live'
      /\ Once(page.collected)'
      /\ \A id \in Listed(page.collected)' : Position(id) <= page'.cursor
      /\ \A id \in owed' : Position(id) <= page'.cursor => id \in Listed(page.collected)'
  BY <1>1, <1>2, <1>3, <1>4 DEF Listed, Once
<1>. QED
  BY <1>1, <1>5, <1>6 DEF Walking

-----------------------------------------------------------------------------
(* One page *)

\* Two pages list what either does,
LEMMA ListedTogether ==
    ASSUME NEW s \in Seq(Ids), NEW t \in Seq(Ids)
    PROVE  Listed(s \o t) = Listed(s) \cup Listed(t)
<1>1. /\ Len(s) \in Nat /\ Len(t) \in Nat /\ Len(s \o t) = Len(s) + Len(t)
      /\ \A i \in 1 .. Len(s) + Len(t) : (s \o t)[i] = IF i <= Len(s) THEN s[i] ELSE t[i - Len(s)]
  BY ConcatProperties, LenProperties
<1>2. ASSUME NEW id \in Listed(s \o t) PROVE id \in Listed(s) \cup Listed(t)
  <2>1. PICK i \in 1 .. Len(s) + Len(t) : (s \o t)[i] = id
    BY <1>1 DEF Listed
  <2>2. CASE i <= Len(s)
    BY <1>1, <2>1, <2>2 DEF Listed
  <2>3. CASE i > Len(s)
    <3>1. i - Len(s) \in 1 .. Len(t) /\ t[i - Len(s)] = id
      BY <1>1, <2>1, <2>3
    <3>. QED
      BY <3>1 DEF Listed
  <2>. QED
    BY <1>1, <2>1, <2>2, <2>3
<1>3. ASSUME NEW id \in Listed(s) PROVE id \in Listed(s \o t)
  <2>1. PICK i \in 1 .. Len(s) : s[i] = id
    BY DEF Listed
  <2>2. i \in 1 .. Len(s \o t) /\ (s \o t)[i] = id
    BY <1>1, <2>1
  <2>. QED
    BY <2>2 DEF Listed
<1>4. ASSUME NEW id \in Listed(t) PROVE id \in Listed(s \o t)
  <2>1. PICK i \in 1 .. Len(t) : t[i] = id
    BY DEF Listed
  <2>2. i + Len(s) \in 1 .. Len(s \o t) /\ (s \o t)[i + Len(s)] = id
    BY <1>1, <2>1
  <2>. QED
    BY <2>2 DEF Listed
<1>. QED
  BY <1>2, <1>3, <1>4

\* each model once if they share none.
LEMMA OnceTogether ==
    ASSUME NEW s \in Seq(Ids), NEW t \in Seq(Ids), Once(s), Once(t), Listed(s) \cap Listed(t) = {}
    PROVE  Once(s \o t)
<1>1. /\ Len(s) \in Nat /\ Len(t) \in Nat /\ Len(s \o t) = Len(s) + Len(t)
      /\ \A i \in 1 .. Len(s) + Len(t) : (s \o t)[i] = IF i <= Len(s) THEN s[i] ELSE t[i - Len(s)]
  BY ConcatProperties, LenProperties
<1>2. SUFFICES ASSUME NEW i \in 1 .. Len(s) + Len(t), NEW k \in 1 .. Len(s) + Len(t),
                      (s \o t)[i] = (s \o t)[k]
               PROVE  i = k
  BY <1>1 DEF Once
<1>3. \A n \in 1 .. Len(s) : (s \o t)[n] = s[n] /\ s[n] \in Listed(s)
  BY <1>1 DEF Listed
<1>4. \A n \in 1 .. Len(s) + Len(t) : n > Len(s) =>
         /\ n - Len(s) \in 1 .. Len(t) /\ (s \o t)[n] = t[n - Len(s)]
         /\ t[n - Len(s)] \in Listed(t)
  BY <1>1 DEF Listed
<1>5. CASE i <= Len(s) /\ k <= Len(s)
  BY <1>1, <1>2, <1>3, <1>5 DEF Once
<1>6. CASE i > Len(s) /\ k > Len(s)
  <2>1. i - Len(s) = k - Len(s)
    BY <1>2, <1>4, <1>6 DEF Once
  <2>. QED
    BY <1>1, <2>1
<1>7. CASE ~(i <= Len(s) <=> k <= Len(s))
  BY <1>1, <1>2, <1>3, <1>4, <1>7
<1>. QED
  BY <1>1, <1>5, <1>6, <1>7

\* A page comes after the cursor it was asked for, and passes over no live model up to its end.
LEMMA PageIsNext ==
    ASSUME Stored, NEW cursor \in 0 .. Len(Order), NEW records \in Pages(cursor), NEW next,
           next = IF records = <<>> THEN cursor ELSE Position(records[Len(records)])
    PROVE  /\ records \in Seq(Ids) /\ Once(records)
           /\ next \in 0 .. Len(Order) /\ cursor <= next
           /\ \A id \in Listed(records) : cursor < Position(id) /\ Position(id) <= next
           /\ \A id \in live : cursor < Position(id) /\ Position(id) <= next => id \in Listed(records)
<1>1. PageSize \in Nat \ {0} /\ Len(Order) \in Nat /\ live \subseteq Ids
  BY CatalogAssumption DEF Stored
<1>2. PICK n \in 0 .. PageSize : records \in [1 .. n -> live]
  BY DEF Pages
<1>3. records \in Seq(live)
  BY <1>1, <1>2, SeqDef
<1>4. records \in Seq(Ids) /\ Len(records) \in Nat /\ DOMAIN records = 1 .. Len(records)
  BY <1>1, <1>3, SeqMonotonic, LenProperties
<1>5. /\ \A i \in 1 .. Len(records) : cursor < Position(records[i])
      /\ \A i, k \in 1 .. Len(records) : i < k => Position(records[i]) < Position(records[k])
      /\ \A id \in live \ Listed(records) : cursor < Position(id) =>
            /\ Len(records) = PageSize
            /\ \A i \in 1 .. Len(records) : Position(records[i]) < Position(id)
  BY DEF Pages
<1>6. \A id \in Ids : Position(id) \in Nat /\ Position(id) <= Len(Order)
  BY <1>1, PositionIsPlace
<1>7. \A i \in 1 .. Len(records) : records[i] \in Ids /\ records[i] \in Listed(records)
  BY <1>4, ElementOfSeq DEF Listed
<1>8. Once(records)
  <2>1. SUFFICES ASSUME NEW i \in 1 .. Len(records), NEW k \in 1 .. Len(records),
                        records[i] = records[k], i < k
                 PROVE  FALSE
    BY <1>4 DEF Once
  <2>. QED
    BY <1>5, <1>6, <1>7, <2>1
<1>9. CASE records = <<>>
  <2>1. Len(records) = 0 /\ Listed(records) = {} /\ next = cursor
    BY <1>9 DEF Listed
  <2>. QED
    BY <1>1, <1>4, <1>6, <1>8, <2>1
<1>10. CASE records # <<>>
  <2>1. Len(records) \in 1 .. Len(records) /\ next = Position(records[Len(records)])
    BY <1>4, <1>10, EmptySeq
  <2>2. next \in 0 .. Len(Order) /\ cursor < next
    BY <1>1, <1>5, <1>6, <1>7, <2>1
  <2>3. \A i \in 1 .. Len(records) : Position(records[i]) <= next
    <3>1. SUFFICES ASSUME NEW i \in 1 .. Len(records)
                   PROVE  Position(records[i]) <= next
      OBVIOUS
    <3>2. i = Len(records) => Position(records[i]) = next
      BY <2>1
    <3>3. i < Len(records) => Position(records[i]) < next
      BY <1>5, <2>1
    <3>4. Position(records[i]) \in Nat /\ next \in Nat
      BY <1>6, <1>7, <2>1
    <3>5. i = Len(records) \/ i < Len(records)
      <4>1. Len(records) \in Nat
        BY <1>4
      <4>. QED
        BY <4>1
    <3>6. CASE i = Len(records)
      BY <3>2, <3>4, <3>6
    <3>7. CASE i < Len(records)
      BY <3>3, <3>4, <3>7
    <3>. QED
      BY <3>5, <3>6, <3>7
  <2>4. \A id \in Listed(records) : cursor < Position(id) /\ Position(id) <= next
    BY <1>5, <2>3 DEF Listed
  <2>5. \A id \in live : cursor < Position(id) /\ Position(id) <= next => id \in Listed(records)
    BY <1>1, <1>5, <1>6, <1>7, <2>1
  <2>. QED
    BY <1>4, <1>8, <2>2, <2>4, <2>5
<1>. QED
  BY <1>9, <1>10

\* What is read of a page is on it, once.
LEMMA ReadIsServed ==
    ASSUME NEW served \in Seq(Ids), NEW records \in Readable(served)
    PROVE  records \in Seq(Ids) /\ Once(records) /\ Listed(records) \subseteq Listed(served)
<1>1. PICK n \in 0 .. Len(served) : records \in [1 .. n -> Listed(served)]
  BY DEF Readable
<1>2. Listed(served) \subseteq Ids /\ n \in Nat
  BY ElementOfSeq, LenProperties DEF Listed
<1>3. records \in Seq(Listed(served))
  BY <1>1, <1>2, SeqDef
<1>4. /\ records \in Seq(Ids) /\ Len(records) \in Nat
      /\ \A i \in 1 .. Len(records) : records[i] \in Listed(served)
  BY <1>2, <1>3, SeqMonotonic, LenProperties, ElementOfSeq
<1>5. Once(records)
  <2>1. SUFFICES ASSUME NEW i \in 1 .. Len(records), NEW k \in 1 .. Len(records),
                        records[i] = records[k], i < k
                 PROVE  FALSE
    BY <1>4 DEF Once
  <2>2. Position(records[i]) < Position(records[k])
    BY <2>1 DEF Readable
  <2>3. Position(records[i]) \in Nat
    BY <1>2, <1>4, PositionIsPlace
  <2>. QED
    BY <2>1, <2>2, <2>3
<1>. QED
  BY <1>4, <1>5 DEF Listed

\* What a walk holds after a page: once, everything up to the new cursor that was there
\* all along to be read.
LEMMA PageKeeps ==
    ASSUME Asking, Stored, Walking, pc = "walk", NEW served \in Pages(page.cursor),
           NEW records \in Readable(served)
    PROVE  /\ Collect(records) \in Seq(Ids) /\ Once(Collect(records))
           /\ CursorAfter(served) \in 0 .. Len(Order)
           /\ \A id \in Listed(Collect(records)) : Position(id) <= CursorAfter(served)
           /\ \A id \in owed \ Unread(served, records) :
                 Position(id) <= CursorAfter(served) => id \in Listed(Collect(records))
<1>1. page.cursor \in 0 .. Len(Order) /\ page.collected \in Seq(Ids)
  BY DEF Asking
<1>. DEFINE next == CursorAfter(served)
<1>2. next = IF served = <<>> THEN page.cursor ELSE Position(served[Len(served)])
  BY DEF CursorAfter
<1>. HIDE DEF next
<1>3. /\ served \in Seq(Ids)
      /\ next \in 0 .. Len(Order) /\ page.cursor <= next
      /\ \A id \in Listed(served) : page.cursor < Position(id) /\ Position(id) <= next
      /\ \A id \in live : page.cursor < Position(id) /\ Position(id) <= next => id \in Listed(served)
  BY <1>1, <1>2, PageIsNext
<1>12. /\ records \in Seq(Ids) /\ Once(records)
       /\ Listed(records) \subseteq Listed(served)
       /\ Listed(records) = Listed(served) \ Unread(served, records)
  BY <1>3, ReadIsServed DEF Unread
<1>4. /\ owed \subseteq live /\ Once(page.collected)
      /\ \A id \in Listed(page.collected) : Position(id) <= page.cursor
      /\ \A id \in owed : Position(id) <= page.cursor => id \in Listed(page.collected)
  BY DEF Walking
<1>5. /\ Collect(records) \in Seq(Ids)
      /\ Listed(Collect(records)) = Listed(page.collected) \cup Listed(records)
  BY <1>1, <1>12, ListedTogether, ConcatProperties DEF Collect
<1>6. \A id \in Ids : Position(id) \in Nat
  BY PositionIsPlace
<1>7. /\ Listed(page.collected) \subseteq Ids /\ Listed(records) \subseteq Ids
      /\ owed \subseteq Ids /\ Len(Order) \in Nat
  <2>1. \A seq \in Seq(Ids) : Listed(seq) \subseteq Ids
    BY ElementOfSeq DEF Listed
  <2>. QED
    BY <1>1, <1>12, <2>1, CatalogAssumption DEF Stored
<1>8. Listed(page.collected) \cap Listed(records) = {}
  <2>1. SUFFICES ASSUME NEW id \in Listed(page.collected), id \in Listed(records) PROVE FALSE
    OBVIOUS
  <2>. QED
    BY <1>1, <1>3, <1>12, <1>4, <1>6, <1>7, <2>1
<1>9. Once(Collect(records))
  BY <1>1, <1>12, <1>4, <1>8, OnceTogether DEF Collect
<1>10. \A id \in Listed(Collect(records)) : Position(id) <= next
  BY <1>1, <1>3, <1>12, <1>4, <1>5, <1>6, <1>7
<1>11. \A id \in owed \ Unread(served, records) :
          Position(id) <= next => id \in Listed(Collect(records))
  <2>1. SUFFICES ASSUME NEW id \in owed, id \notin Unread(served, records), Position(id) <= next
                 PROVE  id \in Listed(Collect(records))
    OBVIOUS
  <2>2. CASE Position(id) <= page.cursor
    BY <1>4, <1>5, <2>2
  <2>3. CASE page.cursor < Position(id)
    BY <1>3, <1>12, <1>4, <1>5, <2>1, <2>3
  <2>. QED
    BY <1>1, <1>6, <1>7, <2>2, <2>3
<1>. QED
  BY <1>3, <1>5, <1>9, <1>10, <1>11 DEF next

-----------------------------------------------------------------------------
(* Every step keeps the invariant *)

\* The invariant holds at first.
LEMMA InitHolds == Init => IInv
<1>1. SUFFICES ASSUME Init PROVE IInv
  OBVIOUS
<1>2. page \in [collected : Seq(Ids), cursor : 0 .. Len(Order), count : 0 .. MaxPages - 1]
  BY <1>1, NoPageIsPage DEF Init
<1>3. result.kind = "none"
  BY <1>1 DEF Init, NoResult
<1>4. Asking
  BY <1>1, <1>2, <1>3 DEF Init, Asking, Working, SecondLook, ScanIsSound, ResultKinds, Looking
<1>5. Stored
  BY <1>1 DEF Init, Stored, ResolutionIsSound
<1>6. Walking
  BY <1>1 DEF Init, Walking, ListingIsComplete
<1>. QED
  BY <1>4, <1>5, <1>6 DEF IInv

\* A model that appears, vanishes or is edited leaves the caches right about names.
LEMMA ServerKeeps ==
    ASSUME IInv, \/ \E id \in Ids : Appear(id) \/ Vanish(id)
                 \/ \E kind \in Kinds, id \in Ids : Edit(kind, id)
    PROVE  IInv'
<1>1. Asking /\ Stored /\ Walking
  BY DEF IInv
<1>2. UNCHANGED <<models, resolved, listings, call, pc, key, info, page, result>>
  BY DEF Appear, Vanish, Edit, caches
<1>3. Asking'
  BY <1>1, <1>2 DEF Asking, Working, SecondLook, ScanIsSound, UniqueNames
<1>4. /\ live' \in SUBSET Ids /\ owed' \subseteq owed
      /\ content' \in [Kinds -> [Ids -> SUBSET Entries]]
      /\ pc = "walk" => owed' \subseteq live'
  <2>1. /\ live \in SUBSET Ids /\ content \in [Kinds -> [Ids -> SUBSET Entries]]
        /\ pc = "walk" => owed \subseteq live
    BY <1>1 DEF Stored, Walking
  <2>2. CASE \E id \in Ids : Appear(id)
    BY <2>1, <2>2 DEF Appear
  <2>3. CASE \E id \in Ids : Vanish(id)
    BY <2>1, <2>3 DEF Vanish
  <2>4. CASE \E kind \in Kinds, id \in Ids : Edit(kind, id)
    BY <2>1, <2>4 DEF Edit
  <2>. QED
    BY <2>2, <2>3, <2>4
<1>5. Stored'
  BY <1>1, <1>2, <1>4 DEF Stored, ResolutionIsSound, Answers
<1>6. Walking'
  BY <1>1, <1>2, <1>4 DEF Walking, ListingIsComplete, Listed, Once
<1>. QED
  BY <1>3, <1>5, <1>6 DEF IInv

\* A call begins with what was asked of it.
LEMMA CallKeeps ==
    ASSUME IInv, NEW c \in Calls, Call(c)
    PROVE  IInv'
<1>1. Asking /\ Stored /\ Walking
  BY DEF IInv
<1>2. /\ pc = "idle" /\ call' = c /\ info' = info /\ result' = NoResult
      /\ UNCHANGED <<live, content, models, resolved, listings>>
      /\ key = Nobody /\ info = Nobody
  BY <1>1 DEF Call, server, caches, Asking, Working
<1>3. result'.kind = "none"
  BY <1>2 DEF NoResult
<1>4. CASE c.op = "models"
  <2>1. /\ models = NotWalked /\ key' = key /\ StartWalk
        /\ pc' = "walk" /\ page' = NoPage
    BY <1>4 DEF Call, StartWalk
  <2>2. Walking' /\ owed' \in SUBSET Ids
    BY <1>1, <1>2, <2>1, StartWalkWalks
  <2>3. page' \in [collected : Seq(Ids), cursor : 0 .. Len(Order), count : 0 .. MaxPages - 1]
    BY <2>1, NoPageIsPage
  <2>4. Asking'
    BY <1>1, <1>2, <1>3, <1>4, <2>1, <2>3
       DEF Asking, Working, SecondLook, ScanIsSound, UniqueNames, ResultKinds, Looking
  <2>. QED
    BY <1>1, <1>2, <2>2, <2>4, StoredStays DEF IInv
<1>5. CASE c.op # "models"
  <2>1. pc' = "resolve" /\ key' = c.key /\ UNCHANGED <<page, owed>>
    BY <1>5 DEF Call
  <2>2. c.key \in Ids \cup Names
    BY <1>5, CatalogAssumption DEF Calls
  <2>3. Asking'
    BY <1>1, <1>2, <1>3, <1>5, <2>1, <2>2
       DEF Asking, Working, SecondLook, ScanIsSound, UniqueNames, ResultKinds, Looking
  <2>4. owed' \in SUBSET Ids
    BY <1>1, <2>1 DEF Stored
  <2>. QED
    BY <1>1, <1>2, <2>1, <2>3, <2>4, StoredStays, WalkingStays DEF IInv
<1>. QED
  BY <1>4, <1>5

\* Refresh drops the caches, all of them.
LEMMA RefreshKeeps ==
    ASSUME IInv, Refresh
    PROVE  IInv'
<1>1. Asking /\ Stored /\ Walking
  BY DEF IInv
<1>2. /\ UNCHANGED <<live, content, call, pc, key, info, page>> /\ pc = "idle"
      /\ result' = NoResult /\ owed' = {} /\ models' = NotWalked
      /\ resolved' = [k \in Ids \cup Names |-> Nobody]
      /\ listings' = [kind \in Kinds |-> [id \in Ids |-> NotCached]]
  BY DEF Refresh, DropAll, server
<1>3. result'.kind = "none"
  BY <1>2 DEF NoResult
<1>4. Asking'
  BY <1>1, <1>2, <1>3 DEF Asking, Working, SecondLook, ScanIsSound, UniqueNames, ResultKinds
<1>5. Stored'
  BY <1>1, <1>2 DEF Stored, ResolutionIsSound
<1>6. Walking'
  BY <1>2 DEF Walking, ListingIsComplete
<1>. QED
  BY <1>4, <1>5, <1>6 DEF IInv

\* A call that is looking has a key to look for.
LEMMA LookingForKey ==
    ASSUME Asking, pc \in Looking, call.op # "models"
    PROVE  key \in Ids \cup Names
  BY DEF Asking, Working, Looking

\* Steps that change no cache and come to rest
LEMMA RestKeeps ==
    ASSUME IInv, Asking', pc' \in {"idle", "resolve", "list"}, UNCHANGED <<server, caches, owed>>
    PROVE  IInv'
<1>1. Stored /\ Walking /\ owed' \in SUBSET Ids
  BY DEF IInv, Stored
<1>2. UNCHANGED <<live, content, models, resolved, listings, owed>>
  BY DEF server, caches
<1>. QED
  BY <1>1, <1>2, StoredStays, WalkingStays DEF IInv

\* A model found in the cached listing has the name or id that was asked for.
LEMMA FromListingKeeps ==
    ASSUME IInv, FromListing
    PROVE  IInv'
<1>1. /\ Asking /\ pc = "resolve" /\ call.op # "models"
      /\ models \in Seq(Ids)
      /\ UNCHANGED <<server, caches, owed>>
  BY DEF IInv, FromListing, Asking, Working, Stored
<1>. DEFINE candidates == {id \in Listed(models) : Answers(id, key)}
<1>2. CASE candidates # {}
  <2>1. Found(FirstOf(models, candidates))
    BY <1>2 DEF FromListing
  <2>2. FirstOf(models, candidates) \in candidates \cap Ids
    BY <1>1, <1>2, FirstOfIsOne
  <2>. HIDE DEF candidates
  <2>3. Answers(FirstOf(models, candidates), key)
    BY <2>2 DEF candidates
  <2>. QED
    BY <1>1, <2>1, <2>2, <2>3, FoundKeeps, RestKeeps DEF Looking
<1>3. CASE candidates = {}
  <2>1. Fail("no_such_model")
    BY <1>3 DEF FromListing
  <2>. QED
    BY <1>1, <2>1, FailKeeps, RestKeeps DEF ResultKinds
<1>. QED
  BY <1>2, <1>3

\* So has one that was resolved before.
LEMMA FromResolvedKeeps ==
    ASSUME IInv, FromResolved
    PROVE  IInv'
<1>1. /\ Asking /\ pc = "resolve" /\ call.op # "models"
      /\ resolved[key] # Nobody /\ Found(resolved[key])
      /\ UNCHANGED <<server, caches, owed>>
  BY DEF IInv, FromResolved, Asking, Working
<1>2. key \in Ids \cup Names
  BY <1>1, LookingForKey DEF Looking
<1>3. resolved[key] \in Ids /\ Answers(resolved[key], key)
  BY <1>1, <1>2 DEF IInv, Stored, ResolutionIsSound
<1>. QED
  BY <1>1, <1>3, FoundKeeps, RestKeeps DEF Looking

\* A question to the server changes nothing yet.
LEMMA AskServerKeeps ==
    ASSUME IInv, AskServer
    PROVE  IInv'
<1>1. /\ Asking /\ Stored /\ Walking /\ pc = "resolve" /\ call.op # "models" /\ models = NotWalked
      /\ UNCHANGED <<live, content, models, resolved, listings, call, key, info, result>>
  BY DEF IInv, AskServer, Asking, Working, server, caches
<1>2. CASE StartWalk
  <2>1. pc' = "walk" /\ page' = NoPage
    BY <1>2 DEF StartWalk
  <2>2. Walking' /\ owed' \in SUBSET Ids
    BY <1>1, <1>2, StartWalkWalks
  <2>3. Asking'
    BY <1>1, <2>1, NoPageIsPage
       DEF Asking, Working, SecondLook, ScanIsSound, UniqueNames, Looking
  <2>. QED
    BY <1>1, <2>2, <2>3, StoredStays DEF IInv
<1>3. CASE pc' \in {"by_id", "by_name"} /\ UNCHANGED <<page, owed>>
  <2>1. Asking'
    BY <1>1, <1>3 DEF Asking, Working, SecondLook, ScanIsSound, UniqueNames, Looking
  <2>2. Stored'
    BY <1>1, <1>3 DEF Stored, ResolutionIsSound, Answers
  <2>3. Walking'
    BY <1>1, <1>3 DEF Walking, ListingIsComplete
  <2>. QED
    BY <2>1, <2>2, <2>3 DEF IInv
<1>. QED
  BY <1>2, <1>3 DEF AskServer

\* A lookup that finds a model which answers to its key, and remembers it
LEMMA RememberedKeeps ==
    ASSUME IInv, pc \in Looking, call.op # "models", NEW id \in Ids, Answers(id, key),
           Remember(id), Found(id), UNCHANGED <<live, content, models, listings, owed>>
    PROVE  IInv'
<1>1. Asking /\ Stored /\ Walking
  BY DEF IInv
<1>2. Asking' /\ pc' \in {"idle", "resolve", "list"}
  BY <1>1, FoundKeeps
<1>3. resolved' \in [Ids \cup Names -> Ids \cup {Nobody}] /\ ResolutionIsSound'
  BY <1>1, LookingForKey, RememberKeeps
<1>4. Stored'
  BY <1>1, <1>3 DEF Stored
<1>. QED
  BY <1>1, <1>2, <1>4, WalkingStays DEF IInv

\* A model asked for by id is cached under it.
LEMMA ByIdKeeps ==
    ASSUME IInv, ById
    PROVE  IInv'
<1>1. /\ Asking /\ Stored /\ Walking /\ pc = "by_id" /\ call.op # "models" /\ models = NotWalked
      /\ UNCHANGED <<live, content, models, listings, owed>>
  BY DEF IInv, ById, Asking, Working, Walking, server
<1>2. CASE key \in live /\ Remember(key) /\ Found(key)
  <2>1. Remember(key) /\ Found(key) /\ key \in Ids /\ Answers(key, key)
    BY <1>1, <1>2 DEF Stored, Answers
  <2>. QED
    BY <1>1, <2>1, RememberedKeeps DEF Looking
<1>3. CASE pc' = "by_name" /\ UNCHANGED <<resolved, call, key, info, page, result>>
  <2>1. pc' = "by_name" /\ UNCHANGED <<resolved, call, key, info, page, result>>
    BY <1>3
  <2>2. Asking'
    BY <1>1, <2>1 DEF Asking, Working, SecondLook, ScanIsSound, UniqueNames, Looking
  <2>3. Stored'
    BY <1>1, <2>1 DEF Stored, ResolutionIsSound, Answers
  <2>4. Walking'
    BY <1>1, <2>1 DEF Walking, ListingIsComplete
  <2>. QED
    BY <2>2, <2>3, <2>4 DEF IInv
<1>. QED
  BY <1>2, <1>3 DEF ById

\* A model found by name is cached under its name.
LEMMA ByNameKeeps ==
    ASSUME IInv, ByName
    PROVE  IInv'
<1>1. /\ Asking /\ Stored /\ Walking /\ pc = "by_name" /\ call.op # "models" /\ models = NotWalked
      /\ UNCHANGED <<live, content, models, listings>>
  BY DEF IInv, ByName, Asking, Working, Walking, server
<1>6. PICK reply \in SUBSET Alike :
         IF Exact(reply) # {}
         THEN /\ Remember(FirstOf(Order, Exact(reply)))
              /\ Found(FirstOf(Order, Exact(reply)))
              /\ UNCHANGED owed
         ELSE StartWalk /\ UNCHANGED <<resolved, call, key, info, result>>
  BY DEF ByName
<1>. DEFINE exact == Exact(reply)
<1>2. exact \subseteq Ids /\ \A id \in exact : NameOf[id] = key
  BY <1>1 DEF Exact, Alike, Stored
<1>3. \/ exact # {} /\ Remember(FirstOf(Order, exact)) /\ Found(FirstOf(Order, exact))
         /\ UNCHANGED owed
      \/ exact = {} /\ StartWalk /\ UNCHANGED <<resolved, call, key, info, result>>
  BY <1>6
<1>. HIDE DEF exact
<1>4. CASE exact # {}
  <2>1. FirstOf(Order, exact) \in exact \cap Ids
    BY <1>2, <1>4, FirstOfIsOne, OrderListsIds
  <2>2. Answers(FirstOf(Order, exact), key)
    BY <1>2, <2>1 DEF Answers
  <2>. QED
    BY <1>1, <1>3, <1>4, <2>1, <2>2, RememberedKeeps DEF Looking
<1>5. CASE exact = {}
  <2>1. StartWalk /\ UNCHANGED <<resolved, call, key, info, result>>
    BY <1>3, <1>5
  <2>2. pc' = "walk" /\ page' = NoPage
    BY <2>1 DEF StartWalk
  <2>3. Walking' /\ owed' \in SUBSET Ids
    BY <1>1, <2>1, StartWalkWalks
  <2>4. Asking'
    BY <1>1, <2>1, <2>2, NoPageIsPage
       DEF Asking, Working, SecondLook, ScanIsSound, UniqueNames, Looking
  <2>. QED
    BY <1>1, <2>1, <2>3, <2>4, StoredStays DEF IInv
<1>. QED
  BY <1>4, <1>5

\* A walk that ends leaves a listing of all it could read.
LEMMA WalkedIsComplete ==
    ASSUME Asking, Stored, Walking, pc = "walk", NEW served \in Pages(page.cursor),
           NEW records \in Readable(served),
           owed' = owed \ (Unread(served, records) \cup Beyond(served)),
           models' = Collect(records)
    PROVE  models' \in Seq(Ids) /\ ListingIsComplete'
<1>1. /\ Collect(records) \in Seq(Ids) /\ Once(Collect(records))
      /\ CursorAfter(served) \in 0 .. Len(Order)
      /\ \A id \in owed \ Unread(served, records) :
            Position(id) <= CursorAfter(served) => id \in Listed(Collect(records))
  BY PageKeeps
<1>2. owed \subseteq live /\ live \subseteq Ids /\ Len(Order) \in Nat
  BY CatalogAssumption DEF Walking, Stored
<1>3. owed' \subseteq Listed(models') /\ Once(models')
  <2>1. SUFFICES ASSUME NEW id \in owed, id \notin Unread(served, records), id \notin Beyond(served)
                 PROVE  id \in Listed(Collect(records))
    BY <1>1
  <2>2. ~(CursorAfter(served) < Position(id)) /\ Position(id) \in Nat
    BY <1>2, <2>1, PositionIsPlace DEF Beyond
  <2>3. Position(id) <= CursorAfter(served)
    BY <1>1, <1>2, <2>2
  <2>. QED
    BY <1>1, <2>1, <2>3
<1>. QED
  BY <1>1, <1>3 DEF ListingIsComplete, Listed, Once

\* A page extends the walk by the models it lists and passes over none.
LEMMA WalkKeeps ==
    ASSUME IInv, Walk
    PROVE  IInv'
<1>1. /\ Asking /\ Stored /\ Walking /\ pc = "walk" /\ call \in Calls
      /\ UNCHANGED <<live, content, listings>>
      /\ owed \subseteq live
  BY DEF IInv, Walk, Asking, Working, Walking, server
<1>0. PICK served \in Pages(page.cursor) : \E records \in Readable(served) :
         \/ /\ MayGoOn
            /\ page' = [collected |-> Collect(records), cursor |-> CursorAfter(served),
                        count |-> page.count + 1]
            /\ owed' = owed \ Unread(served, records)
            /\ UNCHANGED <<models, resolved, call, pc, key, info, result>>
         \/ /\ ~MayGoOn
            /\ Fail("endless") /\ UNCHANGED <<models, resolved, owed>>
         \/ /\ owed' = owed \ (Unread(served, records) \cup Beyond(served))
            /\ models' = Collect(records)
            /\ Listing(models')
  BY DEF Walk
<1>2. PICK records \in Readable(served) :
         \/ /\ MayGoOn
            /\ page' = [collected |-> Collect(records), cursor |-> CursorAfter(served),
                        count |-> page.count + 1]
            /\ owed' = owed \ Unread(served, records)
            /\ UNCHANGED <<models, resolved, call, pc, key, info, result>>
         \/ /\ ~MayGoOn
            /\ Fail("endless") /\ UNCHANGED <<models, resolved, owed>>
         \/ /\ owed' = owed \ (Unread(served, records) \cup Beyond(served))
            /\ models' = Collect(records)
            /\ Listing(models')
  BY <1>0
<1>3. CASE /\ MayGoOn
           /\ page' = [collected |-> Collect(records), cursor |-> CursorAfter(served),
                       count |-> page.count + 1]
           /\ owed' = owed \ Unread(served, records)
           /\ UNCHANGED <<models, resolved, call, pc, key, info, result>>
  <2>1. /\ Collect(records) \in Seq(Ids) /\ Once(Collect(records))
        /\ CursorAfter(served) \in 0 .. Len(Order)
        /\ \A id \in Listed(Collect(records)) : Position(id) <= CursorAfter(served)
        /\ \A id \in owed' : Position(id) <= CursorAfter(served) =>
              id \in Listed(Collect(records))
    BY <1>1, <1>3, PageKeeps
  <2>2. page.count + 1 \in 0 .. MaxPages - 1
    BY <1>1, <1>3, CatalogAssumption DEF MayGoOn, Asking
  <2>3. page' \in [collected : Seq(Ids), cursor : 0 .. Len(Order), count : 0 .. MaxPages - 1]
    BY <1>3, <2>1, <2>2
  <2>4. page'.collected = Collect(records) /\ page'.cursor = CursorAfter(served)
    BY <1>3
  <2>5. Asking'
    BY <1>1, <1>3, <2>3 DEF Asking, Working, SecondLook, ScanIsSound, UniqueNames
  <2>6. Stored'
    BY <1>1, <1>3 DEF Stored, ResolutionIsSound, Answers
  <2>7. /\ Once(page.collected)'
        /\ \A id \in Listed(page.collected)' : Position(id) <= page'.cursor
        /\ \A id \in owed' : Position(id) <= page'.cursor => id \in Listed(page.collected)'
    BY <1>1, <2>1, <2>4 DEF Once, Listed
  <2>8. Walking'
    <3>1. models' = NotWalked /\ pc' = "walk" /\ owed' \subseteq live'
      BY <1>1, <1>3 DEF Walking
    <3>. QED
      BY <2>7, <3>1 DEF Walking, ListingIsComplete
  <2>. QED
    BY <2>5, <2>6, <2>8 DEF IInv
<1>4. CASE Fail("endless") /\ UNCHANGED <<models, resolved, owed>>
  <2>1. Asking' /\ pc' = "idle"
    BY <1>4, FailKeeps DEF ResultKinds
  <2>. QED
    BY <1>1, <1>4, <2>1, RestKeeps DEF server, caches
<1>5. CASE /\ owed' = owed \ (Unread(served, records) \cup Beyond(served))
           /\ models' = Collect(records)
           /\ Listing(models')
  <2>1. models' \in Seq(Ids) /\ ListingIsComplete'
    BY <1>1, <1>5, WalkedIsComplete
  <2>2. ASSUME Asking', pc' \in {"idle", "resolve", "list"},
               resolved' \in [Ids \cup Names -> Ids \cup {Nobody}], ResolutionIsSound'
        PROVE  IInv'
    <3>1. Stored'
      BY <1>1, <1>5, <2>1, <2>2 DEF Stored
    <3>2. Walking'
      BY <2>1, <2>2 DEF Walking
    <3>. QED
      BY <2>2, <3>1, <3>2 DEF IInv
  <2>3. UNCHANGED resolved =>
           /\ resolved' \in [Ids \cup Names -> Ids \cup {Nobody}]
           /\ ResolutionIsSound'
    BY <1>1 DEF Stored, ResolutionIsSound, Answers
  <2>. DEFINE hits == {id \in Listed(models') : Answers(id, key)}
  <2>4. CASE call.op = "models"
    <3>. DEFINE outcome == [NoResult EXCEPT !.kind = "models"]
    <3>1. Return(outcome) /\ outcome.kind = "models" /\ UNCHANGED resolved
      BY <1>5, <2>4 DEF Listing, NoResult
    <3>. HIDE DEF outcome
    <3>2. Asking' /\ pc' = "idle"
      BY <3>1, ReturnKeeps DEF ResultKinds
    <3>. QED
      BY <2>2, <2>3, <3>1, <3>2
  <2>5. CASE call.op # "models" /\ hits # {}
    <3>1. Remember(FirstOf(models', hits)) /\ Found(FirstOf(models', hits))
      BY <1>5, <2>5 DEF Listing
    <3>2. FirstOf(models', hits) \in hits \cap Ids
      BY <2>1, <2>5, FirstOfIsOne
    <3>3. Answers(FirstOf(models', hits), key)
      BY <3>2
    <3>. HIDE DEF hits
    <3>4. Asking' /\ pc' \in {"idle", "resolve", "list"}
      BY <1>1, <2>5, <3>1, <3>2, <3>3, FoundKeeps DEF Looking
    <3>5. resolved' \in [Ids \cup Names -> Ids \cup {Nobody}] /\ ResolutionIsSound'
      BY <1>1, <2>5, <3>1, <3>2, <3>3, LookingForKey, RememberKeeps DEF Looking
    <3>. QED
      BY <2>2, <3>4, <3>5
  <2>6. CASE call.op # "models" /\ hits = {}
    <3>1. Fail("no_such_model") /\ UNCHANGED resolved
      BY <1>5, <2>6 DEF Listing
    <3>2. Asking' /\ pc' = "idle"
      BY <3>1, FailKeeps DEF ResultKinds
    <3>. QED
      BY <2>2, <2>3, <3>1, <3>2
  <2>. QED
    BY <2>4, <2>5, <2>6
<1>. QED
  BY <1>2, <1>3, <1>4, <1>5

\* A listing is cached for the model it is of, and a request that fails caches nothing.
LEMMA ListKeeps ==
    ASSUME IInv, FromCache \/ List \/ RequestFails
    PROVE  IInv'
<1>1. Asking /\ Stored /\ Walking
  BY DEF IInv
<1>2. CASE FromCache
  <2>1. Asking' /\ pc' = "idle" /\ UNCHANGED <<server, caches, owed>>
    BY <1>1, <1>2, DeliverKeeps DEF FromCache
  <2>. QED
    BY <2>1, RestKeeps
<1>3. CASE RequestFails
  <2>1. Asking' /\ pc' = "idle" /\ UNCHANGED <<server, caches, owed>>
    BY <1>3, FailKeeps DEF RequestFails, ResultKinds
  <2>. QED
    BY <2>1, RestKeeps
<1>4. CASE List
  <2>1. pc = "list" /\ key \in Ids /\ call.kind \in Kinds
    BY <1>1, <1>4 DEF List, Asking, Working, Calls, Kinds
  <2>2. UNCHANGED <<live, content, models, resolved, owed>>
    BY <1>4 DEF List, server
  <2>3. \/ \E entries \in SUBSET Entries : Store(entries)
        \/ Fail("malformed") /\ UNCHANGED listings
        \/ Fail("not_found") /\ UNCHANGED listings
    <3>1. content[call.kind][key] \in SUBSET Entries
      BY <1>1, <2>1 DEF Stored
    <3>. QED
      BY <1>4, <3>1 DEF List
  <2>4. Asking' /\ pc' = "idle"
    BY <1>1, <2>1, <2>3, DeliverKeeps, FailKeeps DEF Store, ResultKinds
  <2>5. listings' \in [Kinds -> [Ids -> (SUBSET Entries) \cup {NotCached}]]
    <3>1. CASE \E entries \in SUBSET Entries : Store(entries)
      BY <1>1, <2>1, <3>1 DEF Store, Stored
    <3>2. CASE UNCHANGED listings
      BY <1>1, <3>2 DEF Stored
    <3>. QED
      BY <2>3, <3>1, <3>2
  <2>6. Stored'
    BY <1>1, <2>2, <2>5 DEF Stored, ResolutionIsSound, Answers
  <2>. QED
    BY <1>1, <2>2, <2>4, <2>6, WalkingStays DEF IInv
<1>. QED
  BY <1>2, <1>3, <1>4

\* Every step keeps the invariant.
LEMMA StepKeeps == IInv /\ [Next]_vars => IInv'
<1>1. SUFFICES ASSUME IInv, [Next]_vars PROVE IInv'
  OBVIOUS
<1>2. CASE \E c \in Calls : Call(c)
  BY <1>1, <1>2, CallKeeps
<1>3. CASE Refresh
  BY <1>1, <1>3, RefreshKeeps
<1>4. CASE Progress
  BY <1>1, <1>4, FromListingKeeps, FromResolvedKeeps, AskServerKeeps, ByIdKeeps, ByNameKeeps,
     WalkKeeps, ListKeeps DEF Progress
<1>5. CASE \/ \E id \in Ids : Appear(id) \/ Vanish(id)
           \/ \E kind \in Kinds, id \in Ids : Edit(kind, id)
  BY <1>1, <1>5, ServerKeeps
<1>6. CASE UNCHANGED vars
  <2>1. UNCHANGED <<server, caches, owed>> /\ UNCHANGED <<call, pc, key, info, page, result>>
    BY <1>6 DEF vars
  <2>2. Asking'
    BY <1>1, <2>1 DEF IInv, Asking, Working, SecondLook, ScanIsSound, UniqueNames
  <2>3. Stored'
    BY <1>1, <2>1 DEF IInv, Stored, ResolutionIsSound, Answers, server, caches
  <2>4. Walking'
    BY <1>1, <2>1 DEF IInv, Walking, ListingIsComplete, Listed, Once, server, caches
  <2>. QED
    BY <2>2, <2>3, <2>4 DEF IInv
<1>. QED
  BY <1>1, <1>2, <1>3, <1>4, <1>5, <1>6 DEF Next

-----------------------------------------------------------------------------
(* The theorems *)

\* The inductive invariant: every call, cache and walk of the catalog is as described above.
THEOREM CatalogInvariant == Spec => []IInv
<1>1. Init => IInv
  BY InitHolds
<1>2. IInv /\ [Next]_vars => IInv'
  BY StepKeeps
<1>. QED
  BY <1>1, <1>2, PTL DEF Spec

\* The caches, the walk and the call of the catalog always have their shapes.
THEOREM CatalogTypeOK == Spec => []TypeOK
<1>1. IInv => TypeOK
  BY DEF IInv, Asking, Stored, Looking, TypeOK
<1>. QED
  BY <1>1, CatalogInvariant, PTL

\* With unique names, topic and view scan the very model whose listing they checked, although
\* they resolve it twice while the server changes.
THEOREM CatalogScanIsSound == Spec => []ScanIsSound
<1>1. IInv => ScanIsSound
  BY DEF IInv, Asking
<1>. QED
  BY <1>1, CatalogInvariant, PTL

\* The cached listing of models holds, once, every model that existed while it was walked,
\* whatever came and went between two pages, unless a reply could not be read: then it lacks
\* the records of that page that could not, or what a page without its way on left behind.
THEOREM CatalogListingIsComplete == Spec => []ListingIsComplete
<1>1. IInv => ListingIsComplete
  BY DEF IInv, Walking
<1>. QED
  BY <1>1, CatalogInvariant, PTL

\* What is remembered of a name or an id is a model that has exactly that name or id.
THEOREM CatalogResolutionIsSound == Spec => []ResolutionIsSound
<1>1. IInv => ResolutionIsSound
  BY DEF IInv, Stored
<1>. QED
  BY <1>1, CatalogInvariant, PTL

-----------------------------------------------------------------------------
(* The read-through cache *)

AtServer == [k \in Kinds \X Ids |-> content[k[1]][k[2]]]
AtHand == [k \in Kinds \X Ids |-> listings[k[1]][k[2]]]

\* A new catalog is an empty read-through cache.
LEMMA CacheStarts == Init => Cache!Init
<1>1. SUFFICES ASSUME Init PROVE Cache!Init
  OBVIOUS
<1>2. \A k \in Kinds \X Ids : k[1] \in Kinds /\ k[2] \in Ids
  OBVIOUS
<1>3. AtServer \in [Kinds \X Ids -> SUBSET Entries]
  BY <1>1, <1>2 DEF Init, AtServer
<1>4. AtHand = [k \in Kinds \X Ids |-> NotCached]
  BY <1>1, <1>2 DEF Init, AtHand
<1>. QED
  BY <1>3, <1>4 DEF Cache!Init, Cache!Nothing, AtServer, AtHand

\* A listing that is stored fills the entry of one kind and one model.
LEMMA StoreFills ==
    ASSUME Stored, call.kind \in Kinds, key \in Ids, NEW entries, Store(entries),
           listings[call.kind][key] = NotCached, UNCHANGED content,
           \/ entries = content[call.kind][key]
           \/ entries = {} /\ call.kind = "topic"
    PROVE  Cache!Next
<1>. DEFINE k == <<call.kind, key>>
<1>1. k \in Kinds \X Ids /\ k[1] = call.kind /\ k[2] = key
  OBVIOUS
<1>2. AtHand[k] = NotCached /\ AtServer[k] = content[call.kind][key]
  BY <1>1 DEF AtHand, AtServer
<1>3. listings' = [listings EXCEPT ![call.kind][key] = entries]
  BY DEF Store
<1>4. AtHand' = [AtHand EXCEPT ![k] = entries]
  <2>1. ASSUME NEW j \in Kinds \X Ids
        PROVE  listings'[j[1]][j[2]] = IF j = k THEN entries ELSE listings[j[1]][j[2]]
    <3>1. j[1] \in Kinds /\ j[2] \in Ids /\ (j = k <=> j[1] = call.kind /\ j[2] = key)
      OBVIOUS
    <3>. QED
      BY <1>3, <3>1 DEF Stored
  <2>. QED
    BY <1>1, <2>1 DEF AtHand
<1>5. UNCHANGED AtServer
  BY DEF AtServer
<1>6. entries = AtServer[k] \/ (k \in {"topic"} \X Ids /\ entries = {})
  BY <1>2
<1>. HIDE DEF k
<1>7. \E e \in Kinds \X Ids :
         /\ AtHand[e] = NotCached
         /\ \/ AtHand' = [AtHand EXCEPT ![e] = AtServer[e]]
            \/ e \in {"topic"} \X Ids /\ AtHand' = [AtHand EXCEPT ![e] = {}]
         /\ UNCHANGED AtServer
  BY <1>1, <1>2, <1>4, <1>5, <1>6
<1>. QED
  BY <1>7 DEF Cache!Next, Cache!Fill, AtServer, AtHand

\* Every step is a step of ReadThrough or leaves it alone.
LEMMA CacheSteps == IInv /\ [Next]_vars => [Cache!Next]_(Cache!vars)
<1>1. SUFFICES ASSUME IInv, [Next]_vars PROVE [Cache!Next]_(Cache!vars)
  OBVIOUS
<1>2. UNCHANGED <<content, listings>> => UNCHANGED Cache!vars
  BY DEF Cache!vars
<1>3. CASE \E c \in Calls : Call(c)
  BY <1>2, <1>3 DEF Call, server, caches
<1>4. CASE Refresh
  <2>1. content' = content /\ listings' = [kind \in Kinds |-> [id \in Ids |-> NotCached]]
    BY <1>4 DEF Refresh, DropAll, server
  <2>2. AtHand' = [k \in Kinds \X Ids |-> NotCached]
    BY <2>1 DEF AtHand
  <2>3. UNCHANGED AtServer
    BY <2>1 DEF AtServer
  <2>. QED
    BY <2>2, <2>3 DEF Cache!Next, Cache!Drop, Cache!Nothing, AtServer, AtHand
<1>5. CASE Progress
  <2>1. CASE FromListing \/ FromResolved \/ AskServer \/ FromCache \/ RequestFails
    BY <1>2, <2>1 DEF FromListing, FromResolved, AskServer, FromCache, RequestFails, server, caches
  <2>2. CASE ById \/ ByName \/ Walk
    BY <1>2, <2>2 DEF ById, ByName, Walk, server
  <2>3. CASE List
    <3>1. /\ Stored /\ key \in Ids /\ call.kind \in Kinds
          /\ UNCHANGED content /\ listings[call.kind][key] = NotCached
      BY <1>1, <2>3 DEF IInv, List, Asking, Working, Calls, Kinds, server
    <3>2. CASE Store(content[call.kind][key]) \/ (call.kind = "topic" /\ Store({}))
      BY <3>1, <3>2, StoreFills
    <3>3. CASE UNCHANGED listings
      BY <1>2, <3>1, <3>3
    <3>. QED
      BY <2>3, <3>2, <3>3 DEF List
  <2>. QED
    BY <1>5, <2>1, <2>2, <2>3 DEF Progress
<1>6. CASE \E id \in Ids : Appear(id) \/ Vanish(id)
  BY <1>2, <1>6 DEF Appear, Vanish, caches
<1>7. CASE \E kind \in Kinds, id \in Ids : Edit(kind, id)
  <2>1. Stored' /\ UNCHANGED listings
    BY <1>1, <1>7, StepKeeps DEF IInv, Edit, caches
  <2>2. AtServer' \in [Kinds \X Ids -> SUBSET Entries] /\ UNCHANGED AtHand
    BY <2>1 DEF Stored, AtServer, AtHand
  <2>. QED
    BY <2>2 DEF Cache!Next, Cache!Change, AtServer, AtHand
<1>8. CASE UNCHANGED vars
  BY <1>2, <1>8 DEF vars, server, caches
<1>. QED
  BY <1>1, <1>3, <1>4, <1>5, <1>6, <1>7, <1>8 DEF Next

\* The catalog's listings of topics and views implement a read-through cache: each entry is
\* what the server held when it was read, until refresh drops them all.
THEOREM CatalogImplementsReadThrough == Spec => ImplementsReadThrough
<1>1. Init => Cache!Init
  BY CacheStarts
<1>2. IInv /\ [Next]_vars => [Cache!Next]_(Cache!vars)
  BY CacheSteps
<1>. QED
  BY <1>1, <1>2, CatalogInvariant, PTL DEF Spec, ImplementsReadThrough, Cache!Spec
=============================================================================

------------------------------- MODULE Catalog -------------------------------
(***************************************************************************)
(* Catalog (catalog.py) and the two reads built on it (session.py,         *)
(* DataFrameReader.topic and .view): resolving a model by name or id,      *)
(* walking the paged listing, reading a model's topics or view names, all  *)
(* through caches that only refresh drops.                                 *)
(*                                                                         *)
(* A call makes several requests; each is a step, and between two of them  *)
(* the server may change.  The whoami preflight in front of a request is   *)
(* part of that request: when it fails, the request was never made.        *)
(*                                                                         *)
(* The server is external.  Models come and go and their listings change;  *)
(* a model keeps its name.  A page holds the models after the cursor, in a *)
(* fixed order, and may promise a next page that turns out to be empty.    *)
(* Any reply of the model list may be malformed: without its records or    *)
(* some of them, without the way to the next page.                         *)
(***************************************************************************)
EXTENDS Integers, Sequences

CONSTANTS
    Order,          \* the models' ids, in the order the server lists them
    NameOf,         \* the name of each model
    Uuids,          \* the ids ?modelId= accepts
    Unnamed,        \* the empty name
    Fold,           \* names as the server compares them: case does not matter
    Wanted,         \* the names and ids callers ask for
    Entries,        \* topic and view names
    PageSize,       \* _PAGE_SIZE
    MaxPages,       \* _MAX_PAGES
    Drifts,         \* whether the server changes while it is being read
    Volatile        \* the kinds of listing that differ, from model to model and over time

Ids == {Order[i] : i \in 1 .. Len(Order)}
Names == {NameOf[id] : id \in Ids} \cup {Unnamed}
Kinds == {"topic", "view"}

ASSUME CatalogAssumption ==
    /\ Order \in Seq(Ids) /\ Order # <<>>
    /\ \A i, k \in 1 .. Len(Order) : Order[i] = Order[k] => i = k
    /\ DOMAIN NameOf = Ids
    /\ Ids \cap Names = {}
    /\ Uuids \subseteq Ids
    /\ Wanted \subseteq Ids \cup Names
    /\ DOMAIN Fold = Names
    /\ \A n \in Names : Fold[n] = Fold[Unnamed] => n = Unnamed
    /\ PageSize \in Nat \ {0}
    /\ MaxPages \in Nat \ {0}
    /\ Drifts \in BOOLEAN
    /\ Volatile \subseteq Kinds
    /\ "not_cached" \notin Entries \cup Ids /\ "nobody" \notin Ids \cup Names

VARIABLES
    live,           \* server: the models that exist
    content,        \* server: the topics and views of each
    models,         \* _models: the complete listing, in order, or NotWalked
    resolved,       \* _resolved: the model each name or id is known to reach
    listings,       \* _topics and _view_names
    call,           \* what was asked
    pc,             \* what the call does next, "idle" between calls
    key,            \* the name or id being resolved
    info,           \* a read's model_info, once it is resolved
    page,           \* the walk in progress: what it collected, its cursor, its length
    result,         \* how the last call ended
    owed            \* history: the models that existed throughout the last walk, on pages it
                    \* could read and reach

server == <<live, content>>
caches == <<models, resolved, listings>>
vars == <<server, caches, call, pc, key, info, page, result, owed>>

NotCached == {"not_cached"}     \* a listing that was not read: no set of entries
NotWalked == <<"not_cached">>   \* _models is None: no list of ids
Nobody == "nobody"

NoCall == [op |-> "none", kind |-> "topic", key |-> Nobody, entry |-> Nobody]
NoPage == [collected |-> <<>>, cursor |-> 0, count |-> 0]
NoResult == [kind |-> "none", of |-> "topic", id |-> Nobody, entry |-> Nobody, source |-> Nobody]

Calls ==
    [op : {"models"}, kind : {"topic"}, key : {Nobody}, entry : {Nobody}]
    \cup [op : {"model"}, kind : {"topic"}, key : Wanted, entry : {Nobody}]
    \cup [op : {"listing"}, kind : Kinds, key : Wanted, entry : {Nobody}]
    \cup [op : {"read"}, kind : Kinds, key : Wanted, entry : Entries]

Listed(seq) == {seq[i] : i \in 1 .. Len(seq)}

\* Mutant of Answers: names compared without case, as the server does.
MutAnswers(id, name_or_id) ==
    name_or_id = id \/ (name_or_id \in Names /\ Fold[NameOf[id]] = Fold[name_or_id])

\* name_or_id in (candidate.id, candidate.name)
Answers(id, name_or_id) == name_or_id \in {id, NameOf[id]}

\* The first of some models in the order of a listing.
FirstOf(seq, ids) ==
    seq[CHOOSE i \in 1 .. Len(seq) : seq[i] \in ids /\ \A k \in 1 .. i - 1 : seq[k] \notin ids]

Init ==
    /\ live \in SUBSET Ids
    /\ content \in [Kinds -> [Ids -> SUBSET Entries]]
    /\ \A kind \in Kinds \ Volatile, id \in Ids : content[kind][id] = Entries
    /\ models = NotWalked
    /\ resolved = [k \in Ids \cup Names |-> Nobody]
    /\ listings = [kind \in Kinds |-> [id \in Ids |-> NotCached]]
    /\ call = NoCall
    /\ pc = "idle"
    /\ key = Nobody
    /\ info = Nobody
    /\ page = NoPage
    /\ result = NoResult
    /\ owed = {}

-----------------------------------------------------------------------------
(* The server changes *)

Appear(id) ==
    /\ Drifts /\ id \notin live
    /\ live' = live \cup {id}
    /\ UNCHANGED <<content, caches, call, pc, key, info, page, result, owed>>

Vanish(id) ==
    /\ Drifts /\ id \in live
    /\ live' = live \ {id}
    /\ owed' = IF pc = "walk" THEN owed \ {id} ELSE owed
    /\ UNCHANGED <<content, caches, call, pc, key, info, page, result>>

Edit(kind, id) ==
    /\ Drifts /\ kind \in Volatile
    /\ \E entries \in SUBSET Entries : content' = [content EXCEPT ![kind][id] = entries]
    /\ UNCHANGED <<live, caches, call, pc, key, info, page, result, owed>>

-----------------------------------------------------------------------------
(* The calls *)

Return(outcome) ==
    /\ pc' = "idle" /\ result' = outcome
    /\ call' = NoCall /\ key' = Nobody /\ info' = Nobody /\ page' = NoPage

Fail(kind) == Return([NoResult EXCEPT !.kind = kind])

\* The walk of _paginate_models begins.
StartWalk ==
    /\ pc' = "walk" /\ page' = NoPage /\ owed' = live

Call(c) ==
    /\ pc = "idle"
    /\ IF c.op = "models"
       THEN /\ models = NotWalked     \* a cached listing is returned as it is
            /\ StartWalk
            /\ key' = key
       ELSE /\ pc' = "resolve" /\ key' = c.key
            /\ UNCHANGED <<page, owed>>
    /\ call' = c
    /\ result' = NoResult
    /\ UNCHANGED <<server, caches, info>>

\* Mutant of DropAll: refresh as it was before view names were cached.
MutRefresh ==
    /\ models' = NotWalked
    /\ resolved' = [k \in Ids \cup Names |-> Nobody]
    /\ listings' = [listings EXCEPT !["topic"] = [id \in Ids |-> NotCached]]

DropAll ==
    /\ models' = NotWalked
    /\ resolved' = [k \in Ids \cup Names |-> Nobody]
    /\ listings' = [kind \in Kinds |-> [id \in Ids |-> NotCached]]

Refresh ==
    /\ pc = "idle"
    /\ DropAll
    /\ result' = NoResult
    /\ owed' = {}
    /\ UNCHANGED <<server, call, pc, key, info, page>>

-----------------------------------------------------------------------------
(* Catalog.model *)

\* The model is known.  A read looks its topics up under the name it found, so it resolves
\* that name next; every other call goes on with the model itself.
Found(id) ==
    CASE call.op = "model" ->
            Return([NoResult EXCEPT !.kind = "model", !.id = id])
      [] call.op = "read" /\ info = Nobody ->
            /\ info' = id /\ key' = NameOf[id] /\ pc' = "resolve"
            /\ UNCHANGED <<call, page, result>>
      [] OTHER ->
            /\ key' = id /\ pc' = "list"
            /\ UNCHANGED <<call, info, page, result>>

\* _remember: under the key that was asked, the id and the name.
Remember(id) ==
    resolved' = [k \in Ids \cup Names |->
                    IF k \in {key, id, NameOf[id]} \ {Unnamed} THEN id ELSE resolved[k]]

\* A complete listing is authoritative, a hit or a miss.
FromListing ==
    /\ pc = "resolve"
    /\ models # NotWalked
    /\ LET candidates == {id \in Listed(models) : Answers(id, key)}
       IN  IF candidates # {} THEN Found(FirstOf(models, candidates)) ELSE Fail("no_such_model")
    /\ UNCHANGED <<server, caches, owed>>

FromResolved ==
    /\ pc = "resolve"
    /\ models = NotWalked
    /\ resolved[key] # Nobody
    /\ Found(resolved[key])
    /\ UNCHANGED <<server, caches, owed>>

\* Nothing cached: ask the ?modelId= filter, then the ?name= filter, then walk.
AskServer ==
    /\ pc = "resolve"
    /\ models = NotWalked
    /\ resolved[key] = Nobody
    /\ \/ key \in Uuids /\ pc' = "by_id" /\ UNCHANGED <<page, owed>>
       \/ key \notin Uuids /\ key # Unnamed /\ pc' = "by_name" /\ UNCHANGED <<page, owed>>
       \/ key = Unnamed /\ StartWalk
    /\ UNCHANGED <<server, caches, call, key, info, result>>

\* No record in the reply is the one that was asked for, or none that can be read.
ById ==
    /\ pc = "by_id"
    /\ \/ key \in live /\ Remember(key) /\ Found(key)
       \/ pc' = "by_name" /\ UNCHANGED <<resolved, call, key, info, page, result>>
    /\ UNCHANGED <<server, models, listings, owed>>

\* Mutant of Exact: the reply is taken on trust.
MutTrust(reply) == reply

Exact(reply) == {id \in reply : NameOf[id] = key}

\* The models whose name the server takes for the key, without regard to case.
Alike == {id \in live : key \in Names /\ Fold[NameOf[id]] = Fold[key]}

\* What can be read of the reply is checked against the exact name.
ByName ==
    /\ pc = "by_name"
    /\ \E reply \in SUBSET Alike :
          IF Exact(reply) # {}
          THEN /\ Remember(FirstOf(Order, Exact(reply)))
               /\ Found(FirstOf(Order, Exact(reply)))
               /\ UNCHANGED owed
          ELSE /\ StartWalk
               /\ UNCHANGED <<resolved, call, key, info, result>>
    /\ UNCHANGED <<server, models, listings>>

Position(id) == CHOOSE i \in 1 .. Len(Order) : Order[i] = id

\* What the page after a cursor may be: models in order, none passed over, as many as fit.
Pages(cursor) ==
    {s \in UNION {[1 .. n -> live] : n \in 0 .. PageSize} :
        /\ \A i \in 1 .. Len(s) : cursor < Position(s[i])
        /\ \A i, k \in 1 .. Len(s) : i < k => Position(s[i]) < Position(s[k])
        /\ \A id \in live \ Listed(s) :
              cursor < Position(id) =>
                  Len(s) = PageSize /\ \A i \in 1 .. Len(s) : Position(s[i]) < Position(id)}

\* What the walk reads of a page that was served: entries that are no records are skipped,
\* and a page without its records is an empty one.
Readable(served) ==
    {s \in UNION {[1 .. n -> Listed(served)] : n \in 0 .. Len(served)} :
        \A i, k \in 1 .. Len(s) : i < k => Position(s[i]) < Position(s[k])}

\* Mutants of the walk: only the last page is kept; pages are not counted.
MutLastPage(records) == records
MutEndless == TRUE

\* What the walk holds after a page.
Collect(records) == page.collected \o records

MayGoOn == page.count + 1 < MaxPages

CursorAfter(served) ==
    IF served = <<>> THEN page.cursor ELSE Position(served[Len(served)])

\* The models a walk misses that reads these records of a page, or that ends with it.
Unread(served, records) == Listed(served) \ Listed(records)
Beyond(served) == {id \in live : CursorAfter(served) < Position(id)}

\* What a complete listing says to the call that walked it.
Listing(seq) ==
    LET hits == {id \in Listed(seq) : Answers(id, key)}
    IN  IF call.op = "models"
        THEN Return([NoResult EXCEPT !.kind = "models"]) /\ UNCHANGED resolved
        ELSE IF hits # {}
             THEN Remember(FirstOf(seq, hits)) /\ Found(FirstOf(seq, hits))
             ELSE Fail("no_such_model") /\ UNCHANGED resolved

\* One page of the walk.  It may promise another one although there is none; it ends the walk
\* when it promises none, which it also does when its pageInfo is missing, odd or without the
\* next cursor, whatever is still to come.  What was collected is then the complete listing.
Walk ==
    /\ pc = "walk"
    /\ \E served \in Pages(page.cursor) : \E records \in Readable(served) :
          \/ /\ MayGoOn
             /\ page' = [collected |-> Collect(records), cursor |-> CursorAfter(served),
                         count |-> page.count + 1]
             /\ owed' = owed \ Unread(served, records)
             /\ UNCHANGED <<models, resolved, call, pc, key, info, result>>
          \/ /\ ~MayGoOn
             /\ Fail("endless") /\ UNCHANGED <<models, resolved, owed>>
          \/ /\ owed' = owed \ (Unread(served, records) \cup Beyond(served))
             /\ models' = Collect(records)
             /\ Listing(models')
    /\ UNCHANGED <<server, listings>>

-----------------------------------------------------------------------------
(* Catalog.topics, Catalog.view_names and the reads *)

\* The listing is at hand: it is the answer, or the read checks the entry it wants.
Deliver(entries) ==
    CASE call.op = "listing" -> Return([NoResult EXCEPT !.kind = "listed", !.source = key])
      [] call.op = "read" /\ call.entry \in entries ->
            Return([kind |-> "scan", of |-> call.kind, id |-> info, entry |-> call.entry,
                    source |-> key])
      [] OTHER -> Return([NoResult EXCEPT !.kind = "no_entry", !.id = info, !.source = key])

FromCache ==
    /\ pc = "list"
    /\ listings[call.kind][key] # NotCached
    /\ Deliver(listings[call.kind][key])
    /\ UNCHANGED <<server, caches, owed>>

Store(entries) ==
    /\ listings' = [listings EXCEPT ![call.kind][key] = entries]
    /\ Deliver(entries)

\* GET /models/{id}/topic or /view.  A reply without its list is no topics at all, but an
\* error when it should have listed views.
List ==
    /\ pc = "list"
    /\ listings[call.kind][key] = NotCached
    /\ \/ key \in live /\ Store(content[call.kind][key])
       \/ key \in live /\ call.kind = "topic" /\ Store({})
       \/ key \in live /\ call.kind = "view" /\ Fail("malformed") /\ UNCHANGED listings
       \/ key \notin live /\ Fail("not_found") /\ UNCHANGED listings
    /\ UNCHANGED <<server, models, resolved, owed>>

\* Any request, or the preflight in front of it, may fail; what was cached stays.
RequestFails ==
    /\ \/ pc \in {"by_id", "by_name", "walk"}
       \/ pc = "list" /\ listings[call.kind][key] = NotCached
    /\ Fail("transport_error")
    /\ UNCHANGED <<server, caches, owed>>

Progress == FromListing \/ FromResolved \/ AskServer \/ ById \/ ByName \/ Walk
            \/ FromCache \/ List \/ RequestFails

Next ==
    \/ \E c \in Calls : Call(c)
    \/ Refresh
    \/ Progress
    \/ \E id \in Ids : Appear(id) \/ Vanish(id)
    \/ \E kind \in Kinds, id \in Ids : Edit(kind, id)

Spec == Init /\ [][Next]_vars

-----------------------------------------------------------------------------
ResultKinds == {"none", "models", "model", "listed", "scan", "no_entry", "no_such_model",
                "endless", "malformed", "not_found", "transport_error"}

TypeOK ==
    /\ live \subseteq Ids
    /\ content \in [Kinds -> [Ids -> SUBSET Entries]]
    /\ models = NotWalked \/ models \in Seq(Ids)
    /\ resolved \in [Ids \cup Names -> Ids \cup {Nobody}]
    /\ listings \in [Kinds -> [Ids -> (SUBSET Entries) \cup {NotCached}]]
    /\ call \in Calls \cup {NoCall}
    /\ pc \in {"idle", "resolve", "by_id", "by_name", "walk", "list"}
    /\ key \in Ids \cup Names \cup {Nobody}
    /\ info \in Ids \cup {Nobody}
    /\ page.count \in 0 .. MaxPages - 1 /\ page.cursor \in 0 .. Len(Order)
    /\ result.kind \in ResultKinds
    /\ owed \subseteq Ids

UniqueNames == \A a, b \in Ids : NameOf[a] = NameOf[b] => a = b

\* A read scans the model whose listing it checked, although it resolves the model twice,
\* once under the caller's key and once under the name found there (session.py, topic and
\* view): true of every order of calls and of a changing server, when names are unique.
ScanIsSound ==
    UniqueNames /\ result.kind \in {"scan", "no_entry"} => result.source = result.id

\* The complete listing repeats nothing and misses nothing the walk could have read: every
\* model that existed while it was being walked is in it, whatever came and went between two
\* pages, failed walks left nothing behind, and no filtered lookup stands in for it.  Only a
\* record or a pageInfo that cannot be read hides a model (catalog.py, models).
ListingIsComplete ==
    models # NotWalked =>
        /\ owed \subseteq Listed(models)
        /\ \A i, k \in 1 .. Len(models) : models[i] = models[k] => i = k

\* Whatever is known of a name or an id is right about it (catalog.py, _remember).
ResolutionIsSound ==
    \A k \in Ids \cup Names :
        resolved[k] # Nobody => /\ Answers(resolved[k], k)
                                /\ k # Unnamed

Cache == INSTANCE ReadThrough WITH
            Keys       <- Kinds \X Ids,
            Contents   <- SUBSET Entries,
            Missing    <- NotCached,
            Unreadable <- {"topic"} \X Ids,
            Garbled    <- {},
            server     <- [k \in Kinds \X Ids |-> content[k[1]][k[2]]],
            cache      <- [k \in Kinds \X Ids |-> listings[k[1]][k[2]]]

\* The topic and view listings are a read-through cache: filled from the server's content
\* of that moment and dropped together by refresh.
ImplementsReadThrough == Cache!Spec

\* What catalog.py:283 says of a listing that is cached: it lists every model the key can see.
ListingIsAuthoritative == models # NotWalked /\ ~Drifts => live \subseteq Listed(models)

\* What INTERNALS.md says of read.topic: the topic's existence is checked at read time.
ScanExists ==
    result.kind = "scan" /\ ~Drifts => result.entry \in content[result.of][result.id]
=============================================================================

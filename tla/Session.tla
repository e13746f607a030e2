------------------------------- MODULE Session -------------------------------
(***************************************************************************)
(* OmniSession and DataFrameReader (session.py): a builder collects        *)
(* settings, get_or_create makes a session of them, and the session's      *)
(* calls ask the server, behind a whoami preflight that is cached when it  *)
(* succeeds.  A call makes several requests; each is a step, and between   *)
(* two of them the key may be revoked and the document edited.             *)
(*                                                                         *)
(* The server is external.  Resolving a model is one request here (Catalog *)
(* has all of them), and models keep their names.                          *)
(***************************************************************************)
EXTENDS Integers, Sequences, SequencesExt, Credentials

CONSTANTS
    Configs,        \* what callers pass to secrets()
    Machines,       \* where the program runs
    Reach,          \* the model each name or id reaches, or NoModel
    Documents,      \* the states of the one document read: see Docs
    Picks           \* what callers ask saved_query for: a name, an index, or neither

Keys == DOMAIN Reach
NoKey == "no_key"
NoModel == "no_model"
Models == {Reach[k] : k \in Keys} \cup {NoModel}

(***************************************************************************)
(* A stored query: its name (perhaps none), an identity, the model and the *)
(* version it carries.  One without a query object is NoQuery; an entry    *)
(* that is no object at all is Junk.                                       *)
(***************************************************************************)
Unnamed == "unnamed"
NoQuery == "no_query"
Unversioned == "unversioned"
Placeholder(index) == "(unnamed #" \o ToString(index) \o ")"
Junk == [junk |-> TRUE, name |-> Unnamed, id |-> NoQuery, model |-> NoModel, version |-> Unversioned]
IsEntry(e) ==
    /\ DOMAIN e = DOMAIN Junk
    /\ e.junk \in BOOLEAN /\ e.model \in Models
IsDoc(d) ==
    /\ d.status \in {"unknown", "no_dashboard", "garbled", "ok"}
    /\ d.entries \in Seq(Range(d.entries)) /\ \A e \in Range(d.entries) : IsEntry(e)
    /\ \A i, j \in DOMAIN d.entries :
          d.entries[i].id = d.entries[j].id => i = j \/ d.entries[i].id = NoQuery

ASSUME SessionAssumption ==
    /\ Configs \subseteq SecretConfigs
    /\ Machines \subseteq Notebooks
    /\ NoKey \notin Keys
    /\ Documents # {} /\ \A d \in Documents : IsDoc(d)
    /\ \A p \in Picks : p.by \in {"name", "index", "neither"} /\ p.at \in Int

VARIABLES
    builder,        \* SessionBuilder: what it was told
    machine,        \* where it runs
    session,        \* the session built, or NoSession
    built,          \* history: the credentials of its transport and the secrets the build
                    \* read, until the first call
    connected,      \* the transport is open
    whoami,         \* _whoami is not None
    resolved,       \* the catalog's _resolved
    accepts,        \* server: whether it accepts the key
    document,       \* server: the document
    sent,           \* history: the last request sent
    call,           \* the call in progress
    answer,         \* how the last call ended, with what it asked and what it read
    listing         \* what saved_queries() said last, and the document it said it of

building == <<builder, machine, session, built>>
server == <<accepts, document>>
vars == <<building, connected, whoami, resolved, server, sent, call, answer, listing>>

NoBuilder == [told |-> [f \in Fields |-> Missing], config |-> [provider |-> "auto", scope |-> FALSE],
              given |-> FALSE, waits |-> FALSE]
NoSession == [made |-> FALSE, owned |-> FALSE]
NotBuilt == [ok |-> TRUE, reads |-> {}, cred |-> [f \in Fields |-> Missing]]
NoPick == [by |-> "index", at |-> 0, name |-> Unnamed]
NoEntry == Junk
Idle == [op |-> "idle", key |-> NoKey, pick |-> NoPick, todo |-> <<>>, entry |-> NoEntry,
         name |-> Unnamed, doc |-> [status |-> "unknown", entries |-> <<>>]]
NoListing == [made |-> FALSE, doc |-> Idle.doc, queries |-> {}]
NoAnswer == [kind |-> "none", call |-> Idle, model |-> NoModel, id |-> NoQuery,
             version |-> Unversioned, name |-> Unnamed, why |-> "none"]

Init ==
    /\ builder = NoBuilder
    /\ machine \in Machines
    /\ session = NoSession
    /\ built = NotBuilt
    /\ connected = TRUE /\ whoami = FALSE /\ resolved = {}
    /\ accepts = TRUE /\ document = CHOOSE d \in Documents : TRUE
    /\ sent = "nothing" /\ call = Idle /\ answer = NoAnswer /\ listing = NoListing

-----------------------------------------------------------------------------
(* SessionBuilder *)

Configuring == ~session.made /\ UNCHANGED <<machine, session, built, connected, whoami, resolved,
                                            server, sent, call, answer, listing>>

\* base_url(), host(), api_key()
Tell(f) == Configuring /\ builder' = [builder EXCEPT !.told[f] = "explicit"]

\* base_url_from_env(), api_key_from_env(): an error when the variable is unset
TellFromEnv(f) ==
    /\ Configuring
    /\ machine.env[f] # Missing
    /\ builder' = [builder EXCEPT !.told[f] = machine.env[f]]

Secrets ==
    /\ Configuring
    /\ \E config \in Configs : ValidConfig(config) /\ builder' = [builder EXCEPT !.config = config]

\* Waiting on rate limits is configured on the transport one brings along
RateLimitWait == Configuring /\ ~builder.given /\ builder' = [builder EXCEPT !.waits = TRUE]
Transport == Configuring /\ ~builder.waits /\ builder' = [builder EXCEPT !.given = TRUE]

Resolution ==
    IF builder.given THEN NotBuilt
    ELSE ResolveCredentials(builder.told, builder.config, machine)

\* A transport of one's own needs neither host nor key
Complete(r) == r.ok /\ (builder.given \/ \A f \in Fields : r.cred[f] # Missing)

\* Bound: one session of one builder, which is forgotten with the machine it ran on
GetOrCreate ==
    /\ ~session.made
    /\ Complete(Resolution)
    /\ session' = [made |-> TRUE, owned |-> ~builder.given]
    /\ built' = Resolution
    /\ builder' = NoBuilder
    /\ machine' = CHOOSE m \in Machines : TRUE
    /\ UNCHANGED <<connected, whoami, resolved, server, sent, call, answer, listing>>

GetOrCreateFails ==
    /\ ~session.made
    /\ ~Complete(Resolution)
    /\ built' = [NotBuilt EXCEPT !.ok = FALSE, !.reads = Resolution.reads]
    /\ UNCHANGED <<builder, machine, session, connected, whoami, resolved, server, sent, call,
                   answer, listing>>

Build ==
    \/ \E f \in Fields : Tell(f) \/ TellFromEnv(f)
    \/ Secrets \/ RateLimitWait \/ Transport \/ GetOrCreate \/ GetOrCreateFails

-----------------------------------------------------------------------------
(* The server, and the calls that reach it *)

Revoke ==
    /\ session.made
    /\ accepts' = ~accepts
    /\ UNCHANGED <<building, connected, whoami, resolved, document, sent, call, answer, listing>>

Edit ==
    /\ session.made
    /\ document' \in Documents
    /\ UNCHANGED <<building, connected, whoami, resolved, accepts, sent, call, answer, listing>>

Asked(op, key, pick, todo) ==
    [Idle EXCEPT !.op = op, !.key = key, !.pick = pick, !.todo = todo]

\* run() and plan(); read.sql(); ask(); saved_queries(); saved_query(), with or without model=
Calls ==
    {Asked("verify", NoKey, NoPick, <<"verify">>), Asked("whoami", NoKey, NoPick, <<"whoami">>),
     Asked("run", NoKey, NoPick, <<"run">>), Asked("list", NoKey, NoPick, <<"document">>)}
    \cup {Asked("sql", k, NoPick, <<"model">>) : k \in Keys}
    \cup {Asked("ask", k, NoPick, <<"model", "generate">>) : k \in Keys}
    \cup {Asked("saved", NoKey, p, <<"document">>) : p \in Picks}
    \cup {Asked("saved", k, p, <<"document", "model">>) : k \in Keys, p \in Picks}

Begin ==
    /\ session.made /\ call = Idle
    /\ call' \in Calls
    /\ answer' = NoAnswer /\ built' = NotBuilt
    /\ UNCHANGED <<builder, machine, session, connected, whoami, resolved, server, sent, listing>>

\* close(): a transport of one's own stays open
Close ==
    /\ session.made /\ call = Idle
    /\ connected' = (connected /\ ~session.owned)
    /\ UNCHANGED <<building, whoami, resolved, server, sent, call, answer, listing>>

End(c, a) == answer' = [a EXCEPT !.call = c] /\ call' = Idle
Done(kind) == End(call, [NoAnswer EXCEPT !.kind = kind])
FailIn(c, why) == End(c, [NoAnswer EXCEPT !.kind = "error", !.why = why])
Fail(why) == FailIn(call, why)
Frame(c, model, id, version) ==
    End(c, [NoAnswer EXCEPT !.kind = "frame", !.model = model, !.id = id, !.version = version,
                            !.name = c.name])

Doing(stage) == call # Idle /\ Head(call.todo) = stage

\* The catalog answers for a model it has resolved without a request, or a preflight
Cached == Doing("model") /\ call.key \in resolved
Asks == call # Idle /\ ~Doing("verify") /\ ~Cached

\* Mutant of Preflight: the payload is kept before it is known to be one.
MutKeepsFailure ==
    /\ Asks /\ ~whoami /\ connected
    /\ sent' = "preflight"
    /\ whoami' = TRUE
    /\ \/ accepts /\ UNCHANGED <<call, answer>>
       \/ Fail("preflight")
    /\ UNCHANGED <<building, connected, resolved, server, listing>>

Preflight ==
    /\ Asks /\ ~whoami /\ connected
    /\ sent' = "preflight"
    /\ \/ accepts /\ whoami' = TRUE /\ UNCHANGED <<call, answer>>
       \/ Fail("preflight") /\ UNCHANGED whoami
    /\ UNCHANGED <<building, connected, resolved, server, listing>>

\* verify() asks whatever is cached, and a failure leaves what is cached alone
Verify ==
    /\ Doing("verify") /\ connected
    /\ sent' = "verify"
    /\ \/ accepts /\ whoami' = TRUE /\ Done("identity")
       \/ Fail("verify") /\ UNCHANGED whoami
    /\ UNCHANGED <<building, connected, resolved, server, listing>>

Identity ==
    /\ Doing("whoami") /\ whoami
    /\ Done("identity")
    /\ UNCHANGED <<building, connected, whoami, resolved, server, sent, listing>>

\* The client of a closed transport refuses to send anything
Closed ==
    /\ Asks \/ Doing("verify")
    /\ ~connected
    /\ ~(Doing("whoami") /\ whoami)
    /\ Fail("closed")
    /\ UNCHANGED <<building, connected, whoami, resolved, server, sent, listing>>

Request(stage) ==
    /\ Doing(stage) /\ ~Cached /\ whoami /\ connected
    /\ sent' = "request"
    /\ UNCHANGED <<building, connected, whoami, server>>

RequestFails ==
    /\ \E stage \in {"run", "generate", "model", "document"} : Request(stage)
    /\ Fail("transport")
    /\ UNCHANGED <<resolved, listing>>

Run ==
    /\ Request("run") /\ accepts
    /\ Done("rows")
    /\ UNCHANGED <<resolved, listing>>

-----------------------------------------------------------------------------
(* Stored queries *)

\* Mutant of Normalized: a query that says which model it is for keeps it.
MutKeepsModel(entry, key) == IF entry.model # NoModel THEN entry.model ELSE Reach[key]

\* modelId: the model asked for, or else the one the query carries
Normalized(entry, key) == IF key # NoKey THEN Reach[key] ELSE entry.model
VersionOf(entry) == IF entry.version = Unversioned THEN "current" ELSE entry.version

Stored(c) ==
    IF Normalized(c.entry, c.key) = NoModel THEN FailIn(c, "no_model_id")
    ELSE Frame(c, Normalized(c.entry, c.key), c.entry.id, VersionOf(c.entry))

(***************************************************************************)
(* document_queries keeps the entries that are objects; a query is known   *)
(* here by its place in the document, and to callers by its index among    *)
(* those kept and by its name.                                             *)
(***************************************************************************)
Kept(doc) == {i \in DOMAIN doc.entries : ~doc.entries[i].junk}
IndexOf(doc, i) == Cardinality({j \in Kept(doc) : j < i})
NameOf(doc, i) ==
    IF doc.entries[i].name = Unnamed THEN Placeholder(IndexOf(doc, i))
    ELSE doc.entries[i].name

Called(doc, name) == {i \in Kept(doc) : NameOf(doc, i) = name}

\* Mutant of Chosen: the last query of a name is taken.
MutLastOfName(doc, pick) ==
    CASE pick.by = "name" ->
            {i \in Called(doc, pick.name) : \A j \in Called(doc, pick.name) : j <= i}
      [] pick.by = "index" -> {i \in Kept(doc) : IndexOf(doc, i) = pick.at}
      [] OTHER -> {}

\* _pick_saved_query: the one at an index, or the first of a name; none is an error
Chosen(doc, pick) ==
    CASE pick.by = "name" ->
            {i \in Called(doc, pick.name) : \A j \in Called(doc, pick.name) : i <= j}
      [] pick.by = "index" -> {i \in Kept(doc) : IndexOf(doc, i) = pick.at}
      [] OTHER -> {}

List ==
    /\ Request("document") /\ accepts
    /\ call.op = "list" /\ document.status = "ok"
    /\ listing' = [made |-> TRUE, doc |-> document,
                    queries |-> {[name |-> NameOf(document, i), at |-> IndexOf(document, i)] :
                                    i \in Kept(document)}]
    /\ Done("list")
    /\ UNCHANGED resolved

\* The model is resolved after the document is read, and only if model= was given
Saved ==
    /\ Request("document") /\ accepts
    /\ call.op = "saved" /\ document.status = "ok"
    /\ \E i \in Chosen(document, call.pick) :
          LET c == [call EXCEPT !.entry = document.entries[i], !.name = NameOf(document, i),
                                !.doc = document, !.todo = Tail(@)]
          IN  CASE c.entry.id = NoQuery -> FailIn(c, "no_query")
                [] c.entry.id # NoQuery /\ c.todo # <<>> -> call' = c /\ UNCHANGED answer
                [] c.entry.id # NoQuery /\ c.todo = <<>> -> Stored(c)
    /\ UNCHANGED <<resolved, listing>>

NotPicked ==
    /\ Request("document") /\ accepts
    /\ call.op = "saved" /\ document.status = "ok"
    /\ Chosen(document, call.pick) = {}
    /\ FailIn([call EXCEPT !.doc = document], "pick")
    /\ UNCHANGED <<resolved, listing>>

\* The two 404s are told apart; a reply without its list is an error
NoDocument ==
    /\ Request("document") /\ accepts
    /\ document.status # "ok"
    /\ Fail(document.status)
    /\ UNCHANGED <<resolved, listing>>

-----------------------------------------------------------------------------
(* Calls that name a model *)

Resolved ==
    LET c == [call EXCEPT !.todo = Tail(@)]
    IN  CASE call.op = "ask" -> call' = c /\ UNCHANGED answer
          [] call.op = "sql" -> Frame(call, Reach[call.key], NoQuery, "current")
          [] call.op = "saved" -> Stored(call)

FromCatalog ==
    /\ Cached
    /\ Resolved
    /\ UNCHANGED <<building, connected, whoami, resolved, server, sent, listing>>

ResolveModel ==
    /\ Request("model") /\ accepts
    /\ Reach[call.key] # NoModel
    /\ resolved' = resolved \cup {call.key}
    /\ Resolved
    /\ UNCHANGED listing

\* Mutant of NoSuchModel: the catalog remembers that it found nothing, as if it had.
MutRemembersMiss ==
    /\ Request("model") /\ accepts
    /\ Reach[call.key] = NoModel
    /\ Fail("no_such_model")
    /\ resolved' = resolved \cup {call.key}
    /\ UNCHANGED listing

NoSuchModel ==
    /\ Request("model") /\ accepts
    /\ Reach[call.key] = NoModel
    /\ Fail("no_such_model")
    /\ UNCHANGED <<resolved, listing>>

\* A query, whichever model it says it is for; none at all; 400 and 402
Generate ==
    /\ Request("generate") /\ accepts
    /\ \/ \E model \in Models :
             Frame(call, Normalized([Junk EXCEPT !.model = model], call.key), NoQuery, "current")
       \/ \E why \in {"empty", "no_query_possible", "no_credits"} : Fail(why)
    /\ UNCHANGED <<resolved, listing>>

Serve ==
    \/ Begin \/ Close \/ Preflight \/ Verify \/ Identity \/ Closed
    \/ RequestFails \/ Run \/ List \/ Saved \/ NotPicked \/ NoDocument
    \/ FromCatalog \/ ResolveModel \/ NoSuchModel \/ Generate

Next == Build \/ Serve \/ Revoke \/ Edit

Spec == Init /\ [][Next]_vars

-----------------------------------------------------------------------------
(* Properties *)

TypeOK ==
    /\ builder.config \in SecretConfigs /\ ValidConfig(builder.config)
    /\ ~(builder.given /\ builder.waits)
    /\ built.cred \in Credentials /\ built.reads \subseteq Fields
    /\ resolved \subseteq {k \in Keys : Reach[k] # NoModel}
    /\ answer.kind = "frame" => answer.model \in Models \ {NoModel}

\* "Explicit settings take precedence over environment variables, then notebook secrets"
\* (SessionBuilder): a session's host and key come each from the first place that has it, a
\* secret is one the notebook really keeps, and a failed read is never papered over.
ResolvedInOrder ==
    [][(session'.made /\ ~session.made /\ ~builder.given) =>
          \A f \in Fields :
              LET cred == built'.cred[f]
              IN  /\ cred # Missing
                  /\ builder.told[f] # Missing => cred = builder.told[f]
                  /\ builder.told[f] = Missing /\ machine.env[f] # Missing => cred = "env"
                  /\ cred = "secret" => machine.secret[f] = "kept"
                  /\ f \in built'.reads => machine.secret[f] = "kept"]_vars

\* "only when credentials are actually missing": no secret is read that the builder or the
\* environment has already, none for a transport of one's own or with secrets() off, and
\* never one of a notebook that is not this one.
SecretsOnDemand ==
    [][built' # built =>
          \A f \in built'.reads :
              /\ ~builder.given /\ builder.config.provider # "off"
              /\ builder.told[f] = Missing /\ machine.env[f] = Missing
              /\ ~(builder.config.provider = "auto" /\ machine.colab /\ machine.dbutils)
              /\ builder.config.scope => machine.dbutils]_vars

\* Nothing is sent before the key was accepted once; a failed preflight is not kept and a
\* successful one not repeated, over every call and however they interleave with a key that
\* is revoked and restored.
G == INSTANCE Gate WITH accepts <- accepts, open <- whoami, sent <- sent
ImplementsGate == G!Spec

\* A frame runs on the model its caller named, though a generated or a stored query says
\* another, and else on the one the stored query carries; the version it has is kept.
RunsWhereAsked ==
    answer.kind = "frame" =>
        LET c == answer.call
        IN  /\ c.key # NoKey => answer.model = Reach[c.key]
            /\ c.op = "saved" /\ c.key = NoKey =>
                  \E e \in Range(c.doc.entries) : e.id = answer.id /\ e.model = answer.model
            /\ c.op = "saved" =>
                  \E e \in Range(c.doc.entries) :
                      e.id = answer.id /\ e.version \in {Unversioned, answer.version}

\* The entries that are objects, in their order
Objects(entries) ==
    LET kept[n \in 0 .. Len(entries)] ==
            IF n = 0 THEN <<>>
            ELSE IF entries[n].junk THEN kept[n - 1] ELSE Append(kept[n - 1], entries[n])
    IN  kept[Len(entries)]

\* What saved_queries() listed, saved_query() picks: by index the query at that index of the
\* document's objects, under the name it was listed by, by name the first listed under it;
\* what it does not find was not listed, as long as the document was not edited in between.
PickedAsListed ==
    LET c == answer.call
        objects == Objects(c.doc.entries)
        Listed(name, at) == [name |-> name, at |-> at] \in listing.queries
        at == CHOOSE k \in DOMAIN objects : objects[k].id = answer.id
    IN  (c.op = "saved" /\ listing.made /\ listing.doc = c.doc) =>
            /\ answer.kind = "frame" =>
                  /\ Listed(answer.name, at - 1)
                  /\ c.pick.by = "index" => at = c.pick.at + 1
                  /\ c.pick.by = "name" =>
                        /\ answer.name = c.pick.name
                        /\ \A k \in 1 .. at - 1 : ~Listed(c.pick.name, k - 1)
            /\ answer.why = "pick" =>
                  /\ c.pick.by = "index" => c.pick.at + 1 \notin DOMAIN objects
                  /\ c.pick.by = "name" => \A q \in listing.queries : q.name # c.pick.name
=============================================================================

--------------------------- MODULE Session_proofs ---------------------------
(***************************************************************************)
(* What Session promises, for every machine, document and set of models:   *)
(* the gate a preflight opens, and where credentials come from.            *)
(***************************************************************************)
EXTENDS Session, FiniteSetTheorems, SequenceTheorems, WellFoundedInduction, TLAPS

(***************************************************************************)
(* Induction over the natural numbers, stated with sets: what holds of a   *)
(* number is a set of numbers.                                             *)
(***************************************************************************)
\* A set of numbers that is not empty has a least one.
LEMMA LeastNumber ==
    ASSUME NEW T, T \subseteq Nat, T # {}
    PROVE  \E m \in T : \A n \in T : m <= n
<1> DEFINE R == OpToRel(<, Nat)
<1>1. IsWellFoundedOn(R, Nat)
  BY NatLessThanWellFounded, Zenon
<1>2. \A m, n \in Nat : n < m => <<n, m>> \in R
  BY Zenon DEF OpToRel
<1> HIDE DEF R
<1>3. PICK m \in T : \A n \in T : <<n, m>> \notin R
  BY <1>1, WFMin
<1>4. \A n \in T : ~(n < m)
  BY <1>2, <1>3
<1>5. QED
  BY <1>4

\* From a number to the next.
LEMMA StepByStep ==
    ASSUME NEW T, 0 \in T, \A n \in Nat : n \in T => n + 1 \in T
    PROVE  \A n \in Nat : n \in T
<1>1. SUFFICES ASSUME Nat \ T # {} PROVE FALSE
  OBVIOUS
<1>2. PICK n \in Nat \ T : \A m \in Nat \ T : n <= m
  BY <1>1, LeastNumber
<1>3. n - 1 \in Nat /\ (n - 1) + 1 = n /\ n - 1 \in T
  BY <1>2
<1>4. QED
  BY <1>2, <1>3

(***************************************************************************)
(* The gate.  No invariant is needed: every step of a session is a step of *)
(* Gate or leaves its three variables alone.                               *)
(***************************************************************************)
Hidden == <<accepts, whoami, sent>>

\* Building a session sends nothing.
LEMMA BuildIsHidden == Build => UNCHANGED Hidden
<1>1. SUFFICES ASSUME Build PROVE UNCHANGED Hidden
  OBVIOUS
<1>2. CASE \E f \in Fields : Tell(f) \/ TellFromEnv(f)
  BY <1>2 DEF Tell, TellFromEnv, Configuring, Hidden, server
<1>3. CASE Secrets \/ RateLimitWait \/ Transport
  BY <1>3 DEF Secrets, RateLimitWait, Transport, Configuring, Hidden, server
<1>4. CASE GetOrCreate \/ GetOrCreateFails
  BY <1>4 DEF GetOrCreate, GetOrCreateFails, Hidden, server
<1>5. QED
  BY <1>1, <1>2, <1>3, <1>4 DEF Build

\* The server's own steps are Gate's decision, or do not concern the key.
LEMMA ServerDecides == Revoke \/ Edit => G!Decide \/ UNCHANGED Hidden
  BY DEF Revoke, Edit, G!Decide, Hidden

\* Every stage's request is one of Gate's; what follows the request is not seen
LEMMA RequestIsRequest ==
    ASSUME NEW stage, Request(stage)
    PROVE  G!Request
  BY DEF Request, G!Request, server

\* A step of a call sends what Gate lets through, or nothing.
LEMMA ServeIsGated == Serve => G!Next \/ UNCHANGED Hidden
<1>1. SUFFICES ASSUME Serve PROVE G!Next \/ UNCHANGED Hidden
  OBVIOUS
<1>2. CASE Begin \/ Close \/ Identity \/ Closed \/ FromCatalog
  BY <1>2 DEF Begin, Close, Identity, Closed, FromCatalog, Hidden, server
<1>3. CASE Preflight
  <2>1. G!Preflight
    BY <1>3 DEF Preflight, G!Preflight, G!Asked, server
  <2>2. QED
    BY <2>1 DEF G!Next
<1>4. CASE Verify
  <2>1. G!Verify
    BY <1>4 DEF Verify, G!Verify, G!Asked, server
  <2>2. QED
    BY <2>1 DEF G!Next
<1>5. CASE RequestFails
  <2>1. G!Request
    BY <1>5, RequestIsRequest DEF RequestFails
  <2>2. QED
    BY <2>1 DEF G!Next
<1>6. CASE Run \/ List \/ Saved \/ NotPicked \/ NoDocument \/ ResolveModel \/ NoSuchModel \/ Generate
  <2>1. G!Request
    BY <1>6, RequestIsRequest
       DEF Run, List, Saved, NotPicked, NoDocument, ResolveModel, NoSuchModel, Generate
  <2>2. QED
    BY <2>1 DEF G!Next
<1>7. QED
  BY <1>1, <1>2, <1>3, <1>4, <1>5, <1>6 DEF Serve

\* A session never sends anything before its key was accepted once, keeps no failed preflight
\* and repeats none that succeeded (OmniSession._preflight, verify).
THEOREM SessionImplementsGate == Spec => ImplementsGate
<1>1. Init => G!Init
  BY DEF Init, G!Init
<1>2. [Next]_vars => [G!Next]_G!vars
  <2>1. SUFFICES ASSUME [Next]_vars PROVE [G!Next]_G!vars
    OBVIOUS
  <2>2. CASE Next
    <3>1. G!Next \/ UNCHANGED Hidden
      BY <2>2, BuildIsHidden, ServeIsGated, ServerDecides DEF Next, G!Next
    <3>2. QED
      BY <3>1 DEF Hidden, G!vars
  <2>3. CASE UNCHANGED vars
    BY <2>3 DEF vars, server, G!vars
  <2>4. QED
    BY <2>1, <2>2, <2>3
<1>3. QED
  BY <1>1, <1>2, PTL DEF Spec, ImplementsGate, G!Spec

(***************************************************************************)
(* Credentials.                                                            *)
(***************************************************************************)
Told == [Fields -> {Missing, "explicit", "env"}]
BuilderOK ==
    /\ builder \in [told : Told, config : SecretConfigs, given : BOOLEAN, waits : BOOLEAN]
    /\ machine \in Machines
    /\ ValidConfig(builder.config)
    /\ ~(builder.given /\ builder.waits)

Others == <<builder, machine, session>>

\* Serving a call does not build.
LEMMA ServeLeavesBuilder == Serve \/ Revoke \/ Edit => UNCHANGED Others
<1>1. SUFFICES ASSUME Serve \/ Revoke \/ Edit PROVE UNCHANGED Others
  OBVIOUS
<1>2. CASE Begin \/ Close \/ Identity \/ Closed \/ FromCatalog \/ Preflight \/ Verify \/ Revoke \/ Edit
  BY <1>2 DEF Begin, Close, Identity, Closed, FromCatalog, Preflight, Verify, Revoke, Edit,
              building, Others
<1>3. CASE RequestFails \/ Run \/ List \/ Saved \/ NotPicked \/ NoDocument \/ ResolveModel
           \/ NoSuchModel \/ Generate
  BY <1>3 DEF RequestFails, Run, List, Saved, NotPicked, NoDocument, ResolveModel, NoSuchModel,
              Generate, Request, building, Others
<1>4. QED
  BY <1>1, <1>2, <1>3 DEF Serve

\* Only a build, and the first call after it, change what a build left.
LEMMA OthersLeaveBuilt ==
    ASSUME [Next]_vars, ~GetOrCreate, ~GetOrCreateFails, ~Begin
    PROVE  UNCHANGED built
<1>1. CASE Build
  BY <1>1 DEF Build, Tell, TellFromEnv, Secrets, RateLimitWait, Transport, Configuring
<1>2. CASE Close \/ Identity \/ Closed \/ FromCatalog \/ Preflight \/ Verify \/ Revoke \/ Edit
           \/ UNCHANGED vars
  BY <1>2 DEF Close, Identity, Closed, FromCatalog, Preflight, Verify, Revoke, Edit, building, vars
<1>3. CASE RequestFails \/ Run \/ List \/ Saved \/ NotPicked \/ NoDocument \/ ResolveModel
           \/ NoSuchModel \/ Generate
  BY <1>3 DEF RequestFails, Run, List, Saved, NotPicked, NoDocument, ResolveModel, NoSuchModel,
              Generate, Request, building
<1>4. QED
  BY <1>1, <1>2, <1>3 DEF Next, Serve

\* The builder holds a configuration that secrets() accepts, at any time.
LEMMA BuilderInvariant == Spec => []BuilderOK
<1>1. Init => BuilderOK
  BY DEF Init, BuilderOK, NoBuilder, Told, SecretConfigs, ValidConfig
<1>2. BuilderOK /\ [Next]_vars => BuilderOK'
  <2>1. SUFFICES ASSUME BuilderOK, [Next]_vars PROVE BuilderOK'
    OBVIOUS
  <2>2. CASE UNCHANGED Others
    BY <2>1, <2>2 DEF BuilderOK, Others
  <2>3. ASSUME NEW f \in Fields, Tell(f) \/ TellFromEnv(f) PROVE BuilderOK'
    <3>1. machine.env[f] \in {Missing, "env"}
      BY <2>1, SessionAssumption DEF BuilderOK, Notebooks
    <3>2. machine' = machine /\ \E c \in {Missing, "explicit", "env"} :
             builder' = [builder EXCEPT !.told[f] = c]
      BY <2>3, <3>1 DEF Tell, TellFromEnv, Configuring
    <3>3. QED
      BY <2>1, <3>2 DEF BuilderOK, Told
  <2>4. CASE Secrets
    <3>1. PICK config \in Configs :
             ValidConfig(config) /\ builder' = [builder EXCEPT !.config = config]
      BY <2>4 DEF Secrets
    <3>2. config \in SecretConfigs /\ machine' = machine
      BY <2>4, SessionAssumption DEF Secrets, Configuring
    <3>3. QED
      BY <2>1, <3>1, <3>2 DEF BuilderOK
  <2>5. CASE RateLimitWait \/ Transport
    BY <2>1, <2>5 DEF RateLimitWait, Transport, Configuring, BuilderOK
  <2>9. CASE GetOrCreate
    <3>1. machine' \in Machines /\ builder' = NoBuilder
      BY <2>1, <2>9 DEF GetOrCreate, BuilderOK
    <3>2. QED
      BY <3>1 DEF BuilderOK, NoBuilder, Told, SecretConfigs, ValidConfig
  <2>6. CASE GetOrCreateFails
    BY <2>6, <2>2 DEF GetOrCreateFails, Others
  <2>7. CASE UNCHANGED vars
    BY <2>7, <2>2 DEF vars, building, Others
  <2>8. QED
    BY <2>1, <2>2, <2>3, <2>4, <2>5, <2>6, <2>7, <2>9, ServeLeavesBuilder DEF Next, Build
<1>3. QED
  BY <1>1, <1>2, PTL DEF Spec

\* A read happens only for what is missing, in the notebook the program runs in
LEMMA ReaderReachable ==
    ASSUME NEW config \in SecretConfigs, NEW nb \in Notebooks
    PROVE  /\ SelectReader(config, nb) \in Providers \cup {"none", "refused"}
           /\ SelectReader(config, nb) \in Providers =>
                 /\ config.provider # "off"
                 /\ ~(config.provider = "auto" /\ nb.colab /\ nb.dbutils)
                 /\ config.scope => nb.dbutils
  BY DEF SelectReader, Named, Detected, Reachable, Providers, Imported, SecretConfigs, Notebooks

\* Everything got was read and is kept; if all went well, everything read is kept
LEMMA ConsultedReads ==
    ASSUME NEW config \in SecretConfigs, NEW nb \in Notebooks, NEW gaps \in SUBSET Fields
    PROVE  LET c == Consulted(gaps, config, nb)
           IN  /\ c.got \subseteq c.reads
               /\ c.reads \subseteq gaps
               /\ \A f \in c.got : nb.secret[f] = "kept"
               /\ c.ok => \A f \in c.reads : nb.secret[f] = "kept"
               /\ c.reads # {} => SelectReader(config, nb) \in Providers
<1> DEFINE reader == SelectReader(config, nb)
           c == Consulted(gaps, config, nb)
<1> HIDE DEF c
<1>1. CASE gaps = {} \/ reader = "none"
  <2>1. c = Unread
    BY <1>1 DEF Consulted, Providers, Imported, c
  <2>2. c.got = {} /\ c.reads = {}
    BY <2>1 DEF Unread
  <2>3. QED
    BY <2>2 DEF c
<1>2. CASE gaps # {} /\ reader = "refused"
  <2>1. c = NoReader
    BY <1>2 DEF Consulted, Providers, Imported, c
  <2>2. c.got = {} /\ c.reads = {}
    BY <2>1 DEF NoReader, Unread
  <2>3. QED
    BY <2>2 DEF c
<1>3. CASE gaps # {} /\ reader \in Providers
  <2>1. reader \notin {"none", "refused"}
    BY <1>3 DEF Providers, Imported
  <2>2. c = Read(nb, gaps)
    BY <1>3, <2>1 DEF Consulted, c
  <2>3. /\ c.got \subseteq c.reads
        /\ c.reads \subseteq gaps
        /\ \A f \in c.got : nb.secret[f] = "kept"
        /\ c.ok => \A f \in c.reads : nb.secret[f] = "kept"
    BY <2>2 DEF Read
  <2>4. QED
    BY <1>3, <2>3 DEF c
<1>4. QED
  BY <1>1, <1>2, <1>3, ReaderReachable

\* resolve_credentials: each field from the first place that has it
LEMMA CredentialsResolved ==
    ASSUME NEW told \in Told, NEW config \in SecretConfigs, NEW nb \in Notebooks,
           NEW f \in Fields, NEW r, r = ResolveCredentials(told, config, nb)
    PROVE  /\ told[f] # Missing => r.cred[f] = told[f]
           /\ told[f] = Missing /\ nb.env[f] # Missing => r.cred[f] = "env"
           /\ r.cred[f] = "secret" => nb.secret[f] = "kept"
           /\ r.ok /\ f \in r.reads => nb.secret[f] = "kept"
           /\ f \in r.reads =>
                 /\ told[f] = Missing /\ nb.env[f] = Missing
                 /\ config.provider # "off"
                 /\ ~(config.provider = "auto" /\ nb.colab /\ nb.dbutils)
                 /\ config.scope => nb.dbutils
<1> DEFINE supplied == Supplied(told, nb)
           gaps == {x \in Fields : supplied[x] = Missing}
           c == Consulted(gaps, config, nb)
<1>1. r.ok = c.ok /\ r.reads = c.reads
  BY DEF ResolveCredentials
<1>2. r.cred[f] = IF f \in c.got THEN "secret" ELSE supplied[f]
  BY DEF ResolveCredentials
<1>3. supplied[f] = IF told[f] # Missing THEN told[f] ELSE nb.env[f]
  BY DEF Supplied
<1>4. told[f] \in {Missing, "explicit", "env"} /\ nb.env[f] \in {Missing, "env"}
  BY DEF Told, Notebooks
<1>5. gaps \in SUBSET Fields /\ (f \in gaps => told[f] = Missing /\ nb.env[f] = Missing)
  BY <1>3, <1>4
<1> HIDE DEF supplied, gaps, c
<1>6. /\ c.got \subseteq c.reads
      /\ c.reads \subseteq gaps
      /\ f \in c.got => nb.secret[f] = "kept"
      /\ c.ok /\ f \in c.reads => nb.secret[f] = "kept"
      /\ c.reads # {} => SelectReader(config, nb) \in Providers
  BY <1>5, ConsultedReads DEF c
<1>7. QED
  BY <1>1, <1>2, <1>3, <1>4, <1>5, <1>6, ReaderReachable DEF Missing

\* Only credentials are read from a secret store.
LEMMA ReadsAreFields ==
    ASSUME NEW told \in Told, NEW config \in SecretConfigs, NEW nb \in Notebooks
    PROVE  ResolveCredentials(told, config, nb).reads \subseteq Fields
<1> DEFINE supplied == Supplied(told, nb)
           gaps == {x \in Fields : supplied[x] = Missing}
<1>1. ResolveCredentials(told, config, nb).reads = Consulted(gaps, config, nb).reads
  BY DEF ResolveCredentials
<1>2. gaps \in SUBSET Fields
  OBVIOUS
<1> HIDE DEF gaps
<1>3. QED
  BY <1>1, <1>2, ConsultedReads

\* A session is made by getOrCreate() alone.
LEMMA OnlyGetOrCreateMakes ==
    ASSUME [Next]_vars, session'.made, ~session.made
    PROVE  GetOrCreate
<1>1. CASE UNCHANGED session
  BY <1>1
<1>2. CASE Build
  BY <1>1, <1>2 DEF Build, Tell, TellFromEnv, Secrets, RateLimitWait, Transport, Configuring,
                    GetOrCreateFails
<1>3. CASE Serve \/ Revoke \/ Edit
  BY <1>1, <1>3, ServeLeavesBuilder DEF Others
<1>4. CASE UNCHANGED vars
  BY <1>1, <1>4 DEF vars, building
<1>5. QED
  BY <1>2, <1>3, <1>4 DEF Next

\* What the build read is written down when it ends and forgotten at the first call
LEMMA BuildOrForget ==
    ASSUME [Next]_vars, built' # built
    PROVE  built'.reads = Resolution.reads \/ built'.reads = {}
<1>1. CASE GetOrCreate \/ GetOrCreateFails
  BY <1>1 DEF GetOrCreate, GetOrCreateFails, NotBuilt
<1>2. CASE Begin
  BY <1>2 DEF Begin, NotBuilt
<1>3. CASE UNCHANGED built
  BY <1>3
<1>4. QED
  BY <1>1, <1>2, <1>3, OthersLeaveBuilt

\* Host and key come each from the first place that has it, and no failed read of a secret is
\* papered over (resolve_credentials, SessionBuilder.get_or_create).
THEOREM SessionResolvedInOrder == Spec => ResolvedInOrder
<1> DEFINE Ordered ==
        (session'.made /\ ~session.made /\ ~builder.given) =>
          \A f \in Fields :
              LET cred == built'.cred[f]
              IN  /\ cred # Missing
                  /\ builder.told[f] # Missing => cred = builder.told[f]
                  /\ builder.told[f] = Missing /\ machine.env[f] # Missing => cred = "env"
                  /\ cred = "secret" => machine.secret[f] = "kept"
                  /\ f \in built'.reads => machine.secret[f] = "kept"
<1>1. BuilderOK /\ [Next]_vars => [Ordered]_vars
  <2>1. SUFFICES ASSUME BuilderOK, [Next]_vars, session'.made, ~session.made, ~builder.given,
                        NEW f \in Fields
                 PROVE  LET cred == built'.cred[f]
                        IN  /\ cred # Missing
                            /\ builder.told[f] # Missing => cred = builder.told[f]
                            /\ builder.told[f] = Missing /\ machine.env[f] # Missing => cred = "env"
                            /\ cred = "secret" => machine.secret[f] = "kept"
                            /\ f \in built'.reads => machine.secret[f] = "kept"
    OBVIOUS
  <2>2. GetOrCreate
    BY <2>1, OnlyGetOrCreateMakes
  <2>3. /\ built' = ResolveCredentials(builder.told, builder.config, machine)
        /\ built'.ok /\ built'.cred[f] # Missing
    BY <2>1, <2>2 DEF GetOrCreate, Complete, Resolution
  <2>4. builder.told \in Told /\ builder.config \in SecretConfigs /\ machine \in Notebooks
    BY <2>1, SessionAssumption DEF BuilderOK
  <2>5. QED
    BY <2>3, <2>4, CredentialsResolved
<1>2. QED
  BY <1>1, BuilderInvariant, PTL DEF Spec, ResolvedInOrder

\* No secret is read that is not needed, nor of a notebook that is not this one.
THEOREM SessionSecretsOnDemand == Spec => SecretsOnDemand
<1>1. BuilderOK /\ [Next]_vars =>
        [built' # built =>
          \A f \in built'.reads :
              /\ ~builder.given /\ builder.config.provider # "off"
              /\ builder.told[f] = Missing /\ machine.env[f] = Missing
              /\ ~(builder.config.provider = "auto" /\ machine.colab /\ machine.dbutils)
              /\ builder.config.scope => machine.dbutils]_vars
  <2>1. SUFFICES ASSUME BuilderOK, [Next]_vars, built' # built, NEW f \in built'.reads
                 PROVE  /\ ~builder.given /\ builder.config.provider # "off"
                        /\ builder.told[f] = Missing /\ machine.env[f] = Missing
                        /\ ~(builder.config.provider = "auto" /\ machine.colab /\ machine.dbutils)
                        /\ builder.config.scope => machine.dbutils
    OBVIOUS
  <2>2. built'.reads = Resolution.reads \/ built'.reads = {}
    BY <2>1, BuildOrForget
  <2>3. ~builder.given /\ f \in ResolveCredentials(builder.told, builder.config, machine).reads
    BY <2>1, <2>2 DEF Resolution, NotBuilt
  <2>4. builder.told \in Told /\ builder.config \in SecretConfigs /\ machine \in Notebooks
    BY <2>1, SessionAssumption DEF BuilderOK
  <2>5. f \in Fields
    BY <2>3, <2>4, ReadsAreFields
  <2>6. QED
    BY <2>3, <2>4, <2>5, CredentialsResolved
<1>2. QED
  BY <1>1, BuilderInvariant, PTL DEF Spec, SecretsOnDemand

(***************************************************************************)
(* The calls.  A call in progress is one that was begun, one of ask() that *)
(* has resolved its model, or one of saved_query() that has chosen an      *)
(* entry of the document it read; a model is resolved only when there is   *)
(* one.  Whatever is answered comes from there.                            *)
(***************************************************************************)
Asking(c) == c.op = "ask" /\ c.key \in Keys /\ c.todo = <<"generate">> /\ Reach[c.key] # NoModel

Choosing(c) ==
    /\ c.op = "saved" /\ c.key \in Keys /\ c.todo = <<"model">>
    /\ c.doc \in Documents /\ c.entry \in Range(c.doc.entries)

CallOK ==
    /\ document \in Documents
    /\ resolved \subseteq {k \in Keys : Reach[k] # NoModel}
    /\ call = Idle \/ call \in Calls \/ Asking(call) \/ Choosing(call)

FrameOK == answer.kind = "frame" => answer.model \in Models \ {NoModel}

CInv == CallOK /\ FrameOK /\ RunsWhereAsked

\* A name or an id reaches a model, or none.
LEMMA ReachIsModel == \A k \in Keys : Reach[k] \in Models
  BY DEF Keys, Models

\* A begun call, by what it has to ask.
LEMMA CallsByStage ==
    ASSUME NEW c \in Calls
    PROVE  \/ c.op = "verify" /\ c.todo = <<"verify">>
           \/ c.op = "whoami" /\ c.todo = <<"whoami">>
           \/ c.op = "run" /\ c.todo = <<"run">>
           \/ c.op = "list" /\ c.todo = <<"document">>
           \/ c.op = "sql" /\ c.todo = <<"model">> /\ c.key \in Keys
           \/ c.op = "ask" /\ c.todo = <<"model", "generate">> /\ c.key \in Keys
           \/ c.op = "saved" /\ c.todo = <<"document">> /\ c.key = NoKey
           \/ c.op = "saved" /\ c.todo = <<"document", "model">> /\ c.key \in Keys
<1>1. \A op, key, pick, todo : /\ Asked(op, key, pick, todo).op = op
                               /\ Asked(op, key, pick, todo).key = key
                               /\ Asked(op, key, pick, todo).todo = todo
  BY DEF Asked, Idle
<1>2. QED
  BY <1>1 DEF Calls

\* A begun call is a record that can hold what it will choose.
LEMMA CallsAreRecords ==
    ASSUME NEW c \in Calls
    PROVE  {"op", "key", "todo", "entry", "name", "doc"} \subseteq DOMAIN c
<1>1. DOMAIN Idle = {"op", "key", "pick", "todo", "entry", "name", "doc"}
  BY DEF Idle
<1>2. \A op, key, pick, todo : DOMAIN Asked(op, key, pick, todo) = DOMAIN Idle
  BY DEF Asked
<1>3. \E op, key, pick, todo : c = Asked(op, key, pick, todo)
  BY DEF Calls
<1>4. QED
  BY <1>1, <1>2, <1>3

\* What a frame is given by _normalized_query: its model and its version.
LEMMA StoredFrame ==
    ASSUME NEW c, c.op = "saved", c.doc \in Documents, c.entry \in Range(c.doc.entries),
           c.key \in Keys \cup {NoKey}, Stored(c)
    PROVE  FrameOK' /\ RunsWhereAsked' /\ call' = Idle
<1>1. c.entry.model \in Models
  BY SessionAssumption DEF IsDoc, IsEntry
<1>2. Normalized(c.entry, c.key) \in Models
  BY <1>1, ReachIsModel DEF Normalized
<1>3. CASE Normalized(c.entry, c.key) = NoModel
  BY <1>3 DEF Stored, FailIn, End, NoAnswer, FrameOK, RunsWhereAsked
<1>4. CASE Normalized(c.entry, c.key) # NoModel
  <2>1. /\ answer'.model = Normalized(c.entry, c.key) /\ answer'.id = c.entry.id
        /\ answer'.version = VersionOf(c.entry) /\ answer'.call = c
        /\ call' = Idle
    BY <1>4 DEF Stored, Frame, End, NoAnswer
  <2>2. c.key # NoKey => answer'.model = Reach[c.key]
    BY <2>1 DEF Normalized
  <2>3. c.key = NoKey => answer'.model = c.entry.model
    BY <2>1 DEF Normalized
  <2>4. c.entry.version \in {Unversioned, answer'.version}
    BY <2>1 DEF VersionOf
  <2>5. QED
    BY <1>2, <1>4, <2>1, <2>2, <2>3, <2>4 DEF FrameOK, RunsWhereAsked
<1>5. QED
  BY <1>3, <1>4

\* Nothing but a frame is asked about: a step that gives none and begins no call is safe.
LEMMA Quiet ==
    ASSUME CInv, call' \in {call, Idle}, answer' = answer \/ answer'.kind # "frame",
           document' \in Documents, resolved' = resolved
    PROVE  CInv'
<1>1. CallOK'
  BY DEF CInv, CallOK, Asking, Choosing
<1>2. FrameOK' /\ RunsWhereAsked'
  BY DEF CInv, FrameOK, RunsWhereAsked
<1>3. QED
  BY <1>1, <1>2 DEF CInv

\* A call that ends without a frame leaves nothing to hold of it.
LEMMA EndsQuietly ==
    ASSUME NEW c, NEW kind, NEW why, kind # "frame",
           \/ End(c, [NoAnswer EXCEPT !.kind = kind])
           \/ End(c, [NoAnswer EXCEPT !.kind = kind, !.why = why])
    PROVE  call' = Idle /\ answer'.kind # "frame"
  BY DEF End, NoAnswer

\* No call is in progress at the start.
LEMMA CallInit == Init => CInv
<1>1. SUFFICES ASSUME Init PROVE CInv
  OBVIOUS
<1>2. document \in Documents
  BY <1>1, SessionAssumption DEF Init
<1>3. answer.kind # "frame"
  BY <1>1 DEF Init, NoAnswer
<1>4. QED
  BY <1>1, <1>2, <1>3 DEF Init, CInv, CallOK, FrameOK, RunsWhereAsked

\* Steps outside a call leave it as it is.
LEMMA QuietSteps ==
    ASSUME CInv, Build \/ Close \/ Revoke \/ Edit \/ UNCHANGED vars
    PROVE  CInv'
<1>1. CASE Build
  <2>1. UNCHANGED <<call, answer, document, resolved>>
    BY <1>1 DEF Build, Tell, TellFromEnv, Secrets, RateLimitWait, Transport, Configuring,
                GetOrCreate, GetOrCreateFails, server
  <2>2. QED
    BY <2>1, Quiet DEF CInv, CallOK
<1>2. CASE Close \/ Revoke \/ Edit \/ UNCHANGED vars
  <2>1. document' \in Documents /\ UNCHANGED <<call, answer, resolved>>
    BY <1>2 DEF Close, Revoke, Edit, vars, server, CInv, CallOK
  <2>2. QED
    BY <2>1, Quiet
<1>3. QED
  BY <1>1, <1>2

\* So do the steps of a call that give no frame.
LEMMA FramelessSteps ==
    ASSUME CInv,
           Preflight \/ Verify \/ Identity \/ Closed \/ RequestFails \/ Run \/ List \/ NotPicked
             \/ NoDocument \/ NoSuchModel
    PROVE  CInv'
<1>1. UNCHANGED <<document, resolved>>
  BY DEF Preflight, Verify, Identity, Closed, RequestFails, Run, List, NotPicked, NoDocument,
         NoSuchModel, Request, server
<1>2. CASE UNCHANGED <<call, answer>>
  BY <1>1, <1>2, Quiet DEF CInv, CallOK
<1>3. CASE \E c, why : FailIn(c, why)
  BY <1>1, <1>3, EndsQuietly, Quiet DEF FailIn, CInv, CallOK
<1>4. CASE \E kind \in {"identity", "rows", "list"} : Done(kind)
  BY <1>1, <1>4, EndsQuietly, Quiet DEF Done, CInv, CallOK
<1>5. QED
  BY <1>2, <1>3, <1>4
     DEF Preflight, Verify, Identity, Closed, RequestFails, Run, List, NotPicked, NoDocument,
         NoSuchModel, Fail

\* A call that begins is one of Calls.
LEMMA BeginStep == CInv /\ Begin => CInv'
<1>1. SUFFICES ASSUME CInv, Begin PROVE CInv'
  OBVIOUS
<1>2. UNCHANGED <<document, resolved>> /\ call' \in Calls /\ answer'.kind # "frame"
  BY <1>1 DEF Begin, server, NoAnswer
<1>3. QED
  BY <1>1, <1>2 DEF CInv, CallOK, FrameOK, RunsWhereAsked

\* The entry is of the document that was read, and what is left to ask is the model.
LEMMA SavedStep == CInv /\ Saved => CInv'
<1>1. SUFFICES ASSUME CInv, Saved PROVE CInv'
  OBVIOUS
<1>2. UNCHANGED <<document, resolved>> /\ document \in Documents
  BY <1>1 DEF Saved, Request, server, CInv, CallOK
<1>3. call \in Calls /\ call.op = "saved"
  BY <1>1 DEF Saved, Request, Doing, CInv, CallOK, Asking, Choosing, Idle
<1>4. \/ call.todo = <<"document">> /\ call.key = NoKey
      \/ call.todo = <<"document", "model">> /\ call.key \in Keys
  BY <1>3, CallsByStage
<1>5. PICK i \in Chosen(document, call.pick) :
         LET c == [call EXCEPT !.entry = document.entries[i], !.name = NameOf(document, i),
                               !.doc = document, !.todo = Tail(@)]
         IN  CASE c.entry.id = NoQuery -> FailIn(c, "no_query")
               [] c.entry.id # NoQuery /\ c.todo # <<>> -> call' = c /\ UNCHANGED answer
               [] c.entry.id # NoQuery /\ c.todo = <<>> -> Stored(c)
  BY <1>1 DEF Saved
<1>. DEFINE c == [call EXCEPT !.entry = document.entries[i], !.name = NameOf(document, i),
                              !.doc = document, !.todo = Tail(@)]
<1>6. document.entries[i] \in Range(document.entries)
  BY <1>5 DEF Chosen, Called, Kept, Range
<1>7. /\ c.op = "saved" /\ c.key = call.key /\ c.doc = document
      /\ c.entry = document.entries[i] /\ c.todo = Tail(call.todo)
  BY <1>3, CallsAreRecords
<1>. HIDE DEF c
<1>8. CASE FailIn(c, "no_query")
  BY <1>1, <1>2, <1>8, EndsQuietly, Quiet DEF FailIn
<1>9. CASE c.todo # <<>> /\ call' = c /\ UNCHANGED answer
  <2>1. Tail(<<"document">>) = <<>> /\ Tail(<<"document", "model">>) = <<"model">>
    OBVIOUS
  <2>2. c.todo = <<"model">> /\ c.key \in Keys
    BY <1>4, <1>7, <1>9, <2>1
  <2>3. Choosing(c)
    BY <1>2, <1>6, <1>7, <2>2 DEF Choosing
  <2>4. QED
    BY <1>1, <1>2, <1>9, <2>3 DEF CInv, CallOK, FrameOK, RunsWhereAsked, Choosing
<1>10. CASE Stored(c)
  <2>1. FrameOK' /\ RunsWhereAsked' /\ call' = Idle
    BY <1>2, <1>4, <1>6, <1>7, <1>10, StoredFrame
  <2>2. QED
    BY <1>1, <1>2, <2>1 DEF CInv, CallOK
<1>11. QED
  BY <1>5, <1>8, <1>9, <1>10 DEF c

\* A call that resolves a model has been given one the catalog finds.
LEMMA ResolvedStep ==
    ASSUME CInv, Doing("model"), call.key \in Keys, Reach[call.key] # NoModel, Resolved,
           UNCHANGED document, resolved' \subseteq {k \in Keys : Reach[k] # NoModel}
    PROVE  CInv'
<1>1. Head(<<"document">>) # "model" /\ Head(<<"document", "model">>) # "model"
      /\ Tail(<<"model", "generate">>) = <<"generate">> /\ Head(<<"generate">>) # "model"
  OBVIOUS
<1>2. \/ call.op = "sql" /\ call \in Calls
      \/ call.op = "ask" /\ call.todo = <<"model", "generate">> /\ call \in Calls
      \/ Choosing(call)
  <2>1. call \in Calls \/ Asking(call) \/ Choosing(call)
    BY DEF CInv, CallOK, Doing
  <2>2. ~Asking(call)
    BY <1>1 DEF Asking, Doing
  <2>3. QED
    BY <1>1, <2>1, <2>2, CallsByStage DEF Doing
<1>3. document' \in Documents
  BY DEF CInv, CallOK
<1>4. CASE call.op = "sql"
  <2>1. /\ answer'.model = Reach[call.key] /\ answer'.call = call
        /\ call' = Idle
    BY <1>4 DEF Resolved, Frame, End, NoAnswer
  <2>2. FrameOK' /\ RunsWhereAsked'
    BY <1>4, <2>1, ReachIsModel DEF FrameOK, RunsWhereAsked
  <2>3. QED
    BY <1>3, <2>1, <2>2 DEF CInv, CallOK
<1>5. CASE call.op = "ask"
  <2>1. call \in Calls /\ call.todo = <<"model", "generate">>
    BY <1>2, <1>5 DEF Choosing
  <2>2. call' = [call EXCEPT !.todo = Tail(@)] /\ UNCHANGED answer
    BY <1>5 DEF Resolved
  <2>3. Asking(call)'
    BY <1>1, <1>5, <2>1, <2>2, CallsAreRecords DEF Asking
  <2>4. QED
    BY <1>3, <2>2, <2>3 DEF CInv, CallOK, FrameOK, RunsWhereAsked
<1>6. CASE Choosing(call)
  <2>1. Stored(call)
    BY <1>6 DEF Resolved, Choosing
  <2>2. FrameOK' /\ RunsWhereAsked' /\ call' = Idle
    BY <1>6, <2>1, StoredFrame DEF Choosing
  <2>3. QED
    BY <1>3, <2>2 DEF CInv, CallOK
<1>7. QED
  BY <1>2, <1>4, <1>5, <1>6

\* Asking for a model keeps what the call holds of the document it read.
LEMMA ModelSteps == CInv /\ (FromCatalog \/ ResolveModel) => CInv'
<1>1. SUFFICES ASSUME CInv, FromCatalog \/ ResolveModel PROVE CInv'
  OBVIOUS
<1>2. CASE FromCatalog
  BY <1>1, <1>2, ResolvedStep DEF FromCatalog, Cached, server, CInv, CallOK
<1>3. CASE ResolveModel
  <2>1. /\ Doing("model") /\ Reach[call.key] # NoModel /\ Resolved
        /\ UNCHANGED document /\ resolved' = resolved \cup {call.key}
    BY <1>3 DEF ResolveModel, Request, server
  <2>2. call \in Calls \/ Asking(call) \/ Choosing(call)
    BY <1>1, <2>1 DEF CInv, CallOK, Doing
  <2>3. call.key \in Keys
    <3>1. Head(<<"document">>) # "model" /\ Head(<<"verify">>) # "model"
          /\ Head(<<"whoami">>) # "model" /\ Head(<<"run">>) # "model"
      OBVIOUS
    <3>2. QED
      BY <2>1, <2>2, <3>1, CallsByStage DEF Doing, Asking, Choosing
  <2>4. QED
    BY <1>1, <2>1, <2>3, ResolvedStep DEF CInv, CallOK
<1>4. QED
  BY <1>1, <1>2, <1>3

\* A generated query runs on the model of the question, whichever it says it is for.
LEMMA GenerateStep == CInv /\ Generate => CInv'
<1>1. SUFFICES ASSUME CInv, Generate PROVE CInv'
  OBVIOUS
<1>2. UNCHANGED <<document, resolved>> /\ document \in Documents /\ Doing("generate")
  BY <1>1 DEF Generate, Request, server, CInv, CallOK
<1>3. Asking(call)
  <2>1. call \in Calls \/ Asking(call) \/ Choosing(call)
    BY <1>1, <1>2 DEF CInv, CallOK, Doing
  <2>2. /\ Head(<<"document">>) # "generate" /\ Head(<<"verify">>) # "generate"
        /\ Head(<<"whoami">>) # "generate" /\ Head(<<"run">>) # "generate"
        /\ Head(<<"model">>) # "generate" /\ Head(<<"model", "generate">>) # "generate"
        /\ Head(<<"document", "model">>) # "generate"
    OBVIOUS
  <2>3. QED
    BY <1>2, <2>1, <2>2, CallsByStage DEF Doing, Choosing
<1>4. CASE \E model \in Models :
             Frame(call, Normalized([Junk EXCEPT !.model = model], call.key), NoQuery, "current")
  <2>1. call.key # NoKey
    BY <1>3, SessionAssumption DEF Asking
  <2>2. /\ answer'.model = Reach[call.key] /\ answer'.call = call
        /\ call' = Idle
    BY <1>4, <2>1 DEF Frame, End, NoAnswer, Normalized
  <2>3. FrameOK' /\ RunsWhereAsked'
    BY <1>3, <2>2, ReachIsModel DEF FrameOK, RunsWhereAsked, Asking
  <2>4. QED
    BY <1>1, <1>2, <2>2, <2>3 DEF CInv, CallOK
<1>5. CASE \E why : Fail(why)
  BY <1>1, <1>2, <1>5, EndsQuietly, Quiet DEF Fail, FailIn
<1>6. QED
  BY <1>1, <1>4, <1>5 DEF Generate

\* CInv holds in every state.
LEMMA CallInvariant == Spec => []CInv
<1>1. CInv /\ [Next]_vars => CInv'
  BY QuietSteps, FramelessSteps, BeginStep, SavedStep, ModelSteps, GenerateStep DEF Next, Serve
<1>2. QED
  BY <1>1, CallInit, PTL DEF Spec

\* Whatever the order of calls, a frame runs on the model its caller named, and else on the
\* stored query's own (_normalized_query, OmniSession.ask).
THEOREM SessionRunsWhereAsked == Spec => []RunsWhereAsked
<1>1. CInv => RunsWhereAsked
  BY DEF CInv
<1>2. QED
  BY <1>1, CallInvariant, PTL

(***************************************************************************)
(* Stored queries.  The index of a query counts the objects before it, and *)
(* the list of objects has each at its index, and nothing else: shown up   *)
(* to every place of the document.                                         *)
(***************************************************************************)
UpTo(d, n) == {j \in Kept(d) : j <= n}

\* A document is a list of entries, no two of them the same.
LEMMA DocumentsAreLists ==
    ASSUME NEW d \in Documents
    PROVE  /\ d.entries \in Seq(Range(d.entries)) /\ Len(d.entries) \in Nat
           /\ DOMAIN d.entries = 1 .. Len(d.entries)
           /\ \A i \in DOMAIN d.entries : d.entries[i] \in Range(d.entries)
           /\ \A i, j \in DOMAIN d.entries :
                 d.entries[i].id = d.entries[j].id => i = j \/ d.entries[i].id = NoQuery
<1>1. IsDoc(d)
  BY SessionAssumption
<1>2. d.entries \in Seq(Range(d.entries))
  BY <1>1 DEF IsDoc
<1>3. QED
  BY <1>1, <1>2, LenProperties DEF IsDoc, Range

\* Up to any place there are finitely many objects, which an index counts.
LEMMA KeptIsFinite ==
    ASSUME NEW d \in Documents
    PROVE  /\ Kept(d) \subseteq 1 .. Len(d.entries)
           /\ \A n \in Nat : IsFiniteSet(UpTo(d, n)) /\ Cardinality(UpTo(d, n)) \in Nat
           /\ \A i \in Kept(d) : IndexOf(d, i) = Cardinality(UpTo(d, i - 1)) /\ IndexOf(d, i) \in Nat
<1>1. Kept(d) \subseteq 1 .. Len(d.entries) /\ Len(d.entries) \in Nat
  BY DocumentsAreLists DEF Kept
<1>2. IsFiniteSet(1 .. Len(d.entries))
  BY <1>1, FS_Interval
<1>3. ASSUME NEW n \in Nat PROVE IsFiniteSet(UpTo(d, n)) /\ Cardinality(UpTo(d, n)) \in Nat
  <2>1. UpTo(d, n) \in SUBSET (1 .. Len(d.entries))
    BY <1>1 DEF UpTo
  <2>2. QED
    BY <1>2, <2>1, FS_Subset, FS_CardinalityType
<1>4. ASSUME NEW i \in Kept(d) PROVE IndexOf(d, i) = Cardinality(UpTo(d, i - 1)) /\ IndexOf(d, i) \in Nat
  <2>1. i - 1 \in Nat /\ {j \in Kept(d) : j < i} = UpTo(d, i - 1)
    BY <1>1 DEF UpTo
  <2>2. QED
    BY <1>3, <2>1 DEF IndexOf
<1>5. QED
  BY <1>1, <1>3, <1>4

\* An object's index is a number.
LEMMA IndexNat ==
    ASSUME NEW d \in Documents, NEW i \in Kept(d)
    PROVE  IndexOf(d, i) \in Nat /\ i \in Nat /\ i \in UpTo(d, Len(d.entries))
<1>1. Len(d.entries) \in Nat /\ Kept(d) \subseteq 1 .. Len(d.entries)
  BY DocumentsAreLists, KeptIsFinite
<1>2. IndexOf(d, i) \in Nat
  BY KeptIsFinite
<1>3. QED
  BY <1>1, <1>2 DEF UpTo

\* A later query has a larger index.
LEMMA IndexGrows ==
    ASSUME NEW d \in Documents, NEW i \in Kept(d), NEW j \in Kept(d), i < j
    PROVE  IndexOf(d, i) < IndexOf(d, j)
<1>1. i \in 1 .. Len(d.entries) /\ j \in 1 .. Len(d.entries) /\ Len(d.entries) \in Nat
  BY KeptIsFinite, DocumentsAreLists
<1>2. i - 1 \in Nat /\ j - 1 \in Nat
  BY <1>1
<1>3. IsFiniteSet(UpTo(d, i - 1)) /\ IsFiniteSet(UpTo(d, j - 1))
  BY <1>2, KeptIsFinite
<1>4. i \notin UpTo(d, i - 1) /\ UpTo(d, i - 1) \cup {i} \in SUBSET UpTo(d, j - 1)
  BY <1>1, KeptIsFinite DEF UpTo
<1>5. Cardinality(UpTo(d, i - 1) \cup {i}) = Cardinality(UpTo(d, i - 1)) + 1
  BY <1>3, <1>4, FS_AddElement
<1>6. Cardinality(UpTo(d, i - 1) \cup {i}) <= Cardinality(UpTo(d, j - 1))
  BY <1>3, <1>4, FS_Subset
<1>7. QED
  BY <1>5, <1>6, KeptIsFinite

\* The list of objects can be computed.
AreObjects(entries, kept) ==
    kept = [n \in 0 .. Len(entries) |->
              IF n = 0 THEN <<>>
              ELSE IF entries[n].junk THEN kept[n - 1] ELSE Append(kept[n - 1], entries[n])]

\* The recursive definition of Objects has a solution, which Objects is.
LEMMA ObjectsExist ==
    ASSUME NEW entries, Len(entries) \in Nat
    PROVE  \E kept : AreObjects(entries, kept) /\ Objects(entries) = kept[Len(entries)]
<1> DEFINE Next1(n, last) == IF entries[n].junk THEN last ELSE Append(last, entries[n])
           none == <<>>
           Part(n, f) == f = [m \in 0 .. n |-> IF m = 0 THEN none ELSE Next1(m, f[m - 1])]
           T == {n \in Nat : \E f : Part(n, f)}
<1> HIDE DEF none, Next1
<1>1. 0 \in T
  <2> DEFINE f == [m \in 0 .. 0 |-> none]
  <2>1. Part(0, f)
    OBVIOUS
  <2>2. QED
    BY <2>1
<1>2. ASSUME NEW n \in Nat, n \in T PROVE n + 1 \in T
  <2>1. PICK f : Part(n, f)
    BY <1>2
  <2> DEFINE g == [m \in 0 .. n + 1 |-> IF m = n + 1 THEN Next1(m, f[n]) ELSE f[m]]
  <2>2. \A m \in 0 .. n + 1 : g[m] = IF m = 0 THEN none ELSE Next1(m, g[m - 1])
    BY <2>1
  <2>3. DOMAIN g = 0 .. n + 1
    OBVIOUS
  <2>4. g = [m \in 0 .. n + 1 |-> g[m]]
    OBVIOUS
  <2> HIDE DEF g
  <2>5. Part(n + 1, g)
    BY <2>2, <2>4
  <2>6. QED
    BY <2>5
<1>3. Len(entries) \in T
  <2> HIDE DEF T
  <2>1. QED
    BY <1>1, <1>2, StepByStep
<1>4. \E kept : AreObjects(entries, kept)
  BY <1>3 DEF AreObjects, Next1, none
<1> DEFINE kept == CHOOSE k : AreObjects(entries, k)
<1>5. AreObjects(entries, kept)
  BY <1>4
<1>6. Objects(entries) = kept[Len(entries)]
  BY DEF Objects, AreObjects
<1>7. QED
  BY <1>5, <1>6

\* The objects up to a place: each at its index, and nothing else.
Placed(d, n, objects) ==
    /\ objects \in Seq(Range(d.entries)) /\ Len(objects) = Cardinality(UpTo(d, n))
    /\ \A i \in UpTo(d, n) :
          IndexOf(d, i) + 1 \in 1 .. Len(objects) /\ objects[IndexOf(d, i) + 1] = d.entries[i]
    /\ \A k \in 1 .. Len(objects) : \E i \in UpTo(d, n) : k = IndexOf(d, i) + 1

\* Objects lists the objects of a document at their indexes.
LEMMA ObjectsInOrder ==
    ASSUME NEW d \in Documents
    PROVE  Placed(d, Len(d.entries), Objects(d.entries))
<1>1. Len(d.entries) \in Nat
  BY DocumentsAreLists
<1>2. PICK kept : AreObjects(d.entries, kept) /\ Objects(d.entries) = kept[Len(d.entries)]
  BY <1>1, ObjectsExist
<1> DEFINE Value(m) == IF m = 0 THEN <<>>
                       ELSE IF d.entries[m].junk THEN kept[m - 1]
                       ELSE Append(kept[m - 1], d.entries[m])
<1>3. kept = [m \in 0 .. Len(d.entries) |-> Value(m)]
  BY <1>2 DEF AreObjects
<1> HIDE DEF Value
<1> DEFINE T == {n \in Nat : n <= Len(d.entries) => Placed(d, n, kept[n])}
<1>4. 0 \in T
  <2>1. UpTo(d, 0) = {}
    BY KeptIsFinite DEF UpTo
  <2>2. Cardinality(UpTo(d, 0)) = 0
    BY <2>1, FS_EmptySet
  <2>3. kept[0] \in Seq(Range(d.entries)) /\ Len(kept[0]) = 0
    <3>1. kept[0] = Value(0)
      BY <1>1, <1>3
    <3>2. QED
      BY <3>1, EmptySeq DEF Value
  <2>4. QED
    BY <2>1, <2>2, <2>3 DEF Placed
<1>5. ASSUME NEW n \in Nat, n \in T PROVE n + 1 \in T
  <2>1. SUFFICES ASSUME n + 1 <= Len(d.entries) PROVE Placed(d, n + 1, kept[n + 1])
    OBVIOUS
  <2>2. Placed(d, n, kept[n])
    BY <1>1, <1>5, <2>1
  <2>3. n + 1 \in DOMAIN d.entries
    BY <1>1, <2>1, DocumentsAreLists
  <2>4. kept[n + 1] = IF d.entries[n + 1].junk THEN kept[n] ELSE Append(kept[n], d.entries[n + 1])
    <3>1. n + 1 \in 0 .. Len(d.entries) /\ n + 1 # 0 /\ (n + 1) - 1 = n
      BY <1>1, <2>1
    <3>2. kept[n + 1] = Value(n + 1)
      BY <1>3, <3>1
    <3>3. QED
      BY <3>1, <3>2 DEF Value
  <2>5. CASE d.entries[n + 1].junk
    <3>1. UpTo(d, n + 1) = UpTo(d, n)
      BY <2>5, KeptIsFinite DEF UpTo, Kept
    <3>2. QED
      BY <2>2, <2>4, <2>5, <3>1 DEF Placed
  <2>6. CASE ~d.entries[n + 1].junk
    <3>1. n + 1 \in Kept(d) /\ UpTo(d, n + 1) = UpTo(d, n) \cup {n + 1} /\ n + 1 \notin UpTo(d, n)
      BY <2>3, <2>6, KeptIsFinite DEF UpTo, Kept
    <3>2. (n + 1) - 1 = n
      OBVIOUS
    <3>3. IndexOf(d, n + 1) = Len(kept[n])
      BY <2>2, <3>1, <3>2, KeptIsFinite DEF Placed
    <3>4. Cardinality(UpTo(d, n + 1)) = Cardinality(UpTo(d, n)) + 1
      BY <3>1, KeptIsFinite, FS_AddElement
    <3>5. d.entries[n + 1] \in Range(d.entries)
      BY <2>3, DocumentsAreLists
    <3> DEFINE o == kept[n]
               p == kept[n + 1]
    <3>6. o \in Seq(Range(d.entries)) /\ Len(o) \in Nat /\ p = Append(o, d.entries[n + 1])
      BY <2>2, <2>4, <2>6, LenProperties DEF Placed
    <3> HIDE DEF o, p
    <3>7. /\ p \in Seq(Range(d.entries)) /\ Len(p) = Len(o) + 1
          /\ \A k \in 1 .. Len(o) : p[k] = o[k]
          /\ p[Len(o) + 1] = d.entries[n + 1]
      BY <3>5, <3>6, AppendProperties
    <3>8. Placed(d, n, o) /\ IndexOf(d, n + 1) = Len(o)
      BY <2>2, <3>3 DEF o
    <3>9. Placed(d, n + 1, p)
      BY <3>1, <3>4, <3>6, <3>7, <3>8 DEF Placed
    <3>10. QED
      BY <3>9 DEF p
  <2>7. QED
    BY <2>5, <2>6
<1>6. Len(d.entries) \in T
  <2> HIDE DEF T
  <2>1. QED
    BY <1>1, <1>4, <1>5, StepByStep
<1>7. QED
  BY <1>1, <1>2, <1>6

(***************************************************************************)
(* What is picked.  Between the document and the model, a call holds what  *)
(* it chose of the document it read; its answer comes from there, and what *)
(* was listed comes from the document it was listed of.                    *)
(***************************************************************************)
Held(c) ==
    /\ c.doc \in Documents
    /\ \E i \in Chosen(c.doc, c.pick) :
          c.entry = c.doc.entries[i] /\ c.name = NameOf(c.doc, i) /\ c.entry.id # NoQuery

Holding == call.op = "saved" /\ Head(call.todo) = "model" => Held(call)

Found ==
    answer.kind = "frame" /\ answer.call.op = "saved" =>
        LET c == answer.call
        IN  Held(c) /\ answer.id = c.entry.id /\ answer.name = c.name

NotFound ==
    answer.why = "pick" =>
        LET c == answer.call
        IN  c.doc \in Documents /\ c.pick \in Picks /\ Chosen(c.doc, c.pick) = {}

QueriesOf(d) == {[name |-> NameOf(d, i), at |-> IndexOf(d, i)] : i \in Kept(d)}
Listed ==
    listing.made => listing.doc \in Documents /\ listing.queries = QueriesOf(listing.doc)

PInv == Holding /\ Found /\ NotFound /\ Listed

\* What is chosen of a document is among its objects.
LEMMA ChosenIsObject ==
    ASSUME NEW d \in Documents, NEW pick, NEW i \in Chosen(d, pick)
    PROVE  \E k \in DOMAIN Objects(d.entries) : Objects(d.entries)[k].id = d.entries[i].id
<1> DEFINE objects == Objects(d.entries)
<1>1. Placed(d, Len(d.entries), objects)
  BY ObjectsInOrder
<1>2. i \in UpTo(d, Len(d.entries))
  BY IndexNat DEF Chosen, Called
<1>3. DOMAIN objects = 1 .. Len(objects)
  BY <1>1, LenProperties DEF Placed
<1> HIDE DEF objects
<1>4. QED
  BY <1>1, <1>2, <1>3 DEF Placed, objects

\* What the property says of a document, of what was listed of it and of what was chosen.
LEMMA ChosenAsListed ==
    ASSUME NEW d \in Documents, NEW pick, NEW i \in Chosen(d, pick), d.entries[i].id # NoQuery,
           NEW at \in DOMAIN Objects(d.entries), Objects(d.entries)[at].id = d.entries[i].id
    PROVE  /\ [name |-> NameOf(d, i), at |-> at - 1] \in QueriesOf(d)
           /\ pick.by = "index" => at = pick.at + 1
           /\ pick.by = "name" =>
                 /\ NameOf(d, i) = pick.name
                 /\ \A k \in 1 .. at - 1 : [name |-> pick.name, at |-> k - 1] \notin QueriesOf(d)
<1> DEFINE objects == Objects(d.entries)
<1>1. i \in Kept(d)
  BY DEF Chosen, Called
<1>2. Kept(d) \subseteq DOMAIN d.entries
  BY DEF Kept
<1>3. Placed(d, Len(d.entries), objects) /\ UpTo(d, Len(d.entries)) \subseteq Kept(d)
  BY ObjectsInOrder DEF UpTo
<1>4. DOMAIN objects = 1 .. Len(objects)
  BY <1>3, LenProperties DEF Placed
<1>5. at \in DOMAIN objects /\ objects[at].id = d.entries[i].id
  OBVIOUS
<1> HIDE DEF objects
<1>6. PICK j \in UpTo(d, Len(d.entries)) : at = IndexOf(d, j) + 1
  BY <1>3, <1>4, <1>5 DEF Placed
<1>7. j = i
  <2>1. objects[at] = d.entries[j] /\ j \in Kept(d)
    BY <1>3, <1>6 DEF Placed
  <2>2. QED
    BY <1>1, <1>2, <1>5, <2>1, DocumentsAreLists
<1>8. IndexOf(d, i) \in Nat /\ at = IndexOf(d, i) + 1 /\ at - 1 = IndexOf(d, i)
  <2>1. at = IndexOf(d, i) + 1
    BY <1>6, <1>7
  <2>2. IndexOf(d, i) \in Nat
    BY <1>1, IndexNat
  <2>3. QED
    BY <2>1, <2>2
<1>9. [name |-> NameOf(d, i), at |-> at - 1] \in QueriesOf(d)
  BY <1>1, <1>8 DEF QueriesOf
<1>10. pick.by = "index" => at = pick.at + 1
  BY <1>8 DEF Chosen
<1>11. ASSUME pick.by = "name"
       PROVE  /\ NameOf(d, i) = pick.name
              /\ \A k \in 1 .. at - 1 : [name |-> pick.name, at |-> k - 1] \notin QueriesOf(d)
  <2>1. NameOf(d, i) = pick.name /\ \A m \in Called(d, pick.name) : i <= m
    BY <1>11 DEF Chosen, Called
  <2>2. ASSUME NEW k \in 1 .. at - 1, [name |-> pick.name, at |-> k - 1] \in QueriesOf(d) PROVE FALSE
    <3>1. PICK m \in Kept(d) : NameOf(d, m) = pick.name /\ IndexOf(d, m) = k - 1
      BY <2>2 DEF QueriesOf
    <3>2. i <= m
      BY <2>1, <3>1 DEF Called
    <3>3. IndexOf(d, m) < IndexOf(d, i)
      BY <1>8, <3>1
    <3>4. m \in Nat /\ i \in Nat
      BY <1>1, IndexNat
    <3>5. i = m \/ i < m
      BY <3>2, <3>4
    <3>6. i = m => FALSE
      BY <1>8, <3>3
    <3>7. i < m => IndexOf(d, i) < IndexOf(d, m)
      BY <1>1, IndexGrows
    <3>8. IndexOf(d, m) \in Nat
      BY IndexNat
    <3>9. QED
      BY <1>8, <3>3, <3>5, <3>6, <3>7, <3>8
  <2>3. QED
    BY <2>1, <2>2
<1>12. QED
  BY <1>9, <1>10, <1>11

\* What is not found in a document is not listed of it.
LEMMA AbsentAsListed ==
    ASSUME NEW d \in Documents, NEW pick \in Picks, Chosen(d, pick) = {}
    PROVE  /\ pick.by = "index" => pick.at + 1 \notin DOMAIN Objects(d.entries)
           /\ pick.by = "name" => \A q \in QueriesOf(d) : q.name # pick.name
<1>1. ASSUME pick.by = "index", pick.at + 1 \in DOMAIN Objects(d.entries) PROVE FALSE
  <2> DEFINE objects == Objects(d.entries)
  <2>1. Placed(d, Len(d.entries), objects)
    BY ObjectsInOrder
  <2>2. DOMAIN objects = 1 .. Len(objects)
    BY <2>1, LenProperties DEF Placed
  <2>3. PICK i \in Kept(d) : pick.at + 1 = IndexOf(d, i) + 1
    <3> HIDE DEF objects
    <3>1. pick.at + 1 \in 1 .. Len(objects)
      BY <1>1, <2>2 DEF objects
    <3>2. QED
      BY <2>1, <3>1 DEF Placed, UpTo
  <2>4. pick.at = IndexOf(d, i)
    <3>1. IndexOf(d, i) \in Nat /\ pick.at \in Int
      BY IndexNat, SessionAssumption
    <3>2. QED
      BY <2>3, <3>1
  <2>5. QED
    BY <1>1, <2>4 DEF Chosen
<1>2. ASSUME pick.by = "name", NEW q \in QueriesOf(d), q.name = pick.name PROVE FALSE
  <2>1. PICK j \in Kept(d) : NameOf(d, j) = pick.name
    BY <1>2 DEF QueriesOf
  <2>2. Called(d, pick.name) # {} /\ Called(d, pick.name) \subseteq Nat
    BY <2>1, IndexNat DEF Called
  <2>3. PICK i \in Called(d, pick.name) : \A m \in Called(d, pick.name) : i <= m
    BY <2>2, LeastNumber
  <2>4. i \in Chosen(d, pick)
    BY <1>2, <2>3 DEF Chosen
  <2>5. QED
    BY <2>4
<1>3. QED
  BY <1>1, <1>2

\* PInv says what the property does.
LEMMA PickedFromInvariant == PInv => PickedAsListed
<1>1. SUFFICES ASSUME PInv, answer.call.op = "saved", listing.made, listing.doc = answer.call.doc
               PROVE  PickedAsListed
  BY DEF PickedAsListed
<1> DEFINE c == answer.call
           d == c.doc
           objects == Objects(d.entries)
           at == CHOOSE k \in DOMAIN objects : objects[k].id = answer.id
<1>2. d \in Documents /\ listing.queries = QueriesOf(d)
  BY <1>1 DEF PInv, Listed
<1> DEFINE AsListed(k) ==
             /\ [name |-> answer.name, at |-> k - 1] \in listing.queries
             /\ c.pick.by = "index" => k = c.pick.at + 1
             /\ c.pick.by = "name" =>
                   /\ answer.name = c.pick.name
                   /\ \A j \in 1 .. k - 1 : [name |-> c.pick.name, at |-> j - 1] \notin listing.queries
<1>3. ASSUME answer.kind = "frame" PROVE AsListed(at)
  <2>1. PICK i \in Chosen(d, c.pick) :
           c.entry = d.entries[i] /\ c.name = NameOf(d, i) /\ c.entry.id # NoQuery
    BY <1>1, <1>3 DEF PInv, Found, Held
  <2>2. answer.id = d.entries[i].id /\ answer.name = NameOf(d, i) /\ d.entries[i].id # NoQuery
    BY <1>1, <1>3, <2>1 DEF PInv, Found
  <2>3. \E k \in DOMAIN objects : objects[k].id = answer.id
    BY <1>2, <2>2, ChosenIsObject
  <2>4. at \in DOMAIN objects /\ objects[at].id = answer.id
    <3> HIDE DEF objects
    <3>1. QED
      BY <2>3
  <2>5. ASSUME NEW k \in DOMAIN objects, objects[k].id = answer.id PROVE AsListed(k)
    <3>1. objects[k].id = d.entries[i].id
      BY <2>2, <2>5
    <3>2. /\ [name |-> NameOf(d, i), at |-> k - 1] \in listing.queries
          /\ c.pick.by = "index" => k = c.pick.at + 1
          /\ c.pick.by = "name" =>
                /\ NameOf(d, i) = c.pick.name
                /\ \A j \in 1 .. k - 1 : [name |-> c.pick.name, at |-> j - 1] \notin listing.queries
      BY <1>2, <2>2, <3>1, ChosenAsListed
    <3>3. QED
      BY <2>2, <3>2
  <2> HIDE DEF at, AsListed
  <2>6. QED
    BY <2>4, <2>5
<1>4. ASSUME answer.why = "pick"
      PROVE  /\ c.pick.by = "index" => c.pick.at + 1 \notin DOMAIN objects
             /\ c.pick.by = "name" => \A q \in listing.queries : q.name # c.pick.name
  <2>1. c.pick \in Picks /\ Chosen(d, c.pick) = {}
    BY <1>1, <1>4 DEF PInv, NotFound
  <2>2. QED
    BY <1>2, <2>1, AbsentAsListed
<1>5. QED
  BY <1>3, <1>4 DEF PickedAsListed

\* A call of saved_query() asks for a pick, and does not begin with a model.
LEMMA PicksAsked ==
    ASSUME NEW c \in Calls
    PROVE  /\ {"op", "key", "pick", "todo", "entry", "name", "doc"} = DOMAIN c
           /\ c.op = "saved" => c.pick \in Picks /\ Head(c.todo) # "model"
<1>1. \A op, key, pick, todo : /\ Asked(op, key, pick, todo).op = op
                               /\ Asked(op, key, pick, todo).pick = pick
                               /\ Asked(op, key, pick, todo).todo = todo
                               /\ DOMAIN Asked(op, key, pick, todo) = DOMAIN Idle
  BY DEF Asked, Idle
<1>2. Head(<<"document">>) # "model" /\ Head(<<"document", "model">>) # "model"
  OBVIOUS
<1>3. DOMAIN Idle = {"op", "key", "pick", "todo", "entry", "name", "doc"}
  BY DEF Idle
<1>4. c.op = "saved" => c.pick \in Picks
  BY <1>1 DEF Calls
<1>5. c.op = "saved" => Head(c.todo) # "model"
  BY <1>2, CallsByStage
<1>6. \E op, key, pick, todo : c = Asked(op, key, pick, todo)
  BY DEF Calls
<1>7. QED
  BY <1>1, <1>3, <1>4, <1>5, <1>6

\* No call is no saved_query().
LEMMA IdleHolds == Idle.op # "saved"
  BY DEF Idle

\* A step that answers nothing about a stored query, and begins no call.
LEMMA PicksQuietly ==
    ASSUME PInv, call' \in {call, Idle}, listing' = listing,
           answer' = answer \/ (answer'.kind # "frame" /\ answer'.why # "pick")
    PROVE  PInv'
  BY IdleHolds DEF PInv, Holding, Found, NotFound, Listed, Held

\* A call that fails for another reason than the pick,
LEMMA FailsQuietly ==
    ASSUME NEW c, NEW why, why # "pick", FailIn(c, why)
    PROVE  call' = Idle /\ answer'.kind # "frame" /\ answer'.why # "pick"
  BY DEF FailIn, End, NoAnswer

\* or ends without a frame, claims nothing of a listing.
LEMMA DoneQuietly ==
    ASSUME NEW kind, kind # "frame", Done(kind)
    PROVE  call' = Idle /\ answer'.kind # "frame" /\ answer'.why # "pick"
  BY DEF Done, End, NoAnswer

\* Steps that neither list nor pick keep PInv.
LEMMA QuietPicks ==
    ASSUME PInv, CInv,
           \/ Build \/ Close \/ Revoke \/ Edit \/ UNCHANGED vars
           \/ Preflight \/ Verify \/ Identity \/ Closed \/ RequestFails \/ Run
           \/ NoDocument \/ NoSuchModel
    PROVE  PInv'
<1>1. CASE Build \/ Close \/ Revoke \/ Edit \/ UNCHANGED vars
  <2>1. UNCHANGED <<call, answer, listing>>
    BY <1>1 DEF Build, Tell, TellFromEnv, Secrets, RateLimitWait, Transport, Configuring,
                GetOrCreate, GetOrCreateFails, server, Close, Revoke, Edit, vars
  <2>2. QED
    BY <2>1, PicksQuietly
<1>2. CASE \/ Preflight \/ Verify \/ Identity \/ Closed \/ RequestFails \/ Run
           \/ NoDocument \/ NoSuchModel
  <2>1. listing' = listing
    BY <1>2 DEF Preflight, Verify, Identity, Closed, RequestFails, Run, NoDocument, NoSuchModel
  <2>2. document.status # "pick"
    BY SessionAssumption DEF CInv, CallOK, IsDoc
  <2>3. \/ UNCHANGED <<call, answer>>
        \/ \E kind \in {"identity", "rows"} : Done(kind)
        \/ \E why : why # "pick" /\ FailIn(call, why)
    BY <1>2, <2>2
       DEF Preflight, Verify, Identity, Closed, RequestFails, Run, NoDocument, NoSuchModel, Fail
  <2>4. QED
    BY <2>1, <2>3, PicksQuietly, FailsQuietly, DoneQuietly
<1>3. QED
  BY <1>1, <1>2

\* A call that begins has picked nothing yet.
LEMMA BeginPicks == PInv /\ Begin => PInv'
<1>1. SUFFICES ASSUME PInv, Begin PROVE PInv'
  OBVIOUS
<1>2. call' \in Calls /\ answer'.kind # "frame" /\ answer'.why # "pick" /\ listing' = listing
  BY <1>1 DEF Begin, NoAnswer
<1>3. Holding'
  BY <1>2, PicksAsked DEF Holding
<1>4. QED
  BY <1>1, <1>2, <1>3 DEF PInv, Found, NotFound, Listed

\* What saved_queries() lists is Listed of the document it read.
LEMMA ListPicks == PInv /\ CInv /\ List => PInv'
<1>1. SUFFICES ASSUME PInv, CInv, List PROVE PInv'
  OBVIOUS
<1>2. /\ listing'.doc = document /\ listing'.queries = QueriesOf(document)
      /\ document \in Documents
  BY <1>1 DEF List, QueriesOf, CInv, CallOK
<1>3. call' = Idle /\ answer'.kind # "frame" /\ answer'.why # "pick"
  BY <1>1, DoneQuietly DEF List
<1>4. QED
  BY <1>2, <1>3, IdleHolds DEF PInv, Holding, Found, NotFound, Listed

\* A frame of a stored query is of the one that was chosen.
LEMMA StoredPick ==
    ASSUME PInv, NEW c, Held(c), Stored(c), listing' = listing
    PROVE  PInv'
<1>1. CASE FailIn(c, "no_model_id")
  BY <1>1, FailsQuietly, PicksQuietly
<1>2. CASE Frame(c, Normalized(c.entry, c.key), c.entry.id, VersionOf(c.entry))
  <2>1. /\ answer'.call = c /\ answer'.id = c.entry.id /\ answer'.name = c.name
        /\ answer'.why = "none" /\ call' = Idle
    BY <1>2 DEF Frame, End, NoAnswer
  <2>2. QED
    BY <2>1, IdleHolds DEF PInv, Holding, Found, NotFound, Listed, Held
<1>3. QED
  BY <1>1, <1>2 DEF Stored

\* A call that asks for the document is one of Calls.
LEMMA AskingDocument ==
    ASSUME CInv, Doing("document")
    PROVE  call \in Calls
<1>1. Head(<<"generate">>) # "document" /\ Head(<<"model">>) # "document"
  OBVIOUS
<1>2. QED
  BY <1>1 DEF CInv, CallOK, Doing, Asking, Choosing

\* An entry that is chosen is the document's.
LEMMA SavedPicks == PInv /\ CInv /\ Saved => PInv'
<1>1. SUFFICES ASSUME PInv, CInv, Saved PROVE PInv'
  OBVIOUS
<1>2. document \in Documents /\ call \in Calls /\ call.op = "saved" /\ listing' = listing
  BY <1>1, AskingDocument DEF Saved, Request, CInv, CallOK
<1>3. PICK i \in Chosen(document, call.pick) :
         LET c == [call EXCEPT !.entry = document.entries[i], !.name = NameOf(document, i),
                               !.doc = document, !.todo = Tail(@)]
         IN  CASE c.entry.id = NoQuery -> FailIn(c, "no_query")
               [] c.entry.id # NoQuery /\ c.todo # <<>> -> call' = c /\ UNCHANGED answer
               [] c.entry.id # NoQuery /\ c.todo = <<>> -> Stored(c)
  BY <1>1 DEF Saved
<1>. DEFINE c == [call EXCEPT !.entry = document.entries[i], !.name = NameOf(document, i),
                              !.doc = document, !.todo = Tail(@)]
<1>4. /\ c.pick = call.pick /\ c.doc = document /\ c.name = NameOf(document, i)
      /\ c.entry = document.entries[i]
  BY <1>2, PicksAsked
<1>. HIDE DEF c
<1>5. c.entry.id # NoQuery => Held(c)
  BY <1>2, <1>4 DEF Held
<1>6. CASE FailIn(c, "no_query")
  BY <1>1, <1>2, <1>6, FailsQuietly, PicksQuietly
<1>7. CASE c.entry.id # NoQuery /\ call' = c /\ UNCHANGED answer
  <2>1. Holding'
    BY <1>5, <1>7 DEF Holding, Held
  <2>2. QED
    BY <1>1, <1>2, <1>7, <2>1 DEF PInv, Found, NotFound, Listed, Held
<1>8. CASE c.entry.id # NoQuery /\ Stored(c)
  BY <1>1, <1>2, <1>5, <1>8, StoredPick
<1>9. QED
  BY <1>3, <1>6, <1>7, <1>8 DEF c

\* None is chosen only where none is listed.
LEMMA NotPickedPicks == PInv /\ CInv /\ NotPicked => PInv'
<1>1. SUFFICES ASSUME PInv, CInv, NotPicked PROVE PInv'
  OBVIOUS
<1>2. /\ document \in Documents /\ call \in Calls /\ call.op = "saved" /\ listing' = listing
      /\ Chosen(document, call.pick) = {}
  BY <1>1, AskingDocument DEF NotPicked, Request, CInv, CallOK
<1> DEFINE c == [call EXCEPT !.doc = document]
<1>3. c.doc = document /\ c.pick = call.pick /\ c.pick \in Picks
  BY <1>2, PicksAsked
<1> HIDE DEF c
<1>4. FailIn(c, "pick")
  BY <1>1 DEF NotPicked, c
<1>5. answer'.call = c /\ answer'.kind = "error" /\ answer'.why = "pick" /\ call' = Idle
  BY <1>4 DEF FailIn, End, NoAnswer
<1>6. QED
  BY <1>1, <1>2, <1>3, <1>5, IdleHolds DEF PInv, Holding, Found, NotFound, Listed

\* A frame that is not of a stored query says nothing of what was picked.
LEMMA OtherFrame ==
    ASSUME PInv, NEW model, NEW id, NEW version, Frame(call, model, id, version),
           call.op # "saved", listing' = listing
    PROVE  PInv'
<1>1. answer'.call = call /\ answer'.why = "none" /\ call' = Idle
  BY DEF Frame, End, NoAnswer
<1>2. QED
  BY <1>1, IdleHolds DEF PInv, Holding, Found, NotFound, Listed

\* A call whose model is resolved ends with the entry it chose,
LEMMA ResolvedPicks ==
    ASSUME PInv, CInv, Doing("model"), Resolved, listing' = listing
    PROVE  PInv'
<1>1. call.op = "saved" => Held(call)
  BY DEF PInv, Holding, Doing
<1>2. call.op \in {"ask", "sql", "saved"}
  <2>1. Head(<<"document">>) # "model" /\ Head(<<"verify">>) # "model"
        /\ Head(<<"whoami">>) # "model" /\ Head(<<"run">>) # "model"
    OBVIOUS
  <2>2. call \in Calls \/ Asking(call) \/ Choosing(call)
    BY DEF CInv, CallOK, Doing
  <2>3. QED
    BY <2>1, <2>2, CallsByStage DEF Doing, Asking, Choosing
<1>3. CASE call.op = "ask"
  <2>1. call' = [call EXCEPT !.todo = Tail(@)] /\ UNCHANGED answer
    BY <1>3 DEF Resolved
  <2>2. call'.op = "ask"
    BY <1>3, <2>1
  <2>3. QED
    BY <2>1, <2>2 DEF PInv, Holding, Found, NotFound, Listed, Held
<1>4. CASE call.op = "sql"
  BY <1>4, OtherFrame DEF Resolved
<1>5. CASE call.op = "saved"
  BY <1>1, <1>5, StoredPick DEF Resolved
<1>6. QED
  BY <1>2, <1>3, <1>4, <1>5

\* whichever way the model was found.
LEMMA ModelPicks == PInv /\ CInv /\ (FromCatalog \/ ResolveModel \/ Generate) => PInv'
<1>1. SUFFICES ASSUME PInv, CInv, FromCatalog \/ ResolveModel \/ Generate PROVE PInv'
  OBVIOUS
<1>2. listing' = listing
  BY <1>1 DEF FromCatalog, ResolveModel, Generate
<1>3. CASE FromCatalog \/ ResolveModel
  BY <1>1, <1>2, <1>3, ResolvedPicks DEF FromCatalog, Cached, ResolveModel, Request
<1>4. CASE Generate
  <2>1. CASE \E why \in {"empty", "no_query_possible", "no_credits"} : Fail(why)
    BY <1>1, <1>2, <2>1, FailsQuietly, PicksQuietly DEF Fail
  <2>2. CASE \E model \in Models :
               Frame(call, Normalized([Junk EXCEPT !.model = model], call.key), NoQuery, "current")
    <3>1. call.op # "saved"
      <4>1. /\ Head(<<"document">>) # "generate" /\ Head(<<"document", "model">>) # "generate"
            /\ Head(<<"model">>) # "generate"
        OBVIOUS
      <4>2. Doing("generate")
        BY <1>4 DEF Generate, Request
      <4>3. QED
        BY <1>1, <4>1, <4>2, CallsByStage DEF CInv, CallOK, Doing, Asking, Choosing
    <3>2. QED
      BY <1>1, <1>2, <2>2, <3>1, OtherFrame
  <2>3. QED
    BY <1>4, <2>1, <2>2 DEF Generate
<1>5. QED
  BY <1>1, <1>3, <1>4

\* PInv holds in every state.
LEMMA PickInvariant == Spec => []PInv
<1>1. Init => PInv
  <2>1. SUFFICES ASSUME Init PROVE PInv
    OBVIOUS
  <2>2. call = Idle /\ answer.kind # "frame" /\ answer.why # "pick" /\ ~listing.made
    BY <2>1 DEF Init, NoAnswer, NoListing
  <2>3. QED
    BY <2>2, IdleHolds DEF PInv, Holding, Found, NotFound, Listed
<1>2. PInv /\ CInv /\ [Next]_vars => PInv'
  BY QuietPicks, BeginPicks, ListPicks, SavedPicks, NotPickedPicks, ModelPicks DEF Next, Serve
<1>3. QED
  BY <1>1, <1>2, CallInvariant, PTL DEF Spec

\* Whatever is read, listed and edited in between, saved_query() picks what saved_queries()
\* listed, and finds nothing only where nothing was listed (_pick_saved_query).
THEOREM SessionPickedAsListed == Spec => []PickedAsListed
<1>1. QED
  BY PickInvariant, PickedFromInvariant, PTL

(***************************************************************************)
(* Types.                                                                  *)
(***************************************************************************)
BuiltOK == built.cred \in Credentials /\ built.reads \subseteq Fields

\* What is resolved are credentials, each from a source.
LEMMA ResolvesCredentials ==
    ASSUME NEW told \in Told, NEW config \in SecretConfigs, NEW nb \in Notebooks
    PROVE  ResolveCredentials(told, config, nb).cred \in Credentials
<1>1. \A f \in Fields : Supplied(told, nb)[f] \in {Missing, "explicit", "env"}
  BY DEF Supplied, Told, Notebooks
<1>2. QED
  BY <1>1 DEF ResolveCredentials, Credentials

\* BuiltOK holds in every state.
LEMMA BuiltInvariant == Spec => []BuiltOK
<1>1. Init => BuiltOK
  BY DEF Init, BuiltOK, NotBuilt, Credentials
<1>2. BuilderOK /\ BuiltOK /\ [Next]_vars => BuiltOK'
  <2>1. SUFFICES ASSUME BuilderOK, BuiltOK, [Next]_vars PROVE BuiltOK'
    OBVIOUS
  <2>2. builder.told \in Told /\ builder.config \in SecretConfigs /\ machine \in Notebooks
    BY <2>1, SessionAssumption DEF BuilderOK
  <2>3. Resolution.cred \in Credentials /\ Resolution.reads \subseteq Fields
    BY <2>2, ResolvesCredentials, ReadsAreFields DEF Resolution, NotBuilt, Credentials
  <2>4. CASE GetOrCreate
    BY <2>3, <2>4 DEF GetOrCreate, BuiltOK
  <2>5. CASE GetOrCreateFails
    BY <2>3, <2>5 DEF GetOrCreateFails, BuiltOK, NotBuilt, Credentials
  <2>6. CASE Begin
    BY <2>6 DEF Begin, BuiltOK, NotBuilt, Credentials
  <2>7. CASE UNCHANGED built
    BY <2>1, <2>7 DEF BuiltOK
  <2>8. QED
    BY <2>1, <2>4, <2>5, <2>6, <2>7, OthersLeaveBuilt
<1>3. QED
  BY <1>1, <1>2, BuilderInvariant, PTL DEF Spec

\* The builder refuses contradictory settings, a build has credentials of known origin, the
\* catalog remembers only models that exist, and every frame has one.
THEOREM SessionTypeOK == Spec => []TypeOK
<1>1. BuilderOK /\ BuiltOK /\ CInv => TypeOK
  BY DEF BuilderOK, BuiltOK, CInv, CallOK, FrameOK, TypeOK
<1>2. QED
  BY <1>1, BuilderInvariant, BuiltInvariant, CallInvariant, PTL

=============================================================================

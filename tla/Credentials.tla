----------------------------- MODULE Credentials -----------------------------
(***************************************************************************)
(* Where a session's host and key come from (_credentials.py): what the    *)
(* builder was told, then the environment, then one notebook's secret      *)
(* store.  A credential is known here by the place it came from.           *)
(***************************************************************************)
EXTENDS FiniteSets

Fields == {"url", "key"}
Missing == "missing"                    \* None, and the empty string
Credentials == [Fields -> {Missing, "explicit", "env", "secret"}]

\* The legacy Snowflake provider is looked up exactly as the current one is
Imported == {"colab", "snowflake"}
Providers == Imported \cup {"databricks"}

\* secrets(): a provider, "auto" or none at all, and Databricks' scope
SecretConfigs == [provider : Providers \cup {"auto", "off"}, scope : BOOLEAN]
ValidConfig(config) == config.scope => config.provider \in {"auto", "databricks"}

(***************************************************************************)
(* Where get_or_create runs: its environment variables, whether it is a    *)
(* Colab runtime, whether the notebook has a dbutils, the provider         *)
(* packages that import, and what a read of each secret ends in.           *)
(***************************************************************************)
Notebooks ==
    [env : [Fields -> {Missing, "env"}], colab : BOOLEAN, dbutils : BOOLEAN,
     imports : SUBSET Imported, secret : [Fields -> {"kept", "fails", "blank"}]]

Detected(nb) ==
    CASE nb.colab /\ nb.dbutils -> "refused"
      [] nb.colab /\ ~nb.dbutils -> "colab"
      [] ~nb.colab /\ nb.dbutils -> "databricks"
      [] ~nb.colab /\ ~nb.dbutils -> "none"

Named(config, nb) ==
    CASE config.provider = "off" -> "none"
      [] config.provider = "auto" -> Detected(nb)
      [] OTHER -> config.provider

Reachable(provider, config, nb) ==
    CASE provider = "databricks" -> config.scope /\ nb.dbutils
      [] provider \in Imported -> ~config.scope /\ provider \in nb.imports
      [] OTHER -> TRUE

\* _select_reader: a provider, "none", or "refused" (an error)
SelectReader(config, nb) ==
    LET provider == Named(config, nb)
    IN  IF Reachable(provider, config, nb) THEN provider ELSE "refused"

\* The host is read before the key, and a failed or a blank secret ends it
Read(nb, gaps) ==
    LET bad == {f \in gaps : nb.secret[f] # "kept"}
        reads == IF "url" \in bad THEN {"url"} ELSE gaps
    IN  [ok |-> bad = {}, reads |-> reads, got |-> reads \ bad]

Unread == [ok |-> TRUE, reads |-> {}, got |-> {}]
NoReader == [Unread EXCEPT !.ok = FALSE]

\* Mutant of Supplied: the environment is asked first.
MutEnvFirst(told, nb) ==
    [f \in Fields |-> IF nb.env[f] # Missing THEN nb.env[f] ELSE told[f]]

Supplied(told, nb) ==
    [f \in Fields |-> IF told[f] # Missing THEN told[f] ELSE nb.env[f]]

\* Mutant of Consulted: the provider is asked for both when one is missing.
MutReadsBoth(gaps, config, nb) ==
    IF gaps = {} THEN Unread ELSE Read(nb, Fields)

\* A provider is selected for what is missing, and only then
Consulted(gaps, config, nb) ==
    LET reader == SelectReader(config, nb)
    IN  CASE gaps = {} \/ reader = "none" -> Unread
          [] gaps # {} /\ reader = "refused" -> NoReader
          [] gaps # {} /\ reader \in Providers -> Read(nb, gaps)

ResolveCredentials(told, config, nb) ==
    LET supplied == Supplied(told, nb)
        consulted == Consulted({f \in Fields : supplied[f] = Missing}, config, nb)
    IN  [ok |-> consulted.ok, reads |-> consulted.reads,
         cred |-> [f \in Fields |-> IF f \in consulted.got THEN "secret" ELSE supplied[f]]]
=============================================================================

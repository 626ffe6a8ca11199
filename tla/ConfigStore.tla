------------------------------ MODULE ConfigStore ------------------------------
(***************************************************************************)
(* The configuration (core/src/config.rs): ~/.vpsagent/config.toml with    *)
(* the endpoints and the default model, and secrets.toml with their keys.  *)
(* Both are written in place (fs::write), so that a write that is cut      *)
(* short, by a full disk or the end of the process, leaves a file that     *)
(* does not parse.                                                         *)
(*                                                                         *)
(* An endpoint is its name, which is also its api_key_ref (nothing in the  *)
(* program makes another), and its models; the order of the models, the    *)
(* protocol, the URL, the paths and the permission mode are left out.      *)
(***************************************************************************)
EXTENDS Naturals, Sequences, FiniteSets, FiniteSetsExt

CONSTANTS
  MaxCuts,      \* bound: writes that fail
  NoFile,       \* the file does not exist
  Torn,         \* the file does not parse
  NoKey         \* the empty key

ASSUME CutsAssumption == MaxCuts \in Nat
ASSUME FileAssumption == NoFile # Torn

VARIABLES
  config,       \* config.toml
  secrets,      \* secrets.toml: a key for each reference
  cuts          \* writes that failed

diskVars == <<config, secrets, cuts>>

NoSecrets == [ref \in {} |-> NoKey]

\* impl Default for Config.
DefaultConfig ==
  [endpoints |-> <<[name |-> "openai", models |-> {"gpt-4o", "gpt-4o-mini"}]>>,
   default |-> "gpt-4o-mini"]

DiskInit == config = NoFile /\ secrets = NoFile /\ cuts = 0

\* Config::load of a file that parses.
Load(file) == IF file = NoFile THEN DefaultConfig ELSE file

\* Config::load().unwrap_or_default().
LoadOrDefault(file) == IF file = Torn THEN DefaultConfig ELSE Load(file)

\* The keys of a file that may be missing or torn.
Secrets(file) == IF file \in {NoFile, Torn} THEN NoSecrets ELSE file

\* The places of the endpoints that list a model.
Serving(c, m) == {i \in DOMAIN c.endpoints : m \in c.endpoints[i].models}

\* endpoint_for_model, for a model that some endpoint lists: the first of them.
EndpointForModel(c, m) == c.endpoints[Min(Serving(c, m))]

\* secret: whether the reference has a key, which may be empty.
HasSecret(file, ref) == ref \in DOMAIN Secrets(file)

\* Whether an agent can be spawned for the default model: an endpoint and a key.
Spawnable(c, file) ==
  /\ Serving(c, c.default) # {}
  /\ HasSecret(file, EndpointForModel(c, c.default).name)

\* needs_init: no endpoint has a key that is not empty.
NeedsInit(c, file) ==
  \A i \in DOMAIN c.endpoints :
    LET ref == c.endpoints[i].name
    IN HasSecret(file, ref) => file[ref] = NoKey

\* The endpoint put at the end, whatever is there.
AddAtEnd(c, e) == [c EXCEPT !.endpoints = Append(@, e)]

\* The endpoint alone, in the place of the first.
PutFirst(c, e) == [c EXCEPT !.endpoints[1] = e]

\* The endpoint in the place of the one with its name, or at the end.
Put(c, e) ==
  LET same == {i \in DOMAIN c.endpoints : c.endpoints[i].name = e.name}
  IN IF same = {} THEN [c EXCEPT !.endpoints = Append(@, e)]
     ELSE [c EXCEPT !.endpoints[Min(same)] = e]

\* remove_endpoint: the default model stays what it was.
Without(c, n) ==
  LET kept[i \in 0 .. Len(c.endpoints)] ==
        IF i = 0 THEN <<>>
        ELSE IF c.endpoints[i].name = n THEN kept[i - 1]
        ELSE Append(kept[i - 1], c.endpoints[i])
  IN  [c EXCEPT !.endpoints = kept[Len(c.endpoints)]]

\* A write that does not succeed leaves the file as it was or torn.
WriteFails(old, new) ==
  /\ cuts < MaxCuts
  /\ cuts' = cuts + 1
  /\ new \in {old, Torn}

\* The names of the endpoints.
Names(c) == {c.endpoints[i].name : i \in DOMAIN c.endpoints}
===============================================================================

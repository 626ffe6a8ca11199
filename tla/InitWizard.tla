------------------------------- MODULE InitWizard -------------------------------
(***************************************************************************)
(* The init wizard (tui/src/init.rs) over the configuration on disk: the   *)
(* choice of a provider, its fields, the default model, and the save of    *)
(* the endpoint and then of its key.  A key press is an action, the typing *)
(* of a text into a field one action too; the movement in the list of      *)
(* providers, with its search and its categories, is left out: it comes to *)
(* the choice of one of its rows, and any of them can be reached.          *)
(***************************************************************************)
EXTENDS ConfigStore

CONSTANTS
  Registry,     \* the providers: their ids and models
  TypedNames,   \* names a user types
  TypedKeys,    \* keys a user types
  TypedModels,  \* models a user types or an API lists
  NoText

\* The names and models that the program knows.
OwnTexts == {"openai", "gpt-4o", "gpt-4o-mini", "chatgpt-oauth", "gpt-5", "gpt-4.1"}

\* Whatever may come to be a name, a key or a model.
Texts ==
  OwnTexts \cup TypedNames \cup TypedKeys \cup TypedModels \cup {NoText, NoKey}
    \cup {p.id : p \in Registry} \cup UNION {p.models : p \in Registry}

\* What config.toml holds when it parses; secrets.toml holds a key for each of some texts.
Endpoint == [name : Texts, models : SUBSET Texts]
Config == [endpoints : Seq(Endpoint), default : Texts]

ASSUME ParsedAssumption ==
  /\ {NoFile, Torn} \cap Config = {}
  /\ \A refs \in SUBSET Texts : {NoFile, Torn} \cap [refs -> Texts] = {}

VARIABLES
  wizard        \* InitState: what the wizard holds

wizardVars == <<diskVars, wizard>>

\* The wizard before it starts and after it ends.
Off ==
  [step |-> "off", pick |-> "none", field |-> 0, input |-> NoText, name |-> NoText,
   key |-> NoKey, models |-> {}, default |-> NoText]

WizardInit == wizard = Off

At(step) == wizard.step = step
Entered == wizard.input # NoText

\* run_init: InitState::new.
StartWizard ==
  /\ At("off")
  /\ wizard' = [Off EXCEPT !.step = "provider"]
  /\ UNCHANGED diskVars

-------------------------------------------------------------------------------
(* Step 0: the list of providers. *)

\* Enter on a provider, OAuth or Custom; the list is not shown again.
Choose ==
  /\ At("provider")
  /\ \/ \E pick \in {"oauth", "custom"} :
          wizard' = [Off EXCEPT !.step = "fields", !.pick = pick]
     \/ \E p \in Registry :
          wizard' = [Off EXCEPT !.step = "fields", !.pick = "provider",
                                !.name = p.id, !.models = p.models]
  /\ UNCHANGED diskVars

-------------------------------------------------------------------------------
(* Steps 1 and 2: the fields and the model. *)

Field == IF wizard.pick = "custom" THEN wizard.field ELSE 2

\* A text typed into the empty field that is shown.
Type(text) ==
  /\ ~Entered
  /\ \/ At("fields") /\ Field = 0 /\ text \in TypedNames
     \/ At("fields") /\ Field = 1 /\ text \in TypedNames
     \/ At("fields") /\ Field = 2 /\ text \in TypedKeys
     \/ At("model") /\ text \in TypedModels
  /\ wizard' = [wizard EXCEPT !.input = text]
  /\ UNCHANGED diskVars

Erase ==
  /\ At("fields") \/ At("model")
  /\ Entered
  /\ wizard' = [wizard EXCEPT !.input = NoText]
  /\ UNCHANGED diskVars

EnteredKey == IF Entered THEN wizard.input ELSE NoKey

\* Custom: the name and then the URL, which may not be empty.
EnterName ==
  /\ At("fields") /\ Field \in {0, 1} /\ Entered
  /\ wizard' = [wizard EXCEPT !.input = NoText, !.field = @ + 1,
                              !.name = IF Field = 0 THEN wizard.input ELSE @]
  /\ UNCHANGED diskVars

\* Custom: the key, which may.
EnterCustomKey ==
  /\ At("fields") /\ wizard.pick = "custom" /\ Field = 2
  /\ wizard' = [wizard EXCEPT !.input = NoText, !.field = 3, !.key = EnteredKey]
  /\ UNCHANGED diskVars

\* Custom: the protocol.  An OpenAI-compatible API is asked for its models, and
\* may list some.
EnterProtocol ==
  /\ At("fields") /\ Field = 3
  /\ \E listed \in {{}, TypedModels} :
       wizard' = [wizard EXCEPT !.input = NoText, !.step = "model",
                                !.models = IF listed = {} THEN @ ELSE listed]
  /\ UNCHANGED diskVars

\* OAuth: the token is the key; the field is not emptied.
EnterToken ==
  /\ At("fields") /\ wizard.pick = "oauth"
  /\ wizard' = [wizard EXCEPT !.key = EnteredKey, !.name = "chatgpt-oauth",
                              !.models = {"gpt-5", "gpt-4.1"}, !.default = "gpt-5",
                              !.step = "model"]
  /\ UNCHANGED diskVars

\* The key of a provider of the registry; the default is the first of its models,
\* which come out of a hash map.
EnterKey ==
  /\ At("fields") /\ wizard.pick = "provider"
  /\ \E first \in wizard.models \cup (IF wizard.models = {} THEN {NoText} ELSE {}) :
       wizard' = [wizard EXCEPT !.key = EnteredKey, !.input = NoText,
                                !.default = first, !.step = "model"]
  /\ UNCHANGED diskVars

\* The model as it was typed, not entered into the models.
EnterModelOnly ==
  LET model == IF Entered THEN wizard.input ELSE wizard.default
  IN /\ At("model") /\ model # NoText
     /\ wizard' = [wizard EXCEPT !.default = model, !.step = "save"]
     /\ UNCHANGED diskVars

\* The model: what is typed, or else the default; it becomes one of the models.
EnterModel ==
  LET model == IF Entered THEN wizard.input ELSE wizard.default
  IN /\ At("model") /\ model # NoText
     /\ wizard' = [wizard EXCEPT !.default = model, !.models = @ \cup {model},
                                 !.step = "save"]
     /\ UNCHANGED diskVars

-------------------------------------------------------------------------------
(* The save, and the ways out. *)

\* build_endpoint and the default model, put into the file as it is now.
NewConfig ==
  [Put(LoadOrDefault(config), [name |-> wizard.name, models |-> wizard.models])
     EXCEPT !.default = wizard.default]

SaveConfig ==
  /\ At("save")
  /\ config' = NewConfig
  /\ wizard' = [wizard EXCEPT !.step = "secrets"]
  /\ UNCHANGED <<secrets, cuts>>

\* A key put to the keys that are there.
Keyed(keys, ref, key) ==
  [r \in DOMAIN keys \cup {ref} |-> IF r = ref THEN key ELSE keys[r]]

\* The key alone, without those that are there.
NewSecretsOnly == Keyed(NoSecrets, wizard.name, wizard.key)

\* The key under the name of the model.
NewSecretsByModel == Keyed(Secrets(secrets), wizard.default, wizard.key)

\* The keys that are there, if the file can be read, with the new one.
NewSecrets == Keyed(Secrets(secrets), wizard.name, wizard.key)

SaveSecrets ==
  /\ At("secrets")
  /\ secrets' = NewSecrets
  /\ wizard' = Off
  /\ UNCHANGED <<config, cuts>>

\* A write that fails goes back to the model, from where Enter tries again.
SaveFails ==
  /\ \/ At("save") /\ WriteFails(config, config') /\ UNCHANGED secrets
     \/ At("secrets") /\ WriteFails(secrets, secrets') /\ UNCHANGED config
  /\ wizard' = [wizard EXCEPT !.step = "model"]

Press ==
  \/ Choose \/ Erase \/ EnterName \/ EnterCustomKey \/ EnterProtocol \/ EnterToken \/ EnterKey
  \/ EnterModel \/ SaveConfig \/ SaveFails
  \/ \E text \in TypedNames \cup TypedKeys \cup TypedModels : Type(text)

-------------------------------------------------------------------------------
(* Properties. *)

\* The other endpoints, as they are and where they are, and the other keys survive a
\* run of the wizard, whatever it is called and retries, as long as no write has been
\* cut short.
OthersAreKept ==
  [][/\ (secrets # Torn /\ secrets' # Torn) =>
          \A ref \in DOMAIN Secrets(secrets) :
            ref # wizard.name => ref \in DOMAIN secrets' /\ secrets'[ref] = secrets[ref]
     /\ (At("save") /\ config # Torn /\ config' # Torn) =>
          LET old == Load(config).endpoints
              new == Load(config').endpoints
          IN \A i \in DOMAIN old :
               old[i].name # wizard.name => i \in DOMAIN new /\ new[i] = old[i]]_wizardVars
=================================================================================

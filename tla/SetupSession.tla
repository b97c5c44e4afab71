---------------------------- MODULE SetupSession ----------------------------
(***************************************************************************)
(* Which model the shell plans with: the user's environment and            *)
(* config.toml, merged at the start (sysknife-core config.rs, the shell's  *)
(* main.rs), read by BrainConfig::from_env (sysknife-brain config.rs),     *)
(* shown on the page, and the SetupWizard that tells the user what to put  *)
(* there.                                                                  *)
(*                                                                         *)
(* Left out: the API key typed into the wizard, which is only shown again; *)
(* base URLs other than Ollama's; sections of config.toml other than       *)
(* [llm].  A key that is not set is Unset.                                 *)
(***************************************************************************)
EXTENDS Integers

CONSTANTS
    Environments,   \* The environments the shell is started in.
    OtherFiles,     \* What config.toml may hold that is not from the wizard.
    Clicked,        \* The models and cloud providers the user tries.
    Vrams,          \* What detect_gpu may find, in MB; 0 for nothing.
    MaxEntries,     \* Bound on visits of the page that selects a model.
    Lowercase(_)    \* str::to_lowercase.

VARIABLES
    environment,    \* The user's environment: the keys of Key, keys, blank, host.
    configToml,     \* [parses, llm]: config.toml; one that is missing sets nothing.
    wrote,          \* The choice the user's last file was written for, or NoChoice,
    place,          \* and where: config_path or CONFIG_PATH.
    running,        \* Is the shell running?
    start,          \* What it started from: [env, llm, wrote, place].
    brain,          \* The configuration the page shows.
    planner,        \* The configuration the planner was built with.
    needsSetup,     \* What the page knows about it.
    checked,        \* The [llm] that check_setup_status read.
    wizard,         \* The wizard's step, or "none".
    picks,          \* [category, cloudProvider, selectedModel, thinkOverride]
                    \* and agreed: what was on the page at Continue.
    entries,        \* How often the model page was entered.
    detecting,          \* The entries whose detection is under way.
    hardware        \* [entry, vramMb]: what was detected; hwLoading is entry # entries.

setupVars == <<environment, configToml, wrote, place, running, start, brain, planner,
               needsSetup, checked, wizard, picks, entries, detecting, hardware>>

wizardVars == <<wizard, picks, entries, detecting, hardware>>
hostVars == <<environment, configToml, wrote, place>>
setupKnown == <<needsSetup, checked>>
processVars == <<running, start, brain, planner>>

Unset == "unset"
Key == {"provider", "model", "ollama_think", "ollama_url", "max_turns"}
Nothing == [k \in Key |-> Unset]

\* The file that is read (sysknife-core config.rs), and the one the page names
\* (SetupWizard.tsx).
config_path == "~/.config/sysknife/config.toml"
CONFIG_PATH == "~/.config/lacs/config.toml"

NoChoice == [provider |-> Unset, model |-> Unset, ollama_think |-> Unset]

DEFAULT_MODEL ==
    [anthropic |-> "claude-sonnet-4-6", ollama |-> "qwen3:8b", openai |-> "gpt-4.1",
     gemini |-> "gemini-2.0-flash", groq |-> "llama-3.3-70b-versatile",
     deepseek |-> "deepseek-chat", mistral |-> "mistral-large-latest", xai |-> "grok-3"]

\* The wizard names its own, for the cloud providers.
DEFAULT_CLOUD_MODELS ==
    [p \in DOMAIN DEFAULT_MODEL \ {"ollama"} |->
        IF p = "anthropic" THEN "claude-sonnet-4-20250514" ELSE DEFAULT_MODEL[p]]

OLLAMA_MODELS ==
    [m \in {"qwen3:8b", "gemma4:4b-it-qat", "gemma4:2b", "qwen3:30b-a3b", "gemma4:27b",
            "mistral-small3.2:24b"} |->
        [vramMb |-> IF m \in {"qwen3:8b", "gemma4:4b-it-qat"} THEN 5000
                    ELSE IF m = "gemma4:2b" THEN 2000 ELSE IF m = "qwen3:30b-a3b" THEN 17000
                    ELSE IF m = "gemma4:27b" THEN 18000 ELSE 15000,
         supportsThinking |-> m \in {"qwen3:8b", "qwen3:30b-a3b"}]]

\* The models named here that start with one of THINKING_MODEL_PREFIXES.
ThinkingModels == {"qwen3:8b", "qwen3:30b-a3b", "qwq:32b", "deepseek-r1:7b"}

\* The names that the program knows are lower case.
ASSUME SetupAssumption ==
    /\ \A env \in Environments : DOMAIN env = Key \union {"keys", "blank", "host"}
    /\ \A name \in DOMAIN DEFAULT_MODEL \union DOMAIN OLLAMA_MODELS
                      \union {"true", "false", "", Unset} : Lowercase(name) = name

-----------------------------------------------------------------------------
(* The configuration.                                                      *)

\* LacsConfig::load: a file that cannot be parsed counts as none.
Load == IF configToml.parses THEN configToml.llm ELSE Nothing

\* set_if_absent: a variable that is set stays, if to the empty string.
ApplyDefaults(env, llm) ==
    [k \in DOMAIN env |-> IF k \in Key THEN IF env[k] = Unset THEN llm[k] ELSE env[k] ELSE env[k]]

ProviderName(env) ==
    IF env.provider # Unset THEN Lowercase(env.provider)
    ELSE IF "anthropic" \in env.keys THEN "anthropic" ELSE "ollama"

\* InvalidMaxTurns, UnknownProvider, MissingApiKey.
ConfigError(env) ==
    \/ env.max_turns = "0"
    \/ ProviderName(env) \notin DOMAIN DEFAULT_MODEL
    \/ ProviderName(env) \notin env.keys \union {"ollama"}

OrDefault(value, default) == IF value = Unset THEN default ELSE value

FromEnv(env) ==
    LET name == ProviderName(env) IN
    [provider |-> name, model |-> OrDefault(env.model, DEFAULT_MODEL[name]),
     ollama_url |-> OrDefault(env.ollama_url, "localhost")]

ollama_defaults == [provider |-> "ollama", model |-> DEFAULT_MODEL.ollama, ollama_url |-> "localhost"]

\* A value that is neither true nor false counts as none.
resolve_ollama_think(env, model) ==
    LET said == Lowercase(env.ollama_think)
    IN  IF said \in {"true", "false"} THEN said = "true" ELSE Lowercase(model) \in ThinkingModels

\* LlmPlanner::from_config.
from_config(env, config) ==
    [config |-> config, think |-> config.provider = "ollama" /\ resolve_ollama_think(env, config.model)]

\* main and ShellCommandState::new.  The client of a cloud provider may not build;
\* then the planner has the defaults, too.
StartShell ==
    /\ ~ running
    /\ running' = TRUE
    /\ LET env == ApplyDefaults(environment, Load)
           fallback == ConfigError(env)
           config == IF fallback THEN ollama_defaults ELSE FromEnv(env)
       IN /\ start' = [env |-> env, llm |-> Load, wrote |-> wrote, place |-> place]
          /\ brain' = [config |-> config, fallback |-> fallback]
          /\ \/ planner' = from_config(env, config)
             \/ /\ config.provider \notin {"ollama", "openai"}
                /\ planner' = from_config(env, ollama_defaults)
    /\ needsSetup' = "unknown" /\ checked' = Nothing
    /\ UNCHANGED <<hostVars, wizardVars>>

\* provider_is_configured: what it says about keys and providers, it says of those
\* that are not empty.
ProviderIsConfigured ==
    \/ "anthropic" \in start.env.keys \union start.env.blank
    \/ start.env.provider \notin {Unset, ""}
    \/ Load.provider \notin {Unset, ""}

Unpicked == [category |-> Unset, cloudProvider |-> Unset, selectedModel |-> "qwen3:8b",
             thinkOverride |-> Unset, agreed |-> NoChoice]
Undetected == [entry |-> 0, vramMb |-> 0]
NewWizard == picks' = Unpicked /\ entries' = 0 /\ detecting' = {} /\ hardware' = Undetected

\* The page asks when it is mounted; until then it is shown without the wizard.
SetupChecked ==
    /\ running /\ needsSetup = "unknown"
    /\ needsSetup' = IF ProviderIsConfigured THEN "no" ELSE "yes"
    /\ checked' = Load
    /\ wizard' = IF ProviderIsConfigured THEN "none" ELSE "select"
    /\ NewWizard
    /\ UNCHANGED <<hostVars, processVars>>

-----------------------------------------------------------------------------
(* The wizard.                                                             *)

Go(step) ==
    /\ wizard' = step
    /\ UNCHANGED <<hostVars, processVars, setupKnown, entries, detecting, hardware>>
Pick(p) == picks' = p

\* The effect of the model page starts a detection and cancels earlier ones.
SelectLocal ==
    /\ wizard = "select" /\ picks.category = Unset /\ entries < MaxEntries
    /\ Pick([picks EXCEPT !.category = "local"])
    /\ wizard' = "ollama-model"
    /\ entries' = entries + 1 /\ detecting' = detecting \union {entries + 1}
    /\ UNCHANGED <<hostVars, processVars, setupKnown, hardware>>

SelectCloud ==
    /\ wizard = "select" /\ picks.category = Unset
    /\ Pick([picks EXCEPT !.category = "cloud"]) /\ Go("select")

SelectCloudProvider(p) ==
    /\ wizard = "select" /\ picks.category = "cloud"
    /\ Pick([picks EXCEPT !.cloudProvider = p]) /\ Go("cloud-key")

Back ==
    \/ wizard = "select" /\ picks.category = "cloud"
         /\ Pick([picks EXCEPT !.category = Unset]) /\ Go("select")
    \/ wizard = "ollama-model" /\ Pick([picks EXCEPT !.category = Unset]) /\ Go("select")
    \/ wizard = "cloud-key" /\ Pick([picks EXCEPT !.cloudProvider = Unset]) /\ Go("select")

SelectModel(m) ==
    wizard = "ollama-model" /\ Pick([picks EXCEPT !.selectedModel = m]) /\ Go(wizard)

\* The choices of the thinking mode are there for the models that have it.
ThinkingShown == wizard = "ollama-model" /\ OLLAMA_MODELS[picks.selectedModel].supportsThinking

ChooseThink(t) == ThinkingShown /\ Pick([picks EXCEPT !.thinkOverride = t]) /\ Go(wizard)

\* What the user agrees to: what is selected on the page.
OnPage ==
    IF wizard = "ollama-model"
    THEN [provider |-> "ollama", model |-> picks.selectedModel,
          ollama_think |-> IF ThinkingShown THEN picks.thinkOverride ELSE Unset]
    ELSE [NoChoice EXCEPT !.provider = picks.cloudProvider]

Continue ==
    \/ /\ wizard \in {"ollama-model", "cloud-key"}
       /\ Pick([picks EXCEPT !.agreed = OnPage]) /\ Go("configure")
    \/ wizard = "configure" /\ Pick(picks) /\ Go("done")

\* Skip setup, on any page, or Done.
Dismiss ==
    /\ wizard # "none"
    /\ wizard' = "none" /\ needsSetup' = "skipped"
    /\ UNCHANGED <<checked, hostVars, processVars, picks, entries, detecting, hardware>>

\* Mutant of DetectionEnds: `cancelled` is not looked at.
AnyDetectionEnds(n, vramMb) ==
    /\ n \in detecting /\ detecting' = detecting \ {n}
    /\ hardware' = IF wizard = "ollama-model" THEN [entry |-> n, vramMb |-> vramMb] ELSE hardware
    /\ UNCHANGED <<hostVars, processVars, setupKnown, wizard, picks, entries>>

\* detect_hardware and check_ollama_status have answered for the n-th visit.
DetectionEnds(n, vramMb) ==
    /\ n \in detecting /\ detecting' = detecting \ {n}
    /\ hardware' = IF wizard = "ollama-model" /\ n = entries
                   THEN [entry |-> n, vramMb |-> vramMb] ELSE hardware
    /\ UNCHANGED <<hostVars, processVars, setupKnown, wizard, picks, entries>>

\* fitsVram: unless something is known everything fits.
FitsVram(m) == hardware.vramMb = 0 \/ OLLAMA_MODELS[m].vramMb <= hardware.vramMb

HeavyModels == {m \in DOMAIN OLLAMA_MODELS : ~ FitsVram(m)}

\* query_ollama_tags: the server it asks.
OllamaAsked == OrDefault(start.env.ollama_url, OrDefault(start.env.host, "localhost"))

\* Mutant of ConfigContent: an override that is not shown any more is written.
ConfigContentKept ==
    IF picks.category = "local"
    THEN [provider |-> "ollama", model |-> picks.selectedModel, ollama_think |-> picks.thinkOverride]
    ELSE [provider |-> picks.cloudProvider, model |-> DEFAULT_CLOUD_MODELS[picks.cloudProvider],
          ollama_think |-> Unset]

\* configContent: ollamaConfig, cloudConfig.
ConfigContent ==
    IF picks.category = "local"
    THEN [provider |-> "ollama", model |-> picks.selectedModel,
          ollama_think |-> IF OLLAMA_MODELS[picks.selectedModel].supportsThinking
                           THEN picks.thinkOverride ELSE Unset]
    ELSE [provider |-> picks.cloudProvider, model |-> DEFAULT_CLOUD_MODELS[picks.cloudProvider],
          ollama_think |-> Unset]

-----------------------------------------------------------------------------
(* The user.                                                               *)

\* The user makes the file the wizard describes: at CONFIG_PATH, which the page names
\* and nothing reads, or where docs/configuration.md:15 has config.toml.
CreateFile(path) ==
    /\ wizard \in {"configure", "done"}
    /\ wrote' = picks.agreed /\ place' = path
    /\ configToml' = IF path # config_path THEN configToml
                     ELSE [parses |-> TRUE, llm |-> [k \in Key |->
                              IF k \in DOMAIN ConfigContent THEN ConfigContent[k] ELSE Unset]]
    /\ UNCHANGED <<environment, processVars, setupKnown, wizardVars>>

EditFile ==
    /\ configToml' \in OtherFiles /\ wrote' = NoChoice /\ place' = config_path
    /\ UNCHANGED <<environment, processVars, setupKnown, wizardVars>>

ChangeEnvironment ==
    /\ ~ running /\ environment' \in Environments
    /\ UNCHANGED <<configToml, wrote, place, processVars, setupKnown, wizardVars>>

QuitShell ==
    /\ running /\ running' = FALSE
    /\ needsSetup' = "unknown" /\ checked' = Nothing
    /\ wizard' = "none" /\ NewWizard
    /\ UNCHANGED <<hostVars, start, brain, planner>>

-----------------------------------------------------------------------------

SetupBegin ==
    /\ wrote = NoChoice /\ place = config_path /\ running = FALSE
    /\ start = [env |-> environment, llm |-> Nothing, wrote |-> NoChoice, place |-> place]
    /\ brain = [config |-> ollama_defaults, fallback |-> FALSE]
    /\ planner = from_config(environment, ollama_defaults)
    /\ needsSetup = "unknown" /\ checked = Nothing /\ wizard = "none"
    /\ picks = Unpicked /\ entries = 0 /\ detecting = {} /\ hardware = Undetected

SetupInit == environment \in Environments /\ configToml \in OtherFiles /\ SetupBegin

SetupNext ==
    \/ StartShell \/ SetupChecked \/ QuitShell
    \/ SelectLocal \/ SelectCloud \/ Back \/ Continue \/ Dismiss
    \/ \E p \in Clicked \intersect DOMAIN DEFAULT_CLOUD_MODELS : SelectCloudProvider(p)
    \/ \E m \in Clicked \intersect DOMAIN OLLAMA_MODELS : SelectModel(m)
    \/ \E t \in {Unset, "true", "false"} : ChooseThink(t)
    \/ \E n \in detecting, v \in Vrams : DetectionEnds(n, v)
    \/ \E path \in {config_path, CONFIG_PATH} : CreateFile(path)
    \/ EditFile \/ ChangeEnvironment

SetupSpec == SetupInit /\ [][SetupNext]_setupVars

-----------------------------------------------------------------------------
\* The wizard's choice is what the shell plans with: provider, model and thinking mode,
\* and the page says so; unless the choice needs an API key that is not there, or the
\* provider's client cannot be built.
InForce(choice) ==
    /\ ~ brain.fallback <=> choice.provider \in environment.keys \union {"ollama"}
    /\ ~ brain.fallback =>
          brain.config.provider = choice.provider /\ choice.model \in {Unset, brain.config.model}
    /\ planner.config = brain.config /\ brain.config.provider = "ollama" /\ ~ brain.fallback =>
          planner.think = IF choice.ollama_think = Unset
                          THEN OLLAMA_MODELS[choice.model].supportsThinking
                          ELSE choice.ollama_think = "true"

\* What the user wrote, after the wizard's choice, into the file that is read is in force
\* after the restart, from file to environment to planner, unless the environment says
\* otherwise, which wins key by key (commands.rs:180-204).  Who writes the file where
\* the page says is told wrongly: PageNamesTheFile.
ConfigurationApplies ==
    running =>
        /\ ~ brain.fallback =>
              /\ environment.provider # Unset =>
                    brain.config.provider = Lowercase(environment.provider)
              /\ environment.model # Unset => brain.config.model = environment.model
        /\ (/\ start.wrote # NoChoice /\ start.place = config_path
            /\ \A k \in Key : environment[k] = Unset)
              => InForce(start.wrote)

\* SetupWizard.tsx:546-549: "Restart the shell to apply the new configuration. SysKnife
\* will read ~/.config/lacs/config.toml on startup and use" the provider: of a user who
\* made that file, on a host where neither the environment nor another file says a word.
PageNamesTheFile ==
    (/\ running /\ start.wrote # NoChoice /\ start.place = CONFIG_PATH
     /\ start.llm = Nothing /\ \A k \in Key : environment[k] = Unset)
        => InForce(start.wrote)

\* What the page says about the setup is true.  With neither a warning nor the
\* wizard somebody did name the provider that is shown (or wrote the file in between, or
\* set a blank Anthropic key); the wizard is there only while the planner has Ollama;
\* what it calls too heavy was detected on this visit of the page, once that is over;
\* and it asked the planner's Ollama server, unless OLLAMA_HOST names another or the
\* configuration had errors (commands.rs:606-695, SetupWizard.tsx:154-169).
WizardTellsTruth ==
    running =>
        /\ needsSetup = "no" /\ ~ brain.fallback =>
              \/ start.env.provider # Unset \/ "anthropic" \in start.env.keys \union start.env.blank
              \/ start.llm # checked
        /\ needsSetup = "yes" => planner.config.provider = "ollama"
        /\ wizard = "ollama-model" =>
              /\ HeavyModels # {} /\ entries \notin detecting => hardware.entry = entries
              /\ ~ brain.fallback /\ start.env.host = Unset => OllamaAsked = planner.config.ollama_url
=============================================================================

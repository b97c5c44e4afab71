--------------------------- MODULE MCShellSession ---------------------------
(***************************************************************************)
(* Four scenarios in one run, for their product is too large: the page     *)
(* with the answers of its planners; calls of two processes that share the *)
(* limiter's window while the clock runs; two conversations that use every *)
(* tool and share the preferences; starts of the shell, with the wizard.   *)
(***************************************************************************)
EXTENDS ShellSession, SetupSession, TLC

CONSTANTS
    Talk,    \* The calls of the third scenario.
    p1, p2, p3, p4

Order == <<p1, p2, p3, p4>>   \* Calls of one process differ in nothing: they start in order.

VARIABLE scene

MCCaller == [c \in Call |-> IF c \in Talk \union Request THEN "shell" ELSE "cli"]

\* SYSKNIFE_MAX_RPM is set for the CLI only.
MCLimits == ("shell" :> 2) @@ ("cli" :> 1)

MCBatches == {<<"propose_plan">>, <<"remember", "invalid_plan">>,
              <<"forget", "get_system_state">>, <<"query">>,
              <<"query_current_user", "unknown", "remember">>}

Idle(calls) == \A c \in calls : phase[c] = "none"

Env0 == Nothing @@ [keys |-> {}, blank |-> {}, host |-> Unset]

MCEnvironments ==
    {Env0, [Env0 EXCEPT !.keys = {"anthropic"}], [Env0 EXCEPT !.blank = {"anthropic"}],
     [Env0 EXCEPT !.provider = "OpenAI", !.keys = {"openai"}],
     [Env0 EXCEPT !.model = "qwq:32b", !.ollama_think = "false"],
     [Env0 EXCEPT !.host = "elsewhere", !.keys = {"openai"}, !.ollama_think = "maybe"]}

MCLowercase(name) == IF name = "OpenAI" THEN "openai" ELSE name

MCOtherFiles ==
    [parses : BOOLEAN, llm : {Nothing}] \union
    [parses : {TRUE}, llm : {[Nothing EXCEPT !.provider = "openai", !.model = "gpt-5"],
                             [Nothing EXCEPT !.ollama_url = "server", !.max_turns = "0"],
                             [Nothing EXCEPT !.ollama_url = "server", !.ollama_think = "true"]}]

\* What a scenario leaves out.
InScene ==
    CASE scene = "page" ->
            /\ Idle(Call \ Request) /\ now = 0 /\ ~degraded /\ prefs = {}
            /\ \A c \in Request : Len(asked[c]) <= 1
      [] scene = "window" ->
            /\ Idle(Request) /\ ~degraded
            /\ \A c \in Call : kind[c] = "plan" /\ turn[c] = 0
                                  /\ answer[c] \in {"none", "RateLimitExceeded"}
            /\ Cardinality({c \in Call : phase[c] = "limit" /\ verdict[c] # "counted"}) <= 1
            /\ \A i, j \in 1 .. Len(Order) :
                  i < j /\ MCCaller[Order[i]] = MCCaller[Order[j]] /\ ~Idle({Order[j]})
                     => ~Idle({Order[i]})
      [] scene = "talk" ->
            /\ Idle(Call \ Talk) /\ now = 0
            /\ (\E c \in Talk : turn[c] > 0) => \A c \in Talk : phase[c] \notin {"none", "limit"}

\* Nobody edits the file while a shell runs that has looked at it.
EditedBetween ==
    configToml' # configToml => ~running \/ needsSetup = "unknown" \/ wrote' # NoChoice

\* Who makes the file where the page says has no other.
OneFile == place' = CONFIG_PATH => configToml'.llm = Nothing

MCInit ==
    \/ ShellInit /\ scene \in {"page", "window", "talk"}
       /\ environment = Env0 /\ configToml = [parses |-> TRUE, llm |-> Nothing] /\ SetupBegin
    \/ ShellInit /\ scene = "setup" /\ SetupInit

MCNext ==
    /\ UNCHANGED scene
    /\ \/ scene # "setup" /\ ShellNext /\ InScene' /\ UNCHANGED setupVars
       \/ scene = "setup" /\ SetupNext /\ EditedBetween /\ OneFile /\ UNCHANGED shellVars

MCSpec == MCInit /\ [][MCNext]_<<shellVars, setupVars, scene>> /\ ShellFairness
=============================================================================

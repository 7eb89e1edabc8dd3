------------------------------ MODULE Settings ------------------------------
(***************************************************************************)
(* How settings come about: the files of src/runtime/config.py, and what   *)
(* the command line (cli.py) and the MCP server (mcp_server.py) each make  *)
(* of them.  A dictionary is a function: a key that is not given is not in *)
(* its domain.  Operators only; FrontEnd has the state.                    *)
(***************************************************************************)
EXTENDS Integers, SequencesExt

CONSTANTS
    Keys,       \* the settings of a policy that are numbers
    Defaults    \* their values in ReviewPolicy

ASSUME DefaultsAssumption == Defaults \in [Keys -> Nat]

Text == -99         \* stands for a value that is not a number
Nothing == <<>>     \* no dictionary, or an empty one

\* dict(base, **over), and base.update(over).
Override(base, over) ==
    [k \in DOMAIN base \cup DOMAIN over |-> IF k \in DOMAIN over THEN over[k] ELSE base[k]]

Get(dict, k, otherwise) == IF k \in DOMAIN dict THEN dict[k] ELSE otherwise

-----------------------------------------------------------------------------
(* The files *)

\* Dictionaries inside a dictionary are merged, not replaced.
Nested(base, over) ==
    [k \in DOMAIN base \cup DOMAIN over |-> Override(Get(base, k, Nothing), Get(over, k, Nothing))]

EmptyConfig == [numbers |-> Nothing, timeouts |-> Nothing, grants |-> Nothing,
                choices |-> Nothing, agents |-> Nothing]

DeepMerge(base, over) ==
    [numbers |-> Override(base.numbers, over.numbers),      \* the Keys of policy
     timeouts |-> Override(base.timeouts, over.timeouts),   \* policy.provider_timeouts
     grants |-> Nested(base.grants, over.grants),           \* policy.provider_permissions
     choices |-> Override(base.choices, over.choices),      \* execution_mode, divide, chain, ...
     agents |-> Override(base.agents, over.agents)]         \* the list of agents, under "list"

\* A file that is missing, or cannot be parsed, adds nothing.
AddFile(config, file) == IF file.status = "read" THEN DeepMerge(config, file.data) ELSE config

\* What has a name, a known transport and something to run; the first one of a name.
NormalizeAgents(list) ==
    FoldLeft(LAMBDA kept, a : IF a.whole /\ \A i \in DOMAIN kept : kept[i].name # a.name
                              THEN Append(kept, a) ELSE kept, <<>>, list)

\* The first of the three files with a list of agents, empty or not, is the only one that counts.
Registered(files) ==
    LET listing == {i \in DOMAIN files : files[i].status = "listed"}
    IN  IF listing = {} THEN <<>>
        ELSE NormalizeAgents(files[CHOOSE i \in listing : \A j \in listing : i <= j].list)

\* Agents that a JSON file lists, as they are, stand only while none of the three files is there.
\* (The second of them is the YAML file that was merged just before; what it says of agents is
\* replaced here, so the two may be chosen apart.)
AddAgents(config, files) ==
    IF \E i \in DOMAIN files : files[i].status # "absent"
    THEN [config EXCEPT !.agents = [list |-> Registered(files)]]
    ELSE config

\* Configured agents, what `mco agent list` shows after the built-in ones.
AgentsOf(config) ==
    IF "list" \in DOMAIN config.agents THEN config.agents["list"] ELSE <<>>

-----------------------------------------------------------------------------
(* Deadlines *)

\* The timeout of an agent counts where the policy names none for it.
WithAgents(timeouts, agents) ==
    LET timed(n) == {i \in DOMAIN agents : agents[i].name = n /\ agents[i].timeout > 0}
        Names == {agents[i].name : i \in DOMAIN agents}
        First(n) == CHOOSE i \in timed(n) : \A j \in timed(n) : i <= j
    IN  Override([n \in {m \in Names : timed(m) # {}} |-> agents[First(n)].timeout], timeouts)

\* _resolve_config: entries of a file are taken as they are, those of an option go on top.
CliTimeouts(config, option) == Override(WithAgents(config.timeouts, AgentsOf(config)), option)

CliNumbers(config, options) ==
    [k \in Keys |-> Get(options, k, Get(config.numbers, k, Defaults[k]))]

CliAccepts(config, options, timeouts) ==
    /\ \A k \in Keys : CliNumbers(config, options)[k] >= 0
    /\ \A p \in DOMAIN timeouts : timeouts[p] > 0

\* Mutant of McpTimeouts: agents are forgotten.
McpTimeoutsOfPolicy(config) ==
    [p \in {q \in DOMAIN config.timeouts : config.timeouts[q] > 0} |-> config.timeouts[p]]

\* _resolve_policy: an entry that is no positive number is left out.
McpTimeouts(config) ==
    WithAgents([p \in {q \in DOMAIN config.timeouts : config.timeouts[q] > 0} |-> config.timeouts[p]],
               AgentsOf(config))

\* A number that makes no sense is replaced by the default; a positive argument of the call wins.
McpNumbers(config, arguments) ==
    [k \in Keys |->
        LET configured == Get(config.numbers, k, Defaults[k])
            base == IF configured >= 0 THEN configured ELSE Defaults[k]
        IN  IF Get(arguments, k, 0) > 0 THEN arguments[k] ELSE base]

\* What a run is held to: the hard deadline of each provider (0: none) and the other numbers.
Deadlines(numbers, timeouts, providers) ==
    [hard |-> [p \in providers |-> Get(timeouts, p, numbers["timeout_seconds"])],
     rest |-> [k \in Keys \ {"timeout_seconds"} |-> numbers[k]]]

-----------------------------------------------------------------------------
(* Permissions *)

Modes == {"read_only", "write", "yolo"}

ByMode(readOnly, write, yolo) == [read_only |-> readOnly, write |-> write, yolo |-> yolo]
OneKey(key, r, w, y) == ByMode([k \in {key} |-> r], [k \in {key} |-> w], [k \in {key} |-> y])
Unsupported == [unsupported |-> TRUE]

Profiles ==
    [claude |-> OneKey("permission_mode", "plan", "acceptEdits", "bypassPermissions"),
     codex |-> ByMode([sandbox |-> "read-only", approval_policy |-> "never"],
                      [sandbox |-> "workspace-write", approval_policy |-> "never"],
                      [bypass |-> "true"]),
     gemini |-> OneKey("approval_mode", "plan", "auto_edit", "yolo"),
     opencode |-> ByMode([agent_mode |-> "plan", auto |-> "false"],
                         [agent_mode |-> "build", auto |-> "true"],
                         [agent_mode |-> "build", auto |-> "true"]),
     qwen |-> OneKey("approval_mode", "plan", "auto-edit", "yolo"),
     hermes |-> ByMode(Unsupported, Unsupported, [yolo |-> "true"]),
     pi |-> OneKey("tool_profile", "read_only", "write", "yolo"),
     copilot |-> OneKey("access", "read_only", "write", "yolo"),
     grok |-> OneKey("permission_mode", "plan", "acceptEdits", "bypassPermissions"),
     cursor |-> ByMode([mode |-> "ask", force |-> "false", sandbox |-> "enabled"],
                       [mode |-> "agent", force |-> "true", sandbox |-> "enabled"],
                       [mode |-> "agent", force |-> "true", sandbox |-> "disabled"])]

BuiltIn == DOMAIN Profiles

\* Mutant of ExecutionPermissions: write is given the profile of yolo.
YoloForWrite(p, mode) ==
    IF p \in BuiltIn THEN Get(Profiles[p], IF mode = "write" THEN "yolo" ELSE mode, Unsupported)
    ELSE Nothing

ExecutionPermissions(p, mode) ==
    IF p \in BuiltIn THEN Get(Profiles[p], mode, Unsupported) ELSE Nothing

\* What is granted by name goes over the profile of the mode.
Permissions(p, mode, grants) ==
    Override(ExecutionPermissions(p, mode), Get(grants, p, Nothing))

ShimKeys(p) ==
    CASE p = "claude" -> {"permission_mode"}
      [] p = "codex" -> {"sandbox", "approval_policy", "bypass"}
      [] p \in {"gemini", "qwen"} -> {"approval_mode"}
      [] p = "opencode" -> {"agent_mode", "auto"}
      [] p = "hermes" -> {"yolo"}
      [] p = "pi" -> {"tool_profile"}
      [] p = "copilot" -> {"access"}
      [] p = "grok" -> {"permission_mode", "approval_mode"}
      [] p = "cursor" -> {"mode", "force", "sandbox"}
      [] OTHER -> {}

\* adapter_registry: over ACP only two providers keep the keys of their shim adapter.
SupportedKeys(p, transport) ==
    IF transport = "shim" \/ p \in {"hermes", "opencode", "pi", "qwen"} THEN ShimKeys(p)
    ELSE {"terminal"} \cup IF p \in {"claude", "codex"} THEN ShimKeys(p) ELSE {}

\* provider_policy_preview, as far as permissions go.
Applied(perms, supported) == [k \in DOMAIN perms \cap supported |-> perms[k]]

\* Mutant of FailsStrict: keys the adapter does not know are dropped without a word.
FailsStrictNever(perms, supported, enforcement) == FALSE

FailsStrict(perms, supported, enforcement) ==
    enforcement = "strict" /\ ~(DOMAIN perms \subseteq supported)

-----------------------------------------------------------------------------
(* Risk *)

Levels(readOnly, write, bypass) ==
    [v \in readOnly \cup write \cup bypass |->
        IF v \in readOnly THEN "read_only" ELSE IF v \in write THEN "workspace_write"
        ELSE "approval_bypass"]

\* The risk of a provider that is started without any permission.
ProviderRisk(p, transport) ==
    IF transport = "acp" \/ p \notin BuiltIn THEN "unknown"
    ELSE CASE p \in {"codex", "grok"} -> "workspace_write"
           [] p = "hermes" -> "approval_bypass"
           [] OTHER -> "read_only"

\* The level of the value a key has, if it is there.
Rated(perms, key, levels, otherwise) ==
    IF key \in DOMAIN perms THEN Get(levels, perms[key], "unknown") ELSE otherwise

Says(perms, key, value) == key \in DOMAIN perms /\ perms[key] = value

CursorRisk(perms, default) ==
    IF Says(perms, "sandbox", "disabled") THEN "elevated"
    ELSE IF Says(perms, "force", "true") THEN "approval_bypass"
    ELSE IF "force" \in DOMAIN perms /\ perms["force"] \notin {"", "false"} THEN "unknown"
    ELSE Rated(perms, "mode", Levels({"ask", "plan"}, {"agent"}, {}), default)

EffectiveRisk(p, perms, transport) ==
    LET default == ProviderRisk(p, transport)
        modes == Levels({"plan"}, {"acceptEdits"}, {"bypassPermissions"})
        own == Levels({"read_only"}, {"write"}, {"yolo"})
    IN
    CASE p = "claude" -> Rated(perms, "permission_mode", modes, default)
      [] p = "codex" ->
            IF Says(perms, "bypass", "true") \/ Says(perms, "sandbox", "danger-full-access")
            THEN "elevated"
            ELSE Rated(perms, "sandbox", Levels({"read-only"}, {"workspace-write"}, {}), default)
      [] p \in {"gemini", "qwen"} ->
            Rated(perms, "approval_mode",
                  Levels({"plan"}, {"default", "auto_edit", "auto-edit", "auto"}, {"yolo"}), default)
      [] p = "opencode" ->
            IF "agent_mode" \in DOMAIN perms /\ Says(perms, "auto", "true") THEN "approval_bypass"
            ELSE Rated(perms, "agent_mode", Levels({"plan"}, {"build"}, {}), default)
      [] p = "pi" -> Rated(perms, "tool_profile", own, default)
      [] p = "copilot" -> Rated(perms, "access", own, default)
      [] p = "hermes" -> IF Says(perms, "yolo", "true") THEN "approval_bypass" ELSE default
      [] p = "grok" ->
            Rated(perms, "permission_mode", modes,
                  Rated(perms, "approval_mode", Levels({}, {"ask"}, {"always-approve"}), default))
      [] p = "cursor" -> CursorRisk(perms, default)
      [] OTHER -> default
=============================================================================

------------------------------ MODULE FrontEnd ------------------------------
(***************************************************************************)
(* A call of mco: `mco run` or `mco review` (main of src/runtime/cli.py),  *)
(* or a tool of the MCP server (mcp_server.py).  The files are read one    *)
(* after the other, the settings resolved, the request checked; then the   *)
(* run begins, and goes on as ProgressBridge says.                         *)
(***************************************************************************)
EXTENDS RunPlan, ProgressBridge

CONSTANTS
    ConfigFiles,    \* what a file of settings may be
    AgentFiles,     \* what a file that lists agents may be
    Options,        \* numbers and timeouts given with a call
    Requests,       \* the rest of a command line
    ToolCalls       \* the rest of a tool call

\* Providers and agents are lists, in the order they are given; a path is in the repository or
\* leaves it.
ASSUME CallAssumption ==
    /\ \A r \in Requests :
         /\ r.providers \in Seq(STRING)
         /\ r.agents \in Seq([alias : STRING, provider : STRING, model : STRING])
         /\ \A p \in r.targets : p.files \subseteq Files \cup {0}
    /\ \A r \in ToolCalls : r.providers \in Seq(STRING)

VARIABLES
    phase,      \* how far the call has come
    config,     \* file_config, until the settings are resolved
    option,     \* the numbers and timeouts that were given with it
    policy,     \* what they came to
    request,    \* the rest of the call
    plan,       \* the invocations and their prompts
    code        \* of the refusal

frontVars == <<phase, config, option, policy, request, plan, code>>
vars == <<frontVars, callVars>>

NoOption == [numbers |-> Nothing, timeouts |-> Nothing]
NoPolicy == [numbers |-> Nothing, timeouts |-> Nothing, grants |-> Nothing, choices |-> Nothing,
             known |-> {}, served |-> {}, accepted |-> TRUE]
NoRequest == [command |-> "none"]
NoPlan == [invocations |-> <<>>, prompts |-> <<>>]

Init ==
    /\ phase = "global" /\ config = EmptyConfig /\ option = NoOption /\ policy = NoPolicy
    /\ request = NoRequest /\ plan = NoPlan /\ code = "none"
    /\ caller \in {"mcp", "cli"} /\ count = 0 /\ thread = "none"
    /\ announced = 0 /\ running = {} /\ noted = {} /\ calling = [t \in {Main} |-> Idle]
    /\ done = 0 /\ disabled = FALSE /\ sinceEmit = Interval /\ loop = <<>>
    /\ server = "none" /\ host = "none" /\ token = FALSE
    /\ reported = 0 /\ waited = 0 /\ quiet = 0 /\ heading = 0

Next3(p) == CASE p = "global" -> "project" [] p = "project" -> "yaml" [] p = "yaml" -> "agents"

\* The global file, then those of the project, a later one over an earlier one.
LoadFile ==
    /\ phase \in {"global", "project", "yaml"}
    /\ \E file \in ConfigFiles : config' = AddFile(config, file)
    /\ phase' = Next3(phase)
    /\ UNCHANGED <<option, policy, request, plan, code, callVars>>

LoadAgents ==
    /\ phase = "agents"
    /\ \E files \in [1 .. 3 -> AgentFiles] : config' = AddAgents(config, files)
    /\ phase' = "loaded"
    /\ UNCHANGED <<option, policy, request, plan, code, callVars>>

Names(agents) == {agents[i].name : i \in DOMAIN agents}
Runnable(agents) == SelectSeq(agents, LAMBDA a : a.whole)

\* _resolve_config, and _resolve_policy with _override_or.
Policy(c, o) ==
    LET agents == AgentsOf(config) IN
    [numbers |-> IF c = "cli" THEN CliNumbers(config, o.numbers) ELSE McpNumbers(config, o.numbers),
     timeouts |-> IF c = "cli" THEN CliTimeouts(config, o.timeouts) ELSE McpTimeouts(config),
     grants |-> IF c = "cli" THEN config.grants ELSE Nothing,
     choices |-> IF c = "cli" THEN config.choices ELSE Nothing,
     known |-> BuiltIn \cup IF c = "cli" THEN Names(agents) ELSE {},
     served |-> BuiltIn \cup IF c = "cli" THEN Names(Runnable(agents)) ELSE {},
     accepted |-> c = "mcp" \/ CliAccepts(config, o.numbers, o.timeouts)]

Resolve ==
    /\ phase = "loaded"
    /\ \E o \in Options : option' = o /\ policy' = Policy(caller, o)
    /\ phase' = "resolved"
    /\ UNCHANGED <<config, request, plan, code, callVars>>

\* The files are not looked at again; the deadlines are handed to the run as they are.
Settle ==
    /\ phase = "resolved" /\ phase' = "settled"
    /\ config' = EmptyConfig /\ option' = NoOption
    /\ policy' = [policy EXCEPT !.numbers = Nothing, !.timeouts = Nothing]
    /\ UNCHANGED <<request, plan, code, callVars>>

WithRequest(r) ==
    [policy EXCEPT !.choices = Override(@, r.choices), !.grants = Nested(@, r.grants)]

Refuse(why) == phase' = "refused" /\ code' = why /\ UNCHANGED <<policy, plan>>

Decide(checks, planned) ==
    IF FirstCode(checks) # "none" THEN Refuse(FirstCode(checks))
    ELSE phase' = "planned" /\ plan' = planned /\ UNCHANGED <<policy, code>>

\* main plans a run.
PlanCommand ==
    /\ phase = "settled" /\ caller = "cli"
    /\ \E r \in Requests :
         LET p == WithRequest(r) IN
         /\ request' = r
         /\ Decide(RunChecks(r, p, p.known, p.served), RunPlanned(r, p))
    /\ UNCHANGED <<config, option, callVars>>

ToolPlan(r) ==
    [invocations |-> ParseInvocations(DefaultAgents(r.providers, Nothing), r.targets), prompts |-> <<>>]

PlanTool ==
    /\ phase = "settled" /\ caller = "mcp"
    /\ \E r \in ToolCalls : request' = r /\ Decide(ToolChecks(r), ToolPlan(r))
    /\ UNCHANGED <<config, option, callVars>>

\* run_invocation_workflow is called; what led to it is not needed any more.
Begin ==
    /\ phase = "planned" /\ phase' = "running"
    /\ Begins(caller, Len(plan.invocations))
    /\ request' = NoRequest /\ plan' = NoPlan /\ policy' = NoPolicy
    /\ UNCHANGED <<config, option, code>>

Run == phase = "running" /\ CallNext /\ UNCHANGED frontVars

End ==
    /\ phase = "running" /\ thread = "returned" /\ loop = <<>> /\ host # "waiting"
    /\ phase' = "over"
    /\ UNCHANGED <<config, option, policy, request, plan, code, callVars>>

Prepare == LoadFile \/ LoadAgents \/ Resolve \/ Settle \/ PlanCommand \/ PlanTool \/ Begin

Next == Prepare \/ Run \/ End

Spec == Init /\ [][Next]_vars

MaxInvocations == 2

FairSpec == Spec /\ WF_vars(Prepare) /\ WF_vars(End) /\ CallFairness(MaxInvocations)

-----------------------------------------------------------------------------
(* Properties *)

\* With nothing given along, the same files lead to the same deadlines on the command line and
\* in the MCP server, unless an entry is one only the MCP server would mend.
\* (mcp_server.py:157-166, cli.py:1490-1502)
SameDeadlines ==
    phase = "resolved" /\ option = NoOption /\ CliAccepts(config, Nothing, config.timeouts) =>
        LET other == Policy(IF caller = "cli" THEN "mcp" ELSE "cli", NoOption)
            over == BuiltIn \cup Names(AgentsOf(config))
        IN  Deadlines(policy.numbers, policy.timeouts, over)
              = Deadlines(other.numbers, other.timeouts, over)

\* What the modes mean.
Within(mode) ==
    CASE mode = "read_only" -> {"read_only"}
      [] mode = "write" -> {"read_only", "workspace_write"}
      [] mode = "yolo" -> {"read_only", "workspace_write", "approval_bypass", "elevated"}

\* Two providers act without asking in write mode already: Cursor, inside its sandbox, and
\* OpenCode, whose profile for write is the one for yolo.  (execution_modes.py:26-27, 52)
WritesUnasked(p, perms) == p = "opencode" \/ (p = "cursor" /\ Says(perms, "sandbox", "enabled"))

KeepsTo(mode, p, perms, transport) ==
    LET risk == EffectiveRisk(p, perms, transport) IN
    \/ risk \in Within(mode)
    \/ mode = "write" /\ risk = "approval_bypass" /\ WritesUnasked(p, perms)

\* A provider whose permissions nobody has granted one by one runs within the mode of the call:
\* with what its adapter makes of them, a review reads only, and to write is neither to act
\* without asking nor to leave the workspace, but for the two providers of WritesUnasked.
\* (execution_modes.py:8-50, provider_risk.py:72-188, policy.py:38-49, cli.py:1518-1541)
WithinMode ==
    phase = "planned" =>
        \A i \in DOMAIN plan.invocations :
            LET p == plan.invocations[i].provider
                cli == caller = "cli"
                effective == WithRequest(request)
                mode == IF cli THEN ModeOf(request, effective) ELSE request.mode
                grants == IF cli THEN effective.grants ELSE Nothing
                transport == IF cli THEN request.transport ELSE "shim"
                perms == Applied(Permissions(p, mode, grants), SupportedKeys(p, transport))
            IN  p \in BuiltIn /\ p \notin DOMAIN grants /\ (cli => Enforcement(effective) = "strict")
                  => KeepsTo(mode, p, perms, transport)

\* Where the files are divided, each file of the scope goes to one invocation, and nothing else
\* to any, however the paths of the scope overlap.  (cli.py:491-535)
FilesDividedOnce ==
    phase = "planned" /\ caller = "cli" /\ Chosen(WithRequest(request), "divide", "") = "files" =>
        \A f \in Files :
            Cardinality({i \in DOMAIN plan.invocations :
                          \E p \in plan.invocations[i].scope : f \in p.files})
              = IF f \in FilesForDivision(request.targets) THEN 1 ELSE 0

\* Every call ends: it is refused, or its thread returns and its caller has the result or has
\* gone away.  Whatever fails on the way to the host, no thread waits for it.
CallEnds == <>(phase \in {"refused", "over"})
=============================================================================

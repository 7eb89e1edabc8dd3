------------------------------- MODULE RunPlan -------------------------------
(***************************************************************************)
(* What a request comes to before a provider is started: the invocations   *)
(* it declares (src/runtime/invocation_runtime.py), the scope and the      *)
(* division of the files, the prompts, and the checks of main in cli.py    *)
(* and of the tools in mcp_server.py.  Operators only; FrontEnd uses them. *)
(***************************************************************************)
EXTENDS Settings

CONSTANTS
    Files,      \* files of the repository, numbers in the order of their paths
    Excluded,   \* those that git ignores, links, and those below an excluded name
    DefaultId,  \* the id made of a provider and a model, where no alias is given
    Catalog     \* the models that discover_models lists for a provider, {} if it cannot

ASSUME FilesAssumption == Files \subseteq Nat \ {0} /\ Excluded \subseteq Files

-----------------------------------------------------------------------------
(* Invocations *)

\* An entry [alias=]provider:model; alias "" for none, "?" for one that is no identifier.
InvocationId(a) == IF a.alias = "" THEN DefaultId[a.provider][a.model] ELSE a.alias
WellFormed(a) == a.provider # "" /\ a.model # "" /\ a.alias # "?"

Repeats(a, b) ==
    \/ InvocationId(a) = InvocationId(b)
    \/ a.alias = "" /\ a.provider = b.provider /\ a.model = b.model

ParseFails(agents) ==
    \E i \in DOMAIN agents :
        ~WellFormed(agents[i]) \/ \E j \in 1 .. i - 1 : Repeats(agents[i], agents[j])

ParseInvocations(agents, scope) ==
    [i \in DOMAIN agents |->
        [id |-> InvocationId(agents[i]), provider |-> agents[i].provider,
         model |-> agents[i].model, scope |-> scope]]

DefaultAgents(providers, models) ==
    [i \in DOMAIN providers |->
        [alias |-> "", provider |-> providers[i], model |-> Get(models, providers[i], "default")]]

-----------------------------------------------------------------------------
(* Scope and division *)

\* A path is what it names and the files below it; 0 among them if it leaves the repository.
Outside(path) == 0 \in path.files
Below(path, above) == path = above \/ (above.kind = "dir" /\ path.files \subseteq above.files)

ScopeFails(targets, allowed) ==
    \E t \in targets : Outside(t) \/ (\A a \in allowed : ~Below(t, a))

\* A file that is named is taken as it is, a directory is searched.
FilesForDivision(scope) ==
    UNION {IF p.kind = "file" THEN p.files ELSE p.files \ Excluded : p \in {q \in scope : ~Outside(q)}}

\* The n-th of the sorted files goes to the n-th invocation, round and round.
Assigned(i, n, files) ==
    {f \in files : Cardinality({g \in files : g < f}) % n = i - 1}

\* Mutant of ApplyFileDivision: each path of the scope is dealt out for itself.
DivideByPath(invocations, divide) ==
    LET n == Len(invocations) IN
    IF divide # "files" \/ n = 0 THEN invocations
    ELSE [i \in 1 .. n |-> [invocations[i] EXCEPT !.scope =
            {[kind |-> "file", files |-> {f}] :
                f \in UNION {Assigned(i, n, FilesForDivision({p})) : p \in invocations[1].scope}}]]

ApplyFileDivision(invocations, divide) ==
    LET n == Len(invocations) IN
    IF divide # "files" \/ n = 0 THEN invocations
    ELSE [i \in 1 .. n |-> [invocations[i] EXCEPT !.scope =
            {[kind |-> "file", files |-> {f}] :
                f \in Assigned(i, n, FilesForDivision(invocations[1].scope))}]]

Dimensions == 5

\* What is put before the prompt of each invocation.
InvocationPrompts(invocations, divide, perspectives) ==
    [i \in DOMAIN invocations |->
        [perspective |-> Get(perspectives, invocations[i].provider, ""),
         files |-> IF divide = "files" THEN invocations[i].scope ELSE {},
         dimension |-> IF divide = "dimensions" THEN (i - 1) % Dimensions ELSE Dimensions]]

-----------------------------------------------------------------------------
(* The checks *)

\* The code of the first check that holds.
FirstCode(checks) ==
    LET failing == {i \in DOMAIN checks : checks[i].holds}
    IN  IF failing = {} THEN "none" ELSE checks[CHOOSE i \in failing : \A j \in failing : i <= j].code

Check(holds, code) == [holds |-> holds, code |-> code]

\* A request r of the command line, under the policy that was resolved for it.
Chosen(policy, key, otherwise) == Get(policy.choices, key, otherwise)

\* The first of each, in their order.
Distinct(names) ==
    LET firsts == {i \in DOMAIN names : \A j \in 1 .. i - 1 : names[j] # names[i]}
        Nth(k) == CHOOSE i \in firsts : Cardinality({j \in firsts : j <= i}) = k
    IN  [k \in 1 .. Cardinality(firsts) |-> names[Nth(k)]]

Providers(r) ==
    Distinct(IF r.agents = <<>> THEN r.providers
             ELSE [i \in DOMAIN r.agents |-> r.agents[i].provider])

Agents(r) ==
    IF r.agents # <<>> THEN r.agents ELSE DefaultAgents(Providers(r), r.models)

ModeOf(r, policy) == Chosen(policy, "execution_mode",
                                 IF r.command = "review" THEN "read_only" ELSE "write")

PermissionsOf(p, r, policy) == Permissions(p, ModeOf(r, policy), policy.grants)

\* Checks before main knows whether it is to run or to preview.
RequestChecks(r, policy, known) ==
    <<Check(r.removed, "removed_surface"),
      Check(r.agents # <<>> /\ r.explicit, "invalid_config"),
      Check(ParseFails(r.agents), "input_error"),
      Check(~policy.accepted \/ ModeOf(r, policy) \notin Modes
              \/ Chosen(policy, "divide", "") \notin {"", "files", "dimensions"}, "config_error"),
      Check(\E i \in DOMAIN Providers(r) :
                ExecutionPermissions(Providers(r)[i], ModeOf(r, policy)) = Unsupported, "config_error"),
      Check(Chosen(policy, "chain", FALSE) /\ Chosen(policy, "debate", FALSE), "invalid_config"),
      Check(\E i \in DOMAIN Providers(r) : Providers(r)[i] \notin known, "invalid_providers"),
      Check(r.synthesizer # "" /\ ~Contains(Providers(r), r.synthesizer), "invalid_config"),
      Check(~r.prompted, "input_error")>>

Enforcement(policy) == Chosen(policy, "enforcement_mode", "strict")

StrictFails(p, r, policy) ==
    FailsStrict(PermissionsOf(p, r, policy), SupportedKeys(p, r.transport), Enforcement(policy))

\* An unknown model is refused where the provider lists its models.
UnknownModel(a) ==
    LET listed == Get(Catalog, a.provider, {})
    IN  listed # {} /\ a.model # "default" /\ a.model \notin listed

RunChecks(r, policy, known, served) ==
    LET agents == Agents(r) IN
    IF FirstCode(RequestChecks(r, policy, known)) # "none" THEN RequestChecks(r, policy, known)
    ELSE <<Check(ScopeFails(r.targets, r.allowed) \/ ParseFails(agents), "input_error"),
           Check(agents = <<>>, "provider_selection_required"),
           Check(\E i \in DOMAIN agents : agents[i].provider \notin served, "invalid_providers")>>
         \o [i \in DOMAIN agents |->
                LET strict == StrictFails(agents[i].provider, r, policy)
                IN  Check(strict \/ UnknownModel(agents[i]), IF strict THEN "strict" ELSE "input_error")]

\* What a run starts with.
RunPlanned(r, policy) ==
    LET declared == ParseInvocations(Agents(r), r.targets)
        divided == ApplyFileDivision(declared, Chosen(policy, "divide", ""))
    IN  [invocations |-> divided,
         prompts |-> InvocationPrompts(divided, Chosen(policy, "divide", ""), r.perspectives)]

\* The tools of the MCP server: built-in providers only, and the whole repository allowed.
ToolChecks(r) ==
    <<Check(~r.repo, "invalid_repo"),
      Check(r.providers = <<>>, "provider_selection_required"),
      Check(\E i \in DOMAIN r.providers : r.providers[i] \notin BuiltIn, "invalid_providers"),
      Check(r.mode \notin Modes, "invalid_execution_mode"),
      Check(\E i \in DOMAIN r.providers :
                ExecutionPermissions(r.providers[i], r.mode) = Unsupported, "unsupported_execution_mode"),
      Check((\E t \in r.targets : Outside(t)) \/ ParseFails(DefaultAgents(r.providers, Nothing)),
            "execution_error")>>
=============================================================================

----------------------------- MODULE MCFrontEnd -----------------------------
(* Files, options and calls, each with one thing that matters. *)
EXTENDS FrontEnd

NumberKeys == {"timeout_seconds", "review_hard_timeout_seconds"}
PolicyDefaults == [k \in NumberKeys |-> 1]

\* Files of settings.
Read(data) == [status |-> "read", data |-> data]
Numbers(seconds) == Read([EmptyConfig EXCEPT !.numbers = [timeout_seconds |-> seconds]])
Timeouts(p, seconds) == Read([EmptyConfig EXCEPT !.timeouts = [q \in {p} |-> seconds]])
Choice(key, value) == Read([EmptyConfig EXCEPT !.choices = [k \in {key} |-> value]])
Grant(p, key, value) == Read([EmptyConfig EXCEPT !.grants = [q \in {p} |-> [k \in {key} |-> value]]])
Agent(name, whole, seconds) == [name |-> name, whole |-> whole, timeout |-> seconds]
Mine == Agent("mine", TRUE, 3)

SomeConfigFiles ==
    {[status |-> "broken"], Numbers(5), Numbers(Text), Timeouts("mine", 2), Timeouts("codex", 0),
     Choice("divide", "files"), Choice("enforcement_mode", "best_effort"),
     Grant("claude", "permission_mode", "bypassPermissions"),
     Read([EmptyConfig EXCEPT !.agents = [list |-> <<Mine, Agent("bare", FALSE, 0)>>]])}

SomeAgentFiles ==
    {[status |-> "absent"], [status |-> "unlisted"],
     [status |-> "listed", list |-> <<Mine, Agent("mine", TRUE, 4), Agent("bare", FALSE, 0)>>]}

SomeOptions ==
    {NoOption, [NoOption EXCEPT !.numbers = [timeout_seconds |-> 7]],
     [NoOption EXCEPT !.timeouts = [mine |-> 0]]}

\* A repository of three files, one of them ignored by git, and a path that leaves it.
SomeFiles == 1 .. 3
SomeExcluded == {3}
Root == [kind |-> "dir", files |-> SomeFiles]
Lib == [kind |-> "dir", files |-> {1, 2}]
File(f) == [kind |-> "file", files |-> {f}]
Elsewhere == [kind |-> "dir", files |-> {0}]

Ids == [p \in BuiltIn \cup {"mine", "bare", "other"} |-> [m \in {"default", "large"} |-> <<p, m>>]]
Models == [codex |-> {"large"}]
Entry(alias, p, m) == [alias |-> alias, provider |-> p, model |-> m]

Plain ==
    [removed |-> FALSE, agents |-> <<>>, explicit |-> TRUE, providers |-> <<"claude">>,
     command |-> "run", synthesizer |-> "", prompted |-> TRUE, targets |-> {Root},
     allowed |-> {Root}, transport |-> "shim", choices |-> Nothing, grants |-> Nothing,
     models |-> Nothing, perspectives |-> Nothing]

Declared(agents) == [Plain EXCEPT !.agents = agents, !.explicit = FALSE]

\* Every provider in every mode, over both transports.
OfProviders ==
    {[Plain EXCEPT !.providers = <<p>>, !.transport = t, !.choices = [execution_mode |-> m]] :
        p \in BuiltIn, t \in {"shim", "acp"}, m \in Modes \cup {"unheard"}}

\* Two invocations, over scopes whose paths overlap or hold less than there are invocations.
OfScopes ==
    {[Plain EXCEPT !.providers = <<"claude", "codex">>, !.targets = s, !.allowed = a,
                   !.choices = [divide |-> d], !.perspectives = [claude |-> "security"]] :
        s \in {{Root}, {Lib, File(2)}, {File(3)}, {Elsewhere}}, a \in {{Root}, {Lib}},
        d \in {"files", "dimensions"}}

Others ==
    {[Plain EXCEPT !.removed = TRUE], [Plain EXCEPT !.prompted = FALSE],
     [Plain EXCEPT !.providers = <<>>], [Plain EXCEPT !.providers = <<"other">>],
     [Plain EXCEPT !.providers = <<"mine">>], [Plain EXCEPT !.providers = <<"bare">>],
     [Plain EXCEPT !.synthesizer = "codex"],
     [Plain EXCEPT !.command = "review", !.grants = [claude |-> [terminal |-> "true"]]],
     [Plain EXCEPT !.choices = [chain |-> TRUE, debate |-> TRUE]],
     [Plain EXCEPT !.providers = <<"codex">>, !.models = [codex |-> "default"]],
     [Plain EXCEPT !.providers = <<"claude", "claude">>],
     [Declared(<<Entry("", "codex", "large")>>) EXCEPT !.explicit = TRUE],
     Declared(<<Entry("one", "codex", "large"), Entry("two", "codex", "large")>>),
     Declared(<<Entry("one", "codex", "large"), Entry("", "codex", "large")>>),
     Declared(<<Entry("", "claude", "large"), Entry("", "gemini", "default")>>)}

SomeRequests == OfProviders \cup OfScopes \cup Others

SomeToolCalls ==
    {[repo |-> TRUE, providers |-> <<p>>, mode |-> m, targets |-> {Root}] :
        p \in {"claude", "hermes"}, m \in Modes}
    \cup
    {[repo |-> r, providers |-> ps, mode |-> m, targets |-> t] :
        r \in BOOLEAN, ps \in {<<>>, <<"other">>, <<"claude", "codex">>, <<"claude", "claude">>},
        m \in {"write", "unheard"}, t \in {{Root}, {Elsewhere}}}
=============================================================================

------------------------- MODULE InvocationWorkflow -------------------------
(***************************************************************************)
(* run_invocation_workflow of src/runtime/invocation_runtime.py, with      *)
(* --chain, --debate or --synthesize: stages one after the other, each a   *)
(* stage of InvocationStage over the invocations that can read the records *)
(* of the stages before it.  A chain has a stage for each invocation.      *)
(***************************************************************************)
EXTENDS InvocationStage, FiniteSets, SequencesExt

CONSTANTS
    Order,      \* the invocations as they were declared
    Provider,   \* of each invocation
    Readers,    \* invocations whose adapter reads context files
    Requested   \* providers --synth-provider may name, or None
CONSTANT None

ASSUME OrderAssumption ==
    Order \in Seq(Invocations) /\ IsInjective(Order) /\ Range(Order) = Invocations /\ Order # <<>>
ASSUME ReadersAssumption == Readers \subseteq Invocations

VARIABLES
    plan,       \* chain, debate, synthesize, synthesis_provider
    stage,      \* the stage under way; "finish" when there is none left
    sources,    \* source_outputs of the stage
    unread,     \* invocations of the stage that cannot read them
    records,    \* all_outputs
    root,       \* run.json in the artifact root, None while there is none
    final       \* how the workflow ended, "none" until it does

flowVars == <<plan, stage, sources, unread, records, root, final>>
vars == <<stageVars, stopped, flowVars>>

Stages == {"chain", "run", "debate", "synthesis"}
Record(s, i, how) == [stage |-> s, inv |-> i, status |-> how]
Successes(rs) == {r \in rs : r.status = "success"}

\* run_stage, up to the call: who can read the records takes part.  A provider of the
\* stage before that has still to start is not followed any more.
Enter(s, invs, given) ==
    /\ stage' = s /\ sources' = given
    /\ members' = IF given = {} THEN invs ELSE invs \cap Readers
    /\ unread' = invs \ members'
    /\ phase' = "running" /\ begun' = {} /\ timely' = {} /\ verdict' = "none"
    /\ ended' = [i \in Invocations |-> "none"]

Init ==
    /\ plan \in [chain : BOOLEAN, debate : BOOLEAN, synthesize : BOOLEAN, by : Requested]
    /\ plan.chain \/ plan.debate \/ plan.synthesize
    /\ ~(plan.chain /\ plan.debate)
    /\ stage = IF plan.chain THEN "chain" ELSE "run"
    /\ members = IF plan.chain THEN {Head(Order)} ELSE Invocations
    /\ phase = "running" /\ begun = {} /\ timely = {} /\ verdict = "none" /\ stopped = FALSE
    /\ ended = [i \in Invocations |-> "none"]
    /\ sources = {} /\ unread = {} /\ records = {} /\ root = None /\ final = "none"

\* Mutant of StageOutputs: those who could not read are left out.
StageOutputsOfMembers == {Record(stage, i, ended[i]) : i \in members}

\* run_stage returns the outputs of its members, and one for each that could not read.
StageOutputs ==
    {Record(stage, i, ended[i]) : i \in members} \cup {Record(stage, i, "failed") : i \in unread}

InStage ==
    /\ stage \in Stages
    /\ Stop \/ Conclude \/ \E i \in Invocations : Begin(i) \/ StartProvider(i)
    /\ UNCHANGED flowVars

\* Mutant of StageReturns: every stage writes its record to the root.
StageReturnsToRoot ==
    /\ stage \in Stages /\ Return
    /\ root' = [status |-> verdict', outputs |-> {Record(stage, i, ended[i]) : i \in members}]
    /\ UNCHANGED <<plan, stage, sources, unread, records, final>>

\* A stage writes its own record; that of the stage "run" is the root's.
StageReturns ==
    /\ stage \in Stages /\ Return
    /\ root' = IF stage = "run"
               THEN [status |-> verdict', outputs |-> {Record(stage, i, ended[i]) : i \in members}]
               ELSE root
    /\ UNCHANGED <<plan, stage, sources, unread, records, final>>

\* An output cannot be written: the exception leaves the workflow as well.
StageRaises ==
    /\ stage \in Stages /\ phase = "running"
    /\ stage' = "finish" /\ phase' = "returned" /\ final' = "raised"
    /\ UNCHANGED <<members, begun, timely, ended, verdict, stopped, plan, sources, unread, records, root>>

\* What comes after a stage looks at its outputs, and adds them to the records.
After(s) == stage = s /\ phase = "returned" /\ final = "none"

Collect(more) ==
    /\ records' = records \cup StageOutputs \cup more
    /\ UNCHANGED <<stopped, plan, root, final>>

Finished == stage' = "finish" /\ UNCHANGED <<stageVars, sources, unread>>

Following(i) == {Order[k] : k \in (SelectInSeq(Order, LAMBDA j : j = i) + 1)..Len(Order)}
NextOf(i) == Order[SelectInSeq(Order, LAMBDA j : j = i) + 1]

\* Mutant of AfterChain: a stage that failed does not end the chain.
AfterChainAnyway ==
    /\ After("chain")
    /\ \E i \in members \cup unread :
         \/ Following(i) # {} /\ Collect({}) /\ Enter("chain", {NextOf(i)}, StageOutputs)
         \/ Following(i) = {} /\ Collect({}) /\ Finished

\* The next invocation sees the one before it, if that one succeeded; otherwise it and
\* all that follow are recorded as not run.
AfterChain ==
    /\ After("chain")
    /\ \E i \in members \cup unread :
         IF Following(i) # {} /\ Successes(StageOutputs) # {}
         THEN Collect({}) /\ Enter("chain", {NextOf(i)}, StageOutputs)
         ELSE Collect({Record("chain", j, "failed") : j \in Following(i)}) /\ Finished

\* The invocation of the provider asked for, or the first one.
Synthesizer ==
    LET asked == SelectInSeq(Order, LAMBDA i : plan.by # None /\ Provider[i] = plan.by)
    IN  IF asked = 0 THEN Head(Order) ELSE Order[asked]

\* Mutant of Synthesis: it is begun whatever came before.
SynthesisAnyway(given) == Collect({}) /\ Enter("synthesis", {Synthesizer}, given)

Synthesis(given) ==
    \/ Successes(given) # {} /\ Collect({}) /\ Enter("synthesis", {Synthesizer}, given)
    \/ Successes(given) = {} /\ Collect({Record("synthesis", Synthesizer, "failed")}) /\ Finished

Then(given) == IF plan.synthesize THEN Synthesis(given) ELSE Collect({}) /\ Finished

\* A debate needs a success to look at.
AfterRun ==
    /\ After("run")
    /\ IF plan.debate /\ Successes(StageOutputs) # {}
       THEN Collect({}) /\ Enter("debate", Invocations, StageOutputs)
       ELSE Then(StageOutputs)

\* Mutant of AfterDebate: the synthesis sees the debate alone.
AfterDebateAlone == After("debate") /\ Then(StageOutputs)

AfterDebate == After("debate") /\ Then(records \cup StageOutputs)

AfterSynthesis == After("synthesis") /\ Collect({}) /\ Finished

\* The status is drawn from all records, and written to the root.
Finish ==
    /\ stage = "finish" /\ final = "none"
    /\ final' = Judge({r.status : r \in records})
    /\ root' = [status |-> final', outputs |-> records]
    /\ UNCHANGED <<stageVars, stopped, plan, stage, sources, unread, records>>

Progress ==
    \/ StageReturns \/ AfterChain \/ AfterRun \/ AfterDebate \/ AfterSynthesis \/ Finish

Next == Progress \/ InStage \/ StageRaises

Spec == Init /\ [][Next]_vars

-----------------------------------------------------------------------------
(* What holds *)

\* Every variable stays in its range, and no step leaves a record without a status.
TypeOK ==
    /\ members \subseteq Invocations /\ unread \subseteq Invocations \ members
    /\ phase \in {"running", "returned"} /\ begun \subseteq members /\ timely \subseteq begun
    /\ ended \in [Invocations -> {"none"} \cup Statuses] /\ verdict \in {"none"} \cup Verdicts
    /\ stage \in Stages \cup {"finish"} /\ stopped \in BOOLEAN
    /\ records \cup sources \subseteq [stage : Stages, inv : Invocations, status : Statuses]
    /\ final \in {"none", "raised"} \cup Verdicts

\* The records a plan calls for: one for each invocation of each of its stages, whether
\* it ran or not; the debate only if a first answer succeeded.
Called ==
    IF plan.chain THEN {"chain"} \X Invocations
    ELSE ({"run"} \X Invocations)
         \cup (IF plan.debate /\ \E r \in records : r.stage = "run" /\ r.status = "success"
               THEN {"debate"} \X Invocations ELSE {})
         \cup (IF plan.synthesize THEN {<<"synthesis", Synthesizer>>} ELSE {})

\* No invocation is dropped or counted twice on the way through the stages: a workflow
\* that returns has exactly the records its plan calls for, and it is complete only if
\* every one of them is a success.
NothingDropped ==
    final \in Verdicts =>
        /\ {<<r.stage, r.inv>> : r \in records} = Called
        /\ Cardinality(records) = Cardinality(Called)
        /\ final = "complete" <=> Cardinality(Successes(records)) = Cardinality(Called)

\* An invocation is begun in a later stage only on top of a success it was shown: in a
\* chain, only if every invocation before it succeeded.
BuiltOnSuccess ==
    begun # {} =>
        /\ stage \in {"debate", "synthesis"} => Successes(sources) # {}
        /\ stage = "chain" => \A i \in Invocations :
             members \subseteq Following(i) => Record("chain", i, "success") \in records

\* A stage sees whole stages before it and nothing of its own: the debate the first
\* answers, the synthesis all of them, an invocation of a chain the success before it.
SourcesWhole ==
    /\ stage \in {"debate", "synthesis"} =>
        /\ {<<r.stage, r.inv>> : r \in sources} =
             (IF stage = "debate" THEN {"run"} \X Invocations
              ELSE Called \ {<<"synthesis", Synthesizer>>})
        /\ sources \subseteq records
    /\ stage = "chain" => \A k \in DOMAIN Order :
         Order[k] \in members \cup unread =>
             sources = (IF k = 1 THEN {} ELSE {Record("chain", Order[k - 1], "success")})

\* What the root says when the first stage has returned, and goes on saying if a later
\* stage raises, is never taken back, and all that follows can do to it is to spoil a
\* complete outcome: no success it lists is lost, and what had failed stays failed.
RootKeepsItsWord ==
    [][root # None =>
         /\ Successes(root.outputs) \subseteq Successes(root'.outputs)
         /\ root'.status \in {root.status} \cup (IF root.status = "complete" THEN {"partial"} ELSE {})]_vars

=============================================================================

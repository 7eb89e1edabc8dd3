---------------------- MODULE InvocationWorkflowProofs ----------------------
(***************************************************************************)
(* Theorems about InvocationWorkflow, for any list of invocations, any     *)
(* providers and any of them unable to read context files; and about       *)
(* AnswerStream, what an invocation shows of its answer, for any texts and *)
(* any number of lines.  The two share no variable.                        *)
(***************************************************************************)
EXTENDS InvocationWorkflow, AnswerStream,
        FiniteSetTheorems, SequenceTheorems, WellFoundedInduction, TLAPS

-----------------------------------------------------------------------------
(* Places in the declared order *)

\* The least-number principle, from the well-founded order of the natural numbers.
LEMMA LeastNumber ==
  ASSUME NEW T, T \subseteq Nat, T # {}
  PROVE  \E m \in T : \A k \in T : m <= k
  <1> DEFINE R == {ss \in Nat \X Nat : ss[1] < ss[2]}
  <1>1. IsWellFoundedOn(R, Nat)
    BY NatLessThanWellFounded DEF OpToRel
  <1>2. \A k, m \in T : k < m => <<k, m>> \in R
    OBVIOUS
  <1> HIDE DEF R
  <1>3. PICK m \in T : \A k \in T : ~ (<<k, m>> \in R)
    BY <1>1, WFMin
  <1>4. \A k \in T : ~(k < m)
    BY <1>2, <1>3
  <1>5. \A k \in T : m <= k
    BY <1>4
  <1> QED
    BY <1>5

\* Every invocation has one place in the order.
LEMMA Places ==
  /\ Len(Order) \in Nat \ {0} /\ DOMAIN Order = 1..Len(Order)
  /\ \A k \in 1..Len(Order) : Order[k] \in Invocations
  /\ \A k, m \in 1..Len(Order) : Order[k] = Order[m] => k = m
  /\ \A i \in Invocations : \E k \in 1..Len(Order) : Order[k] = i
  /\ Head(Order) = Order[1]
  <1>1. Order \in Seq(Invocations) /\ Order # <<>>
    BY OrderAssumption
  <1>2. Len(Order) \in Nat \ {0} /\ DOMAIN Order = 1..Len(Order) /\ Head(Order) = Order[1]
    BY <1>1
  <1>3. \A k \in 1..Len(Order) : Order[k] \in Invocations
    BY <1>1, <1>2
  <1>4. \A k, m \in 1..Len(Order) : Order[k] = Order[m] => k = m
    BY <1>2, OrderAssumption DEF IsInjective
  <1>5. \A i \in Invocations : \E k \in 1..Len(Order) : Order[k] = i
    BY <1>2, OrderAssumption DEF Range
  <1> QED
    BY <1>2, <1>3, <1>4, <1>5

\* The first place of a non-empty set of places is one of them.
LEMMA FirstPlace ==
  ASSUME NEW T, T \subseteq 1..Len(Order), T # {}
  PROVE  Min(T) \in T
  <1>1. T \subseteq Nat
    BY Places
  <1>2. \E m \in T : \A k \in T : m <= k
    BY <1>1, LeastNumber
  <1> QED
    BY <1>2 DEF Min

\* What follows the invocation at a place is what has a later place.
LEMMA FollowingAt ==
  ASSUME NEW k \in 1..Len(Order)
  PROVE  /\ Following(Order[k]) = {Order[m] : m \in (k + 1)..Len(Order)}
         /\ NextOf(Order[k]) = Order[k + 1]
  <1>1. {m \in 1..Len(Order) : Order[m] = Order[k]} = {k}
    BY Places
  <1>2. Min({k}) = k
    BY FirstPlace
  <1>3. SelectInSeq(Order, LAMBDA j : j = Order[k]) = k
    BY <1>1, <1>2 DEF SelectInSeq
  <1> QED
    BY <1>3 DEF Following, NextOf

LEMMA SynthesizerDeclared == Synthesizer \in Invocations
  <1> DEFINE T == {m \in 1..Len(Order) : plan.by # None /\ Provider[Order[m]] = plan.by}
  <1>1. Synthesizer = IF T = {} \/ Min(T) = 0 THEN Head(Order) ELSE Order[Min(T)]
    BY Places DEF Synthesizer, SelectInSeq
  <1>2. T # {} => Min(T) \in 1..Len(Order)
    BY FirstPlace
  <1> QED
    BY <1>1, <1>2, Places

-----------------------------------------------------------------------------
(* The inductive invariant: at each stage, the records that exist *)

\* Who takes part in the stage under way, readers of its sources or not.
Group == members \cup unread
RecordKeys(rs) == {<<r.stage, r.inv>> : r \in rs}
OneEach(rs) == \A r, s \in rs : r.stage = s.stage /\ r.inv = s.inv => r = s
Synthesized == <<"synthesis", Synthesizer>>

EndedWhenReturned == phase = "returned" /\ stage \in Stages => \A i \in members : ended[i] # "none"

ChainSoFar ==
    stage = "chain" =>
        /\ plan.chain
        /\ \E k \in 1..Len(Order) :
              /\ Group = {Order[k]}
              /\ records = {Record("chain", Order[m], "success") : m \in 1..(k - 1)}
              /\ sources = (IF k = 1 THEN {} ELSE {Record("chain", Order[k - 1], "success")})
RunSoFar == stage = "run" => ~plan.chain /\ Group = Invocations /\ unread = {} /\ records = {}
DebateSoFar ==
    stage = "debate" =>
        /\ ~plan.chain /\ plan.debate /\ Group = Invocations /\ sources = records
        /\ RecordKeys(records) = {"run"} \X Invocations /\ OneEach(records)
        /\ Successes(records) # {}
SynthesisSoFar ==
    stage = "synthesis" =>
        /\ ~plan.chain /\ plan.synthesize /\ Group = {Synthesizer} /\ sources = records
        /\ RecordKeys(records) = Called \ {Synthesized} /\ OneEach(records)
        /\ Successes(records) # {}
AllRecorded ==
    stage = "finish" /\ final # "raised" => RecordKeys(records) = Called /\ OneEach(records)
FinalSays ==
    /\ stage \in Stages => final = "none"
    /\ final \in Verdicts =>
          final = Judge({r.status : r \in records})

FlowInv ==
    /\ TypeOK /\ EndedWhenReturned
    /\ ChainSoFar /\ RunSoFar /\ DebateSoFar /\ SynthesisSoFar /\ AllRecorded /\ FinalSays

\* A stage that has returned has one output for each who took part in it.
LEMMA OutputsOfStage ==
  ASSUME TypeOK, EndedWhenReturned, phase = "returned", stage \in Stages
  PROVE  /\ StageOutputs \subseteq [stage : {stage}, inv : Invocations, status : Statuses]
         /\ RecordKeys(StageOutputs) = {stage} \X Group
         /\ OneEach(StageOutputs)
  <1>1. /\ members \subseteq Invocations /\ unread \subseteq Invocations \ members
        /\ \A i \in members : ended[i] \in Statuses
    BY DEF TypeOK, EndedWhenReturned
  <1>2. \A r \in StageOutputs :
          /\ r.stage = stage
          /\ r \in [stage : {stage}, inv : Invocations, status : Statuses]
          /\ \/ r.inv \in members /\ r.status = ended[r.inv]
             \/ r.inv \in unread /\ r.status = "failed"
          /\ r = [stage |-> r.stage, inv |-> r.inv, status |-> r.status]
    BY <1>1 DEF StageOutputs, Record, Statuses
  <1>3. OneEach(StageOutputs)
    <2> SUFFICES ASSUME NEW r \in StageOutputs, NEW t \in StageOutputs, r.inv = t.inv
                 PROVE  r = t
      BY DEF OneEach
    <2>1. r.status = t.status /\ r.stage = t.stage
      BY <1>1, <1>2
    <2>2. /\ r = [stage |-> r.stage, inv |-> r.inv, status |-> r.status]
          /\ t = [stage |-> t.stage, inv |-> t.inv, status |-> t.status]
      BY <1>2
    <2> QED
      BY <2>1, <2>2
  <1>4. RecordKeys(StageOutputs) \subseteq {stage} \X Group
    BY <1>2 DEF RecordKeys, Group
  <1>5. ASSUME NEW i \in Group PROVE <<stage, i>> \in RecordKeys(StageOutputs)
    <2>1. \E how : Record(stage, i, how) \in StageOutputs
      <3>1. CASE i \in members
        BY <3>1 DEF StageOutputs
      <3>2. CASE i \in unread
        BY <3>2 DEF StageOutputs
      <3> QED
        BY <3>1, <3>2 DEF Group
    <2>2. \A how : Record(stage, i, how).stage = stage /\ Record(stage, i, how).inv = i
      BY DEF Record
    <2> QED
      BY <2>1, <2>2 DEF RecordKeys
  <1>6. {stage} \X Group \subseteq RecordKeys(StageOutputs)
    BY <1>5
  <1> QED
    BY <1>2, <1>3, <1>4, <1>6

\* Entering a stage shares its invocations out, and nothing has happened in it.
LEMMA Entered ==
  ASSUME NEW s \in Stages, NEW invs, NEW given, invs \subseteq Invocations, Enter(s, invs, given)
  PROVE  /\ stage' = s /\ sources' = given /\ Group' = invs /\ phase' = "running"
         /\ members' \subseteq Invocations /\ unread' \subseteq Invocations \ members'
         /\ begun' = {} /\ timely' = {} /\ verdict' = "none"
         /\ ended' \in [Invocations -> {"none"} \cup Statuses]
  <1>1. /\ members' = IF given = {} THEN invs ELSE invs \cap Readers
        /\ unread' = invs \ members'
    BY DEF Enter
  <1>2. members' \cup unread' = invs /\ members' \subseteq invs
    BY <1>1
  <1> QED
    BY <1>1, <1>2 DEF Enter, Group

\* What is joined to the records has other keys than they.
LEMMA OneEachJoined ==
  ASSUME NEW rs, NEW more, OneEach(rs), OneEach(more),
         RecordKeys(rs) \cap RecordKeys(more) = {}
  PROVE  OneEach(rs \cup more)
  <1>1. \A r \in rs, t \in more : ~(r.stage = t.stage /\ r.inv = t.inv)
    <2> SUFFICES ASSUME NEW r \in rs, NEW t \in more, r.stage = t.stage /\ r.inv = t.inv PROVE FALSE
      OBVIOUS
    <2>1. <<r.stage, r.inv>> \in RecordKeys(rs) /\ <<t.stage, t.inv>> \in RecordKeys(more)
      BY DEF RecordKeys
    <2> QED
      BY <2>1
  <1> QED
    BY <1>1 DEF OneEach

LEMMA KeysJoined ==
  ASSUME NEW rs, NEW more
  PROVE  RecordKeys(rs \cup more) = RecordKeys(rs) \cup RecordKeys(more)
  BY DEF RecordKeys

LEMMA OneRecord ==
  ASSUME NEW st, NEW i, NEW how
  PROVE  /\ RecordKeys({Record(st, i, how)}) = {<<st, i>>}
         /\ OneEach({Record(st, i, how)})
  BY DEF RecordKeys, OneEach, Record

\* The records a plan calls for, with and without a debate.
LEMMA CalledWithout ==
  ASSUME ~plan.chain, ~(plan.debate /\ \E r \in records : r.stage = "run" /\ r.status = "success")
  PROVE  Called = ({"run"} \X Invocations)
                    \cup (IF plan.synthesize THEN {Synthesized} ELSE {})
  BY DEF Called, Synthesized

LEMMA CalledWith ==
  ASSUME ~plan.chain, plan.debate, \E r \in records : r.stage = "run" /\ r.status = "success"
  PROVE  Called = ({"run"} \X Invocations) \cup ({"debate"} \X Invocations)
                    \cup (IF plan.synthesize THEN {Synthesized} ELSE {})
  BY DEF Called, Synthesized

LEMMA FlowInvInit == Init => FlowInv
  <1> SUFFICES ASSUME Init PROVE FlowInv
    OBVIOUS
  <1>1. Len(Order) \in Nat \ {0} /\ Head(Order) = Order[1] /\ Order[1] \in Invocations
    BY Places
  <1>2. /\ stage = (IF plan.chain THEN "chain" ELSE "run")
        /\ members = (IF plan.chain THEN {Order[1]} ELSE Invocations)
        /\ unread = {} /\ records = {} /\ sources = {} /\ final = "none" /\ phase = "running"
        /\ begun = {} /\ timely = {} /\ verdict = "none"
        /\ ended \in [Invocations -> {"none"} \cup Statuses]
    BY <1>1 DEF Init
  <1>3. stopped \in BOOLEAN
    BY DEF Init
  <1>4. TypeOK
    BY <1>1, <1>2, <1>3 DEF TypeOK, Stages
  <1>5. ChainSoFar
    <2>1. {Record("chain", Order[m], "success") : m \in 1..(1 - 1)} = {}
      OBVIOUS
    <2>2. stage = "chain" => plan.chain /\ Group = {Order[1]} /\ records = {} /\ sources = {}
      BY <1>2 DEF Group
    <2>3. 1 \in 1..Len(Order)
      BY <1>1
    <2> QED
      BY <2>1, <2>2, <2>3 DEF ChainSoFar
  <1>6. RunSoFar
    BY <1>2 DEF RunSoFar, Group
  <1>7. EndedWhenReturned /\ DebateSoFar /\ SynthesisSoFar /\ AllRecorded /\ FinalSays
    BY <1>2 DEF EndedWhenReturned, DebateSoFar, SynthesisSoFar, AllRecorded, FinalSays, Verdicts
  <1> QED
    BY <1>4, <1>5, <1>6, <1>7 DEF FlowInv

\* The plan names the invocation of the synthesis, and what it calls for but for the debate.
LEMMA PlanKept ==
  ASSUME plan' = plan
  PROVE  /\ Synthesizer' = Synthesizer
         /\ (\E r \in records : r.stage = "run" /\ r.status = "success")'
              = (\E r \in records : r.stage = "run" /\ r.status = "success") => Called' = Called
  <1>1. Synthesizer' = Synthesizer
    BY DEF Synthesizer, SelectInSeq
  <1> QED
    BY <1>1 DEF Called

\* Inside a stage only how its invocations ended changes.
LEMMA FlowInStage ==
  ASSUME FlowInv, InStage
  PROVE  FlowInv'
  <1>1. /\ UNCHANGED <<plan, stage, sources, unread, records, root, final, members, phase, verdict>>
        /\ stage \in Stages
    BY DEF InStage, flowVars, Stop, stageVars, Conclude, Begin, StartProvider
  <1>2. /\ ended' \in [Invocations -> {"none"} \cup Statuses]
        /\ phase = "returned" => ended' = ended
        /\ begun' \subseteq members /\ timely' \subseteq begun'
    BY DEF FlowInv, TypeOK, InStage, Stop, stageVars, Conclude, Begin, StartProvider
  <1>3. stopped' \in BOOLEAN
    BY DEF FlowInv, TypeOK, InStage, Stop, Conclude, Begin, StartProvider
  <1>4. TypeOK'
    BY <1>1, <1>2, <1>3 DEF FlowInv, TypeOK
  <1>5. EndedWhenReturned'
    BY <1>1, <1>2 DEF FlowInv, EndedWhenReturned
  <1>6. Synthesizer' = Synthesizer /\ Called' = Called /\ Group' = Group
    BY <1>1, PlanKept DEF Group
  <1> QED
    BY <1>1, <1>4, <1>5, <1>6
    DEF FlowInv, ChainSoFar, RunSoFar, DebateSoFar, SynthesisSoFar, AllRecorded, FinalSays, Synthesized

LEMMA FlowReturns ==
  ASSUME FlowInv, StageReturns
  PROVE  FlowInv'
  <1>1. /\ UNCHANGED <<plan, stage, sources, unread, records, final, members, begun, timely, ended>>
        /\ stage \in Stages /\ phase' = "returned"
        /\ \A i \in members : ended[i] # "none"
        /\ verdict' \in Verdicts
    BY DEF StageReturns, Return, Judge, Verdicts
  <1>2. stopped' \in BOOLEAN
    BY DEF FlowInv, TypeOK, StageReturns, Return
  <1>3. TypeOK'
    BY <1>1, <1>2 DEF FlowInv, TypeOK
  <1>4. EndedWhenReturned'
    BY <1>1 DEF EndedWhenReturned
  <1>5. Synthesizer' = Synthesizer /\ Called' = Called /\ Group' = Group
    BY <1>1, PlanKept DEF Group
  <1>6. FinalSays'
    BY <1>1 DEF FlowInv, FinalSays, Verdicts
  <1> QED
    BY <1>1, <1>3, <1>4, <1>5, <1>6
    DEF FlowInv, ChainSoFar, RunSoFar, DebateSoFar, SynthesisSoFar, AllRecorded, Synthesized

LEMMA FlowRaises ==
  ASSUME FlowInv, StageRaises
  PROVE  FlowInv'
  <1>1. /\ stage' = "finish" /\ final' = "raised" /\ phase' = "returned"
        /\ UNCHANGED <<members, begun, timely, ended, verdict, plan, sources, unread, records>>
    BY DEF StageRaises
  <1>2. stopped' \in BOOLEAN
    BY DEF FlowInv, TypeOK, StageRaises
  <1>3. TypeOK'
    BY <1>1, <1>2 DEF FlowInv, TypeOK
  <1> QED
    BY <1>1, <1>3 DEF FlowInv, EndedWhenReturned, ChainSoFar, RunSoFar, DebateSoFar, SynthesisSoFar,
       AllRecorded, FinalSays, Stages, Verdicts

\* The end of the workflow draws the status from the records.
LEMMA FlowFinish ==
  ASSUME FlowInv, Finish
  PROVE  FlowInv'
  <1>1. /\ UNCHANGED <<members, phase, begun, timely, ended, verdict, plan, stage, sources, unread, records>>
        /\ stage = "finish" /\ final = "none"
        /\ final' = Judge({r.status : r \in records})
        /\ root' = [status |-> final', outputs |-> records]
    BY DEF Finish, stageVars
  <1>2. final' \in Verdicts
    BY <1>1 DEF Judge, Verdicts
  <1>3. stopped' \in BOOLEAN
    BY DEF FlowInv, TypeOK, Finish
  <1>4. TypeOK'
    BY <1>1, <1>2, <1>3 DEF FlowInv, TypeOK
  <1>5. Called' = Called
    BY <1>1, PlanKept
  <1> QED
    BY <1>1, <1>4, <1>5 DEF FlowInv, EndedWhenReturned, ChainSoFar, RunSoFar, DebateSoFar, SynthesisSoFar,
       AllRecorded, FinalSays, Stages

-----------------------------------------------------------------------------
(* What comes after a stage *)

\* The outputs of a stage are records, of that stage alone.
LEMMA AfterOutputs ==
  ASSUME FlowInv, NEW s \in Stages, After(s)
  PROVE  /\ stage = s /\ final = "none" /\ phase = "returned"
         /\ StageOutputs \subseteq [stage : Stages, inv : Invocations, status : Statuses]
         /\ \A r \in StageOutputs : r.stage = s
         /\ RecordKeys(StageOutputs) = {s} \X Group
         /\ OneEach(StageOutputs)
         /\ records \subseteq [stage : Stages, inv : Invocations, status : Statuses]
  <1>1. stage = s /\ final = "none" /\ phase = "returned"
    BY DEF After
  <1>2. /\ StageOutputs \subseteq [stage : {s}, inv : Invocations, status : Statuses]
        /\ RecordKeys(StageOutputs) = {s} \X Group
        /\ OneEach(StageOutputs)
    BY <1>1, OutputsOfStage DEF FlowInv
  <1>3. \A r \in StageOutputs :
          r \in [stage : Stages, inv : Invocations, status : Statuses] /\ r.stage = s
    BY <1>2
  <1>4. records \subseteq [stage : Stages, inv : Invocations, status : Statuses]
    BY DEF FlowInv, TypeOK
  <1> QED
    BY <1>1, <1>2, <1>3, <1>4

\* What any next stage needs; each stage has an invariant of its own besides.
LEMMA FlowEnters ==
  ASSUME FlowInv, NEW s \in Stages, After(s), Collect({}),
         NEW t \in Stages, NEW invs, NEW given, invs \subseteq Invocations,
         given \subseteq [stage : Stages, inv : Invocations, status : Statuses],
         Enter(t, invs, given)
  PROVE  /\ TypeOK' /\ EndedWhenReturned' /\ AllRecorded' /\ FinalSays'
         /\ stage' = t /\ Group' = invs /\ sources' = given /\ plan' = plan
         /\ records' = records \cup StageOutputs
  <1>1. /\ records' = records \cup StageOutputs /\ UNCHANGED <<stopped, plan, root, final>>
        /\ final = "none"
    BY AfterOutputs DEF Collect
  <1>2. /\ stage' = t /\ sources' = given /\ Group' = invs /\ phase' = "running"
        /\ members' \subseteq Invocations /\ unread' \subseteq Invocations \ members'
        /\ begun' = {} /\ timely' = {} /\ verdict' = "none"
        /\ ended' \in [Invocations -> {"none"} \cup Statuses]
    BY Entered
  <1>3. records' \cup sources' \subseteq [stage : Stages, inv : Invocations, status : Statuses]
    BY <1>1, <1>2, AfterOutputs
  <1>4. TypeOK'
    <2>1. stopped' \in BOOLEAN
      BY <1>1 DEF FlowInv, TypeOK
    <2> QED
      BY <1>1, <1>2, <1>3, <2>1 DEF TypeOK, Verdicts
  <1>5. EndedWhenReturned' /\ AllRecorded' /\ FinalSays'
    BY <1>1, <1>2 DEF EndedWhenReturned, AllRecorded, FinalSays, Verdicts, Stages
  <1> QED
    BY <1>1, <1>2, <1>4, <1>5

\* When there is no next stage the records must be those the plan calls for.
LEMMA FlowFinishes ==
  ASSUME FlowInv, NEW s \in Stages, After(s), NEW more, Collect(more), Finished,
         more \subseteq [stage : Stages, inv : Invocations, status : Statuses],
         RecordKeys(records') = Called', OneEach(records')
  PROVE  FlowInv'
  <1>1. /\ records' = records \cup StageOutputs \cup more
        /\ UNCHANGED <<stopped, plan, root, final, members, phase, begun, timely, ended, verdict, sources, unread>>
        /\ stage' = "finish" /\ final = "none"
    BY AfterOutputs DEF Collect, Finished, stageVars
  <1>2. records' \cup sources' \subseteq [stage : Stages, inv : Invocations, status : Statuses]
    <2>1. sources' \subseteq [stage : Stages, inv : Invocations, status : Statuses]
      BY <1>1 DEF FlowInv, TypeOK
    <2> QED
      BY <1>1, <2>1, AfterOutputs
  <1>3. TypeOK'
    <2>1. stopped' \in BOOLEAN
      BY <1>1 DEF FlowInv, TypeOK
    <2> QED
      BY <1>1, <1>2, <2>1 DEF FlowInv, TypeOK
  <1> QED
    BY <1>1, <1>3 DEF FlowInv, EndedWhenReturned, ChainSoFar, RunSoFar, DebateSoFar,
       SynthesisSoFar, AllRecorded, FinalSays, Stages, Verdicts

\* The next of a chain is entered on top of successes only; otherwise what is left is
\* recorded as not run.
LEMMA FlowAfterChain ==
  ASSUME FlowInv, AfterChain
  PROVE  FlowInv'
  <1>0. After("chain") /\ "chain" \in Stages
    BY DEF AfterChain, Stages
  <1>1. PICK k \in 1..Len(Order) :
          /\ Group = {Order[k]}
          /\ records = {Record("chain", Order[m], "success") : m \in 1..(k - 1)}
    BY <1>0, AfterOutputs DEF FlowInv, ChainSoFar
  <1>2. plan.chain
    BY <1>0, AfterOutputs DEF FlowInv, ChainSoFar
  <1>3. PICK i \in Group :
          IF Following(i) # {} /\ Successes(StageOutputs) # {}
          THEN Collect({}) /\ Enter("chain", {NextOf(i)}, StageOutputs)
          ELSE Collect({Record("chain", j, "failed") : j \in Following(i)}) /\ Finished
    BY DEF AfterChain, Group
  <1>4. i = Order[k] /\ Following(i) = {Order[m] : m \in (k + 1)..Len(Order)} /\ NextOf(i) = Order[k + 1]
    BY <1>1, <1>3, FollowingAt
  <1>5. CASE Following(i) # {} /\ Successes(StageOutputs) # {}
    <2>1. k + 1 \in 1..Len(Order) /\ Order[k + 1] \in Invocations /\ {Order[k + 1]} \subseteq Invocations
      BY <1>4, <1>5, Places
    <2>2. Collect({}) /\ Enter("chain", {Order[k + 1]}, StageOutputs)
      BY <1>3, <1>4, <1>5
    <2>3. /\ TypeOK' /\ EndedWhenReturned' /\ AllRecorded' /\ FinalSays'
          /\ stage' = "chain" /\ Group' = {Order[k + 1]} /\ plan' = plan
          /\ sources' = StageOutputs
          /\ records' = records \cup StageOutputs
      BY <1>0, <2>1, <2>2, AfterOutputs, FlowEnters
    <2>4. StageOutputs = {Record("chain", Order[k], "success")}
      <3>1. PICK r \in StageOutputs : r.status = "success"
        BY <1>5 DEF Successes
      <3>2. \A t \in StageOutputs : t.stage = "chain" /\ t.inv = Order[k]
        <4> SUFFICES ASSUME NEW t \in StageOutputs PROVE t.stage = "chain" /\ t.inv = Order[k]
          OBVIOUS
        <4>1. <<t.stage, t.inv>> \in RecordKeys(StageOutputs)
          BY DEF RecordKeys
        <4> QED
          BY <1>0, <1>1, <4>1, AfterOutputs
      <3>3. \A t \in StageOutputs : t = r
        BY <1>0, <3>2, AfterOutputs DEF OneEach
      <3>4. r = Record("chain", Order[k], "success")
        <4>1. r \in [stage : Stages, inv : Invocations, status : Statuses]
          BY <1>0, AfterOutputs
        <4> QED
          BY <3>1, <3>2, <4>1 DEF Record
      <3> QED
        BY <3>3, <3>4
    <2>5. records' = {Record("chain", Order[m], "success") : m \in 1..((k + 1) - 1)}
      <3>1. 1..((k + 1) - 1) = 1..(k - 1) \cup {k}
        BY Places
      <3> QED
        BY <1>1, <2>3, <2>4, <3>1
    <2>6. ChainSoFar'
      <3>1. k + 1 # 1 /\ (k + 1) - 1 = k
        BY <2>1, Places
      <3>2. sources' = (IF k + 1 = 1 THEN {} ELSE {Record("chain", Order[(k + 1) - 1], "success")})
        BY <2>3, <2>4, <3>1
      <3> QED
        BY <1>2, <2>1, <2>3, <2>5, <3>2 DEF ChainSoFar
    <2>7. RunSoFar' /\ DebateSoFar' /\ SynthesisSoFar'
      BY <2>3 DEF RunSoFar, DebateSoFar, SynthesisSoFar
    <2> QED
      BY <2>3, <2>6, <2>7 DEF FlowInv
  <1>6. CASE ~(Following(i) # {} /\ Successes(StageOutputs) # {})
    <2> DEFINE more == {Record("chain", j, "failed") : j \in Following(i)}
    <2>1. Collect(more) /\ Finished
      BY <1>3, <1>6
    <2>2. Following(i) \subseteq Invocations
      BY <1>4, Places
    <2>3. more \subseteq [stage : Stages, inv : Invocations, status : Statuses]
      BY <2>2 DEF Record, Stages, Statuses
    <2>4. RecordKeys(more) = {"chain"} \X Following(i) /\ OneEach(more)
      <3>1. \A j : Record("chain", j, "failed").stage = "chain" /\ Record("chain", j, "failed").inv = j
        BY DEF Record
      <3>2. OneEach(more)
        BY <3>1 DEF OneEach
      <3>3. RecordKeys(more) = {<<"chain", j>> : j \in Following(i)}
        BY <3>1 DEF RecordKeys
      <3> QED
        BY <3>2, <3>3
    <2>5. RecordKeys(records) = {"chain"} \X {Order[m] : m \in 1..(k - 1)} /\ OneEach(records)
      <3>1. \A m : /\ Record("chain", Order[m], "success").stage = "chain"
                   /\ Record("chain", Order[m], "success").inv = Order[m]
        BY DEF Record
      <3>2. OneEach(records)
        BY <1>1, <3>1 DEF OneEach
      <3>3. RecordKeys(records) = {<<"chain", Order[m]>> : m \in 1..(k - 1)}
        BY <1>1, <3>1 DEF RecordKeys
      <3> QED
        BY <3>2, <3>3
    <2>6. RecordKeys(StageOutputs) = {"chain"} \X {Order[k]} /\ OneEach(StageOutputs)
      BY <1>0, <1>1, AfterOutputs
    <2>7. records' = records \cup StageOutputs \cup more /\ plan' = plan
      BY <2>1 DEF Collect
    <2>8. /\ {Order[m] : m \in 1..(k - 1)} \cap {Order[k]} = {}
          /\ ({Order[m] : m \in 1..(k - 1)} \cup {Order[k]}) \cap Following(i) = {}
          /\ {Order[m] : m \in 1..(k - 1)} \cup {Order[k]} \cup Following(i) = Invocations
      <3>1. /\ 1..Len(Order) = 1..(k - 1) \cup {k} \cup (k + 1)..Len(Order)
            /\ 1..(k - 1) \cap {k} = {} /\ 1..(k - 1) \cap (k + 1)..Len(Order) = {}
            /\ k \notin (k + 1)..Len(Order)
        BY Places
      <3> QED
        BY <1>4, <3>1, Places
    <2>9. OneEach(records')
      <3> HIDE DEF more
      <3>1. OneEach(records \cup StageOutputs)
        <4>1. RecordKeys(records) \cap RecordKeys(StageOutputs) = {}
          BY <2>5, <2>6, <2>8
        <4> QED
          BY <2>5, <2>6, <4>1, OneEachJoined
      <3>2. RecordKeys(records \cup StageOutputs) \cap RecordKeys(more) = {}
        BY <2>4, <2>5, <2>6, <2>8, KeysJoined
      <3> QED
        BY <2>4, <2>7, <3>1, <3>2, OneEachJoined
    <2>10. RecordKeys(records') = {"chain"} \X Invocations
      <3> HIDE DEF more
      <3>1. RecordKeys(records') = RecordKeys(records) \cup RecordKeys(StageOutputs) \cup RecordKeys(more)
        <4>1. RecordKeys(records \cup StageOutputs) = RecordKeys(records) \cup RecordKeys(StageOutputs)
          BY KeysJoined
        <4>2. RecordKeys((records \cup StageOutputs) \cup more)
                = RecordKeys(records \cup StageOutputs) \cup RecordKeys(more)
          BY KeysJoined
        <4> QED
          BY <2>7, <4>1, <4>2
      <3> QED
        BY <2>4, <2>5, <2>6, <2>8, <3>1
    <2>11. Called' = {"chain"} \X Invocations
      BY <1>2, <2>7 DEF Called
    <2> QED
      <3> HIDE DEF more
      <3> QED
        BY <1>0, <2>1, <2>3, <2>9, <2>10, <2>11, FlowFinishes
  <1> QED
    BY <1>5, <1>6

\* A synthesis begins when some source is a success, and is recorded as failed otherwise.
\* Either way what came before is what the plan calls for but the synthesis.
LEMMA FlowSynthesis ==
  ASSUME FlowInv, NEW s \in Stages, After(s), NEW given, plan.synthesize, ~plan.chain, Synthesis(given),
         given = records \cup StageOutputs, OneEach(given),
         RecordKeys(given) \cup {Synthesized} = Called', Synthesized \notin RecordKeys(given)
  PROVE  FlowInv'
  <1>0. /\ given \subseteq [stage : Stages, inv : Invocations, status : Statuses]
        /\ Synthesizer \in Invocations /\ "synthesis" \in Stages
    BY AfterOutputs, SynthesizerDeclared DEF Stages
  <1>1. CASE Successes(given) # {} /\ Collect({}) /\ Enter("synthesis", {Synthesizer}, given)
    <2>1. /\ TypeOK' /\ EndedWhenReturned' /\ AllRecorded' /\ FinalSays'
          /\ stage' = "synthesis" /\ Group' = {Synthesizer} /\ sources' = given /\ plan' = plan
          /\ records' = given
      <3>1. {Synthesizer} \subseteq Invocations
        BY <1>0
      <3> QED
        BY <1>0, <1>1, <3>1, FlowEnters
    <2>2. Synthesizer' = Synthesizer
      BY <2>1, PlanKept
    <2>3. RecordKeys(records') = Called' \ {Synthesized'}
      BY <2>1, <2>2 DEF Synthesized
    <2>4. SynthesisSoFar'
      BY <1>1, <2>1, <2>2, <2>3 DEF SynthesisSoFar, Successes
    <2>5. ChainSoFar' /\ RunSoFar' /\ DebateSoFar'
      BY <2>1 DEF ChainSoFar, RunSoFar, DebateSoFar
    <2> QED
      BY <2>1, <2>4, <2>5 DEF FlowInv
  <1>2. CASE Collect({Record("synthesis", Synthesizer, "failed")}) /\ Finished
    <2> DEFINE more == {Record("synthesis", Synthesizer, "failed")}
    <2>1. more \subseteq [stage : Stages, inv : Invocations, status : Statuses]
      BY <1>0 DEF Record, Statuses
    <2>2. RecordKeys(more) = {Synthesized} /\ OneEach(more)
      BY OneRecord DEF Synthesized
    <2>3. Collect(more) /\ Finished /\ records' = given \cup more
      BY <1>2 DEF Collect
    <2> HIDE DEF more
    <2>4. RecordKeys(records') = Called'
      <3>1. RecordKeys(given \cup more) = RecordKeys(given) \cup RecordKeys(more)
        BY KeysJoined
      <3> QED
        BY <2>2, <2>3, <3>1
    <2>5. OneEach(records')
      <3>1. RecordKeys(given) \cap RecordKeys(more) = {}
        BY <2>2
      <3>2. OneEach(given \cup more)
        BY <2>2, <3>1, OneEachJoined
      <3> QED
        BY <2>3, <3>2
    <2> QED
      BY <2>1, <2>3, <2>4, <2>5, FlowFinishes
  <1> QED
    BY <1>1, <1>2 DEF Synthesis

\* After a stage that ends the plan but for a synthesis.
LEMMA FlowThen ==
  ASSUME FlowInv, NEW s \in Stages, After(s), NEW given, ~plan.chain, Then(given), plan' = plan,
         given = records \cup StageOutputs, OneEach(given), records' = given \/ plan.synthesize,
         Called' = RecordKeys(given) \cup (IF plan.synthesize THEN {Synthesized} ELSE {}),
         Synthesized \notin RecordKeys(given)
  PROVE  FlowInv'
  <1>1. CASE plan.synthesize
    <2>1. Synthesis(given)
      BY <1>1 DEF Then
    <2>2. RecordKeys(given) \cup {Synthesized} = Called'
      BY <1>1
    <2> QED
      BY <1>1, <2>1, <2>2, FlowSynthesis
  <1>2. CASE ~plan.synthesize
    <2>1. Collect({}) /\ Finished
      BY <1>2 DEF Then
    <2>2. RecordKeys(records') = Called' /\ OneEach(records')
      BY <1>2
    <2> QED
      BY <2>1, <2>2, FlowFinishes
  <1> QED
    BY <1>1, <1>2

\* A first answer that succeeded, what a debate needs.
RunSucceeded == \E r \in records : r.stage = "run" /\ r.status = "success"

\* What is recorded after a stage besides its outputs is a synthesis that was not begun.
LEMMA ThenRecords ==
  ASSUME NEW given, Then(given)
  PROVE  /\ plan' = plan
         /\ \E more : /\ records' = records \cup StageOutputs \cup more
                      /\ \A r \in more : r.stage = "synthesis"
                      /\ plan.synthesize \/ more = {}
  <1> DEFINE none == {Record("synthesis", Synthesizer, "failed")}
  <1>1. \A r \in none : r.stage = "synthesis"
    BY DEF Record
  <1>2. Collect({}) \/ (Collect(none) /\ plan.synthesize)
    BY DEF Then, Synthesis
  <1> HIDE DEF none
  <1>3. CASE Collect({})
    BY <1>3 DEF Collect
  <1>4. CASE Collect(none) /\ plan.synthesize
    BY <1>1, <1>4 DEF Collect
  <1> QED
    BY <1>2, <1>3, <1>4

LEMMA FlowAfterRun ==
  ASSUME FlowInv, AfterRun
  PROVE  FlowInv'
  <1>0. After("run") /\ "run" \in Stages /\ "debate" \in Stages
    BY DEF AfterRun, Stages
  <1>1. ~plan.chain /\ Group = Invocations /\ records = {}
    BY <1>0, AfterOutputs DEF FlowInv, RunSoFar
  <1>2. /\ RecordKeys(StageOutputs) = {"run"} \X Invocations /\ OneEach(StageOutputs)
        /\ \A r \in StageOutputs : r.stage = "run"
        /\ StageOutputs \subseteq [stage : Stages, inv : Invocations, status : Statuses]
    BY <1>0, <1>1, AfterOutputs
  <1>3. CASE plan.debate /\ Successes(StageOutputs) # {}
    <2>1. Collect({}) /\ Enter("debate", Invocations, StageOutputs)
      BY <1>3 DEF AfterRun
    <2>2. /\ TypeOK' /\ EndedWhenReturned' /\ AllRecorded' /\ FinalSays'
          /\ stage' = "debate" /\ Group' = Invocations /\ sources' = StageOutputs /\ plan' = plan
          /\ records' = StageOutputs
      BY <1>0, <1>1, <1>2, <2>1, FlowEnters
    <2>3. DebateSoFar'
      BY <1>1, <1>2, <1>3, <2>2 DEF DebateSoFar, Successes
    <2>4. ChainSoFar' /\ RunSoFar' /\ SynthesisSoFar'
      BY <2>2 DEF ChainSoFar, RunSoFar, SynthesisSoFar
    <2> QED
      BY <2>2, <2>3, <2>4 DEF FlowInv
  <1>4. CASE ~(plan.debate /\ Successes(StageOutputs) # {})
    <2>1. Then(StageOutputs)
      BY <1>4 DEF AfterRun
    <2>2. PICK more : /\ records' = StageOutputs \cup more
                      /\ \A r \in more : r.stage = "synthesis"
                      /\ plan.synthesize \/ more = {}
      BY <1>1, <2>1, ThenRecords
    <2>3. plan' = plan
      BY <2>1, ThenRecords
    <2>4. ~(plan.debate /\ RunSucceeded')
      BY <1>4, <2>2 DEF RunSucceeded, Successes
    <2>5. Synthesizer' = Synthesizer
      BY <2>3, PlanKept
    <2>6. Called' = ({"run"} \X Invocations) \cup (IF plan.synthesize THEN {Synthesized} ELSE {})
      BY <1>1, <2>3, <2>4, <2>5 DEF Called, Synthesized, RunSucceeded
    <2>7. Synthesized \notin RecordKeys(StageOutputs)
      BY <1>2 DEF Synthesized
    <2>8. StageOutputs = records \cup StageOutputs
      BY <1>1
    <2> QED
      BY <1>0, <1>1, <1>2, <2>1, <2>2, <2>3, <2>6, <2>7, <2>8, FlowThen
  <1> QED
    BY <1>3, <1>4

LEMMA FlowAfterDebate ==
  ASSUME FlowInv, AfterDebate
  PROVE  FlowInv'
  <1>0. After("debate") /\ "debate" \in Stages
    BY DEF AfterDebate, Stages
  <1>1. /\ ~plan.chain /\ plan.debate /\ Group = Invocations
        /\ RecordKeys(records) = {"run"} \X Invocations /\ OneEach(records)
        /\ Successes(records) # {}
    BY <1>0, AfterOutputs DEF FlowInv, DebateSoFar
  <1>2. /\ RecordKeys(StageOutputs) = {"debate"} \X Invocations /\ OneEach(StageOutputs)
    BY <1>0, <1>1, AfterOutputs
  <1> DEFINE given == records \cup StageOutputs
  <1>3. Then(given)
    BY DEF AfterDebate
  <1>4. OneEach(given) /\ RecordKeys(given) = ({"run"} \X Invocations) \cup ({"debate"} \X Invocations)
    <2>1. RecordKeys(records) \cap RecordKeys(StageOutputs) = {}
      BY <1>1, <1>2
    <2>2. OneEach(given)
      BY <1>1, <1>2, <2>1, OneEachJoined
    <2>3. RecordKeys(given) = RecordKeys(records) \cup RecordKeys(StageOutputs)
      BY KeysJoined
    <2> QED
      BY <1>1, <1>2, <2>2, <2>3
  <1>5. RunSucceeded
    <2>1. PICK r \in records : r.status = "success"
      BY <1>1 DEF Successes
    <2>2. <<r.stage, r.inv>> \in {"run"} \X Invocations
      BY <1>1 DEF RecordKeys
    <2> QED
      BY <2>1, <2>2 DEF RunSucceeded
  <1> HIDE DEF given
  <1>6. PICK more : /\ records' = given \cup more
                    /\ \A r \in more : r.stage = "synthesis"
                    /\ plan.synthesize \/ more = {}
    BY <1>3, ThenRecords DEF given
  <1>7. plan' = plan
    BY <1>3, ThenRecords
  <1>8. RunSucceeded'
    BY <1>5, <1>6 DEF RunSucceeded, given
  <1>9. Synthesizer' = Synthesizer
    BY <1>7, PlanKept
  <1>10. Called' = RecordKeys(given) \cup (IF plan.synthesize THEN {Synthesized} ELSE {})
    BY <1>1, <1>4, <1>7, <1>8, <1>9 DEF Called, Synthesized, RunSucceeded
  <1>11. Synthesized \notin RecordKeys(given)
    BY <1>4 DEF Synthesized
  <1> QED
    BY <1>0, <1>1, <1>3, <1>4, <1>6, <1>7, <1>10, <1>11, FlowThen DEF given

LEMMA FlowAfterSynthesis ==
  ASSUME FlowInv, AfterSynthesis
  PROVE  FlowInv'
  <1>0. After("synthesis") /\ "synthesis" \in Stages /\ Collect({}) /\ Finished
    BY DEF AfterSynthesis, Stages
  <1>1. /\ ~plan.chain /\ plan.synthesize /\ Group = {Synthesizer}
        /\ RecordKeys(records) = Called \ {Synthesized} /\ OneEach(records)
    BY <1>0, AfterOutputs DEF FlowInv, SynthesisSoFar
  <1>2. /\ RecordKeys(StageOutputs) = {Synthesized} /\ OneEach(StageOutputs)
        /\ \A r \in StageOutputs : r.stage = "synthesis"
    BY <1>0, <1>1, AfterOutputs DEF Synthesized
  <1>3. records' = records \cup StageOutputs /\ plan' = plan
    BY <1>0 DEF Collect
  <1>4. Called' = Called
    <2>1. RunSucceeded' = RunSucceeded
      BY <1>2, <1>3 DEF RunSucceeded
    <2>2. Synthesizer' = Synthesizer
      BY <1>3, PlanKept
    <2> QED
      BY <1>3, <2>1, <2>2 DEF Called, RunSucceeded
  <1>5. Synthesized \in Called
    BY <1>1 DEF Called, Synthesized
  <1>6. RecordKeys(records') = Called'
    <2>1. RecordKeys(records \cup StageOutputs) = RecordKeys(records) \cup RecordKeys(StageOutputs)
      BY KeysJoined
    <2> QED
      BY <1>1, <1>2, <1>3, <1>4, <1>5, <2>1
  <1>7. OneEach(records')
    <2>1. RecordKeys(records) \cap RecordKeys(StageOutputs) = {}
      BY <1>1, <1>2
    <2>2. OneEach(records \cup StageOutputs)
      BY <1>1, <1>2, <2>1, OneEachJoined
    <2> QED
      BY <1>3, <2>2
  <1> QED
    BY <1>0, <1>6, <1>7, FlowFinishes

LEMMA FlowStep == FlowInv /\ [Next]_vars => FlowInv'
  <1> SUFFICES ASSUME FlowInv, [Next]_vars PROVE FlowInv'
    OBVIOUS
  <1>1. CASE UNCHANGED vars
    <2>1. UNCHANGED <<members, phase, begun, timely, ended, verdict, stopped, plan, stage, sources,
                      unread, records, root, final>>
      BY <1>1 DEF vars, stageVars, flowVars
    <2>2. Synthesizer' = Synthesizer /\ Called' = Called /\ Group' = Group
      BY <2>1, PlanKept DEF Group
    <2>3. TypeOK'
      BY <2>1 DEF FlowInv, TypeOK
    <2> QED
      BY <2>1, <2>2, <2>3 DEF FlowInv, EndedWhenReturned, ChainSoFar, RunSoFar, DebateSoFar,
         SynthesisSoFar, AllRecorded, FinalSays, Synthesized
  <1>2. CASE Next
    BY <1>2, FlowInStage, FlowReturns, FlowRaises, FlowFinish, FlowAfterChain, FlowAfterRun,
       FlowAfterDebate, FlowAfterSynthesis
    DEF Next, Progress
  <1> QED
    BY <1>1, <1>2

\* The invariant, for any invocations.
LEMMA FlowCorrect == Spec => []FlowInv
  BY FlowInvInit, FlowStep, PTL DEF Spec

-----------------------------------------------------------------------------
(* What a workflow returns *)

\* The variables of the workflow and of its stage stay in their ranges.
THEOREM TypeCorrect == Spec => []TypeOK
  <1>1. FlowInv => TypeOK
    BY DEF FlowInv
  <1> QED
    BY FlowCorrect, <1>1, PTL

\* Each later stage is shown whole stages that are on record; in a chain an invocation is
\* shown the success before it, and the first one nothing.
THEOREM StagesSeeWholeStages == Spec => []SourcesWhole
  <1>1. ASSUME FlowInv, stage \in {"debate", "synthesis"}
        PROVE  /\ {<<r.stage, r.inv>> : r \in sources} =
                    (IF stage = "debate" THEN {"run"} \X Invocations
                     ELSE Called \ {<<"synthesis", Synthesizer>>})
               /\ sources \subseteq records
    BY <1>1 DEF FlowInv, DebateSoFar, SynthesisSoFar, RecordKeys, Synthesized
  <1>2. ASSUME FlowInv, stage = "chain", NEW k \in DOMAIN Order, Order[k] \in members \cup unread
        PROVE  sources = (IF k = 1 THEN {} ELSE {Record("chain", Order[k - 1], "success")})
    <2>1. PICK m \in 1..Len(Order) :
            /\ Group = {Order[m]}
            /\ sources = (IF m = 1 THEN {} ELSE {Record("chain", Order[m - 1], "success")})
      BY <1>2 DEF FlowInv, ChainSoFar
    <2>2. Order[k] = Order[m] /\ k \in 1..Len(Order)
      BY <1>2, <2>1, Places DEF Group
    <2>3. k = m
      BY <2>2, Places
    <2> QED
      BY <2>1, <2>3
  <1>3. FlowInv => SourcesWhole
    BY <1>1, <1>2 DEF SourcesWhole
  <1> QED
    BY FlowCorrect, <1>3, PTL

\* An invocation is begun in a later stage only on top of a success it was shown, in a chain
\* only if all before it succeeded, whatever the order and the length of the chain.
THEOREM StagesBuildOnSuccess == Spec => []BuiltOnSuccess
  <1>1. ASSUME FlowInv PROVE BuiltOnSuccess
    <2> SUFFICES ASSUME begun # {} PROVE
          /\ stage \in {"debate", "synthesis"} => Successes(sources) # {}
          /\ stage = "chain" => \A i \in Invocations :
               members \subseteq Following(i) => Record("chain", i, "success") \in records
      BY DEF BuiltOnSuccess
    <2>1. stage \in {"debate", "synthesis"} => Successes(sources) # {}
      BY <1>1 DEF FlowInv, DebateSoFar, SynthesisSoFar
    <2>2. ASSUME stage = "chain", NEW i \in Invocations, members \subseteq Following(i)
          PROVE  Record("chain", i, "success") \in records
      <3>1. PICK k \in 1..Len(Order) :
              /\ Group = {Order[k]}
              /\ records = {Record("chain", Order[m], "success") : m \in 1..(k - 1)}
        BY <1>1, <2>2 DEF FlowInv, ChainSoFar
      <3>2. members = {Order[k]}
        BY <1>1, <3>1 DEF FlowInv, TypeOK, Group
      <3>3. PICK j \in 1..Len(Order) : Order[j] = i
        BY Places
      <3>4. PICK m \in (j + 1)..Len(Order) : Order[m] = Order[k]
        <4>1. Following(i) = {Order[m] : m \in (j + 1)..Len(Order)}
          BY <3>3, FollowingAt
        <4>2. Order[k] \in Following(i)
          BY <2>2, <3>2
        <4> QED
          BY <4>1, <4>2
      <3>5. j \in 1..(k - 1)
        BY <3>4, Places
      <3> QED
        BY <3>1, <3>3, <3>5
    <2> QED
      BY <2>1, <2>2
  <1> QED
    BY FlowCorrect, <1>1, PTL

\* Records with a key each are as many as their keys.
LEMMA OneKeyEach ==
  ASSUME NEW rs, IsFiniteSet(rs), OneEach(rs)
  PROVE  Cardinality(RecordKeys(rs)) = Cardinality(rs)
  <1> DEFINE f == [r \in rs |-> <<r.stage, r.inv>>]
  <1>1. f \in [rs -> RecordKeys(rs)]
    BY DEF RecordKeys
  <1>2. \A r, t \in rs : f[r] = f[t] => r = t
    BY DEF OneEach
  <1>3. \A key \in RecordKeys(rs) : \E r \in rs : f[r] = key
    BY DEF RecordKeys
  <1> HIDE DEF f
  <1>4. ExistsBijection(rs, RecordKeys(rs))
    BY <1>1, <1>2, <1>3 DEF ExistsBijection, Bijection, Injection, Surjection, IsInjective
  <1> QED
    BY <1>4, FS_Bijection

LEMMA FourAreFinite ==
  ASSUME NEW a, NEW b, NEW c, NEW d
  PROVE  IsFiniteSet({a, b, c, d})
  <1>1. IsFiniteSet({a})
    BY FS_Singleton
  <1>2. IsFiniteSet({a} \cup {b})
    BY <1>1, FS_AddElement
  <1>3. IsFiniteSet(({a} \cup {b}) \cup {c})
    BY <1>2, FS_AddElement
  <1>4. IsFiniteSet((({a} \cup {b}) \cup {c}) \cup {d})
    BY <1>3, FS_AddElement
  <1>5. (({a} \cup {b}) \cup {c}) \cup {d} = {a, b, c, d}
    OBVIOUS
  <1> QED
    BY <1>4, <1>5

\* The records are finitely many.
LEMMA RecordsFinite ==
  ASSUME FlowInv
  PROVE  IsFiniteSet(records)
  <1>1. IsFiniteSet(Invocations)
    <2>1. Order \in [1..Len(Order) -> Invocations] /\ Len(Order) \in Nat
      BY OrderAssumption
    <2>2. IsFiniteSet(1..Len(Order))
      BY <2>1, FS_Interval
    <2>3. Order \in Surjection(1..Len(Order), Invocations)
      BY <2>1, Places DEF Surjection
    <2> QED
      BY <2>2, <2>3, FS_Surjection
  <1>2. IsFiniteSet(Stages) /\ IsFiniteSet(Statuses)
    BY FourAreFinite DEF Stages, Statuses
  <1>3. IsFiniteSet((Stages \X Invocations) \X Statuses)
    BY <1>1, <1>2, FS_Product
  <1> DEFINE f == [r \in records |-> <<<<r.stage, r.inv>>, r.status>>]
  <1>4. f \in Injection(records, (Stages \X Invocations) \X Statuses)
    <2>1. records \subseteq [stage : Stages, inv : Invocations, status : Statuses]
      BY DEF FlowInv, TypeOK
    <2>2. f \in [records -> (Stages \X Invocations) \X Statuses]
      BY <2>1
    <2>3. \A r, t \in records : f[r] = f[t] => r = t
      BY <2>1
    <2> QED
      BY <2>2, <2>3 DEF Injection, IsInjective
  <1> QED
    BY <1>3, <1>4, FS_Injection

\* A workflow that returns has exactly the records its plan calls for, one each, and it is
\* complete only if every one of them is a success, for any list of invocations.
THEOREM NoInvocationDropped == Spec => []NothingDropped
  <1>1. ASSUME FlowInv PROVE NothingDropped
    <2> SUFFICES ASSUME final \in Verdicts PROVE
          /\ {<<r.stage, r.inv>> : r \in records} = Called
          /\ Cardinality(records) = Cardinality(Called)
          /\ final = "complete" <=> Cardinality(Successes(records)) = Cardinality(Called)
      BY DEF NothingDropped
    <2>1. stage = "finish" /\ final # "raised"
      BY <1>1 DEF FlowInv, FinalSays, Verdicts, TypeOK, Stages
    <2>2. RecordKeys(records) = Called /\ OneEach(records)
      BY <1>1, <2>1 DEF FlowInv, AllRecorded
    <2>3. IsFiniteSet(records)
      BY <1>1, RecordsFinite
    <2>4. Cardinality(records) = Cardinality(Called)
      BY <2>2, <2>3, OneKeyEach
    <2>5. final = "complete" <=> Successes(records) = records
      <3>1. final = Judge({r.status : r \in records})
        BY <1>1 DEF FlowInv, FinalSays
      <3>2. final = "complete" <=> {r.status : r \in records} \subseteq {"success"}
        BY <3>1 DEF Judge
      <3> QED
        BY <3>2 DEF Successes
    <2>6. Cardinality(Successes(records)) = Cardinality(records) => Successes(records) = records
      <3>1. Successes(records) \in SUBSET records
        BY DEF Successes
      <3> QED
        BY <2>3, <3>1, FS_Subset
    <2> QED
      BY <2>2, <2>4, <2>5, <2>6 DEF RecordKeys
  <1> QED
    BY FlowCorrect, <1>1, PTL

-----------------------------------------------------------------------------
(* What the root says *)

\* The root is written when the stage "run" returns: it lists what is on record by then,
\* and without a success there nothing later becomes one.
RootSays ==
    root # None /\ final \notin Verdicts =>
        /\ ~plan.chain
        /\ root.status = Judge({r.status : r \in root.outputs}) /\ root.outputs # {}
        /\ stage = "run" => phase = "returned" /\ root.outputs = StageOutputs
        /\ stage # "run" => /\ root.outputs \subseteq records
                            /\ Successes(root.outputs) = {} => Successes(records) = {}

RootKept ==
    root # None =>
        /\ Successes(root.outputs) \subseteq Successes(root'.outputs)
        /\ root'.status \in {root.status} \cup (IF root.status = "complete" THEN {"partial"} ELSE {})

\* More outcomes can only spoil a complete verdict, unless the first success comes late.
LEMMA JudgeOfMore ==
  ASSUME NEW few, NEW many, few \subseteq many, few # {}, "success" \in many => "success" \in few
  PROVE  Judge(many) \in {Judge(few)} \cup (IF Judge(few) = "complete" THEN {"partial"} ELSE {})
  <1>1. CASE few \subseteq {"success"}
    BY <1>1 DEF Judge
  <1>2. CASE ~(few \subseteq {"success"})
    BY <1>2 DEF Judge
  <1> QED
    BY <1>1, <1>2

\* What follows a stage is recorded on top of what there is; of an invocation that is not
\* run a failure.
LEMMA RecordedAfter ==
  ASSUME NEW s \in {"run", "debate", "synthesis"}, After(s), AfterRun \/ AfterDebate \/ AfterSynthesis
  PROVE  /\ UNCHANGED <<plan, root, final>> /\ stage' # "run" /\ final = "none"
         /\ \E more : /\ records' = (records \cup StageOutputs) \cup more
                      /\ \A r \in more : r.status = "failed"
  <1> DEFINE none == {Record("synthesis", Synthesizer, "failed")}
  <1>1. \A r \in none : r.status = "failed"
    BY DEF Record
  <1>2. (Collect({}) \/ Collect(none)) /\ stage' # "run"
    BY DEF AfterRun, AfterDebate, AfterSynthesis, Then, Synthesis, Enter, Finished
  <1> HIDE DEF none
  <1>3. UNCHANGED <<plan, root, final>> /\ final = "none"
    BY <1>2 DEF Collect, After
  <1>4. \E more : /\ records' = (records \cup StageOutputs) \cup more
                  /\ \A r \in more : r.status = "failed"
    <2>1. CASE Collect({})
      <3>1. PICK more : more = {}
        OBVIOUS
      <3>2. records' = (records \cup StageOutputs) \cup more
        BY <2>1, <3>1 DEF Collect
      <3>3. \A r \in more : r.status = "failed"
        BY <3>1
      <3> QED
        BY <3>2, <3>3
    <2>2. CASE Collect(none)
      BY <1>1, <2>2 DEF Collect
    <2> QED
      BY <1>2, <2>1, <2>2
  <1> QED
    BY <1>2, <1>3, <1>4

\* No step makes the root say less than it did, and what it says stays on record.
LEMMA RootStep ==
  ASSUME FlowInv, RootSays, [Next]_vars
  PROVE  RootSays' /\ RootKept
  <1>1. ASSUME UNCHANGED root PROVE RootKept
    BY <1>1 DEF RootKept
  <1>2. ASSUME UNCHANGED <<plan, stage, records, root, final, phase, ended, members, unread>>
        PROVE  RootSays' /\ RootKept
    <2>1. StageOutputs' = StageOutputs
      BY <1>2 DEF StageOutputs
    <2> QED
      BY <1>1, <1>2, <2>1 DEF RootSays
  <1>3. ASSUME UNCHANGED <<plan, root, final, records>>, stage # "run", stage' # "run"
        PROVE  RootSays' /\ RootKept
    BY <1>1, <1>3 DEF RootSays
  <1>4. CASE InStage
    <2>1. /\ UNCHANGED <<plan, stage, sources, unread, records, root, final, members, phase>>
          /\ phase = "returned" => ended' = ended
      BY <1>4 DEF InStage, flowVars, Stop, stageVars, Conclude, Begin, StartProvider
    <2>2. CASE phase = "returned"
      BY <1>2, <2>1, <2>2
    <2>3. CASE phase # "returned" /\ stage # "run"
      BY <1>3, <2>1, <2>3
    <2>4. CASE phase # "returned" /\ stage = "run"
      BY <1>1, <2>1, <2>4 DEF RootSays
    <2> QED
      BY <2>2, <2>3, <2>4
  <1>5. CASE StageReturns
    <2>1. /\ UNCHANGED <<plan, stage, sources, unread, records, final, members, ended>>
          /\ stage \in Stages /\ phase = "running" /\ phase' = "returned"
          /\ verdict' = Judge({ended[i] : i \in members})
      BY <1>5 DEF StageReturns, Return
    <2>2. CASE stage # "run"
      <3>1. root' = root
        BY <1>5, <2>2 DEF StageReturns
      <3> QED
        BY <1>3, <2>1, <2>2, <3>1
    <2>3. CASE stage = "run"
      <3> DEFINE outs == {Record(stage, i, ended[i]) : i \in members}
      <3>1. root' = [status |-> verdict', outputs |-> outs]
        BY <1>5, <2>3 DEF StageReturns
      <3>2. ~plan.chain /\ members = Invocations /\ unread = {}
        BY <2>3 DEF FlowInv, RunSoFar, Group
      <3>3. StageOutputs = outs
        BY <3>2 DEF StageOutputs
      <3>4. outs # {}
        BY <3>2, Places
      <3>5. \A i : Record(stage, i, ended[i]).status = ended[i]
        BY DEF Record
      <3>6. {r.status : r \in outs} = {ended[i] : i \in members}
        BY <3>5
      <3>7. StageOutputs' = StageOutputs
        BY <2>1 DEF StageOutputs
      <3>8. final \notin Verdicts => root = None
        BY <2>1, <2>3 DEF RootSays
      <3>9. final \notin Verdicts
        BY <2>1 DEF FlowInv, FinalSays, Verdicts
      <3> HIDE DEF outs
      <3>10. root'.status = Judge({r.status : r \in root'.outputs}) /\ root'.outputs = outs
        BY <2>1, <3>1, <3>6
      <3>11. RootSays'
        BY <2>1, <2>3, <3>2, <3>3, <3>4, <3>7, <3>10 DEF RootSays
      <3> QED
        BY <3>8, <3>9, <3>11 DEF RootKept
    <2> QED
      BY <2>2, <2>3
  <1>6. CASE StageRaises
    <2>1. /\ stage \in Stages /\ phase = "running" /\ stage' = "finish"
          /\ UNCHANGED <<plan, root, records>>
      BY <1>6 DEF StageRaises
    <2>2. final = "none"
      BY <2>1 DEF FlowInv, FinalSays
    <2>3. final \notin Verdicts
      BY <2>2 DEF Verdicts
    <2>4. CASE root = None
      BY <1>1, <2>1, <2>4 DEF RootSays
    <2>5. CASE root # None
      <3>1. stage # "run" /\ stage' # "run"
        BY <2>1, <2>3, <2>5 DEF RootSays
      <3>2. /\ ~plan.chain /\ root.status = Judge({r.status : r \in root.outputs})
            /\ root.outputs # {} /\ root.outputs \subseteq records
            /\ Successes(root.outputs) = {} => Successes(records) = {}
        BY <2>3, <2>5, <3>1 DEF RootSays
      <3>3. Successes(records)' = Successes(records)
        BY <2>1 DEF Successes
      <3> QED
        BY <1>1, <2>1, <3>1, <3>2, <3>3 DEF RootSays, Successes
    <2> QED
      BY <2>4, <2>5
  <1>7. CASE AfterChain
    <2>1. stage = "chain" /\ final = "none" /\ UNCHANGED root
      BY <1>7 DEF AfterChain, After, Collect
    <2>2. plan.chain
      BY <2>1 DEF FlowInv, ChainSoFar
    <2>3. root = None
      BY <2>1, <2>2 DEF RootSays, Verdicts
    <2> QED
      BY <1>1, <2>1, <2>3 DEF RootSays
  <1>8. CASE AfterRun \/ AfterDebate \/ AfterSynthesis
    <2>1. PICK s \in {"run", "debate", "synthesis"} : After(s)
      BY <1>8 DEF AfterRun, AfterDebate, AfterSynthesis
    <2>2. UNCHANGED <<plan, root, final>> /\ stage' # "run" /\ final = "none"
      BY <1>8, <2>1, RecordedAfter
    <2>3. PICK more : /\ records' = (records \cup StageOutputs) \cup more
                      /\ \A r \in more : r.status = "failed"
      BY <1>8, <2>1, RecordedAfter
    <2>4. final \notin Verdicts
      BY <2>2 DEF Verdicts
    <2>5. CASE root = None
      BY <1>1, <2>2, <2>5 DEF RootSays
    <2>6. CASE root # None
      <3>1. /\ ~plan.chain /\ root.status = Judge({r.status : r \in root.outputs})
            /\ root.outputs # {}
        BY <2>4, <2>6 DEF RootSays
      <3>2. root.outputs \subseteq records'
        BY <2>3, <2>4, <2>6 DEF RootSays
      <3>3. ASSUME Successes(root.outputs) = {}, NEW r \in records', r.status = "success"
            PROVE  FALSE
        <4>1. r \notin more
          BY <2>3, <3>3
        <4>2. CASE stage = "run"
          <5>1. records = {} /\ root.outputs = StageOutputs
            BY <2>4, <2>6, <4>2 DEF RootSays, FlowInv, RunSoFar
          <5> QED
            BY <2>3, <3>3, <4>1, <5>1 DEF Successes
        <4>3. CASE stage # "run"
          <5>1. stage \in {"debate", "synthesis"}
            BY <2>1, <4>3 DEF After
          <5>2. Successes(records) # {}
            BY <5>1 DEF FlowInv, DebateSoFar, SynthesisSoFar
          <5> QED
            BY <2>4, <2>6, <3>3, <4>3, <5>2 DEF RootSays
        <4> QED
          BY <4>2, <4>3
      <3>4. Successes(root.outputs) = {} => Successes(records') = {}
        BY <3>3 DEF Successes
      <3>5. RootSays'
        BY <2>2, <3>1, <3>2, <3>4 DEF RootSays, Successes
      <3> QED
        BY <1>1, <2>2, <3>5
    <2> QED
      BY <2>5, <2>6
  <1>9. CASE Finish
    <2>1. /\ stage = "finish" /\ final = "none" /\ final' = Judge({r.status : r \in records})
          /\ root' = [status |-> final', outputs |-> records] /\ UNCHANGED plan
      BY <1>9 DEF Finish
    <2>2. final' \in Verdicts /\ final \notin Verdicts
      BY <2>1 DEF Judge, Verdicts
    <2>3. RootSays'
      BY <2>2 DEF RootSays, Verdicts
    <2>4. ASSUME root # None
          PROVE  /\ Successes(root.outputs) \subseteq Successes(records)
                 /\ final' \in {root.status} \cup (IF root.status = "complete" THEN {"partial"} ELSE {})
      <3>1. /\ root.status = Judge({r.status : r \in root.outputs}) /\ root.outputs # {}
            /\ root.outputs \subseteq records
            /\ Successes(root.outputs) = {} => Successes(records) = {}
        BY <2>1, <2>2, <2>4 DEF RootSays
      <3>2. Successes(root.outputs) \subseteq Successes(records)
        BY <3>1 DEF Successes
      <3> DEFINE few == {r.status : r \in root.outputs}
                 many == {r.status : r \in records}
      <3>3. few \subseteq many /\ few # {} /\ ("success" \in many => "success" \in few)
        BY <3>1 DEF Successes
      <3> HIDE DEF few, many
      <3>4. Judge(many) \in {Judge(few)} \cup (IF Judge(few) = "complete" THEN {"partial"} ELSE {})
        BY <3>3, JudgeOfMore
      <3> QED
        BY <2>1, <3>1, <3>2, <3>4 DEF few, many
    <2>5. RootKept
      BY <2>1, <2>4 DEF RootKept
    <2> QED
      BY <2>3, <2>5
  <1>10. CASE UNCHANGED vars
    BY <1>2, <1>10 DEF vars, stageVars, flowVars
  <1> QED
    BY <1>4, <1>5, <1>6, <1>7, <1>8, <1>9, <1>10 DEF Next, Progress

\* What the root says of the first stage is not taken back by what follows, be it that the
\* workflow goes on, returns, or ends with an exception.
THEOREM RootStandsByItsWord == Spec => RootKeepsItsWord
  <1>1. Init => RootSays
    BY DEF Init, RootSays
  <1>2. FlowInv /\ RootSays /\ [Next]_vars => RootSays'
    BY RootStep
  <1>3. FlowInv /\ RootSays /\ [Next]_vars => [RootKept]_vars
    BY RootStep
  <1> QED
    BY FlowCorrect, <1>1, <1>2, <1>3, PTL DEF Spec, RootKeepsItsWord, RootKept

-----------------------------------------------------------------------------
(* AnswerStream: the texts of an answer joined *)

\* f joins the first n texts of ts, one after the other.
Joins(f, ts, n) == f = [i \in 1..n |-> IF i = 1 THEN ts[i] ELSE f[i - 1] \o ts[i]]

\* FlattenSeq joins the texts one by one.
LEMMA JoinIs ==
  ASSUME NEW ts, Len(ts) # 0
  PROVE  FlattenSeq(ts) = (CHOOSE f : Joins(f, ts, Len(ts)))[Len(ts)]
  BY DEF FlattenSeq, Joins

\* Every text is joined to those before it.
LEMMA JoinsAt ==
  ASSUME NEW f, NEW ts, NEW n \in Nat, Joins(f, ts, n)
  PROVE  \A i \in 1..n : f[i] = IF i = 1 THEN ts[i] ELSE f[i - 1] \o ts[i]
  BY DEF Joins

\* What joins n texts can be carried on to one more,
LEMMA JoinsExtend ==
  ASSUME NEW f, NEW ts, NEW n \in Nat, n >= 1, Joins(f, ts, n)
  PROVE  \E g : Joins(g, ts, n + 1)
  <1> DEFINE g == [i \in 1..(n + 1) |-> IF i = n + 1 THEN f[n] \o ts[i] ELSE f[i]]
  <1>1. \A i \in 1..n : f[i] = IF i = 1 THEN ts[i] ELSE f[i - 1] \o ts[i]
    BY JoinsAt
  <1>2. \A i \in 1..(n + 1) : g[i] = IF i = 1 THEN ts[i] ELSE g[i - 1] \o ts[i]
    <2> TAKE i \in 1..(n + 1)
    <2>1. CASE i = n + 1
      <3>1. i - 1 = n /\ n \in 1..(n + 1) /\ n # n + 1 /\ i # 1
        BY <2>1
      <3> QED BY <2>1, <3>1
    <2>2. CASE i # n + 1 /\ i # 1
      <3>1. i \in 1..n /\ i - 1 \in 1..(n + 1) /\ i - 1 # n + 1
        BY <2>2
      <3> QED BY <1>1, <2>2, <3>1
    <2>3. CASE i # n + 1 /\ i = 1
      BY <1>1, <2>3
    <2> QED BY <2>1, <2>2, <2>3
  <1>3. g = [i \in 1..(n + 1) |-> g[i]]
    OBVIOUS
  <1> HIDE DEF g
  <1>4. Joins(g, ts, n + 1)
    BY <1>2, <1>3 DEF Joins
  <1> QED BY <1>4

\* so that every number of texts can be joined.
LEMMA JoinsExists ==
  ASSUME NEW ts, NEW n \in Nat, n >= 1
  PROVE  \E f : Joins(f, ts, n)
  <1> DEFINE T == {k \in Nat : k >= 1 /\ ~ \E f : Joins(f, ts, k)}
  <1>1. SUFFICES ASSUME T # {} PROVE FALSE
    OBVIOUS
  <1>2. T \subseteq Nat
    OBVIOUS
  <1>3. PICK m \in T : \A k \in T : m <= k
    BY <1>1, <1>2, LeastNumber
  <1>4. Joins([i \in 1..1 |-> ts[i]], ts, 1)
    BY DEF Joins
  <1>5. m \in Nat /\ m # 1 /\ m >= 1
    BY <1>4
  <1>6. m - 1 \in Nat /\ m - 1 >= 1 /\ ~(m - 1 \in T)
    BY <1>3, <1>5
  <1>7. PICK f : Joins(f, ts, m - 1)
    BY <1>6
  <1>8. \E g : Joins(g, ts, (m - 1) + 1)
    BY <1>6, <1>7, JoinsExtend
  <1>9. (m - 1) + 1 = m
    BY <1>5
  <1> QED
    BY <1>8, <1>9

\* Two that join texts with a common beginning agree on it.
LEMMA JoinsAgree ==
  ASSUME NEW f, NEW g, NEW ts, NEW us, NEW n \in Nat, NEW m \in Nat, n <= m,
         Joins(f, ts, n), Joins(g, us, m), \A i \in 1..n : ts[i] = us[i]
  PROVE  \A i \in 1..n : f[i] = g[i]
  <1> DEFINE T == {k \in 1..n : f[k] # g[k]}
  <1>1. SUFFICES ASSUME T # {} PROVE FALSE
    OBVIOUS
  <1>2. T \subseteq Nat
    OBVIOUS
  <1>3. PICK k \in T : \A l \in T : k <= l
    BY <1>1, <1>2, LeastNumber
  <1>4. \A i \in 1..n : f[i] = IF i = 1 THEN ts[i] ELSE f[i - 1] \o ts[i]
    BY JoinsAt
  <1>5. \A i \in 1..m : g[i] = IF i = 1 THEN us[i] ELSE g[i - 1] \o us[i]
    BY JoinsAt
  <1>6. k \in 1..n /\ k \in 1..m
    OBVIOUS
  <1>7. k # 1
    BY <1>4, <1>5, <1>6
  <1>8. k - 1 \in 1..n /\ ~(k - 1 \in T)
    BY <1>3, <1>6, <1>7
  <1>9. f[k - 1] = g[k - 1]
    BY <1>8
  <1>10. f[k] = g[k]
    BY <1>4, <1>5, <1>6, <1>7, <1>9
  <1> QED
    BY <1>10

\* Joined texts are texts.
LEMMA JoinsType ==
  ASSUME NEW f, NEW S, NEW ts \in Seq(Seq(S)), Joins(f, ts, Len(ts))
  PROVE  \A i \in 1..Len(ts) : f[i] \in Seq(S)
  <1> DEFINE T == {k \in 1..Len(ts) : ~(f[k] \in Seq(S))}
  <1>1. SUFFICES ASSUME T # {} PROVE FALSE
    OBVIOUS
  <1>2. T \subseteq Nat
    OBVIOUS
  <1>3. PICK k \in T : \A l \in T : k <= l
    BY <1>1, <1>2, LeastNumber
  <1>4. Len(ts) \in Nat /\ \A i \in 1..Len(ts) : ts[i] \in Seq(S)
    BY LenProperties, ElementOfSeq
  <1>5. \A i \in 1..Len(ts) : f[i] = IF i = 1 THEN ts[i] ELSE f[i - 1] \o ts[i]
    BY <1>4, JoinsAt
  <1>6. k \in 1..Len(ts) /\ k # 1
    BY <1>4, <1>5
  <1>7. k - 1 \in 1..Len(ts) /\ ~(k - 1 \in T)
    BY <1>3, <1>4, <1>6
  <1>8. f[k - 1] \in Seq(S) /\ ts[k] \in Seq(S)
    BY <1>4, <1>6, <1>7
  <1>9. f[k - 1] \o ts[k] \in Seq(S)
    BY <1>8, ConcatProperties
  <1>10. f[k] \in Seq(S)
    BY <1>5, <1>6, <1>9
  <1> QED
    BY <1>10

\* No texts make no text.
LEMMA FlattenEmpty == FlattenSeq(<<>>) = <<>>
  BY DEF FlattenSeq

\* What FlattenSeq joins all texts with.
LEMMA FlattenOf ==
  ASSUME NEW S, NEW ts \in Seq(Seq(S)), Len(ts) # 0
  PROVE  \E f : Joins(f, ts, Len(ts)) /\ FlattenSeq(ts) = f[Len(ts)]
  <1>1. Len(ts) \in Nat /\ Len(ts) >= 1
    BY LenProperties
  <1>2. \E f : Joins(f, ts, Len(ts))
    BY <1>1, JoinsExists
  <1> DEFINE g == CHOOSE f : Joins(f, ts, Len(ts))
  <1>3. Joins(g, ts, Len(ts))
    BY <1>2
  <1>4. FlattenSeq(ts) = g[Len(ts)]
    BY JoinIs
  <1> HIDE DEF g
  <1> QED BY <1>3, <1>4

\* Texts joined are a text.
LEMMA FlattenType ==
  ASSUME NEW S, NEW ts \in Seq(Seq(S))
  PROVE  FlattenSeq(ts) \in Seq(S)
  <1>1. CASE Len(ts) = 0
    <2>1. ts = <<>>
      BY <1>1, EmptySeq
    <2>2. <<>> \in Seq(S)
      BY EmptySeq
    <2> QED BY <2>1, <2>2, FlattenEmpty
  <1>2. CASE Len(ts) # 0
    <2>1. PICK f : Joins(f, ts, Len(ts)) /\ FlattenSeq(ts) = f[Len(ts)]
      BY <1>2, FlattenOf
    <2>2. Len(ts) \in 1..Len(ts)
      BY <1>2, LenProperties
    <2> QED BY <2>1, <2>2, JoinsType
  <1> QED BY <1>1, <1>2

\* Of one text more it makes the text before with that one behind it.
LEMMA FlattenAppend ==
  ASSUME NEW S, NEW ts \in Seq(Seq(S)), NEW t \in Seq(S)
  PROVE  FlattenSeq(Append(ts, t)) = FlattenSeq(ts) \o t
  <1> DEFINE us == Append(ts, t)
             n == Len(ts)
  <1>1. us \in Seq(Seq(S)) /\ Len(us) = n + 1 /\ us[n + 1] = t /\ n \in Nat
        /\ \A i \in 1..n : us[i] = ts[i]
    BY AppendProperties, LenProperties
  <1> HIDE DEF us
  <1>2. PICK g : Joins(g, us, n + 1) /\ FlattenSeq(us) = g[n + 1]
    BY <1>1, FlattenOf
  <1>3. \A i \in 1..(n + 1) : g[i] = IF i = 1 THEN us[i] ELSE g[i - 1] \o us[i]
    <2>1. n + 1 \in Nat
      BY <1>1
    <2> QED BY <1>2, <2>1, JoinsAt
  <1>4. CASE n = 0
    <2>1. ts = <<>>
      BY <1>4, EmptySeq
    <2>2. g[n + 1] = t
      BY <1>1, <1>3, <1>4
    <2>3. <<>> \o t = t
      BY ConcatEmptySeq
    <2> QED BY <1>2, <2>1, <2>2, <2>3, FlattenEmpty DEF us
  <1>5. CASE n # 0
    <2>1. PICK f : Joins(f, ts, n) /\ FlattenSeq(ts) = f[n]
      BY <1>5, FlattenOf
    <2>2. f[n] = g[n]
      <3>1. n <= n + 1 /\ n + 1 \in Nat /\ n \in Nat /\ n \in 1..n
        BY <1>1, <1>5
      <3>2. \A i \in 1..n : ts[i] = us[i]
        BY <1>1
      <3>3. Joins(f, ts, n) /\ Joins(g, us, n + 1)
        BY <1>2, <2>1
      <3> HIDE DEF n
      <3>4. \A i \in 1..n : f[i] = g[i]
        BY <3>1, <3>2, <3>3, JoinsAgree
      <3> QED BY <3>1, <3>4
    <2>3. g[n + 1] = g[n] \o t
      <3>1. n + 1 \in 1..(n + 1) /\ n + 1 # 1 /\ (n + 1) - 1 = n
        BY <1>1, <1>5
      <3> QED BY <1>1, <1>3, <3>1
    <2> QED BY <1>2, <2>1, <2>2, <2>3 DEF us
  <1> QED BY <1>4, <1>5

-----------------------------------------------------------------------------
(* Texts that begin and end as others *)

\* A sequence that begins as another is that one with the rest behind it.
LEMMA RestOf ==
  ASSUME NEW S, NEW s \in Seq(S), NEW t \in Seq(S), IsPrefix(s, t)
  PROVE  /\ SubSeq(t, Len(s) + 1, Len(t)) \in Seq(S)
         /\ t = s \o SubSeq(t, Len(s) + 1, Len(t))
  <1>1. Len(s) \in Nat /\ Len(t) \in Nat /\ Len(s) <= Len(t)
    BY LenProperties DEF IsPrefix
  <1>2. SubSeq(s, 1, Len(s)) = SubSeq(t, 1, Len(s))
    BY DEF IsPrefix
  <1>3. \A i \in 1..Len(s) : s[i] = t[i]
    <2>1. SubSeq(s, 1, Len(s)) = s
      BY SubSeqFull
    <2>2. \A i \in 1..Len(s) : SubSeq(t, 1, Len(s))[i] = t[i]
      BY <1>1, SubSeqProperties
    <2> QED BY <1>2, <2>1, <2>2
  <1> DEFINE u == SubSeq(t, Len(s) + 1, Len(t))
  <1>4. /\ u \in Seq(S) /\ Len(u) = Len(t) - Len(s)
        /\ \A i \in 1..Len(u) : u[i] = t[Len(s) + i]
    BY <1>1, SubSeqProperties
  <1> HIDE DEF u
  <1>5. /\ s \o u \in Seq(S) /\ Len(s \o u) = Len(t)
        /\ \A i \in 1..Len(t) : (s \o u)[i] = IF i <= Len(s) THEN s[i] ELSE u[i - Len(s)]
    BY <1>1, <1>4, ConcatProperties
  <1>6. \A i \in 1..Len(t) : t[i] = (s \o u)[i]
    <2> TAKE i \in 1..Len(t)
    <2>1. CASE i <= Len(s)
      BY <1>1, <1>3, <1>5, <2>1
    <2>2. CASE ~(i <= Len(s))
      <3>1. i - Len(s) \in 1..Len(u) /\ Len(s) + (i - Len(s)) = i
        BY <1>1, <1>4, <2>2
      <3> QED BY <1>4, <1>5, <2>2, <3>1
    <2> QED BY <2>1, <2>2
  <1>7. t = s \o u
    BY <1>5, <1>6, SeqEqual
  <1> QED BY <1>4, <1>7 DEF u

\* What is put behind a sequence leaves its beginning.
LEMMA PrefixOfConcat ==
  ASSUME NEW S, NEW s \in Seq(S), NEW u \in Seq(S)
  PROVE  IsPrefix(s, s \o u)
  <1>1. /\ s \o u \in Seq(S) /\ Len(s \o u) = Len(s) + Len(u)
        /\ \A i \in 1..Len(s) : (s \o u)[i] = s[i]
    BY ConcatProperties, LenProperties
  <1>2. Len(s) \in Nat /\ Len(u) \in Nat
    BY LenProperties
  <1> DEFINE t == s \o u
  <1> HIDE DEF t
  <1>3. t \in Seq(S) /\ Len(s) <= Len(t) /\ \A i \in 1..Len(s) : t[i] = s[i]
    BY <1>1, <1>2 DEF t
  <1>4. /\ SubSeq(t, 1, Len(s)) \in Seq(S) /\ Len(SubSeq(t, 1, Len(s))) = Len(s)
        /\ \A i \in 1..Len(s) : SubSeq(t, 1, Len(s))[i] = t[i]
    BY <1>2, <1>3, LenProperties, SubSeqProperties
  <1>5. SubSeq(t, 1, Len(s)) = s
    BY <1>3, <1>4, SeqEqual
  <1>6. SubSeq(s, 1, Len(s)) = s
    BY SubSeqFull
  <1> QED BY <1>3, <1>5, <1>6 DEF IsPrefix, t

\* A beginning stays one when more is put behind.
LEMMA PrefixGrows ==
  ASSUME NEW S, NEW s \in Seq(S), NEW t \in Seq(S), NEW u \in Seq(S), IsPrefix(s, t)
  PROVE  IsPrefix(s, t \o u)
  <1> DEFINE r == SubSeq(t, Len(s) + 1, Len(t))
  <1>1. r \in Seq(S) /\ t = s \o r
    BY RestOf
  <1> HIDE DEF r
  <1>2. r \o u \in Seq(S) /\ t \o u = s \o (r \o u)
    BY <1>1, ConcatProperties, ConcatAssociative
  <1> QED BY <1>2, PrefixOfConcat

\* Everything begins with nothing.
LEMMA EmptyPrefix ==
  ASSUME NEW S, NEW t \in Seq(S)
  PROVE  IsPrefix(<<>>, t)
  <1>1. <<>> \in Seq(S) /\ <<>> \o t = t
    BY EmptySeq, ConcatEmptySeq
  <1> QED BY <1>1, PrefixOfConcat

\* Nothing begins only with nothing.
LEMMA PrefixOfEmpty ==
  ASSUME NEW S, NEW s \in Seq(S), IsPrefix(s, <<>>)
  PROVE  s = <<>>
  <1>1. Len(s) \in Nat /\ Len(s) <= 0
    BY LenProperties, EmptySeq DEF IsPrefix
  <1> QED BY <1>1, EmptySeq

\* A sequence ends with what was put behind it.
LEMMA SuffixOfConcat ==
  ASSUME NEW S, NEW u \in Seq(S), NEW s \in Seq(S)
  PROVE  IsSuffix(s, u \o s)
  <1> DEFINE t == u \o s
  <1>1. /\ t \in Seq(S) /\ Len(t) = Len(u) + Len(s)
        /\ \A i \in 1..Len(t) : t[i] = IF i <= Len(u) THEN u[i] ELSE s[i - Len(u)]
    BY ConcatProperties, LenProperties
  <1>2. Len(s) \in Nat /\ Len(u) \in Nat
    BY LenProperties
  <1> HIDE DEF t
  <1> DEFINE back == Reverse(s)
             whole == Reverse(t)
  <1>3. /\ back \in Seq(S) /\ Len(back) = Len(s)
        /\ \A i \in 1..Len(s) : back[i] = s[(Len(s) - i) + 1]
    BY <1>2, ElementOfSeq, IsASeq, LenProperties DEF Reverse
  <1>4. /\ whole \in Seq(S) /\ Len(whole) = Len(t)
        /\ \A i \in 1..Len(t) : whole[i] = t[(Len(t) - i) + 1]
    BY <1>1, <1>2, ElementOfSeq, IsASeq, LenProperties DEF Reverse
  <1> HIDE DEF back, whole
  <1>5. \A i \in 1..Len(s) : back[i] = whole[i]
    <2> TAKE i \in 1..Len(s)
    <2>1. /\ i \in 1..Len(t) /\ (Len(t) - i) + 1 \in 1..Len(t)
          /\ ~((Len(t) - i) + 1 <= Len(u)) /\ ((Len(t) - i) + 1) - Len(u) = (Len(s) - i) + 1
      BY <1>1, <1>2
    <2> QED BY <1>1, <1>3, <1>4, <2>1
  <1>6. /\ SubSeq(whole, 1, Len(s)) \in Seq(S) /\ Len(SubSeq(whole, 1, Len(s))) = Len(s)
        /\ \A i \in 1..Len(s) : SubSeq(whole, 1, Len(s))[i] = whole[i]
    BY <1>1, <1>2, <1>4, SubSeqProperties
  <1>7. SubSeq(whole, 1, Len(s)) = back
    BY <1>3, <1>5, <1>6, SeqEqual
  <1>8. SubSeq(back, 1, Len(back)) = back
    BY <1>3, SubSeqFull
  <1> QED BY <1>1, <1>2, <1>3, <1>4, <1>7, <1>8 DEF IsSuffix, IsPrefix, back, whole, t

-----------------------------------------------------------------------------
(* What is decoded of a log that grows *)

\* What texts consist of.
Parts == Pieces \cup {"half"}

\* The texts of lg of which the kind is in kinds, joined.
TextOf(lg, kinds) ==
    FlattenSeq([k \in 1..Len(lg) |-> IF lg[k].kind \in kinds THEN lg[k].text ELSE <<>>])

\* All the texts of lg, joined.
WholeText(lg) == FlattenSeq([k \in 1..Len(lg) |-> lg[k].text])

\* A line says a text, maybe none.
LEMMA LineText ==
  ASSUME NEW l \in Lines
  PROVE  l.text \in Seq(Parts)
  <1>1. l.text \in Texts \/ l.text = <<>>
    BY DEF Lines
  <1>2. <<>> \in Seq(Parts)
    BY EmptySeq
  <1>3. \A s \in Seq(Pieces) : s \in Seq(Parts)
    BY SeqMonotonic DEF Parts
  <1> QED BY <1>1, <1>2, <1>3, TextsAssumption

\* The texts of a log are a sequence of texts.
LEMMA LogTexts ==
  ASSUME NEW lg \in Seq(Lines), NEW kinds
  PROVE  /\ [k \in 1..Len(lg) |-> IF lg[k].kind \in kinds THEN lg[k].text ELSE <<>>]
              \in Seq(Seq(Parts))
         /\ [k \in 1..Len(lg) |-> lg[k].text] \in Seq(Seq(Parts))
         /\ Len(lg) \in Nat
         /\ \A k \in 1..Len(lg) : lg[k] \in Lines /\ lg[k].text \in Seq(Parts)
  <1>1. Len(lg) \in Nat /\ \A k \in 1..Len(lg) : lg[k] \in Lines
    BY LenProperties, ElementOfSeq
  <1>2. \A k \in 1..Len(lg) : lg[k].text \in Seq(Parts)
    BY <1>1, LineText
  <1>3. <<>> \in Seq(Parts)
    BY EmptySeq
  <1> DEFINE some == [k \in 1..Len(lg) |-> IF lg[k].kind \in kinds THEN lg[k].text ELSE <<>>]
             all == [k \in 1..Len(lg) |-> lg[k].text]
  <1>4. some \in [1..Len(lg) -> Seq(Parts)] /\ all \in [1..Len(lg) -> Seq(Parts)]
    BY <1>2, <1>3
  <1> HIDE DEF some, all
  <1>5. some \in Seq(Seq(Parts)) /\ all \in Seq(Seq(Parts))
    <2>1. \A n \in Nat : \A f \in [1..n -> Seq(Parts)] : f \in Seq(Seq(Parts))
      OBVIOUS
    <2> QED BY <1>1, <1>4, <2>1
  <1> QED BY <1>1, <1>2, <1>5 DEF some, all

\* What they make is a text.
LEMMA TextType ==
  ASSUME NEW lg \in Seq(Lines), NEW kinds
  PROVE  TextOf(lg, kinds) \in Seq(Parts) /\ WholeText(lg) \in Seq(Parts)
  BY LogTexts, FlattenType DEF TextOf, WholeText

\* A line more adds its text at the end, or nothing.
LEMMA TextGrows ==
  ASSUME NEW lg \in Seq(Lines), NEW kinds,
         NEW l \in Lines
  PROVE  /\ TextOf(Append(lg, l), kinds) =
              IF l.kind \in kinds THEN TextOf(lg, kinds) \o l.text ELSE TextOf(lg, kinds)
         /\ WholeText(Append(lg, l)) = WholeText(lg) \o l.text
  <1> DEFINE some == [k \in 1..Len(lg) |-> IF lg[k].kind \in kinds THEN lg[k].text ELSE <<>>]
             all == [k \in 1..Len(lg) |-> lg[k].text]
             lg2 == Append(lg, l)
             some2 == [k \in 1..Len(lg2) |-> IF lg2[k].kind \in kinds THEN lg2[k].text ELSE <<>>]
             all2 == [k \in 1..Len(lg2) |-> lg2[k].text]
             t == IF l.kind \in kinds THEN l.text ELSE <<>>
  <1>1. /\ lg2 \in Seq(Lines) /\ Len(lg2) = Len(lg) + 1 /\ lg2[Len(lg) + 1] = l
        /\ \A i \in 1..Len(lg) : lg2[i] = lg[i]
    BY AppendProperties
  <1>2. Len(lg) \in Nat
    BY LenProperties
  <1>3. some \in Seq(Seq(Parts)) /\ all \in Seq(Seq(Parts)) /\ some2 \in Seq(Seq(Parts))
        /\ all2 \in Seq(Seq(Parts))
    <2>1. lg2 \in Seq(Lines)
      BY <1>1
    <2> HIDE DEF lg2
    <2> QED BY <2>1, LogTexts
  <1>4. Len(some) = Len(lg) /\ Len(all) = Len(lg) /\ Len(some2) = Len(lg) + 1
        /\ Len(all2) = Len(lg) + 1
    <2> HIDE DEF lg2
    <2> QED BY <1>1, <1>2, <1>3, LenProperties
  <1>5. l.text \in Seq(Parts) /\ t \in Seq(Parts)
    BY LineText, EmptySeq
  <1> HIDE DEF lg2
  <1>6. \A i \in 1..(Len(lg) + 1) :
          /\ some2[i] = IF i = Len(lg) + 1 THEN t ELSE some[i]
          /\ all2[i] = IF i = Len(lg) + 1 THEN l.text ELSE all[i]
    <2> TAKE i \in 1..(Len(lg) + 1)
    <2>1. CASE i = Len(lg) + 1
      BY <1>1, <2>1
    <2>2. CASE i # Len(lg) + 1
      <3>1. i \in 1..Len(lg)
        BY <1>2, <2>2
      <3> QED BY <1>1, <2>2, <3>1
    <2> QED BY <2>1, <2>2
  <1> HIDE DEF some, all, some2, all2, t
  <1>7. some2 = Append(some, t)
    <2>1. /\ Append(some, t) \in Seq(Seq(Parts)) /\ Len(Append(some, t)) = Len(lg) + 1
          /\ Append(some, t)[Len(lg) + 1] = t
          /\ \A i \in 1..Len(lg) : Append(some, t)[i] = some[i]
      BY <1>3, <1>4, <1>5, AppendProperties
    <2>2. \A i \in 1..(Len(lg) + 1) : i # Len(lg) + 1 => i \in 1..Len(lg)
      BY <1>2
    <2>3. \A i \in 1..(Len(lg) + 1) : some2[i] = Append(some, t)[i]
      BY <1>6, <2>1, <2>2
    <2> QED BY <1>3, <1>4, <2>1, <2>3, SeqEqual
  <1>8. all2 = Append(all, l.text)
    <2>1. /\ Append(all, l.text) \in Seq(Seq(Parts)) /\ Len(Append(all, l.text)) = Len(lg) + 1
          /\ Append(all, l.text)[Len(lg) + 1] = l.text
          /\ \A i \in 1..Len(lg) : Append(all, l.text)[i] = all[i]
      BY <1>3, <1>4, <1>5, AppendProperties
    <2>2. \A i \in 1..(Len(lg) + 1) : i # Len(lg) + 1 => i \in 1..Len(lg)
      BY <1>2
    <2>3. \A i \in 1..(Len(lg) + 1) : all2[i] = Append(all, l.text)[i]
      BY <1>6, <2>1, <2>2
    <2> QED BY <1>3, <1>4, <2>1, <2>3, SeqEqual
  <1>9. FlattenSeq(some2) = FlattenSeq(some) \o t
    BY <1>3, <1>5, <1>7, FlattenAppend
  <1>10. FlattenSeq(all2) = FlattenSeq(all) \o l.text
    BY <1>3, <1>5, <1>8, FlattenAppend
  <1>11. FlattenSeq(some) \o <<>> = FlattenSeq(some)
    BY <1>3, FlattenType, ConcatEmptySeq
  <1> QED BY <1>9, <1>10, <1>11 DEF some, all, some2, all2, t, TextOf, WholeText, lg2

\* The names of the model for them.
LEMMA TextNames ==
  /\ Added = TextOf(log, Adding[decoder])
  /\ Raw = WholeText(log) \o (IF half THEN HalfLine ELSE <<>>)
  BY DEF Added, Raw, TextOf, WholeText

\* A set of places in a log that is not empty has a last one.
LEMMA LastPlace ==
  ASSUME NEW n \in Nat, NEW P, P \subseteq 1..n, P # {}
  PROVE  Max(P) \in P
  <1> DEFINE T == {k \in Nat : n - k \in P}
  <1>1. T \subseteq Nat
    OBVIOUS
  <1>2. T # {}
    <2>1. PICK p \in P : TRUE
      OBVIOUS
    <2>2. p \in 1..n
      OBVIOUS
    <2>3. n - p \in Nat /\ n - (n - p) = p
      BY <2>2
    <2> QED BY <2>3
  <1>3. PICK m \in T : \A k \in T : m <= k
    BY <1>1, <1>2, LeastNumber
  <1>4. m \in Nat /\ n - m \in P
    BY <1>3
  <1>5. \A p \in P : n - m >= p
    <2> TAKE p \in P
    <2>1. p \in 1..n
      OBVIOUS
    <2>2. n - p \in Nat /\ n - (n - p) = p
      BY <2>1
    <2>3. m <= n - p
      BY <1>3, <2>2
    <2> QED BY <1>4, <2>1, <2>3
  <1> HIDE DEF T
  <1>6. \E x \in P : \A y \in P : x >= y
    BY <1>4, <1>5
  <1> QED BY <1>6 DEF Max

\* The deltas of the answer as they are decoded now, joined.
Answer == Decode.deltas

Ranges ==
    /\ decoder \in Decoders /\ log \in Seq(Lines)
    /\ emitted \in Seq(Parts) /\ shown \in Seq(Parts)

\* The lines agree, and no text was shown before they were understood.
Agrees == Consistent /\ ~(early /\ Understood)

\* What Decode says, case by case.
LEMMA AnswerIs ==
  /\ AsPlain => Answer = Raw /\ Decode.final = Raw
  /\ ~AsPlain =>
       /\ Decode.final =
            IF Given = {} THEN Added ELSE log[Max(Given)].text
       /\ Answer = IF Added = <<>> THEN Decode.final ELSE Added
  <1>1. CASE AsPlain
    BY <1>1 DEF Decode, Answer
  <1>2. CASE ~AsPlain
    BY <1>2 DEF Decode, Answer
  <1> QED BY <1>1, <1>2

\* If the answer was given, a last line gave it.
LEMMA LastGiven == Ranges /\ Given # {} => Max(Given) \in Given
  <1> SUFFICES ASSUME Ranges, Given # {} PROVE Max(Given) \in Given
    OBVIOUS
  <1>1. Len(log) \in Nat
    BY LenProperties DEF Ranges
  <1>2. Given \subseteq 1..Len(log)
    BY DEF Given
  <1> QED BY <1>1, <1>2, LastPlace

\* Half a line and no line are text.
LEMMA HalfType == HalfLine \in Seq(Parts) /\ <<>> \in Seq(Parts)
  BY EmptySeq DEF HalfLine, Parts

\* What is decoded is text.
LEMMA AnswerType ==
  ASSUME Ranges
  PROVE  /\ Answer \in Seq(Parts) /\ Decode.final \in Seq(Parts)
         /\ Added \in Seq(Parts) /\ Raw \in Seq(Parts)
         /\ WholeText(log) \in Seq(Parts)
  <1>1. log \in Seq(Lines)
    BY DEF Ranges
  <1>2. Added \in Seq(Parts) /\ WholeText(log) \in Seq(Parts)
    BY <1>1, TextType, TextNames
  <1>3. Raw \in Seq(Parts)
    <2>1. \A h \in Seq(Parts) : WholeText(log) \o h \in Seq(Parts)
      BY <1>2, ConcatProperties
    <2>2. WholeText(log) \o HalfLine \in Seq(Parts) /\ WholeText(log) \o <<>> \in Seq(Parts)
      BY <2>1, HalfType
    <2> QED BY <2>2, TextNames
  <1>4. Given # {} => log[Max(Given)].text \in Seq(Parts)
    <2>1. \A k \in 1..Len(log) : log[k].text \in Seq(Parts)
      BY <1>1, LogTexts
    <2> QED BY <2>1, LastGiven DEF Given
  <1> QED BY <1>2, <1>3, <1>4, AnswerIs

\* What a line more changes of what the decoders see.
LEMMA LineWritten ==
  ASSUME Ranges, NEW l \in Lines,
         log' = Append(log, l), decoder' = decoder, half' = FALSE
  PROVE  /\ log' \in Seq(Lines) /\ Len(log) \in Nat /\ Len(log') = Len(log) + 1
         /\ log'[Len(log) + 1] = l /\ l.text \in Seq(Parts)
         /\ \A k \in 1..Len(log) : log'[k] = log[k]
         /\ Given' = Given
              \cup (IF l.kind \in Giving[decoder] THEN {Len(log) + 1} ELSE {})
         /\ Added' = IF l.kind \in Adding[decoder]
                            THEN Added \o l.text ELSE Added
         /\ Raw' = WholeText(log) \o l.text
         /\ Understood' <=>
              (Understood \/ (decoder # "plain" /\ l.kind # "text"))
  <1>1. /\ log' \in Seq(Lines) /\ Len(log') = Len(log) + 1
        /\ log'[Len(log) + 1] = l
        /\ \A k \in 1..Len(log) : log'[k] = log[k]
    BY AppendProperties DEF Ranges
  <1>2. Len(log) \in Nat /\ l.text \in Seq(Parts)
    BY LenProperties, LineText DEF Ranges
  <1>3. \A k : k \in 1..Len(log') <=> (k \in 1..Len(log) \/ k = Len(log) + 1)
    BY <1>1, <1>2
  <1>4. Given' = Given
              \cup (IF l.kind \in Giving[decoder] THEN {Len(log) + 1} ELSE {})
    BY <1>1, <1>3, Zenon DEF Given, Giving
  <1>5. Added' = IF l.kind \in Adding[decoder]
                        THEN Added \o l.text ELSE Added
    <2>1. Added' = TextOf(log', Adding[decoder])
      BY DEF Added, TextOf, Adding
    <2>2. \A kinds : TextOf(log', kinds) =
              IF l.kind \in kinds THEN TextOf(log, kinds) \o l.text ELSE TextOf(log, kinds)
      BY TextGrows DEF Ranges
    <2> QED BY <2>1, <2>2, TextNames
  <1>6. Raw' = WholeText(log) \o l.text
    <2>1. Raw' = WholeText(log') \o <<>>
      BY DEF Raw, WholeText
    <2>2. WholeText(log') = WholeText(log) \o l.text
      BY TextGrows DEF Ranges
    <2>3. WholeText(log') \in Seq(Parts)
      BY <1>1, TextType
    <2> QED BY <2>1, <2>2, <2>3, ConcatEmptySeq
  <1>7. Understood' <=>
              (Understood \/ (decoder # "plain" /\ l.kind # "text"))
    BY <1>1, <1>3, Zenon DEF Understood
  <1> QED BY <1>1, <1>2, <1>4, <1>5, <1>6, <1>7

\* Lines that agree agreed before the last of them came, and none adds to an answer that
\* was given.
LEMMA AgreedBefore ==
  ASSUME Ranges, NEW l \in Lines,
         log' = Append(log, l), decoder' = decoder, half' = FALSE,
         Consistent'
  PROVE  /\ Consistent
         /\ decoder \in {"codex", "pi"} /\ Given # {} =>
              ~(l.kind \in Adding[decoder])
  <1> SUFFICES ASSUME decoder \in {"codex", "pi"}
               PROVE  /\ Consistent
                      /\ Given # {} => ~(l.kind \in Adding[decoder])
    BY DEF Consistent
  <1>1. \A i \in Given', j \in 1..Len(log') :
          /\ j \in Given' => log'[j].text = log'[i].text
          /\ log'[j].kind \in Adding[decoder] => j < i /\ log'[i].text = Added'
    BY DEF Consistent
  <1>2. /\ Len(log) \in Nat /\ Len(log') = Len(log) + 1 /\ log'[Len(log) + 1] = l
        /\ \A k \in 1..Len(log) : log'[k] = log[k]
        /\ Given \subseteq Given'
        /\ Added' = IF l.kind \in Adding[decoder]
                           THEN Added \o l.text ELSE Added
    BY LineWritten
  <1>3. Given \subseteq 1..Len(log)
    BY DEF Given
  <1>4. Given # {} => ~(l.kind \in Adding[decoder])
    <2> SUFFICES ASSUME NEW i \in Given, l.kind \in Adding[decoder] PROVE FALSE
      OBVIOUS
    <2>1. Len(log) + 1 \in 1..Len(log') /\ i \in Given' /\ i \in 1..Len(log)
      BY <1>2, <1>3
    <2>2. Len(log) + 1 < i
      BY <1>1, <1>2, <2>1
    <2> QED BY <1>2, <2>1, <2>2
  <1>5. ASSUME NEW i \in Given, NEW j \in 1..Len(log)
        PROVE  /\ j \in Given => log[j].text = log[i].text
               /\ log[j].kind \in Adding[decoder] => j < i /\ log[i].text = Added
    <2>1. i \in Given' /\ j \in 1..Len(log') /\ log'[i] = log[i] /\ log'[j] = log[j]
      BY <1>2, <1>3
    <2>2. Added' = Added
      BY <1>2, <1>4
    <2>3. j \in Given => j \in Given'
      BY <1>2
    <2> QED BY <1>1, <2>1, <2>2, <2>3
  <1>6. Consistent
    BY <1>5 DEF Consistent
  <1> QED BY <1>4, <1>6

\* If the lines agree, what is decoded of a line more begins with what was decoded before.
LEMMA AnswerGrows ==
  ASSUME Ranges, NEW l \in Lines,
         log' = Append(log, l), decoder' = decoder, half' = FALSE,
         decoder = "plain" => ~half /\ l.kind = "text", half => l.kind # "text",
         Consistent',
         decoder = "json" => Understood \/ ~Understood'
  PROVE  IsPrefix(Answer, Answer')
  <1>1. /\ log' \in Seq(Lines) /\ Len(log) \in Nat /\ Len(log') = Len(log) + 1
        /\ l.text \in Seq(Parts) /\ \A k \in 1..Len(log) : log'[k] = log[k]
        /\ Given' = Given
             \cup (IF l.kind \in Giving[decoder] THEN {Len(log) + 1} ELSE {})
    BY LineWritten
  <1>2. Added' = IF l.kind \in Adding[decoder]
                        THEN Added \o l.text ELSE Added
    BY LineWritten
  <1>3. Raw' = WholeText(log) \o l.text
    BY LineWritten
  <1>4. Understood' <=>
              (Understood \/ (decoder # "plain" /\ l.kind # "text"))
    BY LineWritten
  <1>5. /\ AsPlain' => Answer' = Raw'
        /\ ~AsPlain' =>
             /\ Decode'.final = IF Given' = {} THEN Added'
                                       ELSE log'[Max(Given')].text
             /\ Answer' = IF Added' = <<>> THEN Decode'.final ELSE Added'
    <2>1. CASE AsPlain'
      BY <2>1 DEF Decode, Answer
    <2>2. CASE ~AsPlain'
      BY <2>2 DEF Decode, Answer
    <2> QED BY <2>1, <2>2
  <1>6. Answer \in Seq(Parts) /\ Added \in Seq(Parts) /\ WholeText(log) \in Seq(Parts)
    BY AnswerType
  <1>7. \A s, u \in Seq(Parts) : IsPrefix(s, s \o u) /\ s \o <<>> = s
    BY PrefixOfConcat, ConcatEmptySeq
  <1>8. \A s \in Seq(Parts) : IsPrefix(s, s) /\ IsPrefix(<<>>, s)
    <2>1. <<>> \in Seq(Parts)
      BY EmptySeq
    <2> QED BY <1>7, <2>1, EmptyPrefix
  <1>9. IsPrefix(Added, Added')
    BY <1>1, <1>2, <1>6, <1>7, <1>8
  <1>10. decoder \in {"plain", "json", "codex", "pi"}
    BY DEF Ranges, Decoders
  <1>11. CASE AsPlain
    <2>1. AsPlain' /\ ~half
      BY <1>4, <1>11 DEF AsPlain
    <2>2. Answer = WholeText(log)
      <3>1. Raw = WholeText(log) \o <<>>
        BY <2>1, TextNames
      <3> QED BY <1>6, <1>7, <1>11, <3>1, AnswerIs
    <2>3. Answer' = WholeText(log) \o l.text
      BY <1>3, <1>5, <2>1
    <2> QED BY <1>1, <1>6, <1>7, <2>2, <2>3
  <1>12. CASE decoder = "json" /\ ~AsPlain
    <2>1. ~AsPlain'
      BY <1>4, <1>12 DEF AsPlain
    <2>2. Given = {} /\ Given' = {}
      BY <1>12 DEF Given, Giving
    <2>3. Answer = Added /\ Answer' = Added'
      BY <1>5, <1>12, <2>1, <2>2, AnswerIs
    <2> QED BY <1>9, <2>3
  <1>13. CASE decoder \in {"codex", "pi"}
    <2>1. ~AsPlain /\ ~AsPlain'
      BY <1>13 DEF AsPlain
    <2>2. /\ Decode.final = IF Given = {} THEN Added
                                   ELSE log[Max(Given)].text
          /\ Answer = IF Added = <<>> THEN Decode.final ELSE Added
      BY <2>1, AnswerIs
    <2>3. /\ Decode'.final = IF Given' = {} THEN Added'
                                    ELSE log'[Max(Given')].text
          /\ Answer' = IF Added' = <<>> THEN Decode'.final ELSE Added'
      BY <1>5, <2>1
    <2>4. l.kind \in Giving[decoder] => ~(l.kind \in Adding[decoder])
      BY <1>13 DEF Giving, Adding
    <2>5. Given' # {} =>
            /\ Max(Given') \in Given'
            /\ log'[Max(Given')].text \in Seq(Parts)
      <3>1. Len(log') \in Nat /\ Given' \subseteq 1..Len(log')
        BY <1>1 DEF Given
      <3>2. \A k \in 1..Len(log') : log'[k].text \in Seq(Parts)
        BY <1>1, LogTexts
      <3> QED BY <3>1, <3>2, LastPlace
    <2>6. CASE Given = {} /\ Given' = {}
      BY <1>9, <2>2, <2>3, <2>6
    <2>7. CASE Given = {} /\ Given' # {}
      <3>1. Added' = Added
        BY <1>1, <1>2, <2>4, <2>7
      <3>2. CASE Added = <<>>
        <4>1. Answer = <<>> /\ Answer' \in Seq(Parts)
          BY <2>2, <2>3, <2>5, <2>7, <3>1, <3>2
        <4> QED BY <1>8, <4>1
      <3>3. CASE Added # <<>>
        BY <1>6, <1>8, <2>2, <2>3, <3>1, <3>3
      <3> QED BY <3>2, <3>3
    <2>8. CASE Given # {}
      <3>1. Added' = Added
        BY <1>2, <1>13, <2>8, AgreedBefore
      <3>2. Given' # {}
        BY <1>1, <2>8
      <3>3. CASE Added = <<>>
        <4>1. Max(Given) \in Given
          BY <2>8, LastGiven
        <4>2. Max(Given') \in Given'
          BY <2>5, <3>2
        <4>3. \A i \in Given', j \in 1..Len(log') :
                j \in Given' => log'[j].text = log'[i].text
          BY <1>13 DEF Consistent
        <4>4. Max(Given) \in Given' /\ Max(Given) \in 1..Len(log)
          BY <1>1, <4>1 DEF Given
        <4>5. Max(Given') \in 1..Len(log')
          BY <4>2 DEF Given
        <4>6. Answer' = Answer
          BY <1>1, <2>2, <2>3, <2>8, <3>1, <3>2, <3>3, <4>2, <4>3, <4>4, <4>5
        <4> QED BY <1>6, <1>8, <4>6
      <3>4. CASE Added # <<>>
        BY <1>6, <1>8, <2>2, <2>3, <3>1, <3>4
      <3> QED BY <3>3, <3>4
    <2> QED BY <2>6, <2>7, <2>8
  <1> QED BY <1>10, <1>11, <1>12, <1>13 DEF AsPlain

\* The same as a formula, for the state after a step.
LEMMA AnswerTyped == Ranges => Answer \in Seq(Parts)
  BY AnswerType

\* What was added came from a line.
AddedComes ==
    Added # <<>> => \E j \in 1..Len(log) : log[j].kind \in Adding[decoder]

\* If the lines agree, the deltas are the answer.
LEMMA AnswerIsFinal ==
  ASSUME Ranges, Consistent, AddedComes
  PROVE  Answer = Decode.final
  <1>1. CASE AsPlain
    BY <1>1, AnswerIs
  <1>2. CASE ~AsPlain /\ Given = {}
    BY <1>2, AnswerIs
  <1>3. CASE ~AsPlain /\ Given # {} /\ Added # <<>>
    <2>1. decoder \in {"codex", "pi"}
      <3>1. decoder \in {"plain", "json", "codex", "pi"} /\ decoder # "plain"
        BY <1>3 DEF Ranges, Decoders, AsPlain
      <3>2. decoder # "json"
        BY <1>3 DEF Given, Giving
      <3> QED BY <3>1, <3>2
    <2>2. Max(Given) \in Given
      BY <1>3, LastGiven
    <2>3. PICK j \in 1..Len(log) : log[j].kind \in Adding[decoder]
      BY <1>3 DEF AddedComes
    <2>4. log[Max(Given)].text = Added
      BY <2>1, <2>2, <2>3 DEF Consistent
    <2> QED BY <1>3, <2>4, AnswerIs
  <1>4. CASE ~AsPlain /\ Added = <<>>
    BY <1>4, AnswerIs
  <1> QED BY <1>1, <1>2, <1>3, <1>4

-----------------------------------------------------------------------------
(* The invariant *)

\* What was emitted last comes last of what was shown.
EmittedLast == \E u \in Seq(Parts) : shown = u \o emitted

\* What was shown was shown once, and it is how the answer begins.
ShownOnce == Agrees => shown = emitted /\ IsPrefix(emitted, Answer)

\* Nothing is shown of a log that is not understood unless early tells.
EarlyTells == decoder = "json" /\ ~early /\ ~Understood => emitted = <<>>

\* A run succeeds after its provider has, and the log is complete.
Succeeds ==
    result.status = "success" =>
        /\ at = "over" /\ provider = "succeeded"
        /\ Agrees => shown = result.output
        /\ IsSuffix(Answer, shown)

Phases == seen \in {"up", provider} /\ (decoder = "plain" => ~half)

ShownInv ==
    Ranges /\ Phases /\ AddedComes /\ EmittedLast /\ ShownOnce /\ EarlyTells /\ Succeeds

\* The invariant holds at first.
LEMMA ShownInit == StreamInit => ShownInv
  <1> SUFFICES ASSUME StreamInit PROVE ShownInv
    OBVIOUS
  <1>1. <<>> \in Seq(Parts) /\ <<>> \in Seq(Lines) /\ Len(<<>>) = 0
    BY EmptySeq
  <1>2. /\ decoder \in Decoders /\ log = <<>> /\ emitted = <<>> /\ shown = <<>>
        /\ seen = "up" /\ ~half /\ result.status = "none"
    BY DEF StreamInit
  <1>3. Ranges
    BY <1>1, <1>2 DEF Ranges
  <1>4. Phases
    BY <1>2 DEF Phases
  <1>5. AddedComes
    <2>1. [k \in 1..Len(log) |-> IF log[k].kind \in Adding[decoder]
                                 THEN log[k].text ELSE <<>>] = <<>>
      <3>1. [k \in 1..Len(log) |-> IF log[k].kind \in Adding[decoder]
                                   THEN log[k].text ELSE <<>>] \in Seq(Seq(Parts))
        BY <1>3, LogTexts DEF Ranges
      <3>2. Len([k \in 1..Len(log) |-> IF log[k].kind \in Adding[decoder]
                                       THEN log[k].text ELSE <<>>]) = 0
        BY <1>1, <1>2, <3>1, LenProperties
      <3> QED BY <3>1, <3>2, EmptySeq
    <2>2. Added = <<>>
      BY <2>1, FlattenEmpty DEF Added
    <2> QED BY <2>2 DEF AddedComes
  <1>6. EmittedLast
    <2>1. <<>> \o <<>> = <<>>
      BY <1>1, ConcatEmptySeq
    <2> QED BY <1>1, <1>2, <2>1 DEF EmittedLast
  <1>7. ShownOnce
    BY <1>2, <1>3, AnswerType, EmptyPrefix DEF ShownOnce
  <1>8. EarlyTells
    BY <1>2 DEF EarlyTells
  <1>9. Succeeds
    BY <1>2 DEF Succeeds
  <1> QED BY <1>3, <1>4, <1>5, <1>6, <1>7, <1>8, <1>9 DEF ShownInv

\* A line written keeps the invariant: either what is decoded begins as before, or nothing
\* was shown yet.
LEMMA LineKeeps ==
  ASSUME ShownInv, WriteLine
  PROVE  ShownInv'
  <1>1. /\ provider = "up" /\ half' = FALSE
        /\ UNCHANGED <<decoder, provider, at, seen, emitted, shown, result, early>>
    BY DEF WriteLine
  <1>2. PICK l \in Lines :
          /\ decoder = "plain" => l.kind = "text"
          /\ half => l.kind # "text"
          /\ log' = Append(log, l)
    BY DEF WriteLine
  <1>3. Ranges /\ Phases /\ AddedComes /\ EmittedLast /\ ShownOnce /\ EarlyTells /\ Succeeds
    BY DEF ShownInv
  <1>4. /\ log' \in Seq(Lines) /\ Len(log) \in Nat /\ Len(log') = Len(log) + 1
        /\ log'[Len(log) + 1] = l
        /\ \A k \in 1..Len(log) : log'[k] = log[k]
        /\ Added' = IF l.kind \in Adding[decoder]
                           THEN Added \o l.text ELSE Added
    BY <1>1, <1>2, <1>3, LineWritten
  <1>5. Understood' <=>
          (Understood \/ (decoder # "plain" /\ l.kind # "text"))
    BY <1>1, <1>2, <1>3, LineWritten
  <1>6. Ranges'
    BY <1>1, <1>3, <1>4 DEF Ranges
  <1>7. Phases'
    BY <1>1, <1>3 DEF Phases
  <1>8. AddedComes'
    <2> SUFFICES ASSUME Added' # <<>>
                 PROVE  \E j \in 1..Len(log') : log'[j].kind \in Adding[decoder]
      BY <1>1 DEF AddedComes
    <2>1. CASE l.kind \in Adding[decoder]
      <3>1. Len(log) + 1 \in 1..Len(log')
        BY <1>4
      <3> QED BY <1>4, <2>1, <3>1
    <2>2. CASE ~(l.kind \in Adding[decoder])
      <3>1. PICK j \in 1..Len(log) : log[j].kind \in Adding[decoder]
        BY <1>3, <1>4, <2>2 DEF AddedComes
      <3>2. j \in 1..Len(log')
        BY <1>4
      <3> QED BY <1>4, <3>1, <3>2
    <2> QED BY <2>1, <2>2
  <1>9. EmittedLast'
    BY <1>1, <1>3 DEF EmittedLast
  <1>10. ShownOnce'
    <2> SUFFICES ASSUME Agrees'
                 PROVE  shown = emitted /\ IsPrefix(emitted, Answer')
      BY <1>1 DEF ShownOnce
    <2>1. Consistent' /\ ~(early /\ Understood')
      BY <1>1 DEF Agrees
    <2>2. Consistent
      BY <1>1, <1>2, <1>3, <2>1, AgreedBefore
    <2>3. Agrees
      BY <1>5, <2>1, <2>2 DEF Agrees
    <2>4. shown = emitted /\ IsPrefix(emitted, Answer)
      BY <1>3, <2>3 DEF ShownOnce
    <2>5. Answer \in Seq(Parts) /\ Answer' \in Seq(Parts) /\ emitted \in Seq(Parts)
      <3>1. (Ranges => Answer \in Seq(Parts))'
        BY AnswerTyped, PTL
      <3>2. Answer' \in Seq(Parts)
        BY <1>6, <3>1 DEF Parts
      <3> QED BY <1>3, <3>2, AnswerType DEF Ranges
    <2>6. CASE decoder = "json" /\ ~Understood /\ Understood'
      <3>1. emitted = <<>>
        BY <1>3, <2>1, <2>6 DEF EarlyTells
      <3> QED BY <2>4, <2>5, <3>1, EmptyPrefix
    <2>7. CASE ~(decoder = "json" /\ ~Understood /\ Understood')
      <3>1. decoder = "plain" => ~half
        BY <1>3 DEF Phases
      <3>2. IsPrefix(Answer, Answer')
        BY <1>1, <1>2, <1>3, <2>1, <2>7, <3>1, AnswerGrows
      <3> DEFINE r == SubSeq(Answer', Len(Answer) + 1, Len(Answer'))
      <3>3. r \in Seq(Parts) /\ Answer' = Answer \o r
        BY <2>5, <3>2, RestOf
      <3> HIDE DEF r
      <3>4. IsPrefix(emitted, Answer \o r)
        BY <2>4, <2>5, <3>3, PrefixGrows
      <3> QED BY <2>4, <3>3, <3>4
    <2> QED BY <2>6, <2>7
  <1>11. EarlyTells'
    BY <1>1, <1>3, <1>5 DEF EarlyTells
  <1>12. Succeeds'
    BY <1>1, <1>3 DEF Succeeds
  <1> QED BY <1>6, <1>7, <1>8, <1>9, <1>10, <1>11, <1>12 DEF ShownInv

\* Without a line more, and nothing written by half, what is decoded stays.
LEMMA LogKeeps ==
  ASSUME UNCHANGED <<decoder, log, half>>
  PROVE  /\ Answer' = Answer /\ Consistent' = Consistent
         /\ Understood' = Understood /\ Added' = Added
  <1>1. /\ Understood' = Understood /\ Added' = Added
        /\ Given' = Given /\ Raw' = Raw
    BY DEF Understood, Added, Given, Raw
  <1>2. AsPlain' = AsPlain
    BY <1>1 DEF AsPlain
  <1>3. Answer' = Answer
    <2>1. CASE AsPlain
      BY <1>1, <1>2, <2>1 DEF Answer, Decode
    <2>2. CASE ~AsPlain
      BY <1>1, <1>2, <2>2 DEF Answer, Decode
    <2> QED BY <2>1, <2>2
  <1>4. Consistent' = Consistent
    BY <1>1 DEF Consistent
  <1> QED BY <1>1, <1>3, <1>4

\* Half a line written keeps the invariant: it changes what is decoded only of a log that
\* is taken for text, and there at the end.
LEMMA HalfKeeps ==
  ASSUME ShownInv, WriteHalf
  PROVE  ShownInv'
  <1>1. /\ provider = "up" /\ ~half /\ half' /\ decoder # "plain"
        /\ UNCHANGED <<decoder, log, provider, at, seen, emitted, shown, result, early>>
    BY DEF WriteHalf
  <1>2. Ranges /\ Phases /\ AddedComes /\ EmittedLast /\ ShownOnce /\ EarlyTells /\ Succeeds
    BY DEF ShownInv
  <1>3. /\ Understood' = Understood /\ Added' = Added
        /\ Given' = Given
    BY <1>1 DEF Understood, Added, Given
  <1>4. Consistent' = Consistent
    BY <1>1, <1>3 DEF Consistent
  <1>5. AsPlain' = AsPlain
    BY <1>1, <1>3 DEF AsPlain
  <1>6. /\ Answer \in Seq(Parts) /\ emitted \in Seq(Parts) /\ HalfLine \in Seq(Parts)
        /\ WholeText(log) \in Seq(Parts)
    BY <1>2, AnswerType, HalfType DEF Ranges
  <1>7. IsPrefix(emitted, Answer) => IsPrefix(emitted, Answer')
    <2> SUFFICES ASSUME IsPrefix(emitted, Answer)
                 PROVE  IsPrefix(emitted, Answer')
      OBVIOUS
    <2>1. CASE AsPlain
      <3>1. Answer = WholeText(log)
        <4>1. Answer = WholeText(log) \o <<>>
          BY <1>1, <2>1, AnswerIs, TextNames
        <4> QED BY <1>6, <4>1, ConcatEmptySeq
      <3>2. Answer' = WholeText(log) \o HalfLine
        BY <1>1, <1>5, <2>1 DEF Answer, Decode, Raw, WholeText
      <3> QED BY <1>6, <3>1, <3>2, PrefixGrows
    <2>2. CASE ~AsPlain
      <3>1. Answer' = Answer
        BY <1>1, <1>3, <1>5, <2>2 DEF Answer, Decode
      <3> QED BY <3>1
    <2> QED BY <2>1, <2>2
  <1>8. Ranges' /\ Phases'
    BY <1>1, <1>2 DEF Ranges, Phases
  <1>9. AddedComes'
    BY <1>1, <1>2, <1>3 DEF AddedComes
  <1>10. EmittedLast'
    BY <1>1, <1>2 DEF EmittedLast
  <1>11. ShownOnce'
    BY <1>1, <1>2, <1>3, <1>4, <1>7 DEF ShownOnce, Agrees
  <1>12. EarlyTells'
    BY <1>1, <1>2, <1>3 DEF EarlyTells
  <1>13. Succeeds'
    BY <1>1, <1>2 DEF Succeeds
  <1> QED BY <1>8, <1>9, <1>10, <1>11, <1>12, <1>13 DEF ShownInv

\* The provider ends, the loop polls or is stopped, or nothing happens.
LEMMA OthersKeep ==
  ASSUME ShownInv,
         Exit \/ StopRun \/ Poll \/ UNCHANGED streamVars
  PROVE  ShownInv'
  <1>1. UNCHANGED <<decoder, log, half, emitted, shown, early>>
    BY DEF Exit, StopRun, Poll, streamVars, providerVars
  <1>2. Ranges /\ Phases /\ AddedComes /\ EmittedLast /\ ShownOnce /\ EarlyTells /\ Succeeds
    BY DEF ShownInv
  <1>3. /\ Answer' = Answer /\ Consistent' = Consistent
        /\ Understood' = Understood /\ Added' = Added
    BY <1>1, LogKeeps
  <1>4. Ranges'
    BY <1>1, <1>2 DEF Ranges
  <1>5. Phases'
    BY <1>1, <1>2 DEF Phases, Exit, StopRun, Poll, streamVars,
                      providerVars
  <1>6. AddedComes'
    BY <1>1, <1>2, <1>3 DEF AddedComes
  <1>7. EmittedLast'
    BY <1>1, <1>2 DEF EmittedLast
  <1>8. Agrees' = Agrees
    BY <1>1, <1>3 DEF Agrees
  <1>9. ShownOnce'
    BY <1>1, <1>2, <1>3, <1>8 DEF ShownOnce
  <1>10. EarlyTells'
    BY <1>1, <1>2, <1>3 DEF EarlyTells
  <1>11. Succeeds'
    <2>1. CASE StopRun
      <3>1. result'.status = "stopped"
        BY <2>1 DEF StopRun, End
      <3> QED BY <3>1 DEF Succeeds
    <2>2. CASE Exit
      <3>1. provider = "up" /\ UNCHANGED result
        BY <2>2 DEF Exit
      <3> QED BY <1>2, <3>1 DEF Succeeds
    <2>3. CASE Poll
      <3>1. at = "poll" /\ UNCHANGED result
        BY <2>3 DEF Poll
      <3> QED BY <1>2, <3>1 DEF Succeeds
    <2>4. CASE UNCHANGED streamVars
      <3>1. UNCHANGED <<result, at, provider>>
        BY <2>4 DEF streamVars, providerVars
      <3> QED BY <1>1, <1>2, <1>3, <1>8, <3>1 DEF Succeeds
    <2> QED BY <2>1, <2>2, <2>3, <2>4
  <1> QED BY <1>4, <1>5, <1>6, <1>7, <1>9, <1>10, <1>11 DEF ShownInv

\* What Look shows: of an answer that begins with what was emitted the rest, otherwise all.
LEMMA LookShows ==
  ASSUME Ranges, EmittedLast, Look
  PROVE  /\ emitted' \in Seq(Parts) /\ shown' \in Seq(Parts) /\ EmittedLast'
         /\ IsSuffix(Answer, shown')
         /\ emitted' = IF Answer = <<>> THEN emitted ELSE Answer
         /\ shown = emitted /\ IsPrefix(emitted, Answer) =>
              shown' = emitted' /\ emitted' = Answer
  <1>1. Answer \in Seq(Parts) /\ emitted \in Seq(Parts) /\ shown \in Seq(Parts)
    BY AnswerType DEF Ranges
  <1>2. PICK u \in Seq(Parts) : shown = u \o emitted
    BY DEF EmittedLast
  <1>3. \A v, s \in Seq(Parts) : v \o s \in Seq(Parts) /\ IsSuffix(s, v \o s)
    BY ConcatProperties, SuffixOfConcat
  <1>4. CASE Answer = <<>>
    <2>1. emitted' = emitted /\ shown' = shown
      BY <1>4 DEF Look, Answer
    <2>2. IsSuffix(<<>>, shown)
      <3>1. <<>> \in Seq(Parts) /\ shown \o <<>> = shown
        BY <1>1, EmptySeq, ConcatEmptySeq
      <3> QED BY <1>1, <1>3, <3>1
    <2>3. IsPrefix(emitted, Answer) => emitted = Answer
      BY <1>1, <1>4, PrefixOfEmpty
    <2>4. EmittedLast'
      BY <1>2, <2>1 DEF EmittedLast
    <2> QED BY <1>1, <1>4, <2>1, <2>2, <2>3, <2>4
  <1>5. CASE Answer # <<>>
    <2>1. emitted' = Answer /\ shown' = shown \o Fresh(Answer)
      BY <1>5 DEF Look, Answer
    <2>2. CASE IsPrefix(emitted, Answer)
      <3> DEFINE r == SubSeq(Answer, Len(emitted) + 1, Len(Answer))
      <3>1. r \in Seq(Parts) /\ Answer = emitted \o r
        BY <1>1, <2>2, RestOf
      <3>2. shown' = shown \o r
        BY <2>1, <2>2 DEF Fresh
      <3> HIDE DEF r
      <3>3. shown \o r = u \o (emitted \o r)
        BY <1>1, <1>2, <3>1, ConcatAssociative
      <3>4. shown' = u \o Answer
        BY <3>1, <3>2, <3>3
      <3>5. shown = emitted => shown' = Answer
        BY <3>1, <3>2
      <3>6. EmittedLast'
        BY <1>2, <2>1, <3>4 DEF EmittedLast, Parts
      <3> QED BY <1>1, <1>2, <1>3, <1>5, <2>1, <3>4, <3>5, <3>6
    <2>3. CASE ~IsPrefix(emitted, Answer)
      <3>1. shown' = shown \o Answer
        BY <2>1, <2>3 DEF Fresh
      <3>2. EmittedLast'
        BY <1>1, <2>1, <3>1 DEF EmittedLast, Parts
      <3> QED BY <1>1, <1>3, <1>5, <2>1, <2>3, <3>1, <3>2
    <2> QED BY <2>2, <2>3
  <1> QED BY <1>4, <1>5

\* Look keeps the invariant.
LEMMA LookKeeps ==
  ASSUME ShownInv, Look
  PROVE  ShownInv'
  <1>1. UNCHANGED <<decoder, log, half, provider, seen>> /\ at = "look"
    BY DEF Look, providerVars
  <1>2. Ranges /\ Phases /\ AddedComes /\ EmittedLast /\ ShownOnce /\ EarlyTells /\ Succeeds
    BY DEF ShownInv
  <1>3. /\ Answer' = Answer /\ Consistent' = Consistent
        /\ Understood' = Understood /\ Added' = Added
    BY <1>1, LogKeeps
  <1>4. /\ emitted' \in Seq(Parts) /\ shown' \in Seq(Parts) /\ EmittedLast'
        /\ IsSuffix(Answer, shown')
        /\ emitted' = IF Answer = <<>> THEN emitted ELSE Answer
    BY <1>2, LookShows
  <1>5. shown = emitted /\ IsPrefix(emitted, Answer) =>
          shown' = emitted' /\ emitted' = Answer
    BY <1>2, LookShows
  <1>6. early' <=> (early \/ (decoder = "json" /\ AsPlain /\ Answer # <<>>))
    BY DEF Look, Answer
  <1>7. Agrees' => Agrees
    BY <1>3, <1>6 DEF Agrees
  <1>8. Agrees => shown' = emitted' /\ emitted' = Answer
    BY <1>2, <1>5 DEF ShownOnce
  <1>9. Ranges' /\ Phases'
    BY <1>1, <1>2, <1>4 DEF Ranges, Phases
  <1>10. AddedComes'
    BY <1>1, <1>2, <1>3 DEF AddedComes
  <1>11. ShownOnce'
    <2>1. \A s \in Seq(Parts) : IsPrefix(s, s)
      <3>1. \A s \in Seq(Parts) : s \o <<>> = s
        BY ConcatEmptySeq
      <3> QED BY <3>1, PrefixOfConcat, EmptySeq
    <2> QED BY <1>3, <1>4, <1>7, <1>8, <2>1 DEF ShownOnce
  <1>12. EarlyTells'
    <2> SUFFICES ASSUME decoder = "json", ~early', ~Understood
                 PROVE  emitted' = <<>>
      BY <1>1, <1>3 DEF EarlyTells
    <2>1. AsPlain /\ ~early
      BY <1>6 DEF AsPlain
    <2>2. Answer = <<>>
      BY <1>6, <2>1
    <2> QED BY <1>2, <1>4, <2>1, <2>2 DEF EarlyTells
  <1>13. Succeeds'
    <2> SUFFICES ASSUME result'.status = "success"
                 PROVE  /\ at' = "over" /\ provider = "succeeded"
                        /\ Agrees => shown' = result'.output
                        /\ IsSuffix(Answer, shown')
      BY <1>1, <1>3, <1>7 DEF Succeeds
    <2>1. seen = "succeeded" /\ at' = "over" /\ result'.output = Decode.final
      <3>1. result.status # "success"
        BY <1>1, <1>2 DEF Succeeds
      <3> QED BY <3>1 DEF Look, End
    <2>2. provider = "succeeded"
      BY <1>2, <2>1 DEF Phases
    <2>3. Agrees => Answer = Decode.final
      BY <1>2, AnswerIsFinal DEF Agrees
    <2> QED BY <1>4, <1>8, <2>1, <2>2, <2>3
  <1> QED BY <1>4, <1>9, <1>10, <1>11, <1>12, <1>13 DEF ShownInv

\* Every step keeps the invariant.
LEMMA ShownStep ==
  ShownInv /\ [StreamNext]_streamVars => ShownInv'
  <1> SUFFICES ASSUME ShownInv, [StreamNext]_streamVars
               PROVE  ShownInv'
    OBVIOUS
  <1>1. CASE WriteLine
    BY <1>1, LineKeeps
  <1>2. CASE WriteHalf
    BY <1>2, HalfKeeps
  <1>3. CASE Look
    BY <1>3, LookKeeps
  <1>4. CASE Exit \/ StopRun \/ Poll \/ UNCHANGED streamVars
    BY <1>4, OthersKeep
  <1> QED BY <1>1, <1>2, <1>3, <1>4 DEF StreamNext

\* The invariant of the poll loop of _run_one_invocation and of what it decodes, for any
\* texts and logs of any length.
THEOREM StreamInvariant == StreamSpec => []ShownInv
  BY ShownInit, ShownStep, PTL DEF StreamSpec

\* Of a run that succeeds, the deltas sent one poll after the other make its answer, if the
\* lines of the provider agree and none was shown before it was understood; in any case the
\* last decoding comes last of what was sent.
THEOREM SuccessIsShown == StreamSpec => []AnswerIsShown
  <1>1. ShownInv => AnswerIsShown
    BY DEF ShownInv, Succeeds, AnswerIsShown, Agrees, Answer
  <1> QED BY <1>1, StreamInvariant, PTL

\* What the record says is text, and the rest is in its range.
OutputText == result.output \in Seq(Parts)
Marks ==
    /\ half \in BOOLEAN /\ early \in BOOLEAN /\ provider \in {"up", "succeeded", "failed"}
    /\ at \in {"poll", "look", "over"}
    /\ result.status \in {"none", "success", "failed", "stopped"}

\* Every step keeps these ranges.
LEMMA RangesStep ==
  ASSUME ShownInv, ShownInv', OutputText, Marks,
         [StreamNext]_streamVars
  PROVE  OutputText' /\ Marks'
  <1>1. /\ Ranges /\ emitted' \in Seq(Parts) /\ emitted \in Seq(Parts)
        /\ Decode.final \in Seq(Parts)
    BY AnswerType DEF ShownInv, Ranges, Parts
  <1>2. UNCHANGED Parts
    BY DEF Parts
  <1>3. CASE WriteLine
    BY <1>2, <1>3 DEF WriteLine, OutputText, Marks
  <1>4. CASE WriteHalf
    BY <1>2, <1>4 DEF WriteHalf, OutputText, Marks
  <1>5. CASE Exit
    BY <1>2, <1>5 DEF Exit, OutputText, Marks
  <1>6. CASE StopRun
    <2>1. result' = [status |-> "stopped", output |-> emitted] /\ at' = "over"
      BY <1>6 DEF StopRun, End
    <2>2. UNCHANGED <<half, early, provider>>
      BY <1>6 DEF StopRun, providerVars
    <2> QED BY <1>1, <1>2, <2>1, <2>2 DEF OutputText, Marks
  <1>7. CASE Poll
    BY <1>2, <1>7 DEF Poll, providerVars, OutputText, Marks
  <1>8. CASE Look
    <2>1. \/ at' = "poll" /\ result' = result
          \/ at' = "over" /\ result' = [status |-> "success", output |-> Decode.final]
          \/ at' = "over" /\ result' = [status |-> "failed", output |-> emitted']
      BY <1>8 DEF Look, End
    <2>2. UNCHANGED <<half, provider>> /\ early' \in BOOLEAN
      BY <1>8 DEF Look, providerVars
    <2>3. OutputText'
      BY <1>1, <1>2, <2>1 DEF OutputText
    <2>4. Marks'
      BY <2>1, <2>2 DEF Marks
    <2> QED BY <2>3, <2>4
  <1>9. CASE UNCHANGED streamVars
    BY <1>2, <1>9 DEF streamVars, providerVars, OutputText, Marks
  <1> QED BY <1>3, <1>4, <1>5, <1>6, <1>7, <1>8, <1>9 DEF StreamNext

\* Every variable of the poll loop stays in its range, for any texts and logs of any length.
THEOREM StreamTypes == StreamSpec => []StreamTypeOK
  <1>1. StreamInit => OutputText /\ Marks
    <2>1. ASSUME StreamInit PROVE OutputText
      BY <2>1, HalfType DEF StreamInit, OutputText
    <2>2. ASSUME StreamInit PROVE Marks
      BY <2>2 DEF StreamInit, Marks
    <2> QED BY <2>1, <2>2
  <1>2. ShownInv /\ ShownInv' /\ (OutputText /\ Marks) /\ [StreamNext]_streamVars
          => (OutputText /\ Marks)'
    BY RangesStep
  <1>3. ShownInv /\ OutputText /\ Marks => StreamTypeOK
    BY DEF ShownInv, Ranges, Phases, OutputText, Marks, Parts, StreamTypeOK
  <1> QED BY <1>1, <1>2, <1>3, StreamInvariant, PTL DEF StreamSpec
=============================================================================

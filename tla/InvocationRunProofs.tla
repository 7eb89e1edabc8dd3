------------------------ MODULE InvocationRunProofs ------------------------
(***************************************************************************)
(* Theorems about InvocationRun, for any number of invocations and of      *)
(* threads, any amount of output, and any set of faulty adapters.          *)
(***************************************************************************)
EXTENDS InvocationRun, TLAPS

\* Every variable starts in its range.
LEMMA TypeInit == Init => TypeOK
  <1> SUFFICES ASSUME Init PROVE TypeOK
    OBVIOUS
  <1>1. inherited \in BOOLEAN /\ stop \in BOOLEAN /\ user \in BOOLEAN /\ globalDue \in BOOLEAN
    BY DEF Init
  <1>2. PoolTypes
    BY <1>1, CountAssumption DEF Init, PoolTypes, FutStates
  <1>3. RunnerTypes
    BY OutputAssumption DEF Init, RunnerTypes, RunnerPcs, ProvStates, Invocations
  <1>4. StarterTypes
    BY DEF Init, StarterTypes, ProvStates
  <1> QED BY <1>2, <1>3, <1>4 DEF TypeOK

\* A runner that returns leaves its types, and those of its future, in order.
LEMMA FinishTypes ==
  ASSUME TypeOK, NEW i \in Invocations, NEW from, NEW s \in Statuses, NEW a \in Nat,
         Finish(i, from, s, a)
  PROVE  /\ rpc' \in [Invocations -> RunnerPcs] /\ seen' \in [Invocations -> ProvStates]
         /\ status' \in [Invocations -> {"none"} \cup Statuses]
         /\ answer' \in [Invocations -> Nat] /\ fut' \in [Invocations -> FutStates]
         /\ UNCHANGED <<main, workers, next, outputs, result>>
  BY DEF Finish, At, TypeOK, PoolTypes, RunnerTypes, RunnerPcs, ProvStates, FutStates

\* Every step keeps the ranges.
LEMMA TypeStep == TypeOK /\ [Next]_vars => TypeOK'
  <1> SUFFICES ASSUME TypeOK, [Next]_vars PROVE TypeOK'
    OBVIOUS
  <1> USE CountAssumption, OutputAssumption, EndsAssumption
  <1> USE DEF poolVars, runnerVars, starterVars, clockVars, provVars
  <1>1. ASSUME NEW i \in Invocations, RunnerStep(i) \/ RunnerFault(i)
        PROVE  TypeOK'
    <2>1. CASE Begin(i)
      <3> USE DEF Begin, At, Goto, Finish, Start, Emit, Fresh, CancelProvider, Abandon
      <3>1. PoolTypes'
        BY <2>1 DEF TypeOK, PoolTypes, RunnerTypes, FutStates, Statuses, Invocations
      <3>2. RunnerTypes'
        BY <2>1 DEF TypeOK, PoolTypes, RunnerTypes, StarterTypes, RunnerPcs, ProvStates,
            Statuses
      <3>3. StarterTypes'
        BY <2>1 DEF TypeOK, StarterTypes, ProvStates
      <3> QED BY <3>1, <3>2, <3>3 DEF TypeOK
    <2>13. CASE Launch(i)
      <3> USE DEF Launch, At, Goto, Start
      <3>1. PoolTypes'
        BY <2>13 DEF TypeOK, PoolTypes
      <3>2. RunnerTypes'
        BY <2>13 DEF TypeOK, RunnerTypes, RunnerPcs
      <3>3. StarterTypes'
        BY <2>13 DEF TypeOK, StarterTypes
      <3> QED BY <3>1, <3>2, <3>3 DEF TypeOK
    <2>2. CASE ReportStop(i)
      <3> USE DEF ReportStop, At, Goto, Finish, Start, Emit, Fresh, CancelProvider, Abandon
      <3>1. PoolTypes'
        BY <2>2 DEF TypeOK, PoolTypes, RunnerTypes, FutStates, Statuses, Invocations
      <3>2. RunnerTypes'
        BY <2>2 DEF TypeOK, PoolTypes, RunnerTypes, StarterTypes, RunnerPcs, ProvStates,
            Statuses
      <3>3. StarterTypes'
        BY <2>2 DEF TypeOK, StarterTypes, ProvStates
      <3> QED BY <3>1, <3>2, <3>3 DEF TypeOK
    <2>3. CASE Get(i)
      <3>1. CASE box[i] = "ref" /\ Goto(i, "get", "loop")
        <4>1. PoolTypes' /\ RunnerTypes'
          BY <2>3, <3>1 DEF Get, Goto, At, TypeOK, PoolTypes, RunnerTypes, RunnerPcs
        <4>2. StarterTypes'
          BY <2>3, <3>1 DEF Get, TypeOK, StarterTypes
        <4> QED BY <4>1, <4>2 DEF TypeOK
      <3>2. CASE box[i] = "error" /\ Finish(i, "get", "failed", 0)
        <4>1. "failed" \in Statuses /\ 0 \in Nat
          BY DEF Statuses
        <4>2. PoolTypes' /\ RunnerTypes'
          BY <2>3, <3>2, <4>1, FinishTypes DEF Get, TypeOK, PoolTypes, RunnerTypes
        <4>3. StarterTypes'
          BY <2>3, <3>2 DEF Get, TypeOK, StarterTypes
        <4> QED BY <4>2, <4>3 DEF TypeOK
      <3> QED BY <2>3, <3>1, <3>2 DEF Get
    <2>4. CASE StartTest(i)
      <3>1. /\ StarterTypes'
            /\ UNCHANGED <<stop, reason, emitted, written, user,
                           globalDue, inherited>>
        BY <2>4 DEF StartTest, Abandon, TypeOK, StarterTypes
      <3>2. CASE Goto(i, "get", "stopped")
        BY <3>1, <3>2 DEF Goto, At, TypeOK, PoolTypes, RunnerTypes, RunnerPcs
      <3>3. CASE Finish(i, "get", "timeout", 0)
        <4>1. "timeout" \in Statuses /\ 0 \in Nat
          BY DEF Statuses
        <4> QED BY <3>1, <3>3, <4>1, FinishTypes DEF TypeOK, PoolTypes, RunnerTypes
      <3> QED BY <2>4, <3>2, <3>3 DEF StartTest
    <2>5. CASE LoopTest(i)
      <3> USE DEF LoopTest, At, Goto, Finish, Start, Emit, Fresh, CancelProvider, Abandon
      <3>1. PoolTypes'
        BY <2>5 DEF TypeOK, PoolTypes, RunnerTypes, FutStates, Statuses, Invocations
      <3>2. RunnerTypes'
        BY <2>5 DEF TypeOK, PoolTypes, RunnerTypes, StarterTypes, RunnerPcs, ProvStates,
            Statuses
      <3>3. StarterTypes'
        BY <2>5 DEF TypeOK, StarterTypes, ProvStates
      <3> QED BY <3>1, <3>2, <3>3 DEF TypeOK
    <2>6. CASE Poll(i)
      <3> USE DEF Poll, At, Goto, Finish, Start, Emit, Fresh, CancelProvider, Abandon
      <3>1. PoolTypes'
        BY <2>6 DEF TypeOK, PoolTypes, RunnerTypes, FutStates, Statuses, Invocations
      <3>2. RunnerTypes'
        BY <2>6 DEF TypeOK, PoolTypes, RunnerTypes, StarterTypes, RunnerPcs, ProvStates,
            Statuses
      <3>3. StarterTypes'
        BY <2>6 DEF TypeOK, StarterTypes, ProvStates
      <3> QED BY <3>1, <3>2, <3>3 DEF TypeOK
    <2>7. CASE Read(i)
      <3> USE DEF Read, At, Goto, Finish, Start, Emit, Fresh, CancelProvider, Abandon
      <3>1. PoolTypes'
        BY <2>7 DEF TypeOK, PoolTypes, RunnerTypes, FutStates, Statuses, Invocations
      <3>2. RunnerTypes'
        BY <2>7 DEF TypeOK, PoolTypes, RunnerTypes, StarterTypes, RunnerPcs, ProvStates,
            Statuses
      <3>3. StarterTypes'
        BY <2>7 DEF TypeOK, StarterTypes, ProvStates
      <3> QED BY <3>1, <3>2, <3>3 DEF TypeOK
    <2>8. CASE Complete(i)
      <3>1. PICK s \in Statuses : Finish(i, "decide", s, emitted[i])
        BY <2>8 DEF Complete, Statuses
      <3>2. emitted[i] \in Nat
        BY DEF TypeOK, RunnerTypes
      <3>3. /\ StarterTypes'
            /\ UNCHANGED <<stop, reason, emitted, written, user, globalDue, inherited>>
        BY <2>8 DEF Complete, TypeOK, StarterTypes
      <3> QED BY <3>1, <3>2, <3>3, FinishTypes DEF TypeOK, PoolTypes, RunnerTypes
    <2>9. CASE TestDue(i)
      <3>1. /\ StarterTypes'
            /\ UNCHANGED <<stop, reason, emitted, written, user,
                           globalDue, inherited>>
        BY <2>9 DEF TestDue, CancelProvider, TypeOK, StarterTypes, ProvStates
      <3>2. CASE Finish(i, "decide", "timeout", emitted[i])
        <4>1. "timeout" \in Statuses /\ emitted[i] \in Nat
          BY DEF Statuses, TypeOK, RunnerTypes
        <4> QED BY <3>1, <3>2, <4>1, FinishTypes DEF TypeOK, PoolTypes, RunnerTypes
      <3>3. CASE ~Finish(i, "decide", "timeout", emitted[i])
        <4>1. /\ rpc' = [rpc EXCEPT ![i] = "loop"] /\ seen' = [seen EXCEPT ![i] = "none"]
              /\ UNCHANGED <<poolVars, status, answer>>
          BY <2>9, <3>3 DEF TestDue, At
        <4> QED BY <3>1, <4>1 DEF TypeOK, PoolTypes, RunnerTypes, RunnerPcs, ProvStates
      <3> QED BY <3>2, <3>3
    <2>10. CASE PollRaises(i)
      <3> USE DEF PollRaises, At, Goto, Finish, Start, Emit, Fresh, CancelProvider, Abandon
      <3>1. PoolTypes'
        BY <2>10 DEF TypeOK, PoolTypes, RunnerTypes, FutStates, Statuses, Invocations
      <3>2. RunnerTypes'
        BY <2>10 DEF TypeOK, PoolTypes, RunnerTypes, StarterTypes, RunnerPcs, ProvStates,
            Statuses
      <3>3. StarterTypes'
        BY <2>10 DEF TypeOK, StarterTypes, ProvStates
      <3> QED BY <3>1, <3>2, <3>3 DEF TypeOK
    <2>11. CASE ReadFails(i)
      <3> USE DEF ReadFails, At, Goto, Finish, Start, Emit, Fresh, CancelProvider, Abandon
      <3>1. PoolTypes'
        BY <2>11 DEF TypeOK, PoolTypes, RunnerTypes, FutStates, Statuses, Invocations
      <3>2. RunnerTypes'
        BY <2>11 DEF TypeOK, PoolTypes, RunnerTypes, StarterTypes, RunnerPcs, ProvStates,
            Statuses
      <3>3. StarterTypes'
        BY <2>11 DEF TypeOK, StarterTypes, ProvStates
      <3> QED BY <3>1, <3>2, <3>3 DEF TypeOK
    <2>12. CASE WriteFails(i)
      <3> USE DEF WriteFails, At, Goto, Finish, Start, Emit, Fresh, CancelProvider, Abandon
      <3>1. PoolTypes'
        BY <2>12 DEF TypeOK, PoolTypes, RunnerTypes, FutStates, Statuses, Invocations
      <3>2. RunnerTypes'
        BY <2>12 DEF TypeOK, PoolTypes, RunnerTypes, StarterTypes, RunnerPcs, ProvStates,
            Statuses
      <3>3. StarterTypes'
        BY <2>12 DEF TypeOK, StarterTypes, ProvStates
      <3> QED BY <3>1, <3>2, <3>3 DEF TypeOK
    <2> QED
      BY <1>1, <2>1, <2>2, <2>3, <2>4, <2>5, <2>6, <2>7, <2>8, <2>9, <2>10, <2>11, <2>12, <2>13
        DEF RunnerStep, RunnerFault
  <1>2. ASSUME NEW i \in Invocations,
               StarterRuns(i) \/ StarterRaises(i) \/ StarterTest(i) \/ StarterPut(i)
        PROVE  TypeOK'
    <2>1. CASE StarterRuns(i)
      <3> USE DEF StarterRuns, Start, CancelProvider
      <3>1. PoolTypes'
        BY <2>1 DEF TypeOK, PoolTypes, RunnerTypes, FutStates, Statuses, Invocations
      <3>2. RunnerTypes'
        BY <2>1 DEF TypeOK, PoolTypes, RunnerTypes, StarterTypes, RunnerPcs, ProvStates,
            Statuses
      <3>3. StarterTypes'
        BY <2>1 DEF TypeOK, StarterTypes, ProvStates
      <3> QED BY <3>1, <3>2, <3>3 DEF TypeOK
    <2>2. CASE StarterRaises(i)
      <3> USE DEF StarterRaises, Start, CancelProvider
      <3>1. PoolTypes'
        BY <2>2 DEF TypeOK, PoolTypes, RunnerTypes, FutStates, Statuses, Invocations
      <3>2. RunnerTypes'
        BY <2>2 DEF TypeOK, PoolTypes, RunnerTypes, StarterTypes, RunnerPcs, ProvStates,
            Statuses
      <3>3. StarterTypes'
        BY <2>2 DEF TypeOK, StarterTypes, ProvStates
      <3> QED BY <3>1, <3>2, <3>3 DEF TypeOK
    <2>3. CASE StarterTest(i)
      <3> USE DEF StarterTest, Start, CancelProvider
      <3>1. PoolTypes'
        BY <2>3 DEF TypeOK, PoolTypes, RunnerTypes, FutStates, Statuses, Invocations
      <3>2. RunnerTypes'
        BY <2>3 DEF TypeOK, PoolTypes, RunnerTypes, StarterTypes, RunnerPcs, ProvStates,
            Statuses
      <3>3. StarterTypes'
        BY <2>3 DEF TypeOK, StarterTypes, ProvStates
      <3> QED BY <3>1, <3>2, <3>3 DEF TypeOK
    <2>4. CASE StarterPut(i)
      <3> USE DEF StarterPut, Start, CancelProvider
      <3>1. PoolTypes'
        BY <2>4 DEF TypeOK, PoolTypes, RunnerTypes, FutStates, Statuses, Invocations
      <3>2. RunnerTypes'
        BY <2>4 DEF TypeOK, PoolTypes, RunnerTypes, StarterTypes, RunnerPcs, ProvStates,
            Statuses
      <3>3. StarterTypes'
        BY <2>4 DEF TypeOK, StarterTypes, ProvStates
      <3> QED BY <3>1, <3>2, <3>3 DEF TypeOK
    <2> QED
      BY <1>2, <2>1, <2>2, <2>3, <2>4
  <1>3. ASSUME NEW i \in Invocations,
               ProviderWrites(i) \/ ProviderEnds(i) \/ DeadlinePasses(i) \/ Take(i)
        PROVE  TypeOK'
    <2>1. CASE ProviderWrites(i)
      <3>1. PoolTypes' /\ StarterTypes'
        BY <2>1 DEF ProviderWrites, TypeOK, PoolTypes, StarterTypes
      <3>2. written' = [written EXCEPT ![i] = written[i] + 1] /\ written[i] < MaxOutput[i]
        BY <2>1 DEF ProviderWrites
      <3>3. /\ written \in [Invocations -> Nat] /\ MaxOutput \in [Invocations -> Nat]
            /\ \A j \in Invocations : emitted[j] <= written[j] /\ written[j] <= MaxOutput[j]
            /\ emitted \in [Invocations -> Nat]
        BY DEF TypeOK, RunnerTypes, Invocations
      <3>4. /\ written' \in [Invocations -> Nat]
            /\ \A j \in Invocations : emitted[j] <= written'[j] /\ written'[j] <= MaxOutput[j]
        BY <3>2, <3>3
      <3>5. RunnerTypes'
        BY <2>1, <3>4 DEF ProviderWrites, TypeOK, RunnerTypes
      <3> QED BY <3>1, <3>5 DEF TypeOK
    <2>2. CASE ProviderEnds(i)
      <3> USE DEF ProviderEnds, Followed, Overdue, At
      <3>1. PoolTypes'
        BY <2>2 DEF TypeOK, PoolTypes, RunnerTypes, FutStates, Statuses, Invocations
      <3>2. RunnerTypes'
        BY <2>2 DEF TypeOK, PoolTypes, RunnerTypes, StarterTypes, RunnerPcs, ProvStates,
            Statuses
      <3>3. PICK o \in Ends[i] : prov' = [prov EXCEPT ![i] = o]
        BY <2>2 DEF ProviderEnds
      <3>4. o \in ProvStates
        BY DEF ProvStates, Invocations
      <3>5. StarterTypes'
        BY <2>2, <3>3, <3>4 DEF ProviderEnds, TypeOK, StarterTypes
      <3> QED BY <3>1, <3>2, <3>5 DEF TypeOK
    <2>3. CASE DeadlinePasses(i)
      <3> USE DEF DeadlinePasses, Followed, Overdue, At
      <3>1. PoolTypes'
        BY <2>3 DEF TypeOK, PoolTypes, RunnerTypes, FutStates, Statuses, Invocations
      <3>2. RunnerTypes'
        BY <2>3 DEF TypeOK, PoolTypes, RunnerTypes, StarterTypes, RunnerPcs, ProvStates,
            Statuses
      <3>3. StarterTypes'
        BY <2>3 DEF TypeOK, StarterTypes, ProvStates
      <3> QED BY <3>1, <3>2, <3>3 DEF TypeOK
    <2>4. CASE Take(i)
      <3>1. /\ StarterTypes'
            /\ UNCHANGED <<main, workers, outputs, result, stop,
                           reason, user, globalDue, inherited>>
        BY <2>4 DEF Take, TypeOK, StarterTypes
      <3>2. next' \in 1..(Count + 1)
        BY <2>4 DEF Take, Invocations
      <3>3. fut' \in [Invocations -> FutStates]
        BY <2>4 DEF Take, TypeOK, PoolTypes, FutStates
      <3>4. rpc' \in [Invocations -> RunnerPcs]
        BY <2>4 DEF Take, At, TypeOK, RunnerTypes, RunnerPcs
      <3>5. UNCHANGED <<seen, emitted, status, answer, written>>
        BY <2>4 DEF Take
      <3> QED BY <3>1, <3>2, <3>3, <3>4, <3>5 DEF TypeOK, PoolTypes, RunnerTypes
    <2> QED
      BY <1>3, <2>1, <2>2, <2>3, <2>4
  <1>4. ASSUME MainStep PROVE TypeOK'
    <2> USE DEF MainGoto, EndTurn
    <2>1. RunnerTypes' /\ StarterTypes'
      BY <1>4 DEF MainStep, Submit, TestDeadline, SetStop, Collect, EndSweep, Report,
          CancelFuture, TypeOK, RunnerTypes, StarterTypes
    <2>2. PoolTypes'
      <3> USE DEF TypeOK, PoolTypes
      <3>1. CASE Submit
        BY <3>1 DEF Submit, FutStates
      <3>2. CASE TestDeadline
        BY <3>2 DEF TestDeadline
      <3>3. CASE SetStop
        BY <3>3 DEF SetStop
      <3>4. CASE Collect
        <4>1. outputs' \in [Invocations -> {"none"} \cup Statuses]
          BY <3>4 DEF Collect, Outputs, RunnerTypes, Statuses
        <4> QED BY <3>4, <4>1 DEF Collect
      <3>5. CASE EndSweep
        BY <3>5 DEF EndSweep
      <3>6. CASE Report
        BY <3>6 DEF Report
      <3>7. CASE \E i \in Invocations : CancelFuture(i)
        BY <3>7 DEF CancelFuture, FutStates
      <3> QED BY <1>4, <3>1, <3>2, <3>3, <3>4, <3>5, <3>6, <3>7 DEF MainStep
    <2> QED BY <2>1, <2>2 DEF TypeOK
  <1>5. ASSUME UserCancels \/ GlobalPasses PROVE TypeOK'
    BY <1>5 DEF UserCancels, GlobalPasses, TypeOK, PoolTypes, RunnerTypes, StarterTypes
  <1>6. ASSUME UNCHANGED vars PROVE TypeOK'
    BY <1>6 DEF vars, TypeOK, PoolTypes, RunnerTypes, StarterTypes
  <1> QED
    BY <1>1, <1>2, <1>3, <1>4, <1>5, <1>6 DEF Next

\* Every variable stays in its range.
THEOREM TypeCorrect == Spec => []TypeOK
  BY TypeInit, TypeStep, PTL DEF Spec

-----------------------------------------------------------------------------
(* The inductive invariant *)

\* Who has the run: the starter until it puts it in the box, then the runner.  What a
\* runner that is over left in the box, or let run, is lost; and a starter that is still
\* at work when its runner has left knows, or will see, that it was abandoned.
Handover(i) ==
    /\ rpc[i] \in {"none", "begin", "launch"} => spc[i] = "none"
    /\ spc[i] \in {"none", "invoking"} => prov[i] = "none"
    /\ spc[i] # "ended" => box[i] = "empty"
    /\ box[i] = "error" => prov[i] = "none"
    /\ abandoned[i] => rpc[i] \in {"stopped", "done"}
    /\ rpc[i] = "get" => spc[i] # "none" /\ (spc[i] = "ended" => box[i] # "empty")
    /\ rpc[i] \in {"loop", "poll", "read", "decide"} => spc[i] = "ended" /\ box[i] = "empty"
    /\ rpc[i] \in {"stopped", "done"} =>
         /\ spc[i] \in {"invoking", "started"} => abandoned[i]
         /\ spc[i] = "putting" \/ box[i] = "ref" => i \in lost
         /\ spc[i] = "ended" /\ prov[i] = "running" => i \in lost

\* What a poll saw stays so: a provider that has ended does not write or change.
Polled(i) ==
    /\ seen[i] \in {"succeeded", "failed", "cancelled"} =>
         /\ prov[i] = seen[i]
         /\ rpc[i] = "decide" => emitted[i] = written[i]
    /\ status[i] = "success" =>
         /\ rpc[i] = "done" /\ prov[i] = "succeeded"
         /\ emitted[i] = written[i] /\ answer[i] = written[i]

\* What a stop and the ends it brings about are reported as: the reason is noted before
\* the event is set for it, and a run ends for good.
Reasons(i) ==
    /\ reason = "timeout" => globalDue
    /\ main = "set_stop" => reason = "timeout"
    /\ stop /\ reason = "cancelled" => user \/ inherited
    /\ main = "sweep" \/ rpc[i] = "stopped" \/ fut[i] \in {"cancelled", "notified"} => stop
    /\ status[i] # "none" <=> rpc[i] = "done"
    /\ fut[i] = "finished" <=> rpc[i] = "done"
    /\ fut[i] \in {"none", "pending", "cancelled", "notified"} <=> rpc[i] = "none"
    /\ outputs[i] = "none" \/ Done(i)
    /\ fut[i] = "finished" => outputs[i] \in {"none", status[i]}
    /\ fut[i] = "notified" => outputs[i] # "success"
    /\ main = "submit" => fut[i] = "none"
    /\ status[i] = "timeout" => Overdue(i)
    /\ status[i] = "cancelled" => prov[i] = "cancelled" \/ user \/ inherited
    /\ fut[i] = "notified" /\ outputs[i] = "timeout" => globalDue
    /\ fut[i] = "notified" /\ outputs[i] = "cancelled" => user \/ inherited
    /\ main \in {"report", "returned"} => Collected(i)

\* A run that its runner has begun to follow was started before the stop, or the runner
\* is about to see the stop.
InTime(i) ==
    /\ spc[i] \in {"none", "invoking"} => i \notin timely
    /\ spc[i] \in {"started", "putting"} \/ box[i] = "ref" \/ rpc[i] = "loop" => i \in timely \/ stop
    /\ rpc[i] \in {"poll", "read", "decide"} \/ status[i] = "success" => i \in timely

\* The task is reported by what the invocations were reported as.
Verdict ==
    main = "returned" =>
        /\ result = "complete" <=> \A i \in Invocations : outputs[i] = "success"
        /\ result = "failed" <=> \A i \in Invocations : outputs[i] # "success"

\* The inductive invariant.
IInv ==
    /\ TypeOK /\ Verdict
    /\ \A i \in Invocations : Handover(i) /\ Polled(i) /\ Reasons(i) /\ InTime(i)

\* Every step keeps what was polled.
LEMMA PolledStep ==
  ASSUME TypeOK, \A i \in Invocations : Polled(i) /\ Handover(i), [Next]_vars
  PROVE  \A i \in Invocations : Polled(i)'
  <1> SUFFICES ASSUME NEW j \in Invocations PROVE Polled(j)'
    OBVIOUS
  <1> USE DEF poolVars, runnerVars, starterVars, clockVars, provVars
  <1> USE DEF Polled, Handover, TypeOK, PoolTypes, RunnerTypes, StarterTypes, ProvStates,
      At, Goto, Finish, Start, CancelProvider, Abandon, Emit, Followed
  <1>1. ASSUME NEW i \in Invocations, RunnerStep(i) \/ RunnerFault(i)
        PROVE  Polled(j)'
    <2>1. CASE Begin(i)
      BY <2>1 DEF Begin
    <2>13. CASE Launch(i)
      BY <2>13 DEF Launch
    <2>2. CASE ReportStop(i)
      BY <2>2 DEF ReportStop
    <2>3. CASE Get(i)
      BY <2>3 DEF Get
    <2>4. CASE StartTest(i)
      BY <2>4 DEF StartTest
    <2>5. CASE LoopTest(i)
      BY <2>5 DEF LoopTest
    <2>6. CASE Poll(i)
      BY <2>6 DEF Poll
    <2>7. CASE Read(i)
      BY <2>7 DEF Read
    <2>8. CASE Complete(i)
      BY <2>8 DEF Complete
    <2>9. CASE TestDue(i)
      BY <2>9 DEF TestDue
    <2>10. CASE PollRaises(i)
      BY <2>10 DEF PollRaises
    <2>11. CASE ReadFails(i)
      BY <2>11 DEF ReadFails
    <2>12. CASE WriteFails(i)
      BY <2>12 DEF WriteFails
    <2> QED
      BY <1>1, <2>1, <2>2, <2>3, <2>4, <2>5, <2>6, <2>7, <2>8, <2>9, <2>10, <2>11, <2>12, <2>13
        DEF RunnerStep, RunnerFault
  <1>2. ASSUME NEW i \in Invocations,
               StarterRuns(i) \/ StarterRaises(i) \/ StarterTest(i) \/ StarterPut(i)
        PROVE  Polled(j)'
    <2>1. CASE StarterRuns(i)
      BY <2>1 DEF StarterRuns
    <2>2. CASE StarterRaises(i)
      BY <2>2 DEF StarterRaises
    <2>3. CASE StarterTest(i)
      BY <2>3 DEF StarterTest
    <2>4. CASE StarterPut(i)
      BY <2>4 DEF StarterPut
    <2> QED
      BY <1>2, <2>1, <2>2, <2>3, <2>4
  <1>3. ASSUME NEW i \in Invocations,
               ProviderWrites(i) \/ ProviderEnds(i) \/ DeadlinePasses(i) \/ Take(i)
        PROVE  Polled(j)'
    <2>1. CASE ProviderWrites(i)
      BY <2>1 DEF ProviderWrites
    <2>2. CASE ProviderEnds(i)
      BY <2>2 DEF ProviderEnds
    <2>3. CASE DeadlinePasses(i)
      BY <2>3 DEF DeadlinePasses
    <2>4. CASE Take(i)
      BY <2>4 DEF Take
    <2> QED
      BY <1>3, <2>1, <2>2, <2>3, <2>4
  <1>4. ASSUME MainStep PROVE Polled(j)'
    <2>1. CASE Submit
      BY <2>1 DEF Submit
    <2>2. CASE TestDeadline
      BY <2>2 DEF TestDeadline
    <2>3. CASE SetStop
      BY <2>3 DEF SetStop
    <2>4. CASE Collect
      BY <2>4 DEF Collect
    <2>5. CASE EndSweep
      BY <2>5 DEF EndSweep
    <2>6. CASE Report
      BY <2>6 DEF Report
    <2>7. CASE \E i \in Invocations : CancelFuture(i)
      BY <2>7 DEF CancelFuture
    <2> QED BY <1>4, <2>1, <2>2, <2>3, <2>4, <2>5, <2>6, <2>7 DEF MainStep
  <1>5. ASSUME UserCancels \/ GlobalPasses PROVE Polled(j)'
    BY <1>5 DEF UserCancels, GlobalPasses
  <1>6. ASSUME UNCHANGED vars PROVE Polled(j)'
    BY <1>6 DEF vars
  <1> QED
    BY <1>1, <1>2, <1>3, <1>4, <1>5, <1>6 DEF Next

\* Every step keeps the hand-over in order.
LEMMA HandoverStep ==
  ASSUME TypeOK, \A i \in Invocations : Polled(i) /\ Handover(i), [Next]_vars
  PROVE  \A i \in Invocations : Handover(i)'
  <1> SUFFICES ASSUME NEW j \in Invocations PROVE Handover(j)'
    OBVIOUS
  <1> USE DEF poolVars, runnerVars, starterVars, clockVars, provVars
  <1> USE DEF Polled, Handover, TypeOK, PoolTypes, RunnerTypes, StarterTypes, ProvStates,
      At, Goto, Finish, Start, CancelProvider, Abandon, Followed
  <1>1. ASSUME NEW i \in Invocations, RunnerStep(i) \/ RunnerFault(i)
        PROVE  Handover(j)'
    <2>1. CASE Begin(i)
      BY <2>1 DEF Begin
    <2>13. CASE Launch(i)
      BY <2>13 DEF Launch
    <2>2. CASE ReportStop(i)
      BY <2>2 DEF ReportStop
    <2>3. CASE Get(i)
      BY <2>3 DEF Get
    <2>4. CASE StartTest(i)
      BY <2>4 DEF StartTest
    <2>5. CASE LoopTest(i)
      BY <2>5 DEF LoopTest
    <2>6. CASE Poll(i)
      BY <2>6 DEF Poll
    <2>7. CASE Read(i)
      BY <2>7 DEF Read
    <2>8. CASE Complete(i)
      BY <2>8 DEF Complete
    <2>9. CASE TestDue(i)
      BY <2>9 DEF TestDue
    <2>10. CASE PollRaises(i)
      BY <2>10 DEF PollRaises
    <2>11. CASE ReadFails(i)
      BY <2>11 DEF ReadFails
    <2>12. CASE WriteFails(i)
      BY <2>12 DEF WriteFails
    <2> QED
      BY <1>1, <2>1, <2>2, <2>3, <2>4, <2>5, <2>6, <2>7, <2>8, <2>9, <2>10, <2>11, <2>12, <2>13
        DEF RunnerStep, RunnerFault
  <1>2. ASSUME NEW i \in Invocations,
               StarterRuns(i) \/ StarterRaises(i) \/ StarterTest(i) \/ StarterPut(i)
        PROVE  Handover(j)'
    <2>1. CASE StarterRuns(i)
      BY <2>1 DEF StarterRuns
    <2>2. CASE StarterRaises(i)
      BY <2>2 DEF StarterRaises
    <2>3. CASE StarterTest(i)
      BY <2>3 DEF StarterTest
    <2>4. CASE StarterPut(i)
      BY <2>4 DEF StarterPut
    <2> QED
      BY <1>2, <2>1, <2>2, <2>3, <2>4
  <1>3. ASSUME NEW i \in Invocations,
               ProviderWrites(i) \/ ProviderEnds(i) \/ DeadlinePasses(i) \/ Take(i)
        PROVE  Handover(j)'
    <2>1. CASE ProviderWrites(i)
      BY <2>1 DEF ProviderWrites
    <2>2. CASE ProviderEnds(i)
      BY <2>2 DEF ProviderEnds
    <2>3. CASE DeadlinePasses(i)
      BY <2>3 DEF DeadlinePasses
    <2>4. CASE Take(i)
      BY <2>4 DEF Take
    <2> QED
      BY <1>3, <2>1, <2>2, <2>3, <2>4
  <1>4. ASSUME MainStep PROVE Handover(j)'
    <2>1. CASE Submit
      BY <2>1 DEF Submit
    <2>2. CASE TestDeadline
      BY <2>2 DEF TestDeadline
    <2>3. CASE SetStop
      BY <2>3 DEF SetStop
    <2>4. CASE Collect
      BY <2>4 DEF Collect
    <2>5. CASE EndSweep
      BY <2>5 DEF EndSweep
    <2>6. CASE Report
      BY <2>6 DEF Report
    <2>7. CASE \E i \in Invocations : CancelFuture(i)
      BY <2>7 DEF CancelFuture
    <2> QED BY <1>4, <2>1, <2>2, <2>3, <2>4, <2>5, <2>6, <2>7 DEF MainStep
  <1>5. ASSUME UserCancels \/ GlobalPasses PROVE Handover(j)'
    BY <1>5 DEF UserCancels, GlobalPasses
  <1>6. ASSUME UNCHANGED vars PROVE Handover(j)'
    BY <1>6 DEF vars
  <1> QED
    BY <1>1, <1>2, <1>3, <1>4, <1>5, <1>6 DEF Next

\* Every step keeps the reasons.
LEMMA ReasonsStep ==
  ASSUME TypeOK, \A i \in Invocations : Polled(i) /\ Handover(i) /\ Reasons(i), [Next]_vars
  PROVE  \A i \in Invocations : Reasons(i)'
  <1> SUFFICES ASSUME NEW j \in Invocations PROVE Reasons(j)'
    OBVIOUS
  <1> USE DEF poolVars, runnerVars, starterVars, clockVars, provVars
  <1> USE DEF Reasons, Polled, Handover, TypeOK, PoolTypes, RunnerTypes, StarterTypes,
      ProvStates, At, Goto, Finish, Start, CancelProvider, Abandon, MainGoto, EndTurn,
      Outputs, Followed, Overdue, Done, Collected, Fresh
  <1>1. ASSUME NEW i \in Invocations, RunnerStep(i) \/ RunnerFault(i)
        PROVE  Reasons(j)'
    <2>1. CASE Begin(i)
      BY <2>1 DEF Begin
    <2>13. CASE Launch(i)
      BY <2>13 DEF Launch
    <2>2. CASE ReportStop(i)
      BY <2>2 DEF ReportStop
    <2>3. CASE Get(i)
      BY <2>3 DEF Get
    <2>4. CASE StartTest(i)
      BY <2>4 DEF StartTest
    <2>5. CASE LoopTest(i)
      BY <2>5 DEF LoopTest
    <2>6. CASE Poll(i)
      BY <2>6 DEF Poll
    <2>7. CASE Read(i)
      BY <2>7 DEF Read
    <2>8. CASE Complete(i)
      BY <2>8 DEF Complete
    <2>9. CASE TestDue(i)
      BY <2>9 DEF TestDue
    <2>10. CASE PollRaises(i)
      BY <2>10 DEF PollRaises
    <2>11. CASE ReadFails(i)
      BY <2>11 DEF ReadFails
    <2>12. CASE WriteFails(i)
      BY <2>12 DEF WriteFails
    <2> QED
      BY <1>1, <2>1, <2>2, <2>3, <2>4, <2>5, <2>6, <2>7, <2>8, <2>9, <2>10, <2>11, <2>12, <2>13
        DEF RunnerStep, RunnerFault
  <1>2. ASSUME NEW i \in Invocations,
               StarterRuns(i) \/ StarterRaises(i) \/ StarterTest(i) \/ StarterPut(i)
        PROVE  Reasons(j)'
    <2>1. CASE StarterRuns(i)
      BY <2>1 DEF StarterRuns
    <2>2. CASE StarterRaises(i)
      BY <2>2 DEF StarterRaises
    <2>3. CASE StarterTest(i)
      BY <2>3 DEF StarterTest
    <2>4. CASE StarterPut(i)
      BY <2>4 DEF StarterPut
    <2> QED
      BY <1>2, <2>1, <2>2, <2>3, <2>4
  <1>3. ASSUME NEW i \in Invocations,
               ProviderWrites(i) \/ ProviderEnds(i) \/ DeadlinePasses(i) \/ Take(i)
        PROVE  Reasons(j)'
    <2>1. CASE ProviderWrites(i)
      BY <2>1 DEF ProviderWrites
    <2>2. CASE ProviderEnds(i)
      BY <2>2 DEF ProviderEnds
    <2>3. CASE DeadlinePasses(i)
      BY <2>3 DEF DeadlinePasses
    <2>4. CASE Take(i)
      BY <2>4 DEF Take
    <2> QED
      BY <1>3, <2>1, <2>2, <2>3, <2>4
  <1>4. ASSUME MainStep PROVE Reasons(j)'
    <2>1. CASE Submit
      BY <2>1 DEF Submit
    <2>2. CASE TestDeadline
      BY <2>2 DEF TestDeadline
    <2>3. CASE SetStop
      BY <2>3 DEF SetStop
    <2>4. CASE Collect
      BY <2>4 DEF Collect
    <2>5. CASE EndSweep
      BY <2>5 DEF EndSweep
    <2>6. CASE Report
      BY <2>6 DEF Report
    <2>7. CASE \E i \in Invocations : CancelFuture(i)
      BY <2>7 DEF CancelFuture
    <2> QED BY <1>4, <2>1, <2>2, <2>3, <2>4, <2>5, <2>6, <2>7 DEF MainStep
  <1>5. ASSUME UserCancels \/ GlobalPasses PROVE Reasons(j)'
    BY <1>5 DEF UserCancels, GlobalPasses
  <1>6. ASSUME UNCHANGED vars PROVE Reasons(j)'
    BY <1>6 DEF vars
  <1> QED
    BY <1>1, <1>2, <1>3, <1>4, <1>5, <1>6 DEF Next

\* Every step keeps apart what was started in time.
LEMMA InTimeStep ==
  ASSUME TypeOK, \A i \in Invocations : Handover(i) /\ Polled(i) /\ Reasons(i) /\ InTime(i),
         [Next]_vars
  PROVE  \A i \in Invocations : InTime(i)'
  <1> SUFFICES ASSUME NEW j \in Invocations PROVE InTime(j)'
    OBVIOUS
  <1> USE DEF poolVars, runnerVars, starterVars, clockVars, provVars
  <1> USE DEF InTime, Polled, Handover, TypeOK, PoolTypes, RunnerTypes, StarterTypes, ProvStates,
      At, Goto, Finish, Start, CancelProvider, Abandon, Emit, Followed
  <1>1. ASSUME NEW i \in Invocations, RunnerStep(i) \/ RunnerFault(i)
        PROVE  InTime(j)'
    <2>1. CASE Begin(i)
      BY <2>1 DEF Begin
    <2>13. CASE Launch(i)
      BY <2>13 DEF Launch
    <2>2. CASE ReportStop(i)
      BY <2>2 DEF ReportStop
    <2>3. CASE Get(i)
      BY <2>3 DEF Get
    <2>4. CASE StartTest(i)
      BY <2>4 DEF StartTest
    <2>5. CASE LoopTest(i)
      BY <2>5 DEF LoopTest
    <2>6. CASE Poll(i)
      BY <2>6 DEF Poll
    <2>7. CASE Read(i)
      BY <2>7 DEF Read
    <2>8. CASE Complete(i)
      BY <2>8 DEF Complete
    <2>9. CASE TestDue(i)
      BY <2>9 DEF TestDue
    <2>10. CASE PollRaises(i)
      BY <2>10 DEF PollRaises
    <2>11. CASE ReadFails(i)
      BY <2>11 DEF ReadFails
    <2>12. CASE WriteFails(i)
      BY <2>12 DEF WriteFails
    <2> QED
      BY <1>1, <2>1, <2>2, <2>3, <2>4, <2>5, <2>6, <2>7, <2>8, <2>9, <2>10, <2>11, <2>12, <2>13
        DEF RunnerStep, RunnerFault
  <1>2. ASSUME NEW i \in Invocations,
               StarterRuns(i) \/ StarterRaises(i) \/ StarterTest(i) \/ StarterPut(i)
        PROVE  InTime(j)'
    <2>1. CASE StarterRuns(i)
      BY <2>1 DEF StarterRuns
    <2>2. CASE StarterRaises(i)
      BY <2>2 DEF StarterRaises
    <2>3. CASE StarterTest(i)
      BY <2>3 DEF StarterTest
    <2>4. CASE StarterPut(i)
      BY <2>4 DEF StarterPut
    <2> QED
      BY <1>2, <2>1, <2>2, <2>3, <2>4
  <1>3. ASSUME NEW i \in Invocations,
               ProviderWrites(i) \/ ProviderEnds(i) \/ DeadlinePasses(i) \/ Take(i)
        PROVE  InTime(j)'
    <2>1. CASE ProviderWrites(i)
      BY <2>1 DEF ProviderWrites
    <2>2. CASE ProviderEnds(i)
      BY <2>2 DEF ProviderEnds
    <2>3. CASE DeadlinePasses(i)
      BY <2>3 DEF DeadlinePasses
    <2>4. CASE Take(i)
      BY <2>4 DEF Take
    <2> QED
      BY <1>3, <2>1, <2>2, <2>3, <2>4
  <1>4. ASSUME MainStep PROVE InTime(j)'
    <2>1. CASE Submit
      BY <2>1 DEF Submit
    <2>2. CASE TestDeadline
      BY <2>2 DEF TestDeadline
    <2>3. CASE SetStop
      BY <2>3 DEF SetStop
    <2>4. CASE Collect
      BY <2>4 DEF Collect
    <2>5. CASE EndSweep
      BY <2>5 DEF EndSweep
    <2>6. CASE Report
      BY <2>6 DEF Report
    <2>7. CASE \E i \in Invocations : CancelFuture(i)
      BY <2>7 DEF CancelFuture
    <2> QED BY <1>4, <2>1, <2>2, <2>3, <2>4, <2>5, <2>6, <2>7 DEF MainStep
  <1>5. ASSUME UserCancels \/ GlobalPasses PROVE InTime(j)'
    BY <1>5 DEF UserCancels, GlobalPasses
  <1>6. ASSUME UNCHANGED vars PROVE InTime(j)'
    BY <1>6 DEF vars
  <1> QED
    BY <1>1, <1>2, <1>3, <1>4, <1>5, <1>6 DEF Next

\* Every step keeps the verdict: Report gives it, and what it is given from stays.
LEMMA VerdictStep ==
  ASSUME TypeOK, Verdict, [Next]_vars
  PROVE  Verdict'
  <1> USE DEF poolVars, runnerVars, starterVars, clockVars, provVars, Verdict
  <1>1. CASE Report
    <2>1. Invocations # {}
      BY CountAssumption DEF Invocations
    <2> QED
      BY <1>1, <2>1 DEF Report, MainGoto
  <1>2. CASE ~Report /\ UNCHANGED <<main, outputs, result>>
    BY <1>2
  <1>3. CASE main' # "returned"
    BY <1>3
  <1>4. ASSUME MainStep, ~Report PROVE main' # "returned"
    BY <1>4 DEF MainStep, Submit, TestDeadline, SetStop, Collect, EndSweep, CancelFuture,
                MainGoto, EndTurn
  <1>5. ASSUME NEW i \in Invocations, RunnerStep(i) \/ RunnerFault(i)
        PROVE  UNCHANGED <<main, outputs, result>>
    BY <1>5 DEF RunnerStep, RunnerFault, Begin, Launch, ReportStop, Get, StartTest, LoopTest,
        Poll, Read,
                Complete, TestDue, PollRaises, ReadFails, WriteFails, Finish, Goto
  <1>6. ASSUME NEW i \in Invocations,
               \/ Take(i) \/ StarterRuns(i) \/ StarterRaises(i) \/ StarterTest(i) \/ StarterPut(i)
               \/ ProviderWrites(i) \/ ProviderEnds(i) \/ DeadlinePasses(i)
        PROVE  UNCHANGED <<main, outputs, result>>
    BY <1>6 DEF Take, StarterRuns, StarterRaises, StarterTest, StarterPut, ProviderWrites,
                ProviderEnds, DeadlinePasses
  <1>7. ASSUME UserCancels \/ GlobalPasses \/ UNCHANGED vars
        PROVE  UNCHANGED <<main, outputs, result>>
    BY <1>7 DEF UserCancels, GlobalPasses, vars
  <1> QED
    BY <1>1, <1>2, <1>3, <1>4, <1>5, <1>6, <1>7 DEF Next

\* The invariant holds at the start.
LEMMA InvariantInit == Init => IInv
  <1> SUFFICES ASSUME Init PROVE IInv
    OBVIOUS
  <1>1. TypeOK
    BY TypeInit
  <1>2. Verdict
    BY DEF Init, Verdict
  <1>3. ASSUME NEW i \in Invocations PROVE Handover(i) /\ Polled(i)
    BY DEF Init, Handover, Polled
  <1>4. ASSUME NEW i \in Invocations PROVE Reasons(i) /\ InTime(i)
    BY DEF Init, Reasons, InTime
  <1> QED
    BY <1>1, <1>2, <1>3, <1>4 DEF IInv

\* Every step keeps it.
LEMMA InvariantStep == IInv /\ [Next]_vars => IInv'
  <1> SUFFICES ASSUME IInv, [Next]_vars PROVE IInv'
    OBVIOUS
  <1>1. /\ TypeOK /\ Verdict
        /\ \A i \in Invocations : Handover(i) /\ Polled(i) /\ Reasons(i) /\ InTime(i)
    BY DEF IInv
  <1>2. TypeOK' /\ Verdict'
    BY <1>1, TypeStep, VerdictStep
  <1>3. \A i \in Invocations : Handover(i)' /\ Polled(i)' /\ Reasons(i)' /\ InTime(i)'
    BY <1>1, HandoverStep, PolledStep, ReasonsStep, InTimeStep
  <1> QED
    BY <1>2, <1>3 DEF IInv, Invocations

\* Every state a run of the threads can reach satisfies it.
THEOREM Invariance == Spec => []IInv
  BY InvariantInit, InvariantStep, PTL DEF Spec

-----------------------------------------------------------------------------
(* What follows *)

\* Once an invocation is over its provider does not run, but for the named losses.
THEOREM NoProviderIsLeft == Spec => []NoProviderLeft
  <1>1. ASSUME IInv PROVE NoProviderLeft
    BY <1>1 DEF IInv, TypeOK, StarterTypes, Handover, NoProviderLeft, InHand
  <1> QED
    BY <1>1, Invariance, PTL

\* A success is whole.
THEOREM SuccessesAreWhole == Spec => []SuccessIsWhole
  <1>1. ASSUME IInv PROVE SuccessIsWhole
    BY <1>1 DEF IInv, Polled, SuccessIsWhole
  <1> QED
    BY <1>1, Invariance, PTL

\* An invocation is reported as timed out, or as cancelled, only if it was.
THEOREM EndsHaveReasons == Spec => []StoppedForAReason
  <1>1. ASSUME IInv PROVE StoppedForAReason
    BY <1>1 DEF IInv, Reasons, Done, Overdue, StoppedForAReason
  <1> QED
    BY <1>1, Invariance, PTL

\* The result of the task says what happened to the invocations, and is final.
THEOREM ResultIsTruthful == Spec => []ResultTruthful
  <1>1. ASSUME IInv, main = "returned"
        PROVE  /\ \A i \in Invocations : Done(i) /\ Collected(i)
               /\ \A i \in Invocations : outputs[i] = "success" <=> status[i] = "success"
    BY <1>1 DEF IInv, Reasons, Done, Collected
  <1>2. ASSUME IInv PROVE ResultTruthful
    BY <1>1, <1>2 DEF IInv, Verdict, ResultTruthful
  <1> QED
    BY <1>2, Invariance, PTL

\* A step of a runner moves it alone, and but for Launch leaves the starter where it is.
LEMMA RunnerMoves ==
  ASSUME NEW i \in Invocations, RunnerStep(i) \/ RunnerFault(i), ~Launch(i)
  PROVE  /\ UNCHANGED <<spc, timely, main, outputs, result, stop>> /\ rpc[i] # "launch"
         /\ \E to \in RunnerPcs :
              rpc' = [rpc EXCEPT ![i] = to] /\ (to = "launch" => ~stop /\ rpc[i] = "begin")
  <1> USE DEF poolVars, runnerVars, starterVars, clockVars, provVars, Goto, Finish, At, RunnerPcs,
        CancelProvider, Abandon
  <1>1. CASE Begin(i)
    BY <1>1 DEF Begin
  <1>2. CASE ReportStop(i) \/ Get(i) \/ StartTest(i) \/ LoopTest(i)
    BY <1>2 DEF ReportStop, Get, StartTest, LoopTest
  <1>3. CASE Poll(i) \/ Read(i) \/ Complete(i) \/ TestDue(i)
    BY <1>3 DEF Poll, Read, Complete, TestDue
  <1>4. CASE PollRaises(i) \/ ReadFails(i) \/ WriteFails(i)
    BY <1>4 DEF PollRaises, ReadFails, WriteFails
  <1> QED
    BY <1>1, <1>2, <1>3, <1>4 DEF RunnerStep, RunnerFault

\* Only Begin, which looks at the event, begins an invocation.
LEMMA BegunBy ==
  ASSUME IInv, [Next]_vars, NEW j \in Invocations, ~Begun(j), Begun(j)'
  PROVE  ~stop
  <1> USE DEF poolVars, runnerVars, starterVars, clockVars, provVars
  <1>1. TypeOK /\ \A i \in Invocations : Handover(i)
    BY DEF IInv
  <1>2. rpc \in [Invocations -> RunnerPcs] /\ spc[j] = "none" /\ rpc[j] # "launch"
    BY <1>1 DEF TypeOK, RunnerTypes, Begun
  <1>3. ASSUME NEW i \in Invocations, RunnerStep(i) \/ RunnerFault(i), ~Launch(i) PROVE ~stop
    <2>1. UNCHANGED spc /\ \E to \in RunnerPcs :
              rpc' = [rpc EXCEPT ![i] = to] /\ (to = "launch" => ~stop /\ rpc[i] = "begin")
      BY <1>3, RunnerMoves
    <2>2. PICK to \in RunnerPcs :
              rpc' = [rpc EXCEPT ![i] = to] /\ (to = "launch" => ~stop /\ rpc[i] = "begin")
      BY <2>1
    <2>3. rpc'[j] = "launch"
      BY <1>2, <2>1 DEF Begun
    <2>4. to = "launch"
      BY <1>2, <2>2, <2>3
    <2> QED
      BY <2>2, <2>4
  <1>4. ASSUME NEW i \in Invocations, Launch(i) PROVE FALSE
    BY <1>1, <1>2, <1>4 DEF Launch, Goto, At, Start, TypeOK, StarterTypes, Begun
  <1>5. ASSUME NEW i \in Invocations,
               StarterRuns(i) \/ StarterRaises(i) \/ StarterTest(i) \/ StarterPut(i)
        PROVE  FALSE
    BY <1>1, <1>2, <1>5 DEF StarterRuns, StarterRaises, StarterTest, StarterPut, Start, TypeOK,
        StarterTypes, Begun
  <1>6. ASSUME NEW i \in Invocations,
               Take(i) \/ ProviderWrites(i) \/ ProviderEnds(i) \/ DeadlinePasses(i)
        PROVE  FALSE
    BY <1>2, <1>6 DEF Take, At, ProviderWrites, ProviderEnds, DeadlinePasses, Begun
  <1>7. ASSUME MainStep \/ UserCancels \/ GlobalPasses \/ UNCHANGED vars PROVE FALSE
    BY <1>2, <1>7 DEF MainStep, Submit, TestDeadline, SetStop, Collect, EndSweep, Report,
                CancelFuture, UserCancels, GlobalPasses, vars, Begun
  <1> QED
    BY <1>3, <1>4, <1>5, <1>6, <1>7 DEF Next, RunnerStep

\* What is started in time is started by a starter, before the stop.
LEMMA TimelyBy ==
  ASSUME IInv, [Next]_vars, stop
  PROVE  timely' = timely
  <1> USE DEF poolVars, runnerVars, starterVars, clockVars, provVars
  <1>1. ASSUME NEW i \in Invocations, RunnerStep(i) \/ RunnerFault(i) PROVE timely' = timely
    BY <1>1, RunnerMoves DEF Launch
  <1>2. ASSUME NEW i \in Invocations,
               StarterRuns(i) \/ StarterRaises(i) \/ StarterTest(i) \/ StarterPut(i)
        PROVE  timely' = timely
    BY <1>2 DEF StarterRuns, StarterRaises, StarterTest, StarterPut, CancelProvider
  <1>3. ASSUME NEW i \in Invocations,
               Take(i) \/ ProviderWrites(i) \/ ProviderEnds(i) \/ DeadlinePasses(i)
        PROVE  timely' = timely
    BY <1>3 DEF Take, ProviderWrites, ProviderEnds, DeadlinePasses
  <1>4. ASSUME MainStep \/ UserCancels \/ GlobalPasses \/ UNCHANGED vars PROVE timely' = timely
    BY <1>4 DEF MainStep, Submit, TestDeadline, SetStop, Collect, EndSweep, Report,
                CancelFuture, UserCancels, GlobalPasses, vars
  <1> QED
    BY <1>1, <1>2, <1>3, <1>4 DEF Next

\* A provider that has yet to be started is that of an invocation not yet in time.
LEMMA NewlyStarted ==
  ASSUME IInv, [Next]_vars, NEW j \in Invocations, prov[j] = "none", prov'[j] # "none"
  PROVE  j \notin timely
  <1> USE DEF poolVars, runnerVars, starterVars, clockVars, provVars
  <1>1. TypeOK /\ \A i \in Invocations : Handover(i) /\ InTime(i)
    BY DEF IInv
  <1>2. prov \in [Invocations -> ProvStates]
    BY <1>1 DEF TypeOK, StarterTypes
  <1>3. ASSUME NEW i \in Invocations, CancelProvider(i) PROVE FALSE
    BY <1>2, <1>3 DEF CancelProvider
  <1>4. ASSUME NEW i \in Invocations, RunnerStep(i) \/ RunnerFault(i) PROVE FALSE
    BY <1>3, <1>4 DEF RunnerStep, RunnerFault, Begin, Launch, ReportStop, Get, StartTest,
        LoopTest, Poll, Read, Complete, TestDue, PollRaises, ReadFails, WriteFails, Abandon
  <1>5. ASSUME NEW i \in Invocations, StarterRuns(i) PROVE j \notin timely
    BY <1>1, <1>2, <1>5 DEF StarterRuns, Start, InTime
  <1>6. ASSUME NEW i \in Invocations, StarterRaises(i) \/ StarterTest(i) \/ StarterPut(i)
        PROVE  FALSE
    BY <1>3, <1>6 DEF StarterRaises, StarterTest, StarterPut
  <1>7. ASSUME NEW i \in Invocations,
               Take(i) \/ ProviderWrites(i) \/ ProviderEnds(i) \/ DeadlinePasses(i)
        PROVE  FALSE
    BY <1>2, <1>7 DEF Take, ProviderWrites, ProviderEnds, DeadlinePasses, Followed
  <1>8. ASSUME MainStep \/ UserCancels \/ GlobalPasses \/ UNCHANGED vars PROVE FALSE
    BY <1>8 DEF MainStep, Submit, TestDeadline, SetStop, Collect, EndSweep, Report,
                CancelFuture, UserCancels, GlobalPasses, vars
  <1> QED
    BY <1>4, <1>5, <1>6, <1>7, <1>8 DEF Next

\* After a stop no further invocation is begun; a provider that is started all the same
\* belongs to one begun before, and does not count as started in time.
THEOREM StopsBeginNothing == Spec => StopBeginsNothing
  <1>1. ASSUME IInv, [Next]_vars, stop, NEW j \in Invocations
        PROVE  /\ Begun(j)' => Begun(j)
               /\ prov[j] = "none" /\ prov'[j] # "none" => j \notin timely'
    BY <1>1, BegunBy, TimelyBy, NewlyStarted
  <1>2. IInv /\ [Next]_vars
          => [stop => \A i \in Invocations :
                /\ Begun(i)' => Begun(i)
                /\ prov[i] = "none" /\ prov'[i] # "none" => i \notin timely']_vars
    BY <1>1
  <1> QED
    BY <1>2, Invariance, PTL DEF Spec, StopBeginsNothing

\* An invocation whose provider was not started before the stop does not end as a success.
THEOREM LateStartsAreForNothing == Spec => []LateIsNoSuccess
  <1>1. ASSUME IInv PROVE LateIsNoSuccess
    BY <1>1 DEF IInv, Reasons, InTime, Done, LateIsNoSuccess
  <1> QED
    BY <1>1, Invariance, PTL

\* Nothing is sent, and nothing changes, once the end of an invocation is reported.
THEOREM TheEndIsLast == Spec => NothingAfterTheEnd
  <1>1. ASSUME IInv, [Next]_vars, NEW j \in Invocations, Collected(j)
        PROVE  emitted'[j] = emitted[j] /\ outputs'[j] = outputs[j]
    <2>1. rpc[j] \in {"none", "done"}
      BY <1>1 DEF IInv, Reasons, Done, Collected
    <2> USE <1>1, <2>1 DEF poolVars, runnerVars, starterVars, clockVars, provVars
    <2>2. ASSUME NEW i \in Invocations, RunnerStep(i) \/ RunnerFault(i)
          PROVE  emitted'[j] = emitted[j] /\ UNCHANGED outputs
      BY <2>2 DEF RunnerStep, RunnerFault, Begin, Launch, ReportStop, Get, StartTest, LoopTest,
          Poll,
                  Read, Complete, TestDue, PollRaises, ReadFails, WriteFails, Finish, Goto, At,
                  Emit, IInv, TypeOK, RunnerTypes
    <2>3. ASSUME NEW i \in Invocations,
                 \/ Take(i) \/ StarterRuns(i) \/ StarterRaises(i) \/ StarterTest(i)
                 \/ StarterPut(i) \/ ProviderWrites(i) \/ ProviderEnds(i) \/ DeadlinePasses(i)
          PROVE  UNCHANGED <<emitted, outputs>>
      BY <2>3 DEF Take, StarterRuns, StarterRaises, StarterTest, StarterPut, ProviderWrites,
                  ProviderEnds, DeadlinePasses
    <2>4. ASSUME MainStep PROVE UNCHANGED emitted /\ outputs'[j] = outputs[j]
      BY <2>4 DEF MainStep, Submit, TestDeadline, SetStop, Collect, Outputs, EndSweep,
          Report,
                  CancelFuture, Collected
    <2>5. ASSUME UserCancels \/ GlobalPasses \/ UNCHANGED vars
          PROVE  UNCHANGED <<emitted, outputs>>
      BY <2>5 DEF UserCancels, GlobalPasses, vars
    <2> QED
      BY <2>2, <2>3, <2>4, <2>5 DEF Next
  <1>2. IInv /\ [Next]_vars
          => [\A i \in Invocations : Collected(i)
                => emitted'[i] = emitted[i] /\ outputs'[i] = outputs[i]]_vars
    BY <1>1
  <1> QED
    BY <1>2, Invariance, PTL DEF Spec, NothingAfterTheEnd

-----------------------------------------------------------------------------
(* A run of the threads is a stage *)

\* It begins as one.
LEMMA StageBegins == Init => Stage!StageInit
  <1> SUFFICES ASSUME Init PROVE Stage!StageInit
    OBVIOUS
  <1>1. {i \in Invocations : Begun(i)} = {}
    BY DEF Init, Begun
  <1> QED
    BY <1>1 DEF Init, Stage!StageInit

\* Every step is one of the stage, or changes nothing of it.
LEMMA StageSteps == IInv /\ [Next]_vars => [Stage!StageNext]_<<Stage!stageVars, stop>>
  <1> SUFFICES ASSUME IInv, [Next]_vars PROVE [Stage!StageNext]_<<Stage!stageVars, stop>>
    OBVIOUS
  <1> DEFINE Beginners == {i \in Invocations : Begun(i)}
  <1> USE DEF poolVars, runnerVars, starterVars, clockVars, provVars
  <1>1. TypeOK /\ \A i \in Invocations : Handover(i) /\ Polled(i) /\ Reasons(i) /\ InTime(i)
    BY DEF IInv
  <1>2. ASSUME UNCHANGED <<main, outputs, result, stop, timely>>, Beginners' = Beginners
        PROVE  UNCHANGED <<Stage!stageVars, stop>>
    BY <1>2 DEF Stage!stageVars
  <1>3. ASSUME NEW i \in Invocations, RunnerStep(i) \/ RunnerFault(i)
        PROVE  [Stage!StageNext]_<<Stage!stageVars, stop>>
    <2>1. rpc \in [Invocations -> RunnerPcs] /\ spc \in [Invocations -> {"none", "invoking", "started", "putting", "ended"}]
      BY <1>1 DEF TypeOK, RunnerTypes, StarterTypes
    <2>2. CASE Launch(i)
      <3>1. /\ UNCHANGED <<main, outputs, result, stop, timely>>
            /\ rpc[i] = "launch" /\ rpc' = [rpc EXCEPT ![i] = "get"]
            /\ spc' = [spc EXCEPT ![i] = "invoking"]
        BY <2>2 DEF Launch, Goto, At, Start
      <3>2. Beginners' = Beginners
        BY <2>1, <3>1 DEF Begun
      <3> QED
        BY <1>2, <3>1, <3>2
    <2>3. CASE ~Launch(i)
      <3>1. /\ UNCHANGED <<spc, timely, main, outputs, result, stop>> /\ rpc[i] # "launch"
            /\ \E to \in RunnerPcs :
              rpc' = [rpc EXCEPT ![i] = to] /\ (to = "launch" => ~stop /\ rpc[i] = "begin")
        BY <1>3, <2>3, RunnerMoves
      <3>2. PICK to \in RunnerPcs :
              rpc' = [rpc EXCEPT ![i] = to] /\ (to = "launch" => ~stop /\ rpc[i] = "begin")
        BY <3>1
      <3>3. CASE to # "launch"
        <4>1. \A k \in Invocations : rpc'[k] = "launch" <=> rpc[k] = "launch"
          BY <2>1, <3>1, <3>2, <3>3
        <4>2. Beginners' = Beginners
          BY <3>1, <4>1 DEF Begun
        <4> QED
          BY <1>2, <3>1, <4>2
      <3>4. CASE to = "launch"
        <4>1. rpc[i] = "begin" /\ ~stop /\ spc[i] = "none"
          <5>1. rpc[i] = "begin" /\ ~stop
            BY <3>2, <3>4
          <5> QED
            BY <1>1, <5>1 DEF Handover
        <4>2. main # "returned" /\ outputs[i] = "none"
          BY <1>1, <4>1 DEF Reasons, Done, Collected
        <4>3. Beginners' = Beginners \cup {i} /\ i \notin Beginners
          <5>1. \A k \in Invocations : rpc'[k] = "launch" <=> rpc[k] = "launch" \/ k = i
            BY <2>1, <3>2, <3>4, <4>1
          <5> QED
            BY <3>1, <4>1, <5>1 DEF Begun
        <4>4. Stage!Begin(i)
          BY <3>1, <4>1, <4>2, <4>3 DEF Stage!Begin
        <4> QED
          BY <4>4 DEF Stage!StageNext
      <3> QED
        BY <3>3, <3>4
    <2> QED
      BY <2>2, <2>3
  <1>4. ASSUME NEW i \in Invocations,
               StarterRuns(i) \/ StarterRaises(i) \/ StarterTest(i) \/ StarterPut(i)
        PROVE  [Stage!StageNext]_<<Stage!stageVars, stop>>
    <2>1. UNCHANGED <<rpc, main, outputs, result, stop>>
      BY <1>4 DEF StarterRuns, StarterRaises, StarterTest, StarterPut
    <2>2. spc[i] # "none" /\ \E to \in {"started", "putting", "ended"} : spc' = [spc EXCEPT ![i] = to]
      BY <1>4 DEF StarterRuns, StarterRaises, StarterTest, StarterPut, Start
    <2>3. Beginners' = Beginners /\ i \in Beginners
      BY <1>1, <2>1, <2>2 DEF TypeOK, StarterTypes, Begun
    <2>4. CASE UNCHANGED timely
      BY <1>2, <2>1, <2>3, <2>4
    <2>5. CASE StarterRuns(i) /\ ~stop
      <3>1. spc[i] = "invoking" /\ timely' = timely \cup {i}
        BY <2>5 DEF StarterRuns, Start
      <3>2. i \notin timely
        BY <1>1, <3>1 DEF InTime
      <3>3. Stage!StartProvider(i)
        BY <2>1, <2>3, <2>5, <3>1, <3>2 DEF Stage!StartProvider
      <3> QED
        BY <3>3 DEF Stage!StageNext
    <2> QED
      BY <1>4, <2>4, <2>5
         DEF StarterRuns, StarterRaises, StarterTest, StarterPut, CancelProvider
  <1>5. ASSUME NEW i \in Invocations,
               Take(i) \/ ProviderWrites(i) \/ ProviderEnds(i) \/ DeadlinePasses(i)
        PROVE  UNCHANGED <<Stage!stageVars, stop>>
    <2>1. UNCHANGED <<spc, timely, main, outputs, result, stop>>
      BY <1>5 DEF Take, ProviderWrites, ProviderEnds, DeadlinePasses
    <2>2. UNCHANGED rpc \/ (rpc[i] = "none" /\ rpc' = [rpc EXCEPT ![i] = "begin"])
      BY <1>5 DEF Take, At, ProviderWrites, ProviderEnds, DeadlinePasses
    <2>3. Beginners' = Beginners
      BY <1>1, <2>1, <2>2 DEF TypeOK, RunnerTypes, Begun
    <2> QED
      BY <1>2, <2>1, <2>3
  <1>6. ASSUME MainStep PROVE [Stage!StageNext]_<<Stage!stageVars, stop>>
    <2> USE DEF MainGoto, EndTurn, Begun
    <2>1. CASE Submit \/ TestDeadline \/ EndSweep \/ \E i \in Invocations : CancelFuture(i)
      <3>1. UNCHANGED <<rpc, spc, timely, outputs, result, stop>> /\ main # "returned" /\ main' # "returned"
        BY <2>1 DEF Submit, TestDeadline, EndSweep, CancelFuture
      <3> QED
        BY <3>1 DEF Stage!stageVars
    <2>2. CASE SetStop
      <3>1. UNCHANGED <<rpc, spc, timely, outputs, result>> /\ main # "returned" /\ main' # "returned" /\ stop'
        BY <2>2 DEF SetStop
      <3>2. CASE stop
        BY <3>1, <3>2, <1>1 DEF Stage!stageVars, TypeOK, PoolTypes, SetStop
      <3>3. CASE ~stop
        BY <2>2, <3>1, <3>3 DEF SetStop, Stage!Stop, Stage!stageVars, Stage!StageNext
      <3> QED
        BY <3>2, <3>3
    <2>3. CASE Collect
      <3>1. UNCHANGED <<rpc, spc, timely, result, stop>> /\ main # "returned" /\ main' # "returned"
        BY <2>3 DEF Collect
      <3>2. outputs' \in [Invocations -> {"none"} \cup Statuses]
        BY <1>1, TypeStep DEF TypeOK, PoolTypes
      <3>3. ASSUME NEW i \in Invocations, outputs'[i] # outputs[i]
            PROVE  outputs[i] = "none" /\ (outputs'[i] = "success" => i \in timely)
        <4>1. /\ outputs[i] = "none"
              /\ outputs'[i] = status[i] \/ outputs'[i] = reason
          BY <2>3, <3>3 DEF Collect, Outputs, Collected
        <4>2. outputs'[i] = "success" => status[i] = "success"
          BY <1>1, <4>1 DEF TypeOK, PoolTypes
        <4>3. status[i] = "success" => i \in timely
          BY <1>1 DEF InTime
        <4> QED
          BY <4>1, <4>2, <4>3
      <3>4. Stage!Conclude
        BY <3>1, <3>2, <3>3 DEF Stage!Conclude, Stage!Statuses, Statuses
      <3> QED
        BY <3>4 DEF Stage!StageNext
    <2>4. CASE Report
      <3>1. UNCHANGED <<rpc, spc, timely, outputs, stop>> /\ main # "returned" /\ main' = "returned"
        BY <2>4 DEF Report
      <3>2. \A i \in Invocations : outputs[i] # "none"
        BY <1>1, <2>4 DEF Report, Reasons, Collected
      <3>3. result' = Stage!Judge({outputs[i] : i \in Invocations})
        BY <2>4 DEF Report, Stage!Judge
      <3>4. Stage!Return
        BY <3>1, <3>2, <3>3 DEF Stage!Return
      <3> QED
        BY <3>4 DEF Stage!StageNext
    <2> QED
      BY <1>6, <2>1, <2>2, <2>3, <2>4 DEF MainStep
  <1>7. ASSUME UserCancels PROVE [Stage!StageNext]_<<Stage!stageVars, stop>>
    <2> USE DEF Begun
    <2>1. UNCHANGED <<rpc, spc, timely, main, outputs, result>> /\ stop' = TRUE
      BY <1>7 DEF UserCancels
    <2>2. CASE stop
      BY <1>1, <2>1, <2>2 DEF Stage!stageVars, TypeOK, PoolTypes
    <2>3. CASE ~stop
      BY <2>1, <2>3 DEF Stage!Stop, Stage!stageVars, Stage!StageNext
    <2> QED
      BY <2>2, <2>3
  <1>8. ASSUME GlobalPasses \/ UNCHANGED vars PROVE UNCHANGED <<Stage!stageVars, stop>>
    BY <1>2, <1>8 DEF GlobalPasses, vars, Begun
  <1> QED
    BY <1>3, <1>4, <1>5, <1>6, <1>7, <1>8 DEF Next

\* To the workflow, the threads are a stage that begins nothing after a stop, ends every
\* invocation once, as a success only if its provider was started before the stop, and
\* judges by all of them.
THEOREM RunsAreStages == Spec => ImplementsStage
  BY StageBegins, StageSteps, Invariance, PTL DEF Spec, ImplementsStage, Stage!StageSpec
=============================================================================

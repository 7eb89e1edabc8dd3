--------------------------- MODULE InvocationRun ---------------------------
(***************************************************************************)
(* run_invocations of src/runtime/invocation_runtime.py: one prompt given  *)
(* to several providers by a pool of threads.  The main thread waits for   *)
(* the futures and watches the global deadline; a runner (a thread of the  *)
(* pool in _run_one_invocation) starts its provider through a starter      *)
(* thread (_run_adapter_with_deadline) and then polls it.                  *)
(*                                                                         *)
(* Invocations are numbered in the order they are submitted.  Output is    *)
(* counted in pieces of answer text.                                       *)
(***************************************************************************)
EXTENDS Naturals, FiniteSets

CONSTANTS
    Count,      \* number of invocations
    MaxOutput,  \* bound: pieces each provider writes
    Ends,       \* bound: the ways each provider may end
    Faulty      \* invocations whose adapter, transport or files may fail

ASSUME CountAssumption == Count \in Nat \ {0}
ASSUME OutputAssumption == MaxOutput \in [1..Count -> Nat]
ASSUME EndsAssumption == Ends \in [1..Count -> SUBSET {"succeeded", "failed", "cancelled"}]
ASSUME FaultyAssumption == Faulty \subseteq 1..Count

Invocations == 1..Count

VARIABLES
    \* the main thread and the pool
    main,       \* where run_invocations is
    workers,    \* max_workers
    next,       \* the future the pool takes next
    fut,        \* state of each future
    outputs,    \* status in outputs, "none" until it is collected
    result,     \* status of the task
    \* what the threads share
    stop,       \* stop_event
    reason,     \* stop_state["reason"]
    \* the runners
    rpc,        \* where each runner is
    seen,       \* what the poll of this turn reported
    emitted,    \* emitted_answer: pieces sent in output_delta events
    status,     \* status it returns
    answer,     \* output it returns
    \* the starters
    spc,        \* where each starter is
    box,        \* result_queue
    abandoned,
    \* environment
    due,        \* the stall or the hard deadline of an invocation has passed, and that of
                \* the task has not
    globalDue,  \* the deadline of the task has passed
    prov, written,
    \* history variables
    user,       \* the user has cancelled the task
    inherited,  \* the event was set before this stage began
    lost,       \* runs of which nobody keeps hold: the adapter failed to cancel them, or
                \* their output could not be read, or they were handed over while abandoned
    timely      \* invocations whose provider was started before the stop

poolVars == <<main, workers, next, fut, outputs, result>>
runnerVars == <<rpc, seen, emitted, status, answer>>
starterVars == <<spc, box, abandoned>>
clockVars == <<due, globalDue, user, inherited>>
provVars == <<prov, written, lost, timely>>
vars == <<poolVars, stop, reason, runnerVars, starterVars, clockVars, provVars>>

Statuses == {"success", "failed", "cancelled", "timeout"}
FutStates == {"none", "pending", "running", "cancelled", "notified", "finished"}
RunnerPcs ==
    {"none", "begin", "launch", "stopped", "get", "loop", "poll", "read", "decide", "done"}
ProvStates == {"none", "running", "gone", "succeeded", "failed", "cancelled"}

\* The event and the deadline are shared by the stages of a workflow, the reason is
\* not: a later stage may begin when the user has cancelled or the deadline has passed.
Init ==
    /\ main = "submit" /\ workers \in 1..Count /\ next = 1
    /\ fut = [i \in Invocations |-> "none"]
    /\ outputs = [i \in Invocations |-> "none"] /\ result = "none"
    /\ inherited \in BOOLEAN /\ stop = inherited /\ reason = "cancelled"
    /\ user \in {FALSE, inherited} /\ globalDue = (inherited /\ ~user)
    /\ rpc = [i \in Invocations |-> "none"] /\ seen = [i \in Invocations |-> "none"]
    /\ emitted = [i \in Invocations |-> 0]
    /\ status = [i \in Invocations |-> "none"] /\ answer = [i \in Invocations |-> 0]
    /\ spc = [i \in Invocations |-> "none"] /\ box = [i \in Invocations |-> "empty"]
    /\ abandoned = [i \in Invocations |-> FALSE]
    /\ due = [i \in Invocations |-> FALSE]
    /\ prov = [i \in Invocations |-> "none"] /\ written = [i \in Invocations |-> 0]
    /\ lost = {} /\ timely = {}

-----------------------------------------------------------------------------
(* A provider and its adapter *)

\* adapter.cancel, whose exceptions are ignored.
CancelProvider(i) ==
    \/ /\ prov' = [prov EXCEPT ![i] = IF @ = "running" THEN "gone" ELSE @]
       /\ UNCHANGED <<written, lost, timely>>
    \/ /\ prov[i] = "running" /\ i \in Faulty
       /\ lost' = lost \cup {i}
       /\ UNCHANGED <<prov, written, timely>>

\* Bound: what a provider goes on to do once it is lost, or its invocation is over, is
\* not followed, for nobody looks.
Followed(i) == prov[i] = "running" /\ i \notin lost /\ rpc[i] \notin {"stopped", "done"}

ProviderWrites(i) ==
    /\ Followed(i) /\ written[i] < MaxOutput[i]
    /\ written' = [written EXCEPT ![i] = @ + 1]
    /\ UNCHANGED <<poolVars, stop, reason, runnerVars, starterVars, clockVars, prov, lost,
                   timely>>

ProviderEnds(i) ==
    /\ Followed(i)
    /\ \E o \in Ends[i] : prov' = [prov EXCEPT ![i] = o]
    /\ UNCHANGED <<poolVars, stop, reason, runnerVars, starterVars, clockVars, written, lost,
                   timely>>

-----------------------------------------------------------------------------
(* The starter: invoke of _run_adapter_with_deadline *)

Start(i, from, to) == spc[i] = from /\ spc' = [spc EXCEPT ![i] = to]

\* adapter.run starts the provider and returns a reference.  The event is not looked at.
StarterRuns(i) ==
    /\ Start(i, "invoking", "started")
    /\ prov' = [prov EXCEPT ![i] = "running"]
    /\ timely' = IF stop THEN timely ELSE timely \cup {i}
    /\ UNCHANGED <<poolVars, stop, reason, runnerVars, box, abandoned, clockVars,
                   written, lost>>

\* It raises (or returns None, which the runner reports as a failure too).
StarterRaises(i) ==
    /\ i \in Faulty /\ Start(i, "invoking", "ended")
    /\ box' = [box EXCEPT ![i] = "error"]
    /\ UNCHANGED <<poolVars, stop, reason, runnerVars, abandoned, clockVars, provVars>>

\* Mutant of StarterTest: an abandoned run is handed over all the same.
StarterTestForgets(i) ==
    /\ Start(i, "started", "putting")
    /\ UNCHANGED <<poolVars, stop, reason, runnerVars, box, abandoned, clockVars, provVars>>

StarterTest(i) ==
    /\ \/ ~abandoned[i] /\ Start(i, "started", "putting") /\ UNCHANGED provVars
       \/ abandoned[i] /\ Start(i, "started", "ended") /\ CancelProvider(i)
    /\ UNCHANGED <<poolVars, stop, reason, runnerVars, box, abandoned, clockVars>>

StarterPut(i) ==
    /\ Start(i, "putting", "ended")
    /\ box' = [box EXCEPT ![i] = "ref"]
    /\ UNCHANGED <<poolVars, stop, reason, runnerVars, abandoned, clockVars, provVars>>

-----------------------------------------------------------------------------
(* A runner: _run_one_invocation *)

At(i, from, to) == rpc[i] = from /\ rpc' = [rpc EXCEPT ![i] = to]

Goto(i, from, to) == At(i, from, to) /\ UNCHANGED <<poolVars, seen, status, answer>>

\* The runner returns; its future is done.
Finish(i, from, s, a) ==
    /\ At(i, from, "done")
    /\ status' = [status EXCEPT ![i] = s]
    /\ answer' = [answer EXCEPT ![i] = a]
    /\ seen' = [seen EXCEPT ![i] = "none"]
    /\ fut' = [fut EXCEPT ![i] = "finished"]
    /\ UNCHANGED <<main, workers, next, outputs, result>>

\* Mutant of Begin: the event is not looked at before the provider is started.
BeginAnyway(i) ==
    /\ Goto(i, "begin", "launch")
    /\ UNCHANGED <<stop, reason, emitted, starterVars, clockVars, provVars>>

\* A task already stopped is not begun.
Begin(i) ==
    /\ Goto(i, "begin", IF stop THEN "stopped" ELSE "launch")
    /\ UNCHANGED <<stop, reason, emitted, starterVars, clockVars, provVars>>

\* The deadlines are computed and the starter thread is launched, be the task stopped
\* by now or not.
Launch(i) ==
    /\ Goto(i, "launch", "get") /\ Start(i, "none", "invoking")
    /\ UNCHANGED <<stop, reason, emitted, box, abandoned, clockVars, provVars>>

\* The stop is reported with the reason noted by then.
ReportStop(i) ==
    /\ Finish(i, "stopped", reason, emitted[i])
    /\ UNCHANGED <<stop, reason, emitted, starterVars, clockVars, provVars>>

\* get_nowait, or get with a timeout, finds something.
Get(i) ==
    /\ \/ box[i] = "ref" /\ Goto(i, "get", "loop")
       \/ box[i] = "error" /\ Finish(i, "get", "failed", 0)
    /\ box' = [box EXCEPT ![i] = "empty"]
    /\ UNCHANGED <<stop, reason, emitted, spc, abandoned, clockVars, provVars>>

\* The start is given up; the run the starter is handing over is lost.
Abandon(i) ==
    /\ abandoned' = [abandoned EXCEPT ![i] = TRUE]
    /\ lost' = IF spc[i] = "putting" THEN lost \cup {i} ELSE lost
    /\ UNCHANGED <<spc, box, prov, written, timely>>

Overdue(i) == due[i] \/ globalDue

\* Mutant of StartTest: a start has no deadline.
StartTestWaits(i) ==
    /\ box[i] = "empty" /\ stop
    /\ Goto(i, "get", "stopped") /\ Abandon(i)
    /\ UNCHANGED <<stop, reason, emitted, clockVars>>

\* Nothing yet: stopped, too late, or look again.
StartTest(i) ==
    /\ box[i] = "empty"
    /\ \/ stop /\ Goto(i, "get", "stopped")
       \/ ~stop /\ Overdue(i) /\ Finish(i, "get", "timeout", 0)
    /\ Abandon(i)
    /\ UNCHANGED <<stop, reason, emitted, clockVars>>

LoopTest(i) ==
    /\ \/ stop /\ Goto(i, "loop", "stopped") /\ CancelProvider(i)
       \/ ~stop /\ Goto(i, "loop", "poll") /\ UNCHANGED provVars
    /\ UNCHANGED <<stop, reason, emitted, starterVars, clockVars>>

\* Mutant of Poll: a completed run is reported without a last look at its output.
PollSkipsRead(i) ==
    /\ At(i, "poll", IF prov[i] = "running" THEN "read" ELSE "decide")
    /\ seen' = [seen EXCEPT ![i] = prov[i]]
    /\ UNCHANGED <<poolVars, stop, reason, emitted, status, answer, starterVars, clockVars, provVars>>

Poll(i) ==
    /\ At(i, "poll", "read")
    /\ seen' = [seen EXCEPT ![i] = prov[i]]
    /\ UNCHANGED <<poolVars, stop, reason, emitted, status, answer, starterVars, clockVars, provVars>>

PollRaises(i) ==
    /\ Finish(i, "poll", "failed", emitted[i])
    /\ CancelProvider(i)
    /\ UNCHANGED <<stop, reason, emitted, starterVars, clockVars>>

Fresh(i) == written[i] > emitted[i]

Emit(i) == emitted' = [emitted EXCEPT ![i] = written[i]]

\* What is new in the log is sent and added to the answer file, and puts the deadline
\* off, unless it is the hard one.
Read(i) ==
    /\ Goto(i, "read", "decide") /\ Emit(i)
    /\ \E d \in IF Fresh(i) THEN {FALSE, due[i]} ELSE {due[i]} : due' = [due EXCEPT ![i] = d]
    /\ UNCHANGED <<stop, reason, starterVars, globalDue, user, inherited, provVars>>

\* The log cannot be read, or ends in the middle of a character: then the exception
\* leaves the runner, and the output with it.  The provider is not cancelled.
ReadFails(i) ==
    /\ \E a \in {0, emitted[i]} : Finish(i, "read", "failed", a)
    /\ lost' = lost \cup {i}
    /\ UNCHANGED <<stop, reason, emitted, starterVars, clockVars, prov, written,
                   timely>>

\* The answer file cannot be written, after the delta has been sent.
WriteFails(i) ==
    /\ Fresh(i) /\ Finish(i, "read", "failed", emitted[i]) /\ Emit(i)
    /\ CancelProvider(i)
    /\ UNCHANGED <<stop, reason, starterVars, clockVars>>

\* The run is complete; a decoder that raises, or a transport that reports a failure,
\* turns a success into one.
Complete(i) ==
    /\ \/ seen[i] = "succeeded" /\ Finish(i, "decide", "success", emitted[i])
       \/ seen[i] = "succeeded" /\ i \in Faulty /\ Finish(i, "decide", "failed", emitted[i])
       \/ seen[i] \in {"failed", "cancelled"} /\ Finish(i, "decide", seen[i], emitted[i])
    /\ UNCHANGED <<stop, reason, emitted, starterVars, clockVars, provVars>>

\* The run goes on: it has timed out, or the runner sleeps for the poll interval.
TestDue(i) ==
    /\ seen[i] = "running"
    /\ \/ Overdue(i) /\ Finish(i, "decide", "timeout", emitted[i]) /\ CancelProvider(i)
       \/ ~Overdue(i) /\ At(i, "decide", "loop") /\ seen' = [seen EXCEPT ![i] = "none"]
          /\ UNCHANGED <<poolVars, status, answer, provVars>>
    /\ UNCHANGED <<stop, reason, emitted, starterVars, clockVars>>

RunnerStep(i) ==
    \/ Begin(i) \/ Launch(i) \/ ReportStop(i) \/ Get(i) \/ StartTest(i) \/ LoopTest(i)
    \/ Poll(i) \/ Read(i) \/ Complete(i) \/ TestDue(i)

RunnerFault(i) == i \in Faulty /\ (PollRaises(i) \/ ReadFails(i) \/ WriteFails(i))

-----------------------------------------------------------------------------
(* The pool and the main thread: run_invocations *)

MainGoto(from, to) == main = from /\ main' = to

Submit ==
    /\ MainGoto("submit", "test")
    /\ fut' = [i \in Invocations |-> "pending"]
    /\ UNCHANGED <<workers, next, outputs, result, stop, reason, runnerVars, starterVars,
                   clockVars, provVars>>

Active(i) == rpc[i] \notin {"none", "done"}

\* A thread of the pool takes the next future; a cancelled one is only noted.
Take(i) ==
    /\ i = next /\ Cardinality({j \in Invocations : Active(j)}) < workers
    /\ \/ fut[i] = "pending"
          /\ fut' = [fut EXCEPT ![i] = "running"]
          /\ At(i, "none", "begin")
       \/ fut[i] = "cancelled"
          /\ fut' = [fut EXCEPT ![i] = "notified"]
          /\ UNCHANGED rpc
    /\ next' = next + 1
    /\ UNCHANGED <<main, workers, outputs, result, stop, reason, seen, emitted, status,
                   answer, starterVars, clockVars, provVars>>

\* Mutant of TestDeadline: the reason is not noted.
TestDeadlineUnnamed ==
    /\ MainGoto("test", IF globalDue THEN "set_stop" ELSE "wait")
    /\ UNCHANGED <<workers, next, fut, outputs, result, stop, reason, runnerVars, starterVars,
                   clockVars, provVars>>

TestDeadline ==
    /\ MainGoto("test", IF globalDue THEN "set_stop" ELSE "wait")
    /\ reason' = IF globalDue THEN "timeout" ELSE reason
    /\ UNCHANGED <<workers, next, fut, outputs, result, stop, runnerVars, starterVars,
                   clockVars, provVars>>

SetStop ==
    /\ MainGoto("set_stop", "wait")
    /\ stop' = TRUE
    /\ UNCHANGED <<workers, next, fut, outputs, result, reason, runnerVars, starterVars,
                   clockVars, provVars>>

Collected(i) == outputs[i] # "none"
Done(i) == fut[i] \in {"finished", "notified"}

\* The loop of the main thread goes on while an output is missing.
EndTurn(from, reported) ==
    MainGoto(from, IF \A i \in Invocations : reported[i] # "none" THEN "report" ELSE "test")

Outputs(done) ==
    [i \in Invocations |-> IF Collected(i) \/ i \notin done THEN outputs[i]
                           ELSE IF fut[i] = "finished" THEN status[i] ELSE reason]

\* wait returns the futures that are done, none if time is up; a cancelled one is
\* reported with the reason of the stop.
Collect ==
    /\ outputs' = Outputs({i \in Invocations : Done(i)})
    /\ IF stop THEN MainGoto("wait", "sweep") ELSE EndTurn("wait", outputs')
    /\ UNCHANGED <<workers, next, fut, result, stop, reason, runnerVars, starterVars,
                   clockVars, provVars>>

\* Once stopped, what still waits for a thread is cancelled, one future at a time.
CancelFuture(i) ==
    /\ main = "sweep" /\ fut[i] = "pending"
    /\ fut' = [fut EXCEPT ![i] = "cancelled"]
    /\ UNCHANGED <<main, workers, next, outputs, result, stop, reason, runnerVars,
                   starterVars, clockVars, provVars>>

EndSweep ==
    /\ \A i \in Invocations : fut[i] # "pending"
    /\ EndTurn("sweep", outputs)
    /\ UNCHANGED <<workers, next, fut, outputs, result, stop, reason, runnerVars, starterVars,
                   clockVars, provVars>>

Report ==
    /\ MainGoto("report", "returned")
    /\ LET successes == {i \in Invocations : outputs[i] = "success"}
       IN  result' = IF successes = Invocations THEN "complete"
                     ELSE IF successes # {} THEN "partial" ELSE "failed"
    /\ UNCHANGED <<workers, next, fut, outputs, stop, reason, runnerVars, starterVars,
                   clockVars, provVars>>

MainStep ==
    \/ Submit \/ TestDeadline \/ SetStop \/ Collect \/ EndSweep \/ Report
    \/ \E i \in Invocations : CancelFuture(i)

-----------------------------------------------------------------------------
(* The user and the clock *)

\* A cancel after the stop changes nothing.
UserCancels ==
    /\ main # "returned" /\ ~stop
    /\ user' = TRUE /\ stop' = TRUE
    /\ UNCHANGED <<poolVars, reason, runnerVars, starterVars, due, globalDue, inherited, provVars>>

\* From now on every invocation is overdue, whatever its own deadlines.
GlobalPasses ==
    /\ main # "returned" /\ ~globalDue
    /\ globalDue' = TRUE /\ due' = [i \in Invocations |-> FALSE]
    /\ UNCHANGED <<poolVars, stop, reason, runnerVars, starterVars, user, inherited, provVars>>

\* Once its runner has stopped, nobody looks at the deadline of an invocation.
DeadlinePasses(i) ==
    /\ rpc[i] \in {"get", "loop", "poll", "read", "decide"} /\ ~Overdue(i)
    /\ due' = [due EXCEPT ![i] = TRUE]
    /\ UNCHANGED <<poolVars, stop, reason, runnerVars, starterVars, globalDue, user,
                   inherited, provVars>>

Next ==
    \/ MainStep \/ UserCancels \/ GlobalPasses
    \/ \E i \in Invocations :
         \/ Take(i) \/ RunnerStep(i) \/ RunnerFault(i)
         \/ StarterRuns(i) \/ StarterRaises(i) \/ StarterTest(i) \/ StarterPut(i)
         \/ ProviderWrites(i) \/ ProviderEnds(i) \/ DeadlinePasses(i)

Spec == Init /\ [][Next]_vars

\* Some runner that can go on does, polls and cancels return, and time passes.  Nothing
\* makes adapter.run return or a provider end, nor is a starter thread ever scheduled.
FairSpec ==
    /\ Spec
    /\ WF_vars(MainStep)
    /\ WF_vars(\E i \in Invocations : Take(i) \/ RunnerStep(i))
    /\ WF_vars(\E i \in Invocations : DeadlinePasses(i))

-----------------------------------------------------------------------------
(* What holds *)

PoolTypes ==
    /\ main \in {"submit", "test", "set_stop", "wait", "sweep", "report", "returned"}
    /\ workers \in 1..Count /\ next \in 1..(Count + 1)
    /\ fut \in [Invocations -> FutStates]
    /\ outputs \in [Invocations -> {"none"} \cup Statuses]
    /\ result \in {"none", "complete", "partial", "failed"}
    /\ reason \in {"cancelled", "timeout"}
    /\ stop \in BOOLEAN /\ user \in BOOLEAN /\ inherited \in BOOLEAN /\ globalDue \in BOOLEAN

RunnerTypes ==
    /\ rpc \in [Invocations -> RunnerPcs] /\ seen \in [Invocations -> ProvStates]
    /\ status \in [Invocations -> {"none"} \cup Statuses]
    /\ emitted \in [Invocations -> Nat] /\ answer \in [Invocations -> Nat]
    /\ written \in [Invocations -> Nat]
    /\ \A i \in Invocations : emitted[i] <= written[i] /\ written[i] <= MaxOutput[i]

StarterTypes ==
    /\ spc \in [Invocations -> {"none", "invoking", "started", "putting", "ended"}]
    /\ box \in [Invocations -> {"empty", "ref", "error"}]
    /\ abandoned \in [Invocations -> BOOLEAN] /\ due \in [Invocations -> BOOLEAN]
    /\ prov \in [Invocations -> ProvStates]
    /\ lost \subseteq Invocations /\ timely \subseteq Invocations

\* Every variable stays in its range.
TypeOK == PoolTypes /\ RunnerTypes /\ StarterTypes

\* The starter still has the run and has yet to learn that it was abandoned.
InHand(i) == spc[i] = "started" /\ abandoned[i]

\* No provider is left behind: once an invocation is over its provider does not run,
\* unless the adapter failed to cancel it, its output could not be read, its start was
\* given up while the starter handed it over, or the starter is about to cancel it.
NoProviderLeft ==
    \A i \in Invocations : rpc[i] = "done" /\ prov[i] = "running"
        => i \in lost \/ InHand(i)

\* A success is whole: its provider succeeded, and all it wrote was given to the event
\* callback, piece by piece, and is the answer.
SuccessIsWhole ==
    \A i \in Invocations : status[i] = "success"
        => prov[i] = "succeeded" /\ emitted[i] = written[i] /\ answer[i] = written[i]

\* An invocation is reported as timed out only if a deadline of its own or of the task
\* has passed, and as cancelled only if the provider says so, the user cancelled, or
\* the stage began stopped.
StoppedForAReason ==
    \A i \in Invocations :
        /\ outputs[i] = "timeout" => Overdue(i)
        /\ outputs[i] = "cancelled" => prov[i] = "cancelled" \/ user \/ inherited

\* The task is complete exactly if every provider succeeded and was heard to the end;
\* and it never returns while an invocation is running or waiting.
ResultTruthful ==
    main = "returned" =>
        /\ \A i \in Invocations : Done(i) /\ Collected(i)
        /\ result = "complete" <=> \A i \in Invocations : status[i] = "success"
        /\ result = "failed" <=> \A i \in Invocations : status[i] # "success"

\* Its runner has found the task not to be stopped, and goes on to start the provider.
Begun(i) == rpc[i] = "launch" \/ spc[i] # "none"

\* After a stop no further invocation is begun, whether it is cancelled in the queue or
\* taken by a thread; and the provider of one begun before, which may still start after
\* the stop, is started for nothing: that invocation never ends as a success.
StopBeginsNothing ==
    [][stop => \A i \in Invocations :
         /\ Begun(i)' => Begun(i)
         /\ prov[i] = "none" /\ prov'[i] # "none" => i \notin timely']_vars

LateIsNoSuccess == \A i \in Invocations \ timely : "success" \notin {status[i], outputs[i]}

\* The event of an invocation's end is its last: nothing is sent after it.
NothingAfterTheEnd ==
    [][\A i \in Invocations : Collected(i)
         => emitted'[i] = emitted[i] /\ outputs'[i] = outputs[i]]_vars

\* The call returns, though providers and even the start of a provider may hang.
RunReturns == <>(main = "returned")

\* The whole is a stage as the workflow sees it: no invocation ends twice or succeeds
\* unless its provider was started before a stop, none is begun after a stop, the verdict
\* is drawn from all.
Stage == INSTANCE InvocationStage WITH
    members <- Invocations,
    phase <- IF main = "returned" THEN "returned" ELSE "running",
    begun <- {i \in Invocations : Begun(i)},
    ended <- outputs, verdict <- result, stopped <- stop

ImplementsStage == Stage!StageSpec
=============================================================================

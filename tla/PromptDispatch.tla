--------------------------- MODULE PromptDispatch ---------------------------
(***************************************************************************)
(* One prompt on its way through a provider: _dispatch_prompt and          *)
(* _run_single_attempt of src/runtime/session/daemon.py, with the retries  *)
(* of src/runtime/retry.py, over the adapter of ShimAdapter.  Attempt n    *)
(* uses run n.  The event is set by handlers or the main thread of the     *)
(* daemon at any time; the worker clears it only before the dispatch.      *)
(*                                                                         *)
(* Time is counted in half seconds since the last mark, which is the start *)
(* of the run or of the backoff; it passes at every step, and a sleep      *)
(* takes at least as long as it says.                                      *)
(***************************************************************************)
EXTENDS Naturals, FiniteSets, ShimAdapter

CONSTANTS
    MaxRetries,    \* RetryPolicy.max_retries
    StallTimeout,  \* _STALL_TIMEOUT_SECONDS
    MayRaise       \* the adapter's run or poll may raise

ASSUME RetriesAssumption == MaxRetries \in Nat
ASSUME TimeoutAssumption == StallTimeout \in Nat \ {0}
ASSUME RunsAssumption == Runs = 1..(MaxRetries + 1)
ASSUME RaiseAssumption == MayRaise \in BOOLEAN

VARIABLES
    pc,       \* where the worker is in the two functions
    attempt,
    event,    \* cancel_event
    age,      \* half seconds since the mark
    stopping, \* why the run is being cancelled
    result,   \* result of the last attempt, and what is returned
    \* history variables
    kinds,    \* error kinds of the attempts that failed
    late      \* runs started when the event was already set

callVars == <<pc, attempt, age, stopping, result, kinds, late>>
vars == <<callVars, event, shimVars>>

Pcs == {"detect", "check", "run", "test", "poll", "stall", "cancel", "kill", "reap",
        "retry", "backoff", "nap_check", "nap", "returned", "raised"}
Errors == {"none", "unavailable", "Cancelled", "timed out", "failed",
           "Cancelled during retry backoff"}
\* The retryable kinds are one, so are the others.
Kinds == {"none", "cancelled", "retryable", "fatal"}
ResultsOf == [success : BOOLEAN, error : Errors, kind : Kinds, attempts : {0} \cup Runs]

Failure(error, kind, n) ==
    [success |-> FALSE, error |-> error, kind |-> kind, attempts |-> n]
NoResult == Failure("none", "none", 0)

\* RetryPolicy.compute_delay: a second, doubled for every retry.
Delay(n) == 2 * 2 ^ (n - 1)

\* Bound: time beyond every limit is not told apart.
Far == StallTimeout + Delay(MaxRetries + 1) + 1
Later(t, d) == IF t + d > Far THEN Far ELSE t + d

Init ==
    /\ pc = "detect" /\ attempt = 1 /\ event = FALSE /\ age = 0
    /\ stopping = "none" /\ result = NoResult
    /\ ShimInit
    /\ kinds = [n \in Runs |-> "none"] /\ late = {}

-----------------------------------------------------------------------------

Goto(from, to) == pc = from /\ pc' = to

Return(from, r) == Goto(from, "returned") /\ result' = r

\* The adapter is missing, or detects no usable provider.
DetectFails ==
    /\ Return("detect", Failure("unavailable", "none", 0))
    /\ UNCHANGED <<attempt, event, age, stopping, shimVars, kinds, late>>

DetectRaises ==
    /\ MayRaise
    /\ Goto("detect", "raised")
    /\ UNCHANGED <<attempt, event, age, stopping, result, shimVars, kinds, late>>

Detect ==
    /\ Goto("detect", "check")
    /\ UNCHANGED <<attempt, event, age, stopping, result, shimVars, kinds, late>>

\* Mutant of CheckCancelled: the attempt that is not made is counted.
CheckCancelledMiscounts ==
    /\ IF event THEN Return("check", Failure("Cancelled", "none", attempt))
                ELSE Goto("check", "run") /\ UNCHANGED result
    /\ UNCHANGED <<attempt, event, age, stopping, shimVars, kinds, late>>

\* "Check cancellation before each attempt"
CheckCancelled ==
    /\ IF event THEN Return("check", Failure("Cancelled", "none", attempt - 1))
                ELSE Goto("check", "run") /\ UNCHANGED result
    /\ UNCHANGED <<attempt, event, age, stopping, shimVars, kinds, late>>

Run ==
    /\ Goto("run", "test")
    /\ Start(attempt)
    /\ age' = 0
    /\ late' = IF event THEN late \cup {attempt} ELSE late
    /\ UNCHANGED <<attempt, event, stopping, result, kinds>>

RunRaises ==
    /\ MayRaise
    /\ Goto("run", "raised")
    /\ StartFails(attempt)
    /\ UNCHANGED <<attempt, event, age, stopping, result, kinds, late>>

\* Mutant of TestCancelled: the event is looked at after the first second only.
TestCancelledLate ==
    /\ IF event /\ age > 0 THEN Goto("test", "cancel") /\ stopping' = "Cancelled"
                           ELSE Goto("test", "poll") /\ UNCHANGED stopping
    /\ UNCHANGED <<attempt, event, age, result, shimVars, kinds, late>>

TestCancelled ==
    /\ IF event THEN Goto("test", "cancel") /\ stopping' = "Cancelled"
                ELSE Goto("test", "poll") /\ UNCHANGED stopping
    /\ UNCHANGED <<attempt, event, age, result, shimVars, kinds, late>>

\* The attempt is over: its result is the last one.
Attempted(from, r) ==
    /\ IF r.success THEN Return(from, r) ELSE Goto(from, "retry") /\ result' = r
    /\ kinds' = [kinds EXCEPT ![attempt] = r.kind]

\* Not completed: a second's sleep.
PollSleeps ==
    /\ Goto("poll", "stall")
    /\ PollRunning(attempt)
    /\ age' = Later(age, 2)
    /\ UNCHANGED <<attempt, event, stopping, result, kinds, late>>

\* Completed; a failure is classified by exit code and stderr.
PollCompletes ==
    /\ PollDone(attempt)
    /\ IF proc[attempt] = "succeeded"
       THEN Attempted("poll", [NoResult EXCEPT !.success = TRUE, !.attempts = attempt])
       ELSE \E kind \in {"retryable", "fatal"} :
              Attempted("poll", Failure("failed", kind, attempt))
    /\ UNCHANGED <<attempt, event, age, stopping, late>>

PollFails ==
    /\ MayRaise
    /\ Goto("poll", "raised")
    /\ PollRaises(attempt)
    /\ UNCHANGED <<attempt, event, age, stopping, result, kinds, late>>

\* Mutants of TestStalled: the time-out returns without a cancel; the clock starts
\* again at every turn.
TestStalledLeaves ==
    /\ IF age > StallTimeout THEN Attempted("stall", Failure("timed out", "retryable", attempt))
                             ELSE Goto("stall", "test") /\ UNCHANGED <<result, kinds>>
    /\ UNCHANGED <<attempt, event, age, stopping, shimVars, late>>

TestStalledRestarts ==
    /\ Goto("stall", IF age > StallTimeout THEN "cancel" ELSE "test")
    /\ stopping' = IF age > StallTimeout THEN "timed out" ELSE stopping
    /\ age' = 0
    /\ UNCHANGED <<attempt, event, result, shimVars, kinds, late>>

TestStalled ==
    /\ IF age > StallTimeout THEN Goto("stall", "cancel") /\ stopping' = "timed out"
                             ELSE Goto("stall", "test") /\ UNCHANGED stopping
    /\ UNCHANGED <<attempt, event, age, result, shimVars, kinds, late>>

\* The run is cancelled, for either reason; then the attempt is over.
CancelEnds(from) ==
    /\ Attempted(from, Failure(stopping, IF stopping = "Cancelled" THEN "cancelled"
                                                                   ELSE "retryable", attempt))
    /\ stopping' = "none"
    /\ UNCHANGED <<attempt, event, age, late>>

CancelGoesOn(from, to) ==
    /\ Goto(from, to)
    /\ UNCHANGED <<attempt, event, age, stopping, result, kinds, late>>

Cancel ==
    \/ CancelEnds("cancel") /\ (CancelNothing(attempt) \/ SignalFails(attempt))
    \/ CancelGoesOn("cancel", "kill") /\ CancelTerminate(attempt)

Kill ==
    \/ CancelEnds("kill") /\ (CancelNothing(attempt) \/ SignalFails(attempt))
    \/ CancelGoesOn("kill", "reap") /\ CancelKill(attempt)

Reap == CancelEnds("reap") /\ (CancelNothing(attempt) \/ CancelKeeps(attempt))

\* Mutant of Retryable: any failure is tried again.
RetryableAlways == attempt <= MaxRetries
Retryable == result.kind = "retryable" /\ attempt <= MaxRetries

Retry ==
    /\ IF Retryable THEN Goto("retry", "backoff") /\ age' = 0
                    ELSE Goto("retry", "returned") /\ UNCHANGED age
    /\ UNCHANGED <<attempt, event, stopping, result, shimVars, kinds, late>>

\* The backoff: while the delay has not passed, look at the event and nap for half a
\* second or what is left of the delay.
Backoff ==
    /\ IF age < Delay(attempt)
       THEN Goto("backoff", "nap_check") /\ UNCHANGED attempt
       ELSE Goto("backoff", "check") /\ attempt' = attempt + 1
    /\ UNCHANGED <<event, age, stopping, result, shimVars, kinds, late>>

NapCheck ==
    /\ IF event
       THEN Return("nap_check", [result EXCEPT !.error = "Cancelled during retry backoff"])
       ELSE Goto("nap_check", "nap") /\ UNCHANGED result
    /\ UNCHANGED <<attempt, event, age, stopping, shimVars, kinds, late>>

\* time.sleep raises if the delay has passed meanwhile and what is left is negative.
Nap ==
    /\ IF age > Delay(attempt)
       THEN Goto("nap", "raised") /\ UNCHANGED age
       ELSE Goto("nap", "backoff") /\ age' = IF age < Delay(attempt) THEN age + 1 ELSE age
    /\ UNCHANGED <<attempt, event, stopping, result, shimVars, kinds, late>>

DispatchStep ==
    \/ DetectFails \/ Detect \/ CheckCancelled \/ Run \/ TestCancelled
    \/ PollSleeps \/ PollCompletes \/ TestStalled \/ Cancel \/ Kill \/ Reap
    \/ Retry \/ Backoff \/ NapCheck \/ Nap

Ended == pc \in {"returned", "raised"}

\* Environment: a handler or the main thread of the daemon, the provider's process,
\* and time.
SetEvent ==
    /\ ~event
    /\ event' = TRUE
    /\ UNCHANGED <<callVars, shimVars>>

ProcessExits == \E n \in Runs : Exit(n) /\ UNCHANGED <<callVars, event>>

Tick ==
    /\ ~Ended
    /\ age' = Later(age, 1)
    /\ UNCHANGED <<pc, attempt, event, stopping, result, shimVars, kinds, late>>

Next == DispatchStep \/ DetectRaises \/ RunRaises \/ PollFails \/ SetEvent \/ ProcessExits \/ Tick

Spec == Init /\ [][Next]_vars

\* The worker thread is scheduled, and each call of the adapter returns.  Nothing
\* makes a provider end.
FairSpec == Spec /\ WF_vars(DispatchStep)

-----------------------------------------------------------------------------
(* What holds *)

\* Every variable stays in its range; the clock, by Later, at or below Far.
TypeOK ==
    /\ pc \in Pcs /\ attempt \in Runs /\ event \in BOOLEAN
    /\ stopping \in {"none", "Cancelled", "timed out"} /\ result \in ResultsOf
    /\ proc \in [Runs -> ProcStates] /\ handles \subseteq Runs
    /\ logs \subseteq Runs /\ records \subseteq Runs /\ immune \subseteq Runs
    /\ kinds \in [Runs -> Kinds] /\ late \subseteq Runs

\* SIGKILL is on its way, or the system refused to signal the process.
OutOfReach(n) == proc[n] = "killed" \/ n \in immune

\* A provider never works beside the one of an earlier attempt, nor after the prompt
\* was given up: what was started has ended or is out of the adapter's reach.
NoRunLeftBehind ==
    \A n \in Runs : Live(n) /\ (Ended \/ \E m \in Runs : m > n /\ proc[m] # "none")
                           => OutOfReach(n)

\* A prompt is tried again only after a failure that a retry may mend: never after a
\* success, a cancellation or a fatal error, and attempts are made in order.
RetriesMend ==
    \A n \in Runs : n > 1 /\ proc[n] # "none"
        => proc[n - 1] # "none" /\ kinds[n - 1] = "retryable"

\* After a cancel at most one more run is started, in the window between the check
\* and the start, and what it answers is not taken.
CancelStopsRuns ==
    /\ Cardinality(late) <= 1
    /\ pc = "returned" /\ late # {} => ~result.success

\* The result tells what happened: success is the exit of the last run with its logs
\* read, and the number of attempts is that of the runs started.
ResultTruthful ==
    pc = "returned" =>
        /\ result.attempts = Cardinality({n \in Runs : proc[n] # "none"})
        /\ result.success => proc[result.attempts] = "succeeded" /\ result.attempts \in records
        /\ \A n \in records : n < result.attempts => kinds[n] = "retryable"

\* A dispatch ends, though the provider may hang and ignore signals.
DispatchEnds == pc = "detect" ~> Ended
=============================================================================

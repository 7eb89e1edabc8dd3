--------------------------- MODULE ProgressBridge ---------------------------
(***************************************************************************)
(* A run as its caller sees it.  The thread of the run and those of the    *)
(* providers hand events to one callback: for a tool of the MCP server the *)
(* bridge of src/runtime/mcp_server.py, which leaves progress              *)
(* notifications to the event loop, for the command line the printer of    *)
(* cli.py.  A host gives a call up when it hears nothing for too long.     *)
(***************************************************************************)
EXTENDS Integers, Sequences, FiniteSets

CONSTANTS
    Interval,   \* min_interval_seconds of the bridge, in ticks
    Patience    \* what the host waits for a result or a notification, in ticks

ASSUME ClockAssumption == Interval \in Nat \ {0} /\ Patience \in Nat /\ Patience > Interval

VARIABLES
    caller,     \* "mcp" or "cli"
    count,      \* how many invocations the run has
    thread,     \* the thread of the run
    announced,  \* invocations whose start it has told
    running,    \* invocations with a provider at work
    noted,      \* invocations whose end it has told
    calling,    \* per thread, what its callback has still to pass on; Idle outside of it
    done,       \* _done
    disabled,   \* _disabled
    sinceEmit,  \* age of _last_emit, in ticks; Interval when old enough or None
    loop,       \* what the event loop has to do
    server,     \* the tool call on the event loop
    host,       \* the caller, as far as a host is one
    token,      \* the host asked for notifications
    reported,   \* the last progress it was told
    waited,     \* its wait so far, in ticks
    quiet,      \* age of the last output of a provider, in ticks
    heading     \* cli: the invocation whose heading was printed last, 0 for none

runVars == <<caller, count, thread, announced, running, noted>>
bridgeVars == <<calling, done, disabled, sinceEmit>>
hostVars == <<host, token, reported>>
clockVars == <<waited, quiet>>
callVars == <<runVars, bridgeVars, loop, server, hostVars, clockVars, heading>>

Main == 0
Idle == -1
Threads == {Main} \cup 1 .. count
Result == -1     \* the loop is to wake the tool call; other items are progress to report
Ended == (1 .. announced) \ running

\* A run of n invocations begins, for a caller that may take notifications.
Begins(c, n) ==
    /\ caller' = c /\ count' = n /\ thread' = "starting"
    /\ announced' = 0 /\ running' = {} /\ noted' = {}
    /\ calling' = [t \in 0 .. n |-> Idle]
    /\ done' = 0 /\ disabled' = FALSE /\ sinceEmit' = Interval
    /\ loop' = <<>> /\ server' = "awaiting" /\ host' = "waiting" /\ token' \in BOOLEAN
    /\ reported' = 0 /\ waited' = 0 /\ quiet' = 0 /\ heading' = 0

-----------------------------------------------------------------------------
(* The callback.  Every thread calls it under _EVENT_CALLBACK_LOCK. *)

\* Mutant of LockFree: events are handed over as they come.
LockFreeAlways == TRUE

LockFree == \A t \in DOMAIN calling : calling[t] = Idle

\* A provider's output is a heartbeat at most once in an interval.
Throttled(type) == type = "delta" /\ sinceEmit < Interval

\* Mutant of LastEmit: an output puts the next heartbeat off even when it is held back itself.
LastEmitOfAny(type) == sinceEmit' = IF type = "delta" /\ ~disabled THEN 0 ELSE sinceEmit

LastEmit(type) ==
    sinceEmit' = IF type = "delta" /\ ~disabled /\ ~Throttled(type) THEN 0 ELSE sinceEmit

\* _ProgressBridge.__call__: what has ended is counted, and t is left with a progress to send.
CallBridge(t, type) ==
    /\ LastEmit(type)
    /\ done' = IF type = "finished" /\ ~disabled THEN done + 1 ELSE done
    /\ calling' = IF disabled \/ Throttled(type) THEN calling ELSE [calling EXCEPT ![t] = done']
    /\ UNCHANGED heading

\* _emit_text: outputs are printed under the heading of their invocation.
CallPrinter(t, type) ==
    /\ IF type = "delta"
       THEN /\ heading' = IF count > 1 THEN t ELSE heading
            /\ calling' = [calling EXCEPT ![t] = t]
       ELSE UNCHANGED <<heading, calling>>
    /\ UNCHANGED <<done, sinceEmit>>

Notify(t, type) ==
    /\ calling[t] = Idle /\ LockFree
    /\ IF caller = "mcp" THEN CallBridge(t, type) ELSE CallPrinter(t, type)
    /\ UNCHANGED disabled

\* A notification is left to the event loop, or it cannot be, which turns the bridge off.
Leave(progress) ==
    \/ loop' = Append(loop, progress) /\ UNCHANGED disabled
    \/ disabled' = TRUE /\ UNCHANGED loop

\* Mutant of Emit: a notification that cannot be left leaves the lock taken.
EmitOrHold(t) ==
    /\ calling[t] # Idle /\ host # "gone"
    /\ IF caller = "mcp" THEN Leave(calling[t]) ELSE UNCHANGED <<loop, disabled>>
    /\ calling' = [calling EXCEPT ![t] = Idle]
    /\ UNCHANGED <<runVars, done, sinceEmit, server, hostVars, clockVars, heading>>

\* _emit, and the lock is released.
Emit(t) ==
    /\ calling[t] # Idle
    /\ IF caller = "mcp" THEN Leave(calling[t]) ELSE UNCHANGED <<loop, disabled>>
    /\ calling' = [calling EXCEPT ![t] = Idle]
    /\ UNCHANGED <<runVars, done, sinceEmit, server, hostVars, clockVars, heading>>

-----------------------------------------------------------------------------
(* The run *)

\* The start of each invocation is told before any of them is started.
Announce ==
    /\ thread = "starting" /\ announced < count
    /\ Notify(Main, "started") /\ announced' = announced + 1
    /\ UNCHANGED <<caller, count, thread, running, noted, loop, server, hostVars, clockVars>>

Submit ==
    /\ thread = "starting" /\ announced = count /\ calling[Main] = Idle
    /\ thread' = "watching" /\ running' = 1 .. count
    /\ UNCHANGED <<caller, count, announced, noted, bridgeVars, loop, server, hostVars,
                   clockVars, heading>>

\* New output of a provider, as its thread polls.
Write(i) ==
    /\ thread = "watching" /\ i \in running
    /\ Notify(i, "delta") /\ quiet' = 0
    /\ UNCHANGED <<runVars, loop, server, hostVars, waited>>

Finish(i) ==
    /\ thread = "watching" /\ i \in running /\ calling[i] = Idle
    /\ running' = running \ {i}
    /\ UNCHANGED <<caller, count, thread, announced, noted, bridgeVars, loop, server, hostVars,
                   clockVars, heading>>

Note(i) ==
    /\ thread = "watching" /\ i \in Ended \ noted
    /\ Notify(Main, "finished") /\ noted' = noted \cup {i}
    /\ UNCHANGED <<caller, count, thread, announced, running, loop, server, hostVars, clockVars>>

TaskFinished ==
    /\ thread = "watching" /\ noted = 1 .. count
    /\ Notify(Main, "task") /\ thread' = "returning"
    /\ UNCHANGED <<caller, count, announced, running, noted, loop, server, hostVars, clockVars>>

\* The result goes to the event loop behind the notifications, or out on the terminal.
Return ==
    /\ thread = "returning" /\ calling[Main] = Idle
    /\ thread' = "returned"
    /\ IF caller = "mcp" THEN loop' = Append(loop, Result) /\ UNCHANGED host
       ELSE host' = "answered" /\ UNCHANGED loop
    /\ UNCHANGED <<caller, count, announced, running, noted, bridgeVars, server, token, reported,
                   clockVars, heading>>

RunStep == Announce \/ Submit \/ TaskFinished \/ Return

-----------------------------------------------------------------------------
(* The event loop and the host *)

\* report_progress, and _check: whatever becomes of the host, a notification that fails or is
\* cancelled turns the bridge off for the rest of the run; one to a host that is gone fails.
ReportProgress ==
    /\ loop # <<>> /\ Head(loop) # Result
    /\ loop' = Tail(loop)
    /\ \/ disabled' = TRUE /\ UNCHANGED <<reported, waited>>
       \/ /\ host # "gone" /\ UNCHANGED disabled
          /\ IF token /\ host = "waiting" THEN reported' = Head(loop) /\ waited' = 0
             ELSE UNCHANGED <<reported, waited>>
    /\ UNCHANGED <<runVars, calling, done, sinceEmit, server, host, token, quiet, heading>>

\* The result of the thread, for a call that may have been cancelled.
Deliver ==
    /\ loop # <<>> /\ Head(loop) = Result
    /\ loop' = Tail(loop)
    /\ server' = IF server = "awaiting" THEN "returned" ELSE server
    /\ host' = IF server = "awaiting" /\ host = "waiting" THEN "answered" ELSE host
    /\ UNCHANGED <<runVars, bridgeVars, token, reported, clockVars, heading>>

\* A host that is tired of waiting cancels the call, which leaves the thread to itself.
GiveUp ==
    /\ caller = "mcp" /\ host = "waiting" /\ waited = Patience
    /\ host' = "gaveUp" /\ server' = "cancelled"
    /\ UNCHANGED <<runVars, bridgeVars, loop, token, reported, clockVars, heading>>

\* The host ends: its session is closed, its calls are cancelled.
Disconnect ==
    /\ caller = "mcp" /\ host = "waiting"
    /\ host' = "gone" /\ server' = "cancelled"
    /\ UNCHANGED <<runVars, bridgeVars, loop, token, reported, clockVars, heading>>

\* Time passes while nothing is on its way to the host.
Tick ==
    /\ caller = "mcp" /\ host = "waiting" /\ loop = <<>> /\ LockFree /\ waited < Patience
    /\ thread = "watching" /\ running # {}
    /\ waited' = waited + 1
    /\ quiet' = IF quiet < Patience THEN quiet + 1 ELSE quiet
    /\ sinceEmit' = IF sinceEmit < Interval THEN sinceEmit + 1 ELSE sinceEmit
    /\ UNCHANGED <<runVars, calling, done, disabled, loop, server, hostVars, heading>>

LoopStep == ReportProgress \/ Deliver

CallNext ==
    \/ RunStep \/ LoopStep \/ GiveUp \/ Disconnect \/ Tick
    \/ \E t \in Threads : Emit(t)
    \/ \E i \in 1 .. count : Write(i) \/ Finish(i) \/ Note(i)

\* Threads and the event loop are scheduled and the lock is passed on; every provider ends in
\* the end, by itself or by a deadline, however much it writes (RunReturns of InvocationRun).
CallFairness(n) ==
    /\ WF_callVars(RunStep) /\ WF_callVars(LoopStep) /\ WF_callVars(Emit(Main))
    /\ \A i \in 1 .. n : /\ WF_callVars(i <= count /\ Emit(i))
                        /\ SF_callVars(i <= count /\ Finish(i)) /\ SF_callVars(i <= count /\ Note(i))

-----------------------------------------------------------------------------
(* Properties *)

\* What the caller is shown is true: the progress a host is told never goes back and never
\* exceeds the invocations that have ended, and no output is printed under the heading of
\* another invocation.  (mcp_server.py:57-71, cli.py:2432-2463, invocation_runtime.py:86)
ReportTruthful ==
    [][/\ host' = "waiting" => reported' >= reported /\ reported' <= Cardinality(noted)
       /\ caller = "cli" => \A i \in 1 .. count :
            (count > 1 /\ calling[i] # Idle /\ calling'[i] = Idle) => heading = i]_callVars

\* The heartbeats do what they are for, as long as all of them get through: a host that reads
\* them gives a call up only when every provider has been silent for its patience less the
\* interval of the bridge, while a notification is on its way, or when one has failed.  The
\* last is as it says: after a single failure the bridge is off, and a host that is still
\* there, and would read the next one, gives up on providers that write.  (mcp_server.py:27-41,
\* 80-95)
GivenUpInSilence ==
    [][host = "waiting" /\ host' = "gaveUp" /\ token =>
        quiet >= Patience - Interval \/ ~LockFree \/ loop # <<>> \/ disabled]_callVars
=============================================================================

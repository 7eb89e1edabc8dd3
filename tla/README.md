# A TLA+ model of mco

`mco` runs coding agents (Claude, Codex, Gemini and others) side by side. It has two
halves. The *invocation runtime* gives one prompt to several providers, in stages, with
deadlines and cancellation; the command line and an MCP server lead to it. The *sessions* keep
one agent per named session alive in a daemon process that clients talk to over a Unix socket.
This directory models the concurrent core of both and the way a call takes from its settings to
its result, checks them with TLC on small instances and proves what matters most with TLAPS.

## The system

| Component | Source (`src/runtime/`) | State it keeps | Operations | Talks to |
|---|---|---|---|---|
| Session daemon | `session/daemon.py` | `_DaemonContext`: bounded queue, lock, current request, cancel event, running flag, id counter, completed results; `history.jsonl`, `state.json` | accept, ping, send (waiting or not), cancel, queue, result, shutdown, SIGTERM; the worker's turn | clients (socket), a provider adapter |
| Prompt dispatch | `session/daemon.py` 89-238, `retry.py`, `errors.py` | attempt counter, run reference, deadlines | run, poll, cancel, retry with backoff | adapter, cancel event of the daemon |
| Session manager | `session/manager.py` | none of its own: `state.json`, the socket path, processes | start, stop, list, ensure, resume | daemons, through files and signals |
| Session client | `session/client.py` | one connection | send, nowait, ping, cancel, queue, result, broadcast | daemon |
| Session files | `session/state.py` | `state.json`, `history.jsonl` | save, load, append, build prompt | daemon, manager |
| Invocation runtime | `invocation_runtime.py` | pool of provider threads, cancel event, deadlines, results per provider; stages of a workflow | start, poll, cancel, time out, collect, synthesise | adapters, callbacks |
| ACP | `acp/transport.py`, `client.py`, `adapter.py`, `handlers.py` | pending requests by id, handlers, reader thread, session, terminals | request, notify, respond, prompt turn, cancel, close | an agent process over a pipe |
| Shim adapter | `adapters/shim.py` | a subprocess and its log files per run | detect, run, poll, cancel | provider processes |
| Answer decoding | `answer_transport.py`, `output_text.py` | none: functions of a log | decode plain text, JSON events, codex, pi, ACP updates | invocation runtime |
| MCP server | `mcp_server.py` | the progress bridge's counter, throttle and switch; an event loop | tool calls, progress notifications | invocation runtime, a host that may give up |
| Command line | `cli.py` | the printer's heading | `run`, `review`; `session`, `doctor`, `agent`, `skills` | settings, invocation runtime, sessions |
| Settings | `config.py`, `policy.py`, `execution_modes.py`, `provider_risk.py` | none: functions of the files | merge, validate, permissions and risk of a provider | command line, MCP server |
| Models, skills, scripts | `models.py`, `skill_*.py`, `scripts/` | files of the installation | list, probe, copy | command line |

What is hard here is not any one function but what happens between threads and
processes: handlers, the worker and the main thread of a daemon drain one queue; one cancel
event serves all requests; a manager judges a daemon by two files it does not lock; a
provider run may end, fail, stall or be cancelled at any moment of a poll loop; the settings of
a call are merged in two places, and its events come from many threads.
`PROJECT.json` lists these hazards line by line with the properties that cover them.

## Modules

| Module | What it is |
|---|---|
| `PromptService` | abstract: what a session promises its clients |
| `SessionDaemon` | one run of the daemon, thread by thread |
| `SessionDaemonProofs` | theorems about `SessionDaemon` |
| `SessionLifecycle` | managers and daemons of one session, across processes |
| `SessionLifecycleProofs` | theorems about `SessionLifecycle` |
| `ShimAdapter` | the runs of one adapter: provider process, handle, logs, record |
| `PromptDispatch` | one prompt of a session on its way through a provider, over `ShimAdapter` |
| `PromptDispatchProofs` | theorems about `PromptDispatch` |
| `InvocationRun` | one stage of the invocation runtime: main thread, pool, runners, starters |
| `InvocationRunProofs` | theorems about `InvocationRun` |
| `InvocationStage` | abstract: what a stage promises the workflow |
| `InvocationWorkflow` | the stages of a workflow, over `InvocationStage` |
| `InvocationWorkflowProofs` | theorems about `InvocationWorkflow` and `AnswerStream` |
| `AcpTransport` | requests, answers and notifications over the pipes of an agent process |
| `AcpAdapter` | one run of the ACP adapter, over `AcpTransport` |
| `AcpAdapterProofs` | theorems about `AcpAdapter` and `AcpTransport` |
| `AcpTerminals` | the files and terminals an ACP agent may ask for, and the closing of the client |
| `AcpTerminalsProofs` | theorems about `AcpTerminals` |
| `AnswerStream` | the decoders of provider output and what the poll loop shows of them |
| `Settings` | operators: files of settings, deadlines, permissions, risk |
| `RunPlan` | operators, over `Settings`: invocations, scope and division of files, the checks of a call |
| `ProgressBridge` | a run as its caller sees it: events, the callback, the event loop, the host |
| `FrontEnd` | a call from its files to its end, over `RunPlan` and `ProgressBridge` |
| `FrontEndProofs` | theorems about `FrontEnd`, `Settings`, `RunPlan` and `ProgressBridge` |
| `MCSessionDaemon`, `MCSessionLifecycle`, `MCPromptDispatch`, `MCInvocationRun`, `MCInvocationWorkflow`, `MCAcpAdapter`, `MCAcpTerminals`, `MCAnswerStream`, `MCFrontEnd` | instances for TLC |

### SessionDaemon

Each thread has a program counter: `main` for `run_daemon`, `pc[c]` for the handler of
connection `c`, `wpc` for the worker. A label is the place between two steps where another
thread can be seen or can interfere: every access of the queue, of the context under its lock,
of the event, of a file and of the connection is a step. A connection carries one request,
so the request a `send` makes is named by its connection. `history`, `turnCount` and
`savedTurns` are `history.jsonl`, the counter in memory and the one in `state.json`.
`accepted`, `hit` and `stored` only record what happened, for the properties.

`WorkerDispatch` stands for `_dispatch_prompt` and may return anything it can return;
`WorkerRaise` is the exception that ends the worker thread, since nothing catches it.
`HangUps` are the connections whose client may be gone when the handler writes: the handler
then leaves without what follows the write, and after a shutdown whose acknowledgement
cannot be written the daemon goes on running.

`PromptService` has a line, a request in service, answers and a transcript. Under the mapping
in `Service` (queue to line, the worker's request to the one in service, result to answer,
every second line of the history to the transcript) every step of the daemon is a step of
the service or a stutter.

### SessionLifecycle

A manager is an `mco` process in the middle of `start_session`, `stop_session`,
`list_sessions`, `ensure_session` or `resume_session`; a daemon is named by its pid. Every
load and save of `state.json`, every unlink and bind, the launch, the wait and the signal is a
step. The daemon's life between its start and its end is one label, `serving`; its worker's
save of `state.json` after each prompt is `DaemonTurn`. `MayCrash` and `MayBeSlow` switch
`kill -9` and a start of more than five seconds on and off. The number of pids bounds the
number of launches: an operation that may launch begins only when a pid is left for it.

### ShimAdapter and PromptDispatch

`ShimAdapter` has the adapter's operations as steps a caller composes: `run`, `poll` with its
three outcomes, and `cancel`, which is a signal, a sleep, a second signal, a sleep. A process may end at any
time, and may ignore SIGTERM.

`PromptDispatch` is what `WorkerDispatch` of `SessionDaemon` stands for: `_dispatch_prompt`,
the retries and `_run_single_attempt`. Attempt `n` uses run `n`. Anyone may set the event at
any time. `age` counts half seconds since the start of the run or of the backoff: a sleep takes
at least its time, and time passes at any other moment as well (`Tick`), so that what the code
computes from two readings of the clock can disagree.

### InvocationRun

`main` is where `run_invocations` is; `rpc[i]` the thread of the pool that runs invocation `i`,
`spc[i]` the thread that starts its provider, `box[i]` the queue between the two. Futures are
taken in the order of their numbers by at most `workers` threads, and a cancelled one is
only done when a thread has taken it, as in `concurrent.futures`. The stop event, the reason
of the stop and the deadline are set and read in separate steps; `Init` covers a later stage of
a workflow, which begins with the event set. Deadlines pass as steps of the
environment: the global one once and for all, that of an invocation until new output puts
it off, unless it is the hard one. `lost` notes the runs the code lets go of: the adapter
did not cancel them, their output could not be read, or they were handed over in the moment
they were given up.

A runner looks at the event (`Begin`, line 231) and launches the starter later (`Launch`), which starts the
provider later still (`StarterRuns`, line 43) and does not look. A provider may therefore start after a stop, and
even after the call has returned: the runner has abandoned it, or finds the stop before it polls, and so it is
started for nothing. `timely` notes the providers that were started before the stop.

The look into the box and the test of the event after it are one step: a run put in between
is lost as one put just after is. A callback that raises is not followed, for `_notify` swallows it and
what it was given is not read again. Output counts pieces of answer text, as the
decoder of the adapter sees it; `AnswerStream` has the decoders, and that a decoding may take
back what an earlier one said.

### InvocationStage and InvocationWorkflow

`InvocationStage` is a stage as its caller sees it: each invocation that takes part may be
begun and ends once, none is begun after a stop, none succeeds unless its provider was started before the stop
(`timely`), and the stage returns when all have ended with a verdict on all. `InvocationRun` implements it (`ImplementsStage`), and
`InvocationWorkflow` is built on it: `run_invocation_workflow` with the plain run, the chain, the
debate and the synthesis, in the order of the code. `Readers` are the invocations whose adapter
reads context files: the others are left out of a later stage and their failed records joined to
what the stage returns. The `run.json` of the root, which the stage `run` writes as well as
the workflow, is a variable; so is the exception by which a stage, and with it the workflow, may
end (`StageRaises`).

### AcpTransport and AcpAdapter

`AcpTransport` has the steps of the threads that share a `JsonRpcTransport`: `call[r]` is where
the call of `send_request` for request `r` is, `reader` where the reader thread is. The access of
each table under the lock is a step, and so is setting an event after the lock is left: an
answer and a timeout may cross anywhere. The agent is the environment: it answers what it was
asked, perhaps twice, asks itself, notifies, closes its output, or exits. `close` is two steps, for
the process object goes only at the end. A write may find the pipe open, broken, closed, or its
process object gone, and the last two raise what `_write` does not catch.

`AcpAdapter` is one run of the adapter: the handshake, the thread of the prompt, and a caller
that polls and may cancel at any time. `Updates` are what notifications carry; the one named
`"last"` comes with the state `idle`. `cutShort` notes that the text was taken before the agent was
idle, which happens after five seconds.

### AcpTerminals

`AcpTerminals` opens what `AcpTransport` takes for one step, the handlers of the agent's requests.
`reader` is the thread that reads the agent's output: it calls the handlers of `handlers.py` itself,
one after the other, and answers before it reads on. `create` is three steps (the number, the
process, the two tables), `release` a kill and a removal. `closer` is the thread in `AcpClient.close`,
which takes the list of terminals once and releases each, then ends the transport. `Works` and `Ends` are
the command in a terminal, `Pump` the thread that reads its output. Handlers are registered
when the reader runs already (`Register`). A path is the sequence of its names, and "below" is
`IsPrefix`; links are taken as followed. `late` notes the terminal that was being created when the list was
taken and those that were asked for after it, which nobody releases; `shown` and `printed` are what the
properties compare.

### Settings, RunPlan, ProgressBridge and FrontEnd

`FrontEnd` is one call: of `mco run` or `mco review`, or of a tool of the MCP server. It reads the three
files of settings and then the lists of agents (`LoadFile`, `LoadAgents`), resolves numbers and
timeouts (`Resolve`), checks the request (`PlanCommand`, `PlanTool`) and begins the run. Between the
steps nothing is shared; they are steps so that each file is chosen for itself. `Settle` and
`Begin` forget what is not looked at any more.

`Settings` has the pure part: a dictionary is a function whose domain is the keys that are given, so
that `dict.update` is `Override`; `Profiles`, `ShimKeys` and `EffectiveRisk` are the tables of the code.
`CliNumbers` and `CliTimeouts` are the command line's way to the same deadlines as `McpNumbers` and
`McpTimeouts`. `RunPlan` parses invocations, divides files and has the checks in the order of the
code: a request is refused for the first one that holds.

In `ProgressBridge` the thread of the run (number 0) and that of each provider call one callback under a
lock: `Notify` enters it, `Emit` leaves it. For a tool of the MCP server the callback counts what ended and hands a notification to
the event loop (`loop`), whose last item is the result; for the command line it prints.
Time passes in ticks: `sinceEmit` is the age of the last heartbeat, `waited` the host's wait, `quiet` the
silence of the providers. A host gives a call up after `Patience` ticks without a word (`GiveUp`) or goes
away (`Disconnect`); the run goes on, and its events find the loop closed. A notification may fail or be
cancelled as it leaves or on the loop, whether the host is still there or not, and the first that does turns the
bridge off for good (`disabled`).

### AnswerStream

The decoders are functions of the whole log, as in the code: `Decode` says what is shown of a log
(`deltas`), what its answer is (`final`) and how it says the turn ended. A line adds to the answer,
gives it anew, ends the turn, is an error or no JSON; which kinds do which differs by decoder
(`Adding`, `Giving`); `Added` joins the texts of the first, `Given` has the places of the second, of
which the last counts. A provider writes whole lines, or half a line that a later step
completes. A look into the log is `Poll` and then `Look`, for the provider may write or end between
the two; `Fresh` is what the look sends. Stops end the loop at any poll and are
otherwise left to `InvocationRun`. `early` notes that text was shown of a log that had no line the
JSON decoder understood, which is the one case where a fragment is taken for text.

## Runs

| Run | Instance | Shows |
|---|---|---|
| `daemon_safety` | 3 connections that send, cancel or shut down, queue of 2, store of 1 | no request lost; no cancel hits the wrong request; transcript and answers agree; a finished result is kept unless larger ids overtook it; refinement of `PromptService`, by which no request is answered twice or out of order |
| `daemon_liveness` | 2 connections, every action, clients that hang up | each accepted request is answered, each waiter served, a daemon told to stop exits, `result` tells the truth |
| `lifecycle` | 2 managers, 2 daemons, every operation, crashes, slow starts | `state.json` names only daemons that bound the socket; operations return, stopped daemons end, launched ones settle |
| `dispatch` | 2 retries, stall timeout of 1.5 seconds, an adapter that may raise | no provider left behind; only a mendable failure is retried; a cancel stops the runs; the result tells what happened; the dispatch ends |
| `invocation` | 2 invocations, 1 or 2 threads; one provider ends cancelled, the other writes, succeeds, or hangs, and its adapter and files may fail; starts that hang | no provider left behind; a success is whole; stops are reported for what they are; the call returns; refinement of `InvocationStage`: every invocation ends once, the result tells of all, nothing is begun after a stop and no success was started after it |
| `workflow` | 3 invocations, one of which cannot read context files, every plan | no record is dropped; later stages are built on successes, with all their sources, in a chain as well; what the root record says is never taken back |
| `acp` | a handshake of 2 requests and a prompt, an agent that writes 4 messages | a call returns with its own answer and leaves nothing behind; an answer is whole; no agent is left; run and cancel return, and a close wakes everyone |
| `terminals` | 3 requests of the agent, 3 paths, every choice of allowed directories, context and grant, terminals of 2 lines | no terminal that was in the table when the client took its list outlives it; output comes out once and in order; a context handed over to be read is not written |
| `stream` | each decoder, logs of 3 lines, polls at any time | what a success has shown is its answer if its lines agree and none was shown before it was understood; its last decoding is shown last in any case |
| `frontend` | 9 files of settings three times over, 3 of agents likewise, 3 options; every provider, mode and transport; scopes that overlap; 2 invocations, a patience of 4 ticks against an interval of 2 | both ways of merging lead to the same deadlines; a provider runs within the mode of the call; divided files go to one invocation each; progress is true; a host that hears nothing hears nothing because nothing happens, or because a notification failed; the call ends |

Three connections are the fewest with which a request can wait behind one in service while
a third party cancels or shuts down, with which a queue of two is full, and has an order. Two
managers and two daemons let each manager launch, or one of them twice while the other looks
on, stops or resumes. Two retries give a
first, a middle and a last attempt; time is capped where every limit has passed. Two invocations
on one thread make a queue, on two they run side by side; one piece of output is enough for
output that comes late. Three invocations make a chain with a middle, and a debate of two while
the third is left out. Four messages are the two answers of the handshake, the
answer to the prompt and one notification before or after it; a second answer to a request, a
late one or a request of the agent takes the place of one of these. There are as many ids as
requests, so that `MaxId` keeps no call from its id. Three requests for terminals are
a create, and a release or an output on either side of a close. Three lines make two that
add or disagree and one that ends the turn. A file of settings says one thing each, three in a row can
contradict each other; a call has one thing that is unusual about it. Four ticks are the fewest in which a
heartbeat can be held back and the next one come in time. In the `invocation` run a task
never completes in full, for one of its providers always ends cancelled; that verdict is left to
the theorem `ResultIsTruthful`.

The runs that end in a violation each check what a comment or a docstring says and
the code does not do; `PROJECT.json` quotes the line:

| Run | What happens |
|---|---|
| `lifecycle_ensure` | two ensures at once, two daemons that serve |
| `acp_collision` | a request of the agent that has the id of the pending prompt is taken for its answer |

Other disagreements met while modelling have no run of their own:

- `result` reports a queued request as not found, where `client.py` 165 speaks of pending.
- `resume` right after `stop` finds `state.json` still active with a live pid and returns the
  daemon that is stopping, where `manager.py` 213 says that it restarts the process.
- The reason of a stop is local to a stage while the stop is shared: a stage that begins after the
  deadline may report an invocation as cancelled though nobody cancelled.
- `--chain` with `--synthesize` leaves out the synthesis without a word, and the synthesizer is
  by default the first invocation, where the help of `--synth-provider` says "claude when available".
- A poll that finds the first JSON line of opencode or qwen half written shows the fragment as text,
  and a second message of a turn of codex is sent after the first: the stream and the answer
  file then hold more than the answer, where `tests/test_invocation_runtime.py` 955 has the deltas
  join to it. `AnswerIsShown` excepts these two cases.
- The backoff naps for `min(0.5, deadline - time.time())` (`daemon.py` 236), which is negative if
  the deadline passes after the test of the loop; the sleep then raises and ends the worker,
  where `daemon.py` 171 says that the dispatch returns a result.
- `state.py` 148 speaks of the last 20 pairs of messages and keeps the last 20 messages; its cap on the
  characters drops the newest turns and keeps the oldest.
- A timeout of a provider that is 0 or no number is kept by the command line, refused or hiding the
  agent's own timeout, and ignored by the MCP server, where `mcp_server.py` 157-166 speaks of the
  same settings. `SameDeadlines` supposes settings the command line accepts.
- `docs/reference/cli.md` 79 has chain, debate and division exclude each other; only the options do: a
  `divide` of the settings and `--chain` both take effect.
- A dry run reports any provider of unknown risk as one that would fail a strict check (`cli.py`
  629-634); the run itself refuses such a provider only over ACP and with keys it does not know.
- `close_all` says "Release all terminals" (`handlers.py` 165) and takes the list of them once, while the reader
  goes on serving the agent until the transport is closed (`client.py` 333-335): the one being created and any
  that are created after it stay. `NoTerminalLeft` excepts these.
- `daemon.py` keeps the "last N completed results" (47) and means to "evict oldest if over limit" (316), but goes
  by ids, which are taken before the requests are put (397-404). A request that waits for its put may finish last
  with the smallest id; with a full store its result is evicted as it is stored, and a client that did not wait is
  told that there is none. `LatestResultKept` says that this is the only case.
- `docs/reference/providers.md` 27 gives OpenCode the "build agent" for write and the "build with automatic
  actions" for yolo; `execution_modes.py` 26-27 has one profile for both, with automatic actions. Cursor is
  forced in its sandbox in write mode too. `WithinMode` names these two (`WritesUnasked`).
- `run.json` of the root is written by the first stage with a status of its own. If a later stage raises, it
  stays, and a reader finds `complete` for a task whose debate or synthesis was never finished.
- The heartbeats are to keep an honest long run alive (`mcp_server.py` 27-41); a provider that is
  silent until it ends gives none, and one notification that fails silences all the later ones (88-95), though
  the host is still there.

Fairness. Threads and processes are scheduled (weak fairness of each handler, of the worker and
of the main thread; of each manager and each daemon; of the event loop), and every wait in the code has a
timeout, but for a handler's wait for its result, which is a step only once the result is there.
In `InvocationRun` some runner that can go on does, and the deadlines of invocations pass in the end; the
threads that start providers are owed nothing, and the deadline of the task need not pass. The timeouts of
ACP requests pass until the transport is closed: after that a call must be woken. In `ProgressBridge` a provider ends in the end and its end is noted (strong fairness of
`Finish` and `Note`, since others may hold the callback's lock whenever it is looked at): that is
`RunReturns` of `InvocationRun`. The workflow and the terminals are run for safety only. No fairness is assumed of clients, providers, the start
of a provider, agents, hosts, exceptions, signals, crashes or prompts.

`CHECK_DEADLOCK FALSE` is set for the daemon, the prompt dispatch, a run of invocations, the
workflow, the ACP adapter, the terminals, the answer stream and a call, which end: a daemon whose process
has exited, a dispatch, a run or a workflow that has returned, an agent that is gone, an answer that is
complete. The lifecycle never ends, for a session can always be started again or listed.

## Proofs

`SessionDaemonProofs` proves, for every set of connections and every limit:

| Theorem | Property |
|---|---|
| `TypeCorrect` | `TypeOK` |
| `NoRequestLost` | `RequestsAccounted` |
| `WorkerNeverSkips` | `WorkerHoldsOpenRequest` |
| `AnswersAreFinal` | `AnsweredOnce`, an action property |
| `CancelHitsItsTarget` | `CancelIsolated` |
| `TranscriptAgrees` | `TranscriptMatchesAnswers` |
| `StoreKeepsTheLatest` | `LatestResultKept`, an action property |
| `LookupsAreTrue` | `LookupTruthful`, an action property |
| `DaemonImplementsService` | `ImplementsService`, the refinement of `PromptService` |

`WorkerHoldsOpenRequest` and `AnsweredOnce` have no run of their own: the one follows from
`RequestsAccounted`, the other is part of what `PromptService` promises.
The assumptions are those of the constants: `None` is no connection, the limits are positive.
The argument goes in layers. `TypeInv` is `TypeOK` with what it needs to be inductive: the
worker holds a connection wherever it uses one. `AccountInv` adds what makes the
accounting inductive: a connection that has not put its request is not in the queue, not
accepted and not answered, so that a put can neither duplicate a request nor revive an
answered one; given that, each of the three drains and the worker's get move one request from
exactly one place to exactly one other. `CancelInv` adds that an event that is set while a
request is current was set for it, which holds because making a request current clears
the event under the same lock. `TranscriptInv` says of the turn in the worker's hands where its user
line is, and at each label whether it is recorded already and for what outcome: the check under the lock
decides that for good, before the two lines are appended and long before the result is set. `StoreInv`
adds that ids differ and that what is stored was answered; that dropping the smallest id leaves the
largest ones is a matter of cardinalities (`CompletedAreLargestIds`), and so is that the one dropped is the newcomer
exactly if it was overtaken. Each layer is proved with one step per action. The refinement rests on
`TranscriptInv` on both sides of a step: the turns of the history before and after it are equal, or one
longer at the step that is the service's answer.

`InvocationRunProofs` proves, for any number of invocations and threads, any amount of output and
any set of faulty adapters:

| Theorem | Property |
|---|---|
| `TypeCorrect` | `TypeOK` |
| `NoProviderIsLeft` | `NoProviderLeft` |
| `SuccessesAreWhole` | `SuccessIsWhole` |
| `EndsHaveReasons` | `StoppedForAReason` |
| `ResultIsTruthful` | `ResultTruthful` |
| `StopsBeginNothing` | `StopBeginsNothing`, an action property |
| `LateStartsAreForNothing` | `LateIsNoSuccess` |
| `TheEndIsLast` | `NothingAfterTheEnd`, an action property |
| `RunsAreStages` | `ImplementsStage`, the refinement of `InvocationStage` |

The assumptions are that there is an invocation, that each provider writes a finite number of
pieces and that a provider ends in one of the three ways the code tells apart. `IInv` has five
parts besides the types. `Handover`: a run is in the starter's hands until it is in the box, then
in the runner's, and whoever lets go of it cancels it or is one of the named losses; `NoProviderLeft`
is not inductive without it, for a runner may be over while its starter is not. `Polled`:
what a poll saw of a provider that has ended stays so, and the look at its output between the poll
and the decision leaves nothing unsent. `Reasons`: the reason is noted before the event is set for
it, and the state of a future, the place of its runner and its output agree. `InTime`: where a runner can still come to a
success, its provider was started before the stop or the stop is still to be found. `Verdict`: the
result is what `Report` made of the outputs. There is a lemma for each part, with a step for each
action. `ResultTruthful`, `StopBeginsNothing`, `LateIsNoSuccess` and `NothingAfterTheEnd` are
proved and not run: TLC checks the first three as part of `ImplementsStage`. The refinement rests on `IInv` and on the two action properties' reasons: an output is
written once, an invocation is begun only where the event is still off, and `Report` comes when
every output is there; each action maps to one step of the stage or to none.

`SessionLifecycleProofs` proves, for any number of managers and pids, with crashes and slow starts
or without:

| Theorem | Property |
|---|---|
| `TypeCorrect` | `TypeOK` |
| `OnlyBoundAreNamed` | `NamedDaemonBound` |
| `OnlyBoundAreTold` | a daemon that is told to stop, by a shutdown or a signal, has bound the socket |

The assumption is that "nobody" is no pid. A daemon writes its name after it has bound, but a manager
writes what it read earlier, and so the invariant is `NamedDaemonBound` with `UpWasBound`: a daemon that
serves, or has got past its bind, has bound. Neither a crash nor an unlink takes that back.

`PromptDispatchProofs` proves, for any number of retries, any timeouts and any interval:

| Theorem | Property |
|---|---|
| `TypeCorrect` | `TypeOK` |
| `NoProviderStays` | `NoRunLeftBehind` |
| `OnlyMendableRetried` | `RetriesMend` |
| `CancelsStop` | `CancelStopsRuns` |
| `ResultIsTrue` | `ResultTruthful` |

The four properties hold for one reason, which is in the invariant: attempts are taken one after the other
(`InOrder`), every run so far but the last has failed with an error that can be mended (`Counted`), what
succeeded is the last one (`LastSucceeded`), and the adapter's steps are only ever about the run of this
attempt (`HandsFree`): any other has ended or is out of reach. `LateIsLast` is for the cancel that comes between
the test of the event and the start: the run that starts then is the last one, and is being cancelled. The bound of the clock is no part of `TypeOK`, for it is a bound of TLC's.

`AcpTerminalsProofs` proves, for any paths, contexts, requests and length of output:

| Theorem | Property |
|---|---|
| `TypeCorrect` | `TypeOK` |
| `NoTerminalIsLeft` | `NoTerminalLeft` |
| `LinesComeOnce` | `OutputOnce` |
| `ContextStays` | `ContextUntouched` |

The assumptions are those of the bounds. The reader thread and the closer share the two tables of terminals
and nothing keeps them from releasing the same one. `Fresh` says that a
terminal in creation is in no list, so that it is new to the closer as well; `Known` that whatever works
is in the table or about to be put there; `Hands` that a release kills before it forgets, in either thread;
`Closing` that, once the list was taken, what works is on it, in the
closer's hand or `late`, and what is in creation is `late`. `Refused` is why a context stays as it
is: the handlers that could write it are not registered with one. `Lines` says that what was shown, what is in
the buffer and what is in the pipe make up what was printed.

`AcpAdapterProofs` proves, for any requests, any handshake and any number of messages:

| Theorem | Property |
|---|---|
| `TypeCorrect` | `TypeOK` |
| `NoAgentIsLeft` | `NoAgentLeft` |
| `AnswersAreOwn` | `AnswersMatch`, if no request of the agent has an id the client may give |
| `NothingStays` | `NothingLeftBehind`, under the same condition |
| `AnswersAreWhole` | `AnswerIsWhole` |

The assumptions are those of the bounds and of the handshake. `TransportSteps` shows first that whatever the
adapter does is one of the transport's steps, a failed launch, or the taking of a notification, so that
the rest is about the transport alone. `Closed` is what makes `NoAgentLeft` inductive: no step opens the transport again, and
the agent has exited where it is not open. `MatchInv` has the messages under way (`InFlight`: an answer is
to something that was asked), the calls (`Issued`: each has an id of its own, which the agent knows once
the request is written) and the table (`Filed`: an entry is an answer to its key). The condition is used
in one place, where the reader takes an id that is pending for an answer; `acp_collision` shows what becomes of
the property without it. `AnswersAreWhole` needs no such condition, for notifications carry the id 0.
Its invariant is `WordsInOrder`: the text, the queue and the pipe hold, one after the other, what the
agent has said. Other messages lie between the words, so that the place of a word is counted (`UpdatesIn`),
and the lemmas about counts say what a `Tail` or an `Append` does to it. `IdleWhenSaid` and `SuccessEndsIdle`
carry the last word from the text to the answer, `ThreadInRun` says that nobody touches an answer that
was reported.

`InvocationWorkflowProofs` proves, for any list of invocations, any providers and any set of readers:

| Theorem | Property |
|---|---|
| `TypeCorrect` | `TypeOK` |
| `NoInvocationDropped` | `NothingDropped` |
| `StagesBuildOnSuccess` | `BuiltOnSuccess` |
| `StagesSeeWholeStages` | `SourcesWhole` |
| `RootStandsByItsWord` | `RootKeepsItsWord`, an action property |

The assumptions are that the list names each invocation once and is not empty. None of the invariants is
inductive, for each looks at the end or at what one stage sees. `FlowInv` therefore says, for each stage,
which records there are when it is under way: of a chain the successes of those before this one
(`ChainSoFar`), of a debate one of every invocation, with a success among them (`DebateSoFar`), of a
synthesis one for each call of the plan but its own (`SynthesisSoFar`); and at the end, one for each call
(`AllRecorded`). The lemma behind all of them is `OutputsOfStage`: a stage that has returned has one
output for each who took part, reader or not.

The same module proves of `AnswerStream`, for any texts, logs of any length and any number of polls:

| Theorem | Property |
|---|---|
| `StreamTypes` | `StreamTypeOK` |
| `StreamInvariant` | the inductive invariant `ShownInv` |
| `SuccessIsShown` | `AnswerIsShown` |

It is there because an invocation of a workflow is what streams; the two components share no variable.
The one assumption is `TextsAssumption`, that lines say texts; neither that the texts are not empty nor the
bound on the lines is used. `AnswerIsShown` looks only at the end. What makes it inductive is what the loop may rely on at each
poll: `EmittedLast`, that what was emitted last comes last of what was shown, whatever the provider
writes; and `ShownOnce`, that as long as the lines agree, what was shown is what was emitted and
is how the answer still begins. A new line keeps the second because of `AnswerGrows`: of lines that agree, what is
decoded begins with what was decoded before. That lemma has a case for each decoder and for what the
line does: it adds, so the text grows at its end; it gives the answer anew, so it says the same
(`AgreedBefore`); or it is the first line the JSON decoder understands, and then `EarlyTells` has that
nothing was shown yet. Half a line changes what is decoded only of a log taken for text, at its end.

`FlattenSeq` is defined by recursion. What it gains with a text more (`FlattenAppend`) is proved from the
function it chooses: there is one for every number of texts (`JoinsExists`), and two that join the same texts
agree (`JoinsAgree`), both by the least counterexample.

`FrontEndProofs` proves, for any files, options and requests, any number of invocations, any
interval of the bridge and any patience of the host:

| Theorem | Property |
|---|---|
| `FrontCorrect` | the inductive invariant `FrontInv` |
| `FilesGiveTheSameDeadlines` | `SameDeadlines` |
| `ProvidersKeepToTheMode` | `WithinMode` |
| `EachFileGoesToOne` | `FilesDividedOnce` |
| `ReportsAreTrue` | `ReportTruthful`, an action property |
| `NobodyWritingIsGivenUp` | `GivenUpInSilence`, an action property |

The assumptions: files are numbers other than 0, which stands for a path outside the repository
(`FilesAssumption`); the defaults are numbers (`DefaultsAssumption`); lists of providers and agents are
sequences (`CallAssumption`); and the host is more patient than the bridge's interval
(`ClockAssumption`), without which the heartbeats of `mcp_server.py` 27-41 would serve nothing.
`FrontInv` has two kinds of parts. `SettingsResolved` and `PlanChecked` only remember where the settings
and the plan come from: the settings are `Policy` of the call, the plan is made of a request that none of
the checks refused. The three properties of settings and plan are then facts about operators:
that two orders of merging agree key by key; that, with no permission granted by name and no check that
refuses, the risk of each provider in the tables is within the mode, or the provider is one of the two that write unasked; that a file has one place among the
files of the scope, and so one remainder, however the paths overlap. `BridgeInv` is about the run: one thread
holds the callback (`OneHolds`), what waits for the loop is in order and no less than what was told (`LoopInOrder`),
and while nothing is on its way and no notification has failed the host has waited no longer than since the last heartbeat
(`HeardSinceOutput`), from which a host that gives up has heard nothing because nobody wrote.

`TypeOK` of these modules is a theorem, and no run lists it; for the front end `CallTypes` has the
ranges of what changes in a run.

The proofs changed three definitions. A `CASE` whose arms overlap may take either arm, so that the risk of
cursor, which the code tests in order, is a chain of conditions now; and that a list has no duplicates is
said of its places rather than by a fold. What is added to an answer is joined over all the lines of the log, those
that add nothing included, rather than over the lines that `SelectSeq` picks, so that a line more is a text more.

What stays with TLC: liveness under fairness, which is beyond this prover (`EveryRequestAnswered`,
`StopsWhenTold`, `OperationsEnd`, `DaemonsSettle`, `DispatchEnds`, `RunReturns`, `CallsReturn`,
`CallEnds`). Every safety property that a run checks is a theorem. The induction theorems of the library
take an operator as a parameter, which no prover here can fill in; where a proof needs induction over numbers it
goes by the least counterexample (`LeastNumber`), which needs no such theorem.

## Not modelled

- Of the command line: every command but `run`, `review` and the operations on a session; dry runs; the
  layout of what is printed. `models.py` (what a provider offers), the skills, the installation scripts and the
  provider adapters' own command lines are tables and one-shot I/O without state that lasts.
- The YAML reader: a file of settings is chosen as the dictionary it reads to, its list of agents apart.
- Of the sessions: `broadcast_prompt`, which is one `send` for each active session, the client's own timeouts,
  and the text of the history in a prompt. `state.json` is written in one step, so that a torn read
  (`state.py` 92) is not modelled. Process ids are not reused.
- Of ACP: links are taken as followed, and `release` takes a terminal out of its two tables in one step. The
  lines of the pipe, JSON and the wording of messages are abstracted to the kind of the message.
- Of the shim: detection and the probe of the version.
- Of the MCP server: the `total` of a progress notification and the names of models.
- Of the runtime: the interval of the polls; the text of prompts, answers and context manifests; result files
  other than the root's `run.json`, which are written once and not read back. Of the checks of a strict call,
  the keys of models and contexts.

## Plan

In order of importance; what is done is marked.

1. `SessionDaemon`, `PromptService`, proofs of accounting and cancellation (done).
2. `SessionLifecycle` and its proofs (done).
3. `PromptDispatch` and its proofs (done); then the truncation of the history as a pure function.
4. `InvocationRun`, its proofs and the refinement of `InvocationStage` (done).
5. `InvocationWorkflow`: chain, debate and synthesis stages and the final status (done).
6. `AcpTransport`, `AcpAdapter` and `AcpTerminals`, with their proofs (done).
7. `AnswerStream` (done); `Settings`, `RunPlan`, `ProgressBridge` and `FrontEnd` (done).
8. `ShimAdapter`: detection and the process group, beyond what `PromptDispatch` uses; the
   operations of the session client.
9. Proofs of every safety property the runs check (done); liveness stays with TLC.

----------------------------- MODULE AcpAdapter -----------------------------
(***************************************************************************)
(* One run of AcpAdapter (src/runtime/acp/adapter.py) with its AcpClient:  *)
(* run starts the agent, shakes hands and leaves the prompt to a thread;   *)
(* the caller polls, and may cancel.  The text of the answer is what the   *)
(* notifications of the agent carry, up to the one that says it is idle:   *)
(* that one is "last" among Updates.                                       *)
(***************************************************************************)
EXTENDS AcpTransport, SequencesExt

CONSTANT Handshake  \* the requests of the handshake, in order; the prompt comes after

ASSUME HandshakeAssumption ==
    /\ Handshake \in Seq(Requests \ {"prompt"}) /\ Handshake # <<>>
    /\ "prompt" \in Requests

VARIABLES
    run,        \* where adapter.run is
    shake,      \* the request of the handshake under way
    turn,       \* where the thread of the prompt is
    state,      \* _session_state
    text,       \* what the accumulator holds
    handle,     \* completed, success and response_text of the handle
    known,      \* the handle is in _runs
    caller,     \* what the caller does
    report,     \* what its last poll or its cancel came to
    cutShort    \* history: the answer was taken before the agent was idle

adapterVars == <<run, shake, turn, state, text, handle, known, caller, report, cutShort>>
vars == <<transportVars, adapterVars>>

Init ==
    /\ TransportInit
    /\ run = "begin" /\ shake = 1 /\ turn = "none" /\ state = "" /\ text = <<>>
    /\ handle = [completed |-> FALSE, success |-> FALSE, text |-> <<>>]
    /\ known = FALSE /\ caller = "free" /\ report = "none" /\ cutShort = FALSE

Transport == 
    /\ \/ \E r \in Requests : SendStep(r) \/ TimeOut(r)
       \/ ReaderStep \/ AgentStep \/ AgentEnds
    /\ UNCHANGED adapterVars

Issue(r) ==
    /\ Step(r, "idle", "new")
    /\ UNCHANGED <<pipeVars, stdin, stdout, id, outcome, nextId, asked, got, readerVars, tableVars>>

-----------------------------------------------------------------------------
(* run *)

\* The agent that cannot be started leaves nothing to close.
BeginRun ==
    /\ run = "begin"
    /\ \/ run' = "handshake" /\ Issue(Head(Handshake))
       \/ run' = "raised" /\ agent' = "exited" /\ eof' = TRUE /\ stdin' = "gone"
          /\ UNCHANGED <<said, answers, asks, stdout, callVars, readerVars, tableVars>>
    /\ UNCHANGED <<shake, turn, state, text, handle, known, caller, report, cutShort>>

Refused(r) == outcome[r] \in {"error", "closed", "timeout"}
Accepted(r) == outcome[r] = "result" /\ got[r].kind # "odd"

NextRequest ==
    /\ run = "handshake" /\ Accepted(Handshake[shake]) /\ shake < Len(Handshake)
    /\ shake' = shake + 1 /\ Issue(Handshake[shake + 1])
    /\ UNCHANGED <<run, turn, state, text, handle, known, caller, report, cutShort>>

\* The session is there: the handle is noted and the prompt sent by a thread of its own.
StartPrompt ==
    /\ run = "handshake" /\ Accepted(Handshake[shake]) /\ shake = Len(Handshake)
    /\ run' = "running" /\ known' = TRUE
    /\ turn' = "prompt" /\ text' = <<>> /\ state' = "working"
    /\ Issue("prompt")
    /\ UNCHANGED <<shake, handle, caller, report, cutShort>>

\* The client is closed before the failure is raised, except that a result of another type
\* raises what run does not catch: then the agent is let go.
HandshakeFails ==
    /\ run = "handshake"
    /\ \/ Refused(Handshake[shake]) /\ run' = "failing"
       \/ got[Handshake[shake]].kind = "odd" /\ run' = "escaped"
    /\ UNCHANGED <<transportVars, shake, turn, state, text, handle, known, caller, report, cutShort>>

FailRun ==
    /\ run = "failing"
    /\ \/ CloseProcess /\ UNCHANGED run
       \/ CloseRest /\ run' = "raised"
    /\ UNCHANGED <<shake, turn, state, text, handle, known, caller, report, cutShort>>

-----------------------------------------------------------------------------
(* The thread of the prompt *)

Complete(success, answer) ==
    /\ turn' = "over"
    /\ handle' = [completed |-> TRUE, success |-> success, text |-> answer]

PromptFails ==
    /\ turn = "prompt" /\ (Refused("prompt") \/ outcome["prompt"] = "raised")
    /\ Complete(FALSE, <<>>)
    /\ UNCHANGED <<transportVars, run, shake, state, text, known, caller, report, cutShort>>

\* Mutant of PromptReturns: the answer is taken as soon as the request returns.
PromptReturnsAtOnce ==
    /\ turn = "prompt" /\ outcome["prompt"] = "result"
    /\ Complete(TRUE, text)
    /\ UNCHANGED <<transportVars, run, shake, state, text, known, caller, report, cutShort>>

PromptReturns ==
    /\ turn = "prompt" /\ outcome["prompt"] = "result"
    /\ turn' = "drain"
    /\ UNCHANGED <<transportVars, run, shake, state, text, handle, known, caller, report, cutShort>>

\* next_update: content is collected, the state that may come with it remembered, and
\* what is no update is dropped.
Drain ==
    /\ turn = "drain" /\ state # "idle" /\ notifications # <<>>
    /\ notifications' = Tail(notifications)
    /\ LET m == Head(notifications)
       IN  /\ text' = IF m.kind = "update" THEN Append(text, m.body) ELSE text
           /\ state' = IF m.kind = "update" /\ m.body = "last" THEN "idle" ELSE state
    /\ UNCHANGED <<pipeVars, stdin, stdout, callVars, reader, current, tableVars,
                   run, shake, turn, handle, known, caller, report, cutShort>>

\* The agent is idle, or the five seconds are over.
Collect ==
    /\ turn = "drain" /\ Complete(TRUE, text)
    /\ cutShort' = (state # "idle")
    /\ UNCHANGED <<transportVars, run, shake, state, text, known, caller, report>>

-----------------------------------------------------------------------------
(* poll and cancel *)

\* A run that is not completed, or not known, changes nothing.
PollCompleted ==
    /\ caller = "free" /\ known /\ handle.completed
    /\ caller' = "polling"
    /\ UNCHANGED <<transportVars, run, shake, turn, state, text, handle, known, report, cutShort>>

\* The files are written and the client closed; the handle goes.
PollCloses ==
    /\ caller = "polling"
    /\ \/ CloseProcess /\ UNCHANGED <<caller, known, report>>
       \/ CloseRest /\ caller' = "free" /\ known' = FALSE
          /\ report' = IF handle.success THEN "SUCCEEDED" ELSE "FAILED"
    /\ UNCHANGED <<run, shake, turn, state, text, handle, cutShort>>

\* Mutant of Cancel: the handle is dropped and the client left alone.
CancelForgets ==
    /\ caller = "free" /\ known
    /\ caller' = "free" /\ known' = FALSE /\ report' = "cancelled"
    /\ UNCHANGED <<transportVars, run, shake, turn, state, text, handle, cutShort>>

Cancel ==
    /\ caller = "free" /\ known
    /\ caller' = "cancelling"
    /\ UNCHANGED <<transportVars, run, shake, turn, state, text, handle, known, report, cutShort>>

CancelCloses ==
    /\ caller = "cancelling"
    /\ \/ CloseProcess /\ UNCHANGED caller
       \/ CloseRest /\ caller' = "joining"
    /\ UNCHANGED <<run, shake, turn, state, text, handle, known, report, cutShort>>

\* The thread has ended, or the join has taken five seconds.
CancelJoins ==
    /\ caller = "joining"
    /\ handle' = [handle EXCEPT !.completed = TRUE, !.success = FALSE]
    /\ caller' = "free" /\ known' = FALSE /\ report' = "cancelled"
    /\ UNCHANGED <<transportVars, run, shake, turn, state, text, cutShort>>

-----------------------------------------------------------------------------

RunStep == BeginRun \/ NextRequest \/ StartPrompt \/ HandshakeFails \/ FailRun
TurnStep == PromptFails \/ PromptReturns \/ Drain \/ Collect
CallerStep == PollCompleted \/ PollCloses \/ CancelCloses \/ CancelJoins

Next == Transport \/ RunStep \/ TurnStep \/ CallerStep \/ Cancel

Spec == Init /\ [][Next]_vars

\* Threads are scheduled, and timeouts pass until the transport is closed; the agent owes
\* nothing.
FairSpec ==
    /\ Spec
    /\ WF_vars(UNCHANGED adapterVars /\ \E r \in Requests : SendStep(r))
    /\ WF_vars(UNCHANGED adapterVars /\ stdin = "open" /\ \E r \in Requests : TimeOut(r))
    /\ WF_vars(ReaderStep /\ UNCHANGED adapterVars)
    /\ WF_vars(RunStep) /\ WF_vars(TurnStep) /\ WF_vars(CallerStep)

-----------------------------------------------------------------------------
(* What holds *)

Texts == Seq(Updates \cup {"none"})
Handles == [completed : BOOLEAN, success : BOOLEAN, text : Texts]

\* Every variable stays in its range.
TypeOK ==
    /\ TransportTypes
    /\ run \in {"begin", "handshake", "running", "failing", "raised", "escaped"}
    /\ turn \in {"none", "prompt", "drain", "over"} /\ state \in {"", "working", "idle"}
    /\ caller \in {"free", "polling", "cancelling", "joining"}
    /\ report \in {"none", "SUCCEEDED", "FAILED", "cancelled"}
    /\ shake \in DOMAIN Handshake /\ text \in Texts
    /\ handle \in Handles
    /\ known \in BOOLEAN /\ cutShort \in BOOLEAN

\* An answer is whole: if the agent says once that it is idle, and nothing after that, then
\* a success carries everything it said, in order, whether the last of it came before the
\* response to the prompt or after it, unless it came too late.
AnswerIsWhole ==
    /\ report = "SUCCEEDED" /\ ~cutShort
    /\ \A k \in DOMAIN said : said[k] = "last" => k = Len(said)
    => handle.text = said

\* When run has raised what it promises, a poll has reported or a cancel has returned, the
\* agent is gone.
NoAgentLeft ==
    run = "raised" \/ report # "none" => agent = "exited" /\ stdin = "gone"

\* run returns or raises, though the agent may say nothing; cancelling a run ends its
\* prompt and returns; and whoever waits when the transport is closed, or comes to wait,
\* is woken, and need not wait for its timeout.
CallsReturn ==
    /\ <>(run \in {"running", "raised", "escaped"})
    /\ caller = "cancelling" ~> report = "cancelled" /\ turn = "over"
    /\ stdin = "gone" ~> \A r \in Requests : call[r] \in {"idle", "done"}
=============================================================================

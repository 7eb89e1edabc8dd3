---------------------------- MODULE AcpTransport ----------------------------
(***************************************************************************)
(* JsonRpcTransport of src/runtime/acp/transport.py: requests to an agent  *)
(* process over its stdin, answered on its stdout, where its notifications *)
(* and its own requests arrive as well.  One reader thread routes them;    *)
(* the threads that call send_request wait for events it sets; another     *)
(* thread may close the transport at any time.                             *)
(***************************************************************************)
EXTENDS Naturals, Sequences, FiniteSets

CONSTANTS
    Requests,   \* the calls of send_request
    AgentIds,   \* ids the agent gives to its own requests
    Updates,    \* what its notifications say
    MaxId,      \* bound: ids given to requests
    MaxSent     \* bound: messages the agent writes

ASSUME BoundsAssumption == MaxSent \in Nat /\ MaxId \in Nat
ASSUME AgentIdsAssumption == AgentIds \subseteq Nat

VARIABLES
    agent,          \* "up" or "exited"
    stdin,          \* "open", "closed", or "gone" with the process object
    stdout, eof,    \* the messages in the pipe; nothing more will come
    nextId, pending, results,
    events,         \* ids whose event is set
    call, id, outcome,  \* where each call is, the id it has, what came of it
    reader, current,    \* where the reader is, the message it has in hand
    notifications,
    \* history variables
    asked,          \* ids of the requests the agent has got
    said,           \* what its notifications have said
    answers,        \* the answers it has given
    asks,           \* ids of its own requests
    got             \* the message a call returned with

pipeVars == <<agent, eof, said, answers, asks>>
callVars == <<call, id, outcome, nextId, asked, got>>
readerVars == <<reader, current, notifications>>
tableVars == <<pending, results, events>>
transportVars == <<pipeVars, stdin, stdout, callVars, readerVars, tableVars>>

Ids == 1..MaxId
NoMessage == [kind |-> "none", id |-> 0, body |-> "none"]
Message(kind, i, body) == [kind |-> kind, id |-> i, body |-> body]
Answers == {"result", "odd", "error"} \* "odd": a result of another type than an object

TransportInit ==
    /\ agent = "up" /\ stdin = "open" /\ stdout = <<>> /\ eof = FALSE
    /\ nextId = 1 /\ pending = {} /\ results = [i \in Ids |-> NoMessage] /\ events = {}
    /\ call = [r \in Requests |-> "idle"] /\ id = [r \in Requests |-> 0]
    /\ outcome = [r \in Requests |-> "none"]
    /\ reader = "read" /\ current = NoMessage /\ notifications = <<>>
    /\ asked = {} /\ said = <<>> /\ answers = {} /\ asks = {}
    /\ got = [r \in Requests |-> NoMessage]

-----------------------------------------------------------------------------
(* send_request *)

Step(r, from, to) == call[r] = from /\ call' = [call EXCEPT ![r] = to]

Done(r, from, how) == Step(r, from, "done") /\ outcome' = [outcome EXCEPT ![r] = how]

alive == agent = "up" /\ stdin # "gone"

TestAlive(r) ==
    /\ IF alive THEN Step(r, "new", "register") /\ UNCHANGED outcome ELSE Done(r, "new", "closed")
    /\ UNCHANGED <<pipeVars, stdin, stdout, id, nextId, asked, got, readerVars, tableVars>>

Register(r) ==
    /\ Step(r, "register", "write") /\ nextId \in Ids
    /\ id' = [id EXCEPT ![r] = nextId] /\ nextId' = nextId + 1
    /\ pending' = pending \cup {nextId}
    /\ UNCHANGED <<pipeVars, stdin, stdout, outcome, asked, got, readerVars, results, events>>

\* A pipe without a reader is broken; a closed file raises what _write does not catch; and
\* the process object may go while it is used.
Write(r) ==
    /\ \/ stdin = "open" /\ agent = "up" /\ Step(r, "write", "wait")
          /\ asked' = asked \cup {id[r]} /\ UNCHANGED outcome
       \/ stdin # "closed" /\ ~alive /\ Done(r, "write", "closed") /\ UNCHANGED asked
       \/ stdin # "open" /\ Done(r, "write", "raised") /\ UNCHANGED asked
    /\ UNCHANGED <<pipeVars, stdin, stdout, id, nextId, got, readerVars, tableVars>>

\* Both tables forget the id.
Forget(i) ==
    /\ pending' = pending \ {i} /\ results' = [results EXCEPT ![i] = NoMessage]
    /\ UNCHANGED events

OutcomeOf(m) ==
    IF m = NoMessage THEN "closed" ELSE IF m.kind = "error" THEN "error" ELSE "result"

Answered(r) ==
    /\ id[r] \in events
    /\ Done(r, "wait", OutcomeOf(results[id[r]]))
    /\ got' = [got EXCEPT ![r] = results[id[r]]]
    /\ Forget(id[r])
    /\ UNCHANGED <<pipeVars, stdin, stdout, id, nextId, asked, readerVars>>

\* wait returns False; an answer may still come before the tables are cleared.
TimeOut(r) ==
    /\ id[r] \notin events /\ Step(r, "wait", "expire")
    /\ UNCHANGED <<pipeVars, stdin, stdout, id, outcome, nextId, asked, got, readerVars, tableVars>>

\* Mutant of Expire: the answer that came late is left in the table.
ExpireLeaves(r) ==
    /\ Done(r, "expire", "timeout")
    /\ pending' = pending \ {id[r]}
    /\ UNCHANGED <<pipeVars, stdin, stdout, id, nextId, asked, got, readerVars, results, events>>

Expire(r) ==
    /\ Done(r, "expire", "timeout")
    /\ Forget(id[r])
    /\ UNCHANGED <<pipeVars, stdin, stdout, id, nextId, asked, got, readerVars>>

SendStep(r) == TestAlive(r) \/ Register(r) \/ Write(r) \/ Answered(r) \/ Expire(r)

-----------------------------------------------------------------------------
(* _read_loop *)

\* Mutant of Route: answers are taken in the order of the requests, whatever their ids.
RouteInOrder(m) ==
    \/ m.kind \in Answers /\ pending # {} /\ reader' = "signal"
       /\ \E i \in pending : (\A j \in pending : i <= j) /\ results' = [results EXCEPT ![i] = m]
       /\ UNCHANGED notifications
    \/ m.kind \in Answers /\ pending = {} /\ UNCHANGED <<results, notifications, reader>>
    \/ m.kind = "ask" /\ reader' = "reply" /\ UNCHANGED <<results, notifications>>
    \/ m.kind = "update" /\ notifications' = Append(notifications, m)
       /\ UNCHANGED <<results, reader>>

\* An id that is pending makes an answer, any other with a method a request of the agent;
\* the rest, an answer nobody waits for included, is a notification.
Route(m) ==
    \/ m.id \in pending /\ results' = [results EXCEPT ![m.id] = m] /\ reader' = "signal"
       /\ UNCHANGED notifications
    \/ m.id \notin pending /\ m.kind = "ask" /\ reader' = "reply"
       /\ UNCHANGED <<results, notifications>>
    \/ m.id \notin pending /\ m.kind # "ask" /\ notifications' = Append(notifications, m)
       /\ UNCHANGED <<results, reader>>

ReadMessage ==
    /\ reader = "read" /\ stdout # <<>>
    /\ current' = Head(stdout) /\ stdout' = Tail(stdout)
    /\ Route(Head(stdout))
    /\ UNCHANGED <<pipeVars, stdin, callVars, pending, events>>

Signal ==
    /\ reader = "signal" /\ reader' = "read"
    /\ events' = events \cup {current.id}
    /\ UNCHANGED <<pipeVars, stdin, stdout, callVars, current, notifications, pending, results>>

WakeAll == events' = events \cup pending /\ UNCHANGED <<pending, results>>

\* The handler has run; if its answer cannot be written the reader dies of it.
Reply ==
    /\ reader = "reply"
    /\ IF stdin = "open" /\ agent = "up"
       THEN reader' = "read" /\ UNCHANGED tableVars
       ELSE reader' = "ended" /\ WakeAll
    /\ UNCHANGED <<pipeVars, stdin, stdout, callVars, current, notifications>>

EndOfOutput ==
    /\ reader = "read" /\ stdout = <<>> /\ eof
    /\ reader' = "ended" /\ WakeAll
    /\ UNCHANGED <<pipeVars, stdin, stdout, callVars, current, notifications>>

ReaderStep == ReadMessage \/ Signal \/ Reply \/ EndOfOutput

-----------------------------------------------------------------------------
(* close *)

\* stdin is closed and the process terminated, or killed.
CloseProcess ==
    /\ stdin = "open" /\ stdin' = "closed"
    /\ agent' = "exited" /\ eof' = TRUE
    /\ UNCHANGED <<said, answers, asks, stdout, callVars, readerVars, tableVars>>

\* Mutant of CloseRest: those who wait are not woken.
CloseRestSilently ==
    /\ stdin = "closed" /\ stdin' = "gone"
    /\ stdout' = <<>>
    /\ UNCHANGED <<pipeVars, callVars, readerVars, tableVars>>

\* stdout is closed, what it still held is lost, and everyone is woken.
CloseRest ==
    /\ stdin = "closed" /\ stdin' = "gone"
    /\ stdout' = <<>> /\ WakeAll
    /\ UNCHANGED <<pipeVars, callVars, readerVars>>

-----------------------------------------------------------------------------
(* The agent *)

Sends(m) ==
    /\ agent = "up" /\ ~eof
    /\ Len(said) + Cardinality(answers) + Cardinality(asks) < MaxSent
    /\ stdout' = Append(stdout, m)
    /\ UNCHANGED <<agent, eof, stdin, callVars, readerVars, tableVars>>

\* It answers what it was asked, perhaps twice, asks itself, or notifies.
AgentStep ==
    \/ \E i \in asked, kind \in Answers :
         /\ <<i, kind>> \notin answers /\ answers' = answers \cup {<<i, kind>>}
         /\ Sends(Message(kind, i, "none")) /\ UNCHANGED <<said, asks>>
    \/ \E i \in AgentIds \ asks :
         /\ asks' = asks \cup {i}
         /\ Sends(Message("ask", i, "none")) /\ UNCHANGED <<said, answers>>
    \/ \E u \in Updates :
         /\ said' = Append(said, u)
         /\ Sends(Message("update", 0, u)) /\ UNCHANGED <<answers, asks>>

\* It exits, or closes its output and lives on.
AgentEnds ==
    /\ agent = "up" /\ agent' \in {"up", "exited"} /\ ~eof /\ eof' = TRUE
    /\ UNCHANGED <<said, answers, asks, stdin, stdout, callVars, readerVars, tableVars>>

-----------------------------------------------------------------------------
(* What holds *)

Kinds == Answers \cup {"ask", "update"}
Messages == [kind : Kinds, id : Nat, body : Updates \cup {"none"}]

Entries == Messages \cup {NoMessage}

PipeTypes ==
    /\ agent \in {"up", "exited"} /\ stdin \in {"open", "closed", "gone"} /\ eof \in BOOLEAN

AgentTypes ==
    /\ stdout \in Seq(Messages) /\ said \in Seq(Updates)
    /\ asks \subseteq AgentIds /\ answers \subseteq Nat \X Answers

CallTypes ==
    /\ nextId \in 1..(MaxId + 1) /\ asked \subseteq Nat
    /\ call \in [Requests -> {"idle", "new", "register", "write", "wait", "expire", "done"}]
    /\ id \in [Requests -> 0..(nextId - 1)]
    /\ outcome \in [Requests -> {"none", "result", "error", "closed", "timeout", "raised"}]
    /\ got \in [Requests -> Entries]

TableTypes ==
    /\ pending \subseteq 1..(nextId - 1) /\ events \subseteq 1..(nextId - 1)
    /\ results \in [Ids -> Entries]

ReaderTypes ==
    /\ reader \in {"read", "signal", "reply", "ended"}
    /\ current \in Entries /\ notifications \in Seq(Messages)
    /\ reader = "signal" => current.id \in 1..(nextId - 1)

TransportTypes == PipeTypes /\ AgentTypes /\ CallTypes /\ TableTypes /\ ReaderTypes

\* A call returns with the answer to its own request, and with nothing else, whatever
\* else arrives: answers that come twice, or too late, or requests of the agent.
AnswersMatch ==
    \A r \in Requests : outcome[r] \in {"result", "error"}
        => got[r].kind \in Answers /\ got[r].id = id[r] /\ id[r] \in asked

\* A call that is over leaves nothing in the tables, however its answer and its timeout
\* crossed; only one whose request could not be written leaves its id pending.
NothingLeftBehind ==
    /\ \A r \in Requests : call[r] = "done" /\ id[r] # 0 =>
         /\ results[id[r]] = NoMessage
         /\ id[r] \in pending => id[r] \notin asked
    /\ \A i \in Ids : results[i] # NoMessage => i \in pending
=============================================================================

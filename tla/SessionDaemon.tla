--------------------------- MODULE SessionDaemon ---------------------------
(***************************************************************************)
(* One run of the session daemon, src/runtime/session/daemon.py: a main    *)
(* thread that accepts connections (run_daemon), one handler thread per    *)
(* connection (_connection_handler, _handle_connection) and one worker     *)
(* thread that serves queued prompts serially (_worker_loop).  They share  *)
(* a _DaemonContext: a bounded queue, a lock, the current request, a       *)
(* cancel event, the running flag and the store of completed results.      *)
(*                                                                         *)
(* A connection carries one request line, so the _QueuedRequest a "send"   *)
(* creates is identified with its connection; reqId is its request_id.     *)
(* A section under ctx.lock is one step: nothing outside the lock reads    *)
(* what it writes, except that cancel_event is also set by the main        *)
(* thread, before or after the section as well as inside it.               *)
(* req.result and req.done are one variable: result is written just before *)
(* done is set and read only after done.                                   *)
(***************************************************************************)
EXTENDS Naturals, Sequences, FiniteSets

CONSTANTS
    Conns,               \* client connections
    HangUps,             \* those whose client may be gone when it is written to
    Actions,             \* what clients ask for
    None,                \* no request
    MaxQueueDepth,       \* _MAX_QUEUE_DEPTH
    MaxCompletedResults  \* _MAX_COMPLETED_RESULTS

ASSUME ConnsAssumption == None \notin Conns /\ HangUps \subseteq Conns
ASSUME ActionsAssumption ==
    Actions \subseteq {"ping", "send", "cancel", "shutdown", "result"}
ASSUME QueueAssumption == MaxQueueDepth \in Nat \ {0}
ASSUME ResultsAssumption == MaxCompletedResults \in Nat \ {0}

VARIABLES
    \* main thread
    main,         \* where run_daemon is
    running,      \* ctx.running
    \* the rest of the _DaemonContext
    queue,        \* ctx.request_queue
    current,      \* ctx.current_request
    cancelEvent,  \* ctx.cancel_event
    nextId,       \* ctx.next_id
    completed,    \* keys of ctx.completed_results; the value of r is result[r]
    \* handler threads and the request each one made
    pc,           \* where the handler of a connection is
    reply,        \* last line written to the connection, and the request it names
    reqId,        \* request_id, 0 before it is allocated
    result,       \* the request's result, "none" while done is not set
    \* worker thread
    wpc,          \* where the worker is
    wreq,         \* its local req
    outcome,      \* what _dispatch_prompt returned
    cancelled,    \* its local cancelled
    \* files
    history,      \* history.jsonl
    turnCount,    \* state.turn_count in memory
    savedTurns,   \* turn_count in state.json
    \* history variables, read by properties only
    accepted,     \* requests the queue took
    hit,          \* requests that were current when cancel_event was set
    stored        \* requests ever put in completed_results

ctxVars     == <<running, queue, current, cancelEvent, nextId, completed>>
handlerVars == <<pc, reply, reqId>>
workerVars  == <<wpc, wreq, outcome, cancelled>>
fileVars    == <<history, turnCount, savedTurns>>
ghostVars   == <<accepted, hit, stored>>
vars == <<main, ctxVars, handlerVars, result, workerVars, fileVars, ghostVars>>

\* What _dispatch_prompt returns: an answer, an answer without text, or a failure,
\* a run stopped by the cancel event among them.
Outcomes == {"ok", "empty", "error"}
Results == {"none", "ok", "empty", "error", "cancelled", "withdrawn", "skipped"}
MainPcs == {"loop", "accept", "drain", "cancel", "join", "exited"}
HandlerPcs == {"new", "open", "put", "ack", "wait", "cancelDrain", "shutDrain",
               "shutLock", "shutAck", "stopRunning", "closed"}
WorkerPcs == {"test", "get", "take", "dispatch", "check", "user", "assistant",
              "save", "answer", "store", "exited", "dead"}
ReplyKinds == {"none", "status", "full", "queued", "result", "nothing_running",
               "cancel_ok", "shutdown_ack", "pending", "not_found"}
Replies == [kind : ReplyKinds, req : Conns \cup {None}]

Queued(r) == \E i \in 1..Len(queue) : queue[i] = r

\* The daemon threads die with the process.
Alive == main # "exited"

Current == {current} \ {None}

Init ==
    /\ main = "loop" /\ running = TRUE
    /\ queue = <<>> /\ current = None /\ cancelEvent = FALSE
    /\ nextId = 1 /\ completed = {}
    /\ pc = [c \in Conns |-> "new"]
    /\ reply = [c \in Conns |-> [kind |-> "none", req |-> None]]
    /\ reqId = [c \in Conns |-> 0]
    /\ result = [c \in Conns |-> "none"]
    /\ wpc = "test" /\ wreq = None /\ outcome = "error" /\ cancelled = FALSE
    /\ history = <<>> /\ turnCount = 0 /\ savedTurns = 0
    /\ accepted = {} /\ hit = {} /\ stored = {}

-----------------------------------------------------------------------------
(* Handler threads *)

Goto(c, from, to) ==
    /\ Alive
    /\ pc[c] = from
    /\ pc' = [pc EXCEPT ![c] = to]

Say(c, kind, r) == reply' = [reply EXCEPT ![c] = [kind |-> kind, req |-> r]]

\* Mutants of Drain: requests dropped without an answer; a get() that blocks.
DrainSilently(at, after, next) ==
    IF queue = <<>>
    THEN next = after /\ UNCHANGED <<queue, result>>
    ELSE next = at /\ queue' = Tail(queue) /\ UNCHANGED result
DrainBlocking(at, after, next) ==
    /\ queue # <<>>
    /\ next = at
    /\ queue' = Tail(queue)
    /\ result' = [result EXCEPT ![Head(queue)] = "withdrawn"]
\* Mutant of Drain: only the answer of the newest request is dropped.
DrainNewestFirst(at, after, next) ==
    IF queue = <<>>
    THEN next = after /\ UNCHANGED <<queue, result>>
    ELSE /\ next = at
         /\ queue' = SubSeq(queue, 1, Len(queue) - 1)
         /\ result' = [result EXCEPT ![queue[Len(queue)]] = "withdrawn"]

\* One turn of a loop "while not queue.empty(): get_nowait()" that answers the
\* oldest queued request; at an empty queue control goes on at `after`.
Drain(at, after, next) ==
    IF queue = <<>>
    THEN next = after /\ UNCHANGED <<queue, result>>
    ELSE /\ next = at
         /\ queue' = Tail(queue)
         /\ result' = [result EXCEPT ![Head(queue)] = "withdrawn"]

\* ping, queue, an empty prompt or an unknown action: answered, nothing changed.
HandleInspect(c) ==
    /\ "ping" \in Actions
    /\ Goto(c, "open", "closed")
    /\ Say(c, "status", None)
    /\ UNCHANGED <<main, ctxVars, reqId, result, workerVars, fileVars, ghostVars>>

\* send: the id is taken under the lock, ...
HandleSendAllocate(c) ==
    /\ "send" \in Actions
    /\ Goto(c, "open", "put")
    /\ reqId' = [reqId EXCEPT ![c] = nextId]
    /\ nextId' = nextId + 1
    /\ UNCHANGED <<main, running, queue, current, cancelEvent, completed, reply,
                   result, workerVars, fileVars, ghostVars>>

\* ... the request is put after the lock is released ...
QueueHasRoom == Len(queue) < MaxQueueDepth

HandleSendPut(c) ==
    /\ Goto(c, "put", "ack")
    /\ QueueHasRoom
    /\ queue' = Append(queue, c)
    /\ accepted' = accepted \cup {c}
    /\ UNCHANGED <<main, running, current, cancelEvent, nextId, completed, reply,
                   reqId, result, workerVars, fileVars, hit, stored>>

HandleSendFull(c) ==
    /\ Goto(c, "put", "closed")
    /\ ~QueueHasRoom
    /\ Say(c, "full", None)
    /\ UNCHANGED <<main, ctxVars, reqId, result, workerVars, fileVars, ghostVars>>

\* ... and acknowledged.  A nowait handler ends here, the other waits.  When the
\* client is gone the handler ends too, and the request stays queued.
HandleSendAck(c) ==
    /\ \/ /\ \E to \in {"wait", "closed"} : Goto(c, "ack", to)
          /\ Say(c, "queued", c)
       \/ /\ c \in HangUps
          /\ Goto(c, "ack", "closed")
          /\ UNCHANGED reply
    /\ UNCHANGED <<main, ctxVars, reqId, result, workerVars, fileVars, ghostVars>>

HandleSendResult(c) ==
    /\ Goto(c, "wait", "closed")
    /\ result[c] # "none"
    /\ Say(c, "result", c)
    /\ UNCHANGED <<main, ctxVars, reqId, result, workerVars, fileVars, ghostVars>>

\* cancel: with nothing current it only says so, else the event is set and the
\* queue drained.
HandleCancel(c) ==
    /\ "cancel" \in Actions
    /\ \/ /\ current = None
          /\ Goto(c, "open", "closed")
          /\ Say(c, "nothing_running", None)
          /\ UNCHANGED <<cancelEvent, hit>>
       \/ /\ current # None
          /\ Goto(c, "open", "cancelDrain")
          /\ cancelEvent' = TRUE
          /\ hit' = hit \cup Current
          /\ Say(c, "none", current)
    /\ UNCHANGED <<main, running, queue, current, nextId, completed, reqId, result,
                   workerVars, fileVars, accepted, stored>>

HandleCancelDrain(c) ==
    /\ \E to \in {"cancelDrain", "closed"} :
          /\ Goto(c, "cancelDrain", to)
          /\ Drain("cancelDrain", "closed", to)
          /\ IF to = "closed" THEN Say(c, "cancel_ok", reply[c].req)
                              ELSE UNCHANGED reply
    /\ UNCHANGED <<main, running, current, cancelEvent, nextId, completed, reqId,
                   workerVars, fileVars, ghostVars>>

\* shutdown: drain, cancel what is current, acknowledge; only then does
\* _connection_handler clear running, and only if the write went through.
HandleShutdownDrain(c) ==
    /\ "shutdown" \in Actions
    /\ \E at \in {"open", "shutDrain"}, to \in {"shutDrain", "shutLock"} :
          Goto(c, at, to) /\ Drain("shutDrain", "shutLock", to)
    /\ UNCHANGED <<main, running, current, cancelEvent, nextId, completed, reply,
                   reqId, workerVars, fileVars, ghostVars>>

HandleShutdownCancel(c) ==
    /\ Goto(c, "shutLock", "shutAck")
    /\ cancelEvent' = (cancelEvent \/ current # None)
    /\ hit' = hit \cup Current
    /\ UNCHANGED <<main, running, queue, current, nextId, completed, reply, reqId,
                   result, workerVars, fileVars, accepted, stored>>

HandleShutdownAck(c) ==
    /\ \/ Goto(c, "shutAck", "stopRunning") /\ Say(c, "shutdown_ack", None)
       \/ c \in HangUps /\ Goto(c, "shutAck", "closed") /\ UNCHANGED reply
    /\ UNCHANGED <<main, ctxVars, reqId, result, workerVars, fileVars, ghostVars>>

HandleStopRunning(c) ==
    /\ Goto(c, "stopRunning", "closed")
    /\ running' = FALSE
    /\ UNCHANGED <<main, queue, current, cancelEvent, nextId, completed, reply,
                   reqId, result, workerVars, fileVars, ghostVars>>

\* A client can only ask for an id that was acknowledged to someone.
Acknowledged(r) == r \in accepted /\ reply[r].kind \in {"queued", "result"}

\* Mutant of Lookup: whatever is not stored is called pending.
LookupAssumesPending(r) == IF r \in completed THEN "result" ELSE "pending"

\* What the "result" action answers about r.
Lookup(r) ==
    CASE r \in completed                  -> "result"
      [] r \notin completed /\ current = r -> "pending"
      [] OTHER                             -> "not_found"

HandleResult(c) ==
    /\ "result" \in Actions
    /\ Goto(c, "open", "closed")
    /\ \E r \in Conns : Acknowledged(r) /\ Say(c, Lookup(r), r)
    /\ UNCHANGED <<main, ctxVars, reqId, result, workerVars, fileVars, ghostVars>>

HandlerStep(c) ==
    \/ HandleInspect(c)
    \/ HandleSendAllocate(c) \/ HandleSendPut(c) \/ HandleSendFull(c)
    \/ HandleSendAck(c) \/ HandleSendResult(c)
    \/ HandleCancel(c) \/ HandleCancelDrain(c)
    \/ HandleShutdownDrain(c) \/ HandleShutdownCancel(c)
    \/ HandleShutdownAck(c) \/ HandleStopRunning(c)
    \/ HandleResult(c)

-----------------------------------------------------------------------------
(* Worker thread *)

WorkerGoto(from, to) ==
    /\ Alive
    /\ wpc = from
    /\ wpc' = to

WorkerTest ==
    /\ WorkerGoto("test", IF running THEN "get" ELSE "exited")
    /\ UNCHANGED <<main, ctxVars, handlerVars, result, wreq, outcome, cancelled,
                   fileVars, ghostVars>>

WorkerGet ==
    /\ WorkerGoto("get", "take")
    /\ queue # <<>>
    /\ wreq' = Head(queue)
    /\ queue' = Tail(queue)
    /\ UNCHANGED <<main, running, current, cancelEvent, nextId, completed,
                   handlerVars, result, outcome, cancelled, fileVars, ghostVars>>

\* The one-second wait ends with queue.Empty.
WorkerGetEmpty ==
    /\ WorkerGoto("get", "test")
    /\ queue = <<>>
    /\ UNCHANGED <<main, ctxVars, handlerVars, result, wreq, outcome, cancelled,
                   fileVars, ghostVars>>

\* Mutant of MakeCurrent: the event set for an earlier request stays set.
MakeCurrentOnly(r) == current' = r /\ UNCHANGED cancelEvent
MakeCurrent(r) == current' = r /\ cancelEvent' = FALSE

\* Under the lock the request becomes current and the event is cleared.  The
\* branch for a request already withdrawn is the code's; WorkerHoldsOpenRequest
\* shows that it is never taken.
WorkerTake ==
    /\ WorkerGoto("take", IF result[wreq] = "withdrawn" THEN "test" ELSE "dispatch")
    /\ IF result[wreq] = "withdrawn"
       THEN MakeCurrent(None) /\ result' = [result EXCEPT ![wreq] = "skipped"]
       ELSE MakeCurrent(wreq) /\ UNCHANGED result
    /\ UNCHANGED <<main, running, queue, nextId, completed, handlerVars,
                   wreq, outcome, cancelled, fileVars, ghostVars>>

WorkerDispatch ==
    /\ WorkerGoto("dispatch", "check")
    /\ outcome' \in Outcomes
    /\ UNCHANGED <<main, ctxVars, handlerVars, result, wreq, cancelled, fileVars,
                   ghostVars>>

\* Nothing catches an exception of the dispatch or of the file writes: it ends
\* the thread, and current stays set.
WorkerRaise ==
    /\ \E at \in {"dispatch", "user", "assistant", "save"} : WorkerGoto(at, "dead")
    /\ UNCHANGED <<main, ctxVars, handlerVars, result, wreq, outcome, cancelled,
                   fileVars, ghostVars>>

RecordsAnyAnswer == outcome = "ok"                \* mutant of RecordsTurn
RecordsTurn == outcome = "ok" /\ ~cancelEvent

WorkerCheckCancelled ==
    /\ WorkerGoto("check", IF RecordsTurn THEN "user" ELSE "save")
    /\ cancelled' = cancelEvent
    /\ UNCHANGED <<main, ctxVars, handlerVars, result, wreq, outcome, fileVars,
                   ghostVars>>

WorkerAppendUser ==
    /\ WorkerGoto("user", "assistant")
    /\ history' = Append(history, [role |-> "user", req |-> wreq])
    /\ UNCHANGED <<main, ctxVars, handlerVars, result, wreq, outcome, cancelled,
                   turnCount, savedTurns, ghostVars>>

WorkerAppendAssistant ==
    /\ WorkerGoto("assistant", "save")
    /\ history' = Append(history, [role |-> "assistant", req |-> wreq])
    /\ turnCount' = turnCount + 1
    /\ UNCHANGED <<main, ctxVars, handlerVars, result, wreq, outcome, cancelled,
                   savedTurns, ghostVars>>

WorkerSaveState ==
    /\ WorkerGoto("save", "answer")
    /\ savedTurns' = turnCount
    /\ UNCHANGED <<main, ctxVars, handlerVars, result, wreq, outcome, cancelled,
                   history, turnCount, ghostVars>>

\* Mutant of Response: no answer to a prompt that produced no text.
ResponseDropsEmpty == IF outcome = "empty" THEN "none" ELSE outcome
Response == IF cancelled THEN "cancelled" ELSE outcome

WorkerAnswer ==
    /\ WorkerGoto("answer", "store")
    /\ result' = [result EXCEPT ![wreq] = Response]
    /\ UNCHANGED <<main, ctxVars, handlerVars, wreq, outcome, cancelled, fileVars,
                   ghostVars>>

\* Mutant of Evict: the newest result gives way.
EvictNewest(S) ==
    IF Cardinality(S) > MaxCompletedResults
    THEN S \ {r \in S : \A s \in S : reqId[r] >= reqId[s]}
    ELSE S

\* Under the lock: the oldest result, by request_id, gives way when the store is
\* over its limit.  The locals of the turn are not read again.
Evict(S) ==
    IF Cardinality(S) > MaxCompletedResults
    THEN S \ {r \in S : \A s \in S : reqId[r] <= reqId[s]}
    ELSE S

WorkerStore ==
    /\ WorkerGoto("store", "test")
    /\ current' = None
    /\ completed' = Evict(completed \cup {wreq})
    /\ stored' = stored \cup {wreq}
    /\ wreq' = None /\ outcome' = "error" /\ cancelled' = FALSE
    /\ UNCHANGED <<main, running, queue, cancelEvent, nextId, handlerVars, result,
                   fileVars, accepted, hit>>

WorkerStep ==
    \/ WorkerTest \/ WorkerGet \/ WorkerGetEmpty \/ WorkerTake
    \/ WorkerDispatch \/ WorkerCheckCancelled
    \/ WorkerAppendUser \/ WorkerAppendAssistant \/ WorkerSaveState
    \/ WorkerAnswer \/ WorkerStore

-----------------------------------------------------------------------------
(* Main thread *)

MainGoto(from, to) ==
    /\ main = from
    /\ main' = to

MainTest ==
    /\ MainGoto("loop", IF running THEN "accept" ELSE "drain")
    /\ UNCHANGED <<ctxVars, handlerVars, result, workerVars, fileVars, ghostVars>>

MainAccept(c) ==
    /\ MainGoto("accept", "loop")
    /\ pc[c] = "new"
    /\ pc' = [pc EXCEPT ![c] = "open"]
    /\ UNCHANGED <<ctxVars, reply, reqId, result, workerVars, fileVars, ghostVars>>

MainAcceptTimeout ==
    /\ MainGoto("accept", "loop")
    /\ UNCHANGED <<ctxVars, handlerVars, result, workerVars, fileVars, ghostVars>>

MainDrain ==
    /\ \E to \in {"drain", "cancel"} :
          MainGoto("drain", to) /\ Drain("drain", "cancel", to)
    /\ UNCHANGED <<running, current, cancelEvent, nextId, completed, handlerVars,
                   workerVars, fileVars, ghostVars>>

MainCancel ==
    /\ MainGoto("cancel", "join")
    /\ cancelEvent' = TRUE
    /\ hit' = hit \cup Current
    /\ UNCHANGED <<running, queue, current, nextId, completed, handlerVars, result,
                   workerVars, fileVars, accepted, stored>>

\* Every join has a timeout, so this step waits for no thread.  It ends with the
\* final save_state and the process.
MainExit ==
    /\ MainGoto("join", "exited")
    /\ savedTurns' = turnCount
    /\ UNCHANGED <<ctxVars, handlerVars, result, workerVars, history, turnCount,
                   ghostVars>>

MainStep == MainTest \/ MainAcceptTimeout \/ MainDrain \/ MainCancel \/ MainExit

\* The SIGTERM handler that run_daemon installs.
Sigterm ==
    /\ Alive /\ running
    /\ running' = FALSE
    /\ UNCHANGED <<main, queue, current, cancelEvent, nextId, completed,
                   handlerVars, result, workerVars, fileVars, ghostVars>>

Next ==
    \/ \E c \in Conns : HandlerStep(c) \/ MainAccept(c)
    \/ WorkerStep \/ WorkerRaise
    \/ MainStep \/ Sigterm

Spec == Init /\ [][Next]_vars

\* The operating system schedules every thread, a provider run ends within its
\* stall timeout, and queue.get and accept return within a second.  Nothing
\* makes a client connect or an exception or a signal occur.
Fairness ==
    /\ \A c \in Conns : WF_vars(HandlerStep(c))
    /\ WF_vars(WorkerStep)
    /\ WF_vars(MainStep)

FairSpec == Spec /\ Fairness

-----------------------------------------------------------------------------
(* What holds *)

\* Every variable stays in its range, and the queue within its depth.
TypeOK ==
    /\ main \in MainPcs /\ running \in BOOLEAN
    /\ queue \in Seq(Conns) /\ Len(queue) <= MaxQueueDepth
    /\ current \in Conns \cup {None}
    /\ cancelEvent \in BOOLEAN /\ nextId \in Nat \ {0} /\ completed \subseteq Conns
    /\ pc \in [Conns -> HandlerPcs] /\ reply \in [Conns -> Replies]
    /\ reqId \in [Conns -> Nat] /\ result \in [Conns -> Results]
    /\ wpc \in WorkerPcs /\ wreq \in Conns \cup {None}
    /\ outcome \in Outcomes /\ cancelled \in BOOLEAN
    /\ history \in Seq([role : {"user", "assistant"}, req : Conns])
    /\ turnCount \in Nat /\ savedTurns \in Nat
    /\ accepted \subseteq Conns /\ hit \subseteq Conns /\ stored \subseteq Conns

\* The worker has taken wreq off the queue and not answered it.
Holding == wpc \in {"take", "dispatch", "check", "user", "assistant", "save",
                    "answer", "dead"}

\* No request is lost or served twice, whatever sends, cancels and shutdowns
\* overlap: one the queue took and nobody answered is either in the queue, at one
\* place, or in the worker's hands, and one that was answered is in neither.
RequestsAccounted ==
    /\ \A r \in Conns : (r \in accepted /\ result[r] = "none")
                           <=> (Queued(r) \/ (Holding /\ wreq = r))
    /\ \A i, j \in 1..Len(queue) : queue[i] = queue[j] => i = j
    /\ Holding => ~Queued(wreq)

\* The worker never takes a request that a cancel or a shutdown withdrew: the
\* skip branch of _worker_loop is dead code.  It follows from RequestsAccounted.
WorkerHoldsOpenRequest == Holding => wreq \in accepted /\ result[wreq] = "none"

\* An answer is final: no drain overwrites the worker's answer, nor the worker the
\* answer of a drain, and the waiting handler and a later "result" see the same.
AnsweredOnce == [][\A r \in Conns : result[r] # "none" => result'[r] = result[r]]_vars

\* A request is answered "cancelled" only if a cancel or a shutdown came while it
\* was the current one: the event meant for one request never hits the next.
CancelIsolated == \A r \in Conns : result[r] = "cancelled" => r \in hit

\* The i-th turn of history.jsonl: a user line and an assistant line of the same
\* request.
TurnOf(r, i) ==
    /\ history[2 * i - 1] = [role |-> "user", req |-> r]
    /\ history[2 * i] = [role |-> "assistant", req |-> r]
InTranscript(r) == \E i \in 1..turnCount : TurnOf(r, i)

\* history.jsonl is a sequence of whole turns, but for the user line of the request
\* in hand, and turn_count counts them.  No request has two turns.  A request has a
\* turn exactly when it is answered "ok" (or is about to be): what a client was told
\* was cancelled, failed or empty never enters the context of later prompts.
TranscriptMatchesAnswers ==
    /\ \/ Len(history) = 2 * turnCount
       \/ Len(history) = 2 * turnCount + 1 /\ wpc \in {"assistant", "dead"}
    /\ \A i \in 1..turnCount : \E r \in Conns : TurnOf(r, i)
    /\ \A i, j \in 1..turnCount :
          history[2 * i].req = history[2 * j].req => i = j
    /\ \A r \in Conns : result[r] = "ok" => InTranscript(r)
    /\ \A r \in Conns : InTranscript(r) =>
          result[r] = "ok" \/ (Holding /\ wreq = r /\ result[r] = "none")

\* The store keeps the results with the largest ids of all the worker finished, and
\* fills up to its limit before it forgets any.  It follows from LatestResultKept.
CompletedAreLargestIds ==
    /\ completed \subseteq stored
    /\ Cardinality(completed) <= MaxCompletedResults
    /\ completed # stored =>
          /\ Cardinality(completed) = MaxCompletedResults
          /\ \A r \in stored \ completed, s \in completed : reqId[r] < reqId[s]

\* The store is full of results that were finished before r and have larger ids.
Overtaken(r) ==
    /\ Cardinality(completed) = MaxCompletedResults
    /\ \A s \in completed : reqId[r] < reqId[s]

\* daemon.py means to keep the last results and to let the oldest give way (lines 47
\* and 316).  It goes by ids, which are taken before the requests are put, so this is
\* what it keeps: the result that was just finished, unless it was overtaken, when it
\* is forgotten at once; and before that, of all the results, those of largest id.
LatestResultKept ==
    [][/\ \A r \in stored' \ stored : r \in completed' <=> ~Overtaken(r)
       /\ CompletedAreLargestIds']_vars

\* What the "result" action says is true when it says it: a result it returns is
\* final, and a request reported as pending is really in the worker's hands.
LookupTruthful ==
    [][\A c \in Conns : reply'[c] # reply[c] =>
          /\ reply'[c].kind = "result" => result[reply'[c].req] # "none"
          /\ reply'[c].kind = "pending" => wreq = reply'[c].req]_vars

\* Every accepted request is answered, and a client that waits for its result gets it,
\* unless the worker thread died or the daemon was told to stop.
EveryRequestAnswered ==
    \A r \in Conns :
        /\ r \in accepted ~> (result[r] # "none" \/ wpc = "dead" \/ ~running)
        /\ pc[r] = "wait" ~> (pc[r] = "closed" \/ wpc = "dead" \/ ~running)

\* A daemon that stopped running exits, whatever its handlers and worker do.
StopsWhenTold == ~running ~> main = "exited"

\* The daemon serves prompts the way PromptService says.
Service == INSTANCE PromptService WITH
    Requests <- Conns, Places <- MaxQueueDepth,
    line <- queue,
    serving <- IF Holding THEN {wreq} ELSE {},
    answer <- result,
    transcript <- [i \in 1..turnCount |-> history[2 * i].req]

\* SessionDaemon implements PromptService: never more in line than there are places,
\* first come first served, one at a time, one answer each, transcript and answers in agreement.
ImplementsService == Service!Spec

=============================================================================

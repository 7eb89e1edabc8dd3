-------------------------- MODULE AcpAdapterProofs --------------------------
(***************************************************************************)
(* Proofs about AcpAdapter and the AcpTransport it is built on, for any    *)
(* requests, any handshake and any number of messages: what its variables  *)
(* may be, that no agent is left, that an answer is whole, and, as long as *)
(* the agent numbers its own requests apart, which answer a call returns   *)
(* with and what it leaves in the tables.                                  *)
(***************************************************************************)
EXTENDS AcpAdapter, SequenceTheorems, FiniteSetTheorems, TLAPS

\* The agent's requests have ids of their own.
Apart == AgentIds \cap Ids = {}

\* What the adapter does to the transport besides its own steps: the agent cannot be
\* started, or at most a notification is taken.
LaunchFails ==
    /\ agent' = "exited" /\ eof' = TRUE /\ stdin' = "gone"
    /\ UNCHANGED <<said, answers, asks, stdout, callVars, readerVars, tableVars>>

Taken ==
    /\ \/ UNCHANGED notifications
       \/ notifications # <<>> /\ notifications' = Tail(notifications)
    /\ UNCHANGED <<pipeVars, stdin, stdout, callVars, reader, current, tableVars>>

TransportStep ==
    \/ \E r \in Requests : SendStep(r) \/ TimeOut(r) \/ Issue(r)
    \/ ReaderStep \/ AgentStep \/ AgentEnds
    \/ CloseProcess \/ CloseRest \/ LaunchFails \/ Taken

\* No step opens the transport again.
Closed ==
    /\ stdin # "open" => agent = "exited"
    /\ caller = "joining" => stdin = "gone"
    /\ NoAgentLeft

\* A message is an answer to what was asked, a request of the agent, or a notification.
Sound(m) ==
    /\ m.kind \in Answers => m.id \in asked
    /\ m.kind = "ask" => m.id \in AgentIds
    /\ m.kind = "update" => m.id = 0

InFlight == \A k \in DOMAIN stdout : Sound(stdout[k])

\* A request has an id of its own from its registration, and the agent has it once it is written.
Issued ==
    /\ asked \subseteq 1..(nextId - 1)
    /\ \A r \in Requests :
         /\ call[r] \in {"idle", "new", "register"} => id[r] = 0
         /\ call[r] \in {"write", "wait", "expire"} => id[r] # 0
         /\ call[r] = "write" => id[r] \notin asked
         /\ call[r] \in {"wait", "expire"} => id[r] \in asked
         /\ call[r] # "done" => outcome[r] = "none"
    /\ \A r, s \in Requests : id[r] = id[s] /\ id[r] # 0 => r = s

\* What is in the table is an answer to its key.
Filed ==
    \A i \in Ids : results[i] # NoMessage =>
        results[i].kind \in Answers /\ results[i].id = i /\ i \in asked

MatchInv == InFlight /\ Issued /\ Filed /\ AnswersMatch /\ NothingLeftBehind


-----------------------------------------------------------------------------
(* The steps *)

\* A request of the handshake, and the prompt, are requests.
LEMMA HandshakeRequests ==
  ASSUME NEW k \in DOMAIN Handshake
  PROVE  Handshake[k] \in Requests
  BY HandshakeAssumption

LEMMA NextInHandshake ==
  ASSUME NEW k \in DOMAIN Handshake, k < Len(Handshake)
  PROVE  k + 1 \in DOMAIN Handshake
  BY HandshakeAssumption

\* Every step of the adapter is a step of the transport.
LEMMA TransportSteps ==
  ASSUME TypeOK, [Next]_vars
  PROVE  TransportStep
  <1> USE DEF pipeVars, callVars, readerVars, transportVars, vars
  <1>1. CASE Transport
    BY <1>1 DEF Transport, TransportStep
  <1>2. CASE BeginRun
    <2>1. Head(Handshake) \in Requests
      BY HandshakeAssumption
    <2> QED BY <1>2, <2>1 DEF BeginRun, TransportStep, LaunchFails
  <1>3. CASE NextRequest
    <2>1. shake + 1 \in DOMAIN Handshake
      BY <1>3, NextInHandshake DEF NextRequest, TypeOK
    <2>2. Handshake[shake + 1] \in Requests
      BY <2>1, HandshakeRequests
    <2> QED BY <1>3, <2>2 DEF NextRequest, TransportStep
  <1>4. CASE StartPrompt
    BY <1>4, HandshakeAssumption DEF StartPrompt, TransportStep
  <1>5. CASE FailRun \/ PollCloses \/ CancelCloses
    BY <1>5 DEF FailRun, PollCloses, CancelCloses, TransportStep
  <1>6. CASE Drain
    BY <1>6 DEF Drain, TransportStep, Taken
  <1>7. CASE UNCHANGED transportVars
    BY <1>7 DEF TransportStep, Taken
  <1>8. HandshakeFails \/ PromptFails \/ PromptReturns \/ Collect \/ PollCompleted \/ CancelJoins
          \/ Cancel \/ UNCHANGED vars => UNCHANGED transportVars
    BY DEF HandshakeFails, PromptFails, PromptReturns, Collect, PollCompleted, CancelJoins, Cancel
  <1> QED BY <1>1, <1>2, <1>3, <1>4, <1>5, <1>6, <1>7, <1>8 DEF Next, RunStep, TurnStep, CallerStep

-----------------------------------------------------------------------------
(* Type correctness *)

LEMMA HeadOfSeq ==
  ASSUME NEW S, NEW s \in Seq(S), s # <<>>
  PROVE  Head(s) \in S
  OBVIOUS

LEMMA TailOfSeq ==
  ASSUME NEW S, NEW s \in Seq(S), s # <<>>
  PROVE  Tail(s) \in Seq(S)
  OBVIOUS

LEMMA FirstOfSeq ==
  ASSUME NEW S, NEW s \in Seq(S), s # <<>>
  PROVE  1 \in DOMAIN s
  BY EmptySeq

\* A handle that is completed is a handle.
LEMMA CompletedHandle ==
  ASSUME NEW success \in BOOLEAN, NEW answer \in Texts
  PROVE  [completed |-> TRUE, success |-> success, text |-> answer] \in Handles
  BY DEF Handles

LEMMA CancelledHandle ==
  ASSUME NEW h \in Handles
  PROVE  [h EXCEPT !.completed = TRUE, !.success = FALSE] \in Handles
  BY DEF Handles

\* What is collected is a text.
LEMMA Collected ==
  ASSUME NEW t \in Texts, NEW b \in Updates \cup {"none"}
  PROVE  Append(t, b) \in Texts
  BY DEF Texts

LEMMA NothingCollected == <<>> \in Texts
  BY DEF Texts

LEMMA TypeInit == Init => TypeOK
  <1> SUFFICES ASSUME Init
               PROVE  TypeOK
    OBVIOUS
  <1>1. PipeTypes
    BY DEF Init, TransportInit, PipeTypes
  <1>2. AgentTypes
    <2>1. stdout = <<>> /\ said = <<>> /\ asks = {} /\ answers = {}
      BY DEF Init, TransportInit
    <2> QED BY <2>1 DEF AgentTypes
  <1>3. nextId = 1 /\ pending = {} /\ events = {} /\ results = [i \in Ids |-> NoMessage]
    BY DEF Init, TransportInit
  <1>4. CallTypes
    <2>1. /\ asked = {} /\ call = [r \in Requests |-> "idle"] /\ id = [r \in Requests |-> 0]
          /\ outcome = [r \in Requests |-> "none"] /\ got = [r \in Requests |-> NoMessage]
      BY DEF Init, TransportInit
    <2>2. nextId \in 1..(MaxId + 1) /\ id \in [Requests -> 0..(nextId - 1)]
      BY <1>3, <2>1, BoundsAssumption
    <2> QED BY <2>1, <2>2 DEF CallTypes, Entries
  <1>5. TableTypes
    BY <1>3 DEF TableTypes, Entries
  <1>6. ReaderTypes
    <2>1. reader = "read" /\ current = NoMessage /\ notifications = <<>>
      BY DEF Init, TransportInit
    <2> QED BY <2>1 DEF ReaderTypes, Entries
  <1>7. shake \in DOMAIN Handshake
    <2>1. shake = 1
      BY DEF Init
    <2> QED BY <2>1, HandshakeAssumption, FirstOfSeq
  <1>8. handle \in Handles
    BY NothingCollected DEF Init, Handles
  <1> QED BY <1>1, <1>2, <1>4, <1>5, <1>6, <1>7, <1>8, NothingCollected
          DEF Init, TypeOK, TransportTypes

\* The transport keeps its ranges.
LEMMA CallsKeepTypes ==
  ASSUME TransportTypes, NEW r \in Requests, SendStep(r) \/ TimeOut(r) \/ Issue(r)
  PROVE  TransportTypes'
  <1>0. PipeTypes /\ AgentTypes /\ CallTypes /\ TableTypes /\ ReaderTypes
    BY DEF TransportTypes
  <1>1. PipeTypes'
    BY <1>0 DEF PipeTypes, SendStep, TestAlive, Register, Write, Answered, Expire, TimeOut, Issue,
                pipeVars
  <1>2. AgentTypes'
    <2>1. UNCHANGED <<stdout, said, asks, answers>>
      BY DEF SendStep, TestAlive, Register, Write, Answered, Expire, TimeOut, Issue, pipeVars
    <2> QED BY <1>0, <2>1 DEF AgentTypes
  <1>3. CASE Register(r)
    <2>1. nextId' = nextId + 1 /\ nextId' \in 1..(MaxId + 1)
      BY <1>0, <1>3, BoundsAssumption DEF Register, CallTypes, Ids
    <2>2. id' \in [Requests -> 0..(nextId' - 1)]
      BY <1>0, <1>3, <2>1 DEF Register, CallTypes
    <2>3. CallTypes'
      BY <1>0, <1>3, <2>1, <2>2 DEF Register, Step, CallTypes
    <2>4. TableTypes'
      BY <1>0, <1>3, <2>1 DEF Register, CallTypes, TableTypes
    <2>5. ReaderTypes'
      BY <1>0, <1>3, <2>1 DEF Register, readerVars, CallTypes, ReaderTypes
    <2> QED BY <1>1, <1>2, <2>3, <2>4, <2>5 DEF TransportTypes
  <1>4. CASE ~Register(r)
    <2>1. ReaderTypes'
      BY <1>0, <1>4 DEF ReaderTypes, readerVars, SendStep, TestAlive, Write, Answered, Expire,
                        TimeOut, Issue
    <2>2. CASE TestAlive(r) \/ Issue(r) \/ TimeOut(r)
      <3>1. CallTypes'
        BY <1>0, <2>2 DEF CallTypes, TestAlive, Issue, TimeOut, Step, Done
      <3>2. TableTypes'
        BY <1>0, <2>2 DEF TableTypes, tableVars, TestAlive, Issue, TimeOut
      <3> QED BY <1>1, <1>2, <2>1, <3>1, <3>2 DEF TransportTypes
    <2>3. CASE Write(r)
      <3>1. id[r] \in Nat
        BY <1>0 DEF CallTypes
      <3>2. asked' \subseteq Nat
        BY <1>0, <2>3, <3>1 DEF CallTypes, Write
      <3>3. CallTypes'
        BY <1>0, <2>3, <3>2 DEF CallTypes, Write, Step, Done
      <3>4. TableTypes'
        BY <1>0, <2>3 DEF TableTypes, tableVars, Write
      <3> QED BY <1>1, <1>2, <2>1, <3>3, <3>4 DEF TransportTypes
    <2>4. CASE Answered(r)
      <3>1. id[r] \in Ids
        BY <1>0, <2>4, BoundsAssumption DEF Answered, TableTypes, CallTypes, Ids
      <3>2. results[id[r]] \in Entries
        BY <1>0, <3>1 DEF TableTypes
      <3>3. CallTypes'
        BY <1>0, <2>4, <3>2 DEF CallTypes, Answered, Done, Step, OutcomeOf
      <3>4. TableTypes'
        BY <1>0, <2>4 DEF TableTypes, Answered, Forget, Entries
      <3> QED BY <1>1, <1>2, <2>1, <3>3, <3>4 DEF TransportTypes
    <2>5. CASE Expire(r)
      <3>1. CallTypes'
        BY <1>0, <2>5 DEF CallTypes, Expire, Done, Step
      <3>2. TableTypes'
        BY <1>0, <2>5 DEF TableTypes, Expire, Forget, Entries
      <3> QED BY <1>1, <1>2, <2>1, <3>1, <3>2 DEF TransportTypes
    <2> QED BY <1>4, <2>2, <2>3, <2>4, <2>5 DEF SendStep
  <1> QED BY <1>3, <1>4

LEMMA ReaderKeepsTypes ==
  ASSUME TransportTypes, ReaderStep
  PROVE  TransportTypes'
  <1>0. PipeTypes /\ AgentTypes /\ CallTypes /\ TableTypes /\ ReaderTypes
    BY DEF TransportTypes
  <1>1. PipeTypes' /\ CallTypes'
    BY <1>0 DEF ReaderStep, ReadMessage, Signal, Reply, EndOfOutput, PipeTypes, CallTypes, pipeVars,
                callVars
  <1>2. CASE ReadMessage
    <2>1. stdout \in Seq(Messages) /\ stdout # <<>>
      BY <1>0, <1>2 DEF ReadMessage, AgentTypes
    <2>2. Head(stdout) \in Messages /\ Tail(stdout) \in Seq(Messages)
      BY <2>1, HeadOfSeq, TailOfSeq
    <2>3. AgentTypes'
      BY <1>0, <1>2, <2>2 DEF ReadMessage, AgentTypes, pipeVars
    <2>4. TableTypes'
      BY <1>0, <1>2, <2>2 DEF ReadMessage, Route, TableTypes, CallTypes, callVars, Entries
    <2>5. notifications' \in Seq(Messages)
      <3>1. notifications' \in {notifications, Append(notifications, Head(stdout))}
        BY <1>2 DEF ReadMessage, Route
      <3>2. notifications \in Seq(Messages)
        BY <1>0 DEF ReaderTypes
      <3> QED BY <2>2, <3>1, <3>2
    <2>6. reader' = "signal" => current'.id \in 1..(nextId' - 1)
      BY <1>0, <1>2 DEF ReadMessage, Route, TableTypes, callVars
    <2>7. ReaderTypes'
      BY <1>0, <1>2, <2>2, <2>5, <2>6 DEF ReadMessage, Route, ReaderTypes, Entries
    <2> QED BY <1>1, <2>3, <2>4, <2>7 DEF TransportTypes
  <1>3. CASE ~ReadMessage
    <2>1. AgentTypes'
      BY <1>0, <1>3 DEF ReaderStep, Signal, Reply, EndOfOutput, AgentTypes, pipeVars
    <2>2. TableTypes' /\ ReaderTypes'
      BY <1>0, <1>3 DEF ReaderStep, Signal, Reply, EndOfOutput, WakeAll, TableTypes, ReaderTypes,
                        callVars, tableVars
    <2> QED BY <1>1, <2>1, <2>2 DEF TransportTypes
  <1> QED BY <1>2, <1>3

LEMMA MessageTypes ==
  ASSUME NEW kind \in Kinds, NEW i \in Nat, NEW body \in Updates \cup {"none"}
  PROVE  Message(kind, i, body) \in Messages
  BY DEF Message, Messages

LEMMA AgentKeepsTypes ==
  ASSUME TransportTypes, AgentStep \/ AgentEnds
  PROVE  TransportTypes'
  <1>0. PipeTypes /\ AgentTypes /\ CallTypes /\ TableTypes /\ ReaderTypes
    BY DEF TransportTypes
  <1>1. CallTypes' /\ TableTypes' /\ ReaderTypes'
    BY <1>0 DEF AgentStep, Sends, AgentEnds, CallTypes, TableTypes, ReaderTypes, callVars,
                readerVars, tableVars
  <1>2. PipeTypes'
    BY <1>0 DEF AgentStep, Sends, AgentEnds, PipeTypes
  <1>3. CASE AgentEnds
    BY <1>0, <1>1, <1>2, <1>3 DEF AgentEnds, AgentTypes, TransportTypes
  <1>4. CASE AgentStep
    <2>1. ASSUME NEW m \in Messages, Sends(m)
          PROVE  stdout' \in Seq(Messages)
      BY <1>0, <2>1 DEF Sends, AgentTypes
    <2>2. ASSUME NEW i \in asked, NEW kind \in Answers, answers' = answers \cup {<<i, kind>>},
                 Sends(Message(kind, i, "none")), UNCHANGED <<said, asks>>
          PROVE  AgentTypes'
      <3>1. Message(kind, i, "none") \in Messages
        BY <1>0, MessageTypes DEF Kinds, CallTypes
      <3>2. <<i, kind>> \in Nat \X Answers
        BY <1>0 DEF CallTypes
      <3> QED BY <1>0, <2>1, <2>2, <3>1, <3>2 DEF AgentTypes
    <2>3. ASSUME NEW i \in AgentIds, asks' = asks \cup {i}, Sends(Message("ask", i, "none")),
                 UNCHANGED <<said, answers>>
          PROVE  AgentTypes'
      <3>1. Message("ask", i, "none") \in Messages
        BY MessageTypes, AgentIdsAssumption DEF Kinds
      <3> QED BY <1>0, <2>1, <2>3, <3>1 DEF AgentTypes
    <2>4. ASSUME NEW u \in Updates, said' = Append(said, u), Sends(Message("update", 0, u)),
                 UNCHANGED <<answers, asks>>
          PROVE  AgentTypes'
      <3>1. Message("update", 0, u) \in Messages
        BY MessageTypes DEF Kinds
      <3>2. stdout' \in Seq(Messages)
        BY <2>1, <2>4, <3>1
      <3>3. said' \in Seq(Updates)
        BY <1>0, <2>4 DEF AgentTypes
      <3> QED BY <1>0, <2>4, <3>2, <3>3 DEF AgentTypes
    <2> QED BY <1>1, <1>2, <1>4, <2>2, <2>3, <2>4 DEF AgentStep, TransportTypes
  <1> QED BY <1>3, <1>4

LEMMA CloseKeepsTypes ==
  ASSUME TransportTypes, CloseProcess \/ CloseRest \/ LaunchFails \/ Taken
  PROVE  TransportTypes'
  <1>0. PipeTypes /\ AgentTypes /\ CallTypes /\ TableTypes /\ ReaderTypes
    BY DEF TransportTypes
  <1>1. CallTypes'
    BY <1>0 DEF CallTypes, CloseProcess, CloseRest, LaunchFails, Taken, callVars
  <1>2. PipeTypes'
    BY <1>0 DEF PipeTypes, CloseProcess, CloseRest, LaunchFails, Taken, pipeVars
  <1>3. AgentTypes'
    <2>1. (stdout' = stdout \/ stdout' = <<>>) /\ UNCHANGED <<said, asks, answers>>
      BY DEF CloseProcess, CloseRest, LaunchFails, Taken, pipeVars
    <2>2. stdout \in Seq(Messages)
      BY <1>0 DEF AgentTypes
    <2>3. stdout' \in Seq(Messages)
      <3>1. <<>> \in Seq(Messages)
        OBVIOUS
      <3> QED BY <2>1, <2>2, <3>1, Zenon
    <2> QED BY <1>0, <2>1, <2>3 DEF AgentTypes
  <1>4. TableTypes'
    BY <1>0 DEF TableTypes, CloseProcess, CloseRest, LaunchFails, Taken, WakeAll, callVars, tableVars
  <1>5. notifications' \in Seq(Messages)
    <2>1. \/ notifications' = notifications
          \/ notifications # <<>> /\ notifications' = Tail(notifications)
      BY DEF CloseProcess, CloseRest, LaunchFails, Taken, readerVars
    <2> QED BY <1>0, <2>1, TailOfSeq DEF ReaderTypes
  <1>6. ReaderTypes'
    BY <1>0, <1>5 DEF ReaderTypes, CloseProcess, CloseRest, LaunchFails, Taken, readerVars, callVars
  <1> QED BY <1>1, <1>2, <1>3, <1>4, <1>6 DEF TransportTypes

\* The adapter keeps its own.
LEMMA AdapterTypes ==
  ASSUME TypeOK, [Next]_vars, TransportTypes'
  PROVE  TypeOK'
  <1> USE DEF TypeOK
  <1>1. CASE Transport \/ UNCHANGED vars
    BY <1>1 DEF Transport, adapterVars, vars
  <1>2. CASE BeginRun
    BY <1>2 DEF BeginRun
  <1>3. CASE NextRequest
    <2>1. shake + 1 \in DOMAIN Handshake
      BY <1>3, NextInHandshake DEF NextRequest
    <2> QED BY <1>3, <2>1 DEF NextRequest
  <1>4. CASE StartPrompt
    BY <1>4, NothingCollected DEF StartPrompt
  <1>5. CASE HandshakeFails
    BY <1>5 DEF HandshakeFails
  <1>6. CASE FailRun
    BY <1>6 DEF FailRun
  <1>7. CASE PromptFails
    BY <1>7, CompletedHandle, NothingCollected DEF PromptFails, Complete
  <1>8. CASE PromptReturns
    BY <1>8 DEF PromptReturns
  <1>9. CASE Drain
    <2>1. Head(notifications) \in Messages
      BY <1>9, HeadOfSeq DEF Drain, TransportTypes, ReaderTypes
    <2>2. Head(notifications).body \in Updates \cup {"none"}
      BY <2>1 DEF Messages
    <2>3. text' \in Texts
      BY <1>9, <2>2, Collected DEF Drain
    <2> QED BY <1>9, <2>3 DEF Drain
  <1>10. CASE Collect
    BY <1>10, CompletedHandle DEF Collect, Complete
  <1>11. CASE PollCompleted
    BY <1>11 DEF PollCompleted
  <1>12. CASE PollCloses
    BY <1>12 DEF PollCloses
  <1>13. CASE Cancel
    BY <1>13 DEF Cancel
  <1>14. CASE CancelCloses
    BY <1>14 DEF CancelCloses
  <1>15. CASE CancelJoins
    BY <1>15, CancelledHandle DEF CancelJoins
  <1> QED BY <1>1, <1>2, <1>3, <1>4, <1>5, <1>6, <1>7, <1>8, <1>9, <1>10, <1>11, <1>12, <1>13,
             <1>14, <1>15 DEF Next, RunStep, TurnStep, CallerStep

LEMMA TypeNext == TypeOK /\ [Next]_vars => TypeOK'
  <1> SUFFICES ASSUME TypeOK, [Next]_vars
               PROVE  TypeOK'
    OBVIOUS
  <1>1. TransportStep
    BY TransportSteps
  <1>2. TransportTypes'
    BY <1>1, CallsKeepTypes, ReaderKeepsTypes, AgentKeepsTypes, CloseKeepsTypes
       DEF TransportStep, TypeOK
  <1> QED BY <1>2, AdapterTypes

\* Every variable stays in its range.
THEOREM TypeCorrect == Spec => []TypeOK
  BY TypeInit, TypeNext, PTL DEF Spec

-----------------------------------------------------------------------------
(* No agent is left *)

LEMMA ClosedNext == Closed /\ TypeOK /\ [Next]_vars => Closed'
  <1> SUFFICES ASSUME Closed, TypeOK, [Next]_vars
               PROVE  Closed'
    OBVIOUS
  <1>1. TransportStep
    BY TransportSteps
  <1>2. /\ stdin = "gone" => stdin' = "gone"
        /\ UNCHANGED <<stdin, agent>> \/ agent' = "exited" \/ stdin' = "open"
    BY <1>1 DEF TransportStep, SendStep, TestAlive, Register, Write, Answered, Expire, TimeOut, Issue,
         ReaderStep, ReadMessage, Signal, Reply, EndOfOutput, AgentStep, Sends, AgentEnds,
         CloseProcess, CloseRest, LaunchFails, Taken, pipeVars, Closed
  <1>3. stdin' # "open" => agent' = "exited"
    BY <1>2 DEF Closed
  <1>4. /\ caller' = "joining" => caller = "joining" \/ CloseRest
        /\ run' = "raised" => run = "raised" \/ CloseRest \/ stdin' = "gone"
        /\ report' # "none" => report # "none" \/ CloseRest \/ caller = "joining"
    BY DEF Next, Transport, RunStep, TurnStep, CallerStep, BeginRun, NextRequest, StartPrompt,
         HandshakeFails, FailRun, PromptFails, PromptReturns, Drain, Collect, PollCompleted,
         PollCloses, Cancel, CancelCloses, CancelJoins, Complete, vars, adapterVars
  <1>5. CloseRest => stdin' = "gone"
    BY DEF CloseRest
  <1> QED BY <1>2, <1>3, <1>4, <1>5 DEF Closed, NoAgentLeft

\* When run has raised what it promises, a poll has reported or a cancel has returned, the
\* agent is gone.  (adapter.py:198, 294, 320)
THEOREM NoAgentIsLeft == Spec => []NoAgentLeft
  <1>1. Init => Closed
    BY DEF Init, TransportInit, Closed, NoAgentLeft
  <1>2. Closed => NoAgentLeft
    BY DEF Closed
  <1> QED BY <1>1, <1>2, ClosedNext, TypeInit, TypeNext, PTL DEF Spec

-----------------------------------------------------------------------------
(* Answers and tables *)

\* What the calls and the tables keep to, if nothing touches either.
Kept == Issued /\ Filed /\ AnswersMatch /\ NothingLeftBehind

LEMMA NothingTouched ==
  ASSUME Kept, UNCHANGED <<callVars, pending, results>>
  PROVE  Kept'
  BY DEF Kept, Issued, Filed, AnswersMatch, NothingLeftBehind, callVars

LEMMA StillInFlight ==
  ASSUME InFlight, stdout' = stdout, asked \subseteq asked'
  PROVE  InFlight'
  BY DEF InFlight, Sound

LEMMA CallsMatch ==
  ASSUME TransportTypes, MatchInv, NEW r \in Requests, SendStep(r) \/ TimeOut(r) \/ Issue(r)
  PROVE  MatchInv'
  <1>0. CallTypes /\ TableTypes /\ InFlight /\ Kept
    BY DEF TransportTypes, MatchInv, Kept
  <1>1. InFlight'
    BY <1>0, StillInFlight DEF SendStep, TestAlive, Register, Write, Answered, Expire, TimeOut, Issue
  <1>2. CASE TestAlive(r) \/ Issue(r) \/ TimeOut(r)
    <2>1. UNCHANGED <<id, nextId, asked, got, pending, results>>
      BY <1>2 DEF TestAlive, Issue, TimeOut, tableVars
    <2>2. Issued'
      BY <1>0, <1>2, <2>1 DEF Kept, Issued, CallTypes, TestAlive, Issue, TimeOut, Step, Done
    <2>3. Filed' /\ AnswersMatch' /\ NothingLeftBehind'
      BY <1>0, <1>2, <2>1 DEF Kept, Issued, Filed, AnswersMatch, NothingLeftBehind, CallTypes, TestAlive,
                              Issue, TimeOut, Step, Done
    <2> QED BY <1>1, <2>2, <2>3 DEF MatchInv
  <1>3. CASE Register(r)
    <2>1. Issued'
      BY <1>0, <1>3 DEF Kept, Issued, CallTypes, Register, Step
    <2>2. Filed'
      BY <1>0, <1>3 DEF Kept, Filed, Register
    <2>3. AnswersMatch'
      BY <1>0, <1>3 DEF Kept, Issued, AnswersMatch, CallTypes, Register, Step
    <2>4. NothingLeftBehind'
      BY <1>0, <1>3 DEF Kept, Issued, NothingLeftBehind, CallTypes, Register, Step
    <2> QED BY <1>1, <2>1, <2>2, <2>3, <2>4 DEF MatchInv
  <1>4. CASE Write(r)
    <2>1. id[r] \in 1..(nextId - 1) /\ id[r] \notin asked
      BY <1>0, <1>4 DEF Kept, Issued, CallTypes, Write, Step, Done
    <2>2. results[id[r]] = NoMessage
      BY <1>0, <2>1, BoundsAssumption DEF Kept, Filed, CallTypes, Ids
    <2>3. Issued'
      BY <1>0, <1>4, <2>1 DEF Kept, Issued, CallTypes, Write, Step, Done
    <2>4. Filed'
      BY <1>0, <1>4 DEF Kept, Filed, Write, tableVars
    <2>5. AnswersMatch'
      BY <1>0, <1>4 DEF Kept, Issued, AnswersMatch, CallTypes, Write, Step, Done
    <2>6. NothingLeftBehind'
      BY <1>0, <1>4, <2>1, <2>2 DEF Kept, Issued, NothingLeftBehind, CallTypes, Write, Step, Done,
                                    tableVars
    <2> QED BY <1>1, <2>3, <2>4, <2>5, <2>6 DEF MatchInv
  <1>5. CASE Answered(r) \/ Expire(r)
    <2>1. id[r] \in Ids /\ id[r] \in asked
      BY <1>0, <1>5, BoundsAssumption DEF Kept, Issued, CallTypes, Answered, Expire, Step, Done, Ids
    <2>2. pending' = pending \ {id[r]} /\ results' = [results EXCEPT ![id[r]] = NoMessage]
      BY <1>5 DEF Answered, Expire, Forget
    <2>3. UNCHANGED <<id, nextId, asked>> /\ call' = [call EXCEPT ![r] = "done"]
      BY <1>5 DEF Answered, Expire, Step, Done
    <2>4. \A s \in Requests : s # r => outcome'[s] = outcome[s] /\ got'[s] = got[s]
      BY <1>0, <1>5 DEF CallTypes, Answered, Expire, Done
    <2>5. Issued'
      BY <1>0, <2>3, <2>4 DEF Kept, Issued, CallTypes
    <2>6. Filed'
      BY <1>0, <2>2, <2>3 DEF Kept, Filed, TableTypes
    <2>7. NothingLeftBehind'
      BY <1>0, <2>1, <2>2, <2>3 DEF Kept, Issued, NothingLeftBehind, CallTypes, TableTypes
    <2>8. outcome'[r] \in {"result", "error"} =>
            got'[r].kind \in Answers /\ got'[r].id = id[r] /\ id[r] \in asked
      <3>1. CASE Answered(r)
        <4>1. got'[r] = results[id[r]] /\ outcome'[r] = OutcomeOf(results[id[r]])
          BY <1>0, <3>1 DEF CallTypes, Answered, Done
        <4> QED BY <1>0, <2>1, <4>1 DEF Kept, Filed, OutcomeOf
      <3>2. CASE Expire(r)
        BY <1>0, <3>2 DEF CallTypes, Expire, Done
      <3> QED BY <1>5, <3>1, <3>2
    <2>9. AnswersMatch'
      BY <1>0, <2>3, <2>4, <2>8 DEF Kept, AnswersMatch
    <2> QED BY <1>1, <2>5, <2>6, <2>7, <2>9 DEF MatchInv
  <1> QED BY <1>2, <1>3, <1>4, <1>5 DEF SendStep

LEMMA ReaderMatches ==
  ASSUME TransportTypes, MatchInv, Apart, ReaderStep
  PROVE  MatchInv'
  <1>0. CallTypes /\ TableTypes /\ AgentTypes /\ InFlight /\ Kept
    BY DEF TransportTypes, MatchInv, Kept
  <1>1. CASE ReadMessage
    <2> DEFINE m == Head(stdout)
    <2>1. stdout \in Seq(Messages) /\ stdout # <<>> /\ stdout' = Tail(stdout)
      BY <1>0, <1>1 DEF ReadMessage, AgentTypes
    <2>2. m \in Messages
      BY <2>1, HeadOfSeq
    <2>3. Sound(m)
      BY <2>1, FirstOfSeq, <1>0 DEF InFlight
    <2>4. UNCHANGED callVars /\ UNCHANGED pending /\ UNCHANGED asked
      BY <1>1 DEF ReadMessage, callVars
    <2>5. InFlight'
      BY <1>0, <2>1, <2>4 DEF InFlight, Sound
    <2>6. CASE m.id \notin pending
      <3>1. UNCHANGED results
        BY <1>1, <2>6 DEF ReadMessage, Route
      <3> QED BY <1>0, <2>4, <2>5, <3>1, NothingTouched DEF MatchInv, Kept
    <2>7. CASE m.id \in pending
      <3>1. results' = [results EXCEPT ![m.id] = m]
        BY <1>1, <2>7 DEF ReadMessage, Route
      <3>2. m.id \in Ids
        <4>1. pending \subseteq Ids
          BY <1>0, BoundsAssumption DEF CallTypes, TableTypes, Ids
        <4> QED BY <2>7, <4>1
      <3>3. m.kind \in Answers /\ m.id \in asked
        BY <2>2, <2>3, <3>2 DEF Sound, Messages, Kinds, Apart, Ids
      <3>4. Issued' /\ AnswersMatch'
        BY <1>0, <2>4 DEF Kept, Issued, AnswersMatch, callVars
      <3>5. Filed'
        BY <1>0, <2>4, <3>1, <3>3 DEF Kept, Filed, TableTypes
      <3>6. NothingLeftBehind'
        BY <1>0, <2>4, <2>7, <3>1, <3>3 DEF Kept, NothingLeftBehind, TableTypes, CallTypes, callVars
      <3> QED BY <2>5, <3>4, <3>5, <3>6 DEF MatchInv
    <2> QED BY <2>6, <2>7
  <1>2. CASE Signal \/ Reply \/ EndOfOutput
    <2>1. UNCHANGED <<callVars, pending, results, stdout, asked>>
      BY <1>2 DEF Signal, Reply, EndOfOutput, WakeAll, tableVars, callVars
    <2> QED BY <1>0, <2>1, NothingTouched, StillInFlight DEF MatchInv, Kept
  <1> QED BY <1>1, <1>2 DEF ReaderStep

LEMMA AgentMatches ==
  ASSUME TransportTypes, MatchInv, AgentStep \/ AgentEnds
  PROVE  MatchInv'
  <1>0. AgentTypes /\ InFlight /\ Kept
    BY DEF TransportTypes, MatchInv, Kept
  <1>1. UNCHANGED <<callVars, pending, results, asked>>
    BY DEF AgentStep, Sends, AgentEnds, tableVars, callVars
  <1>2. Kept'
    BY <1>0, <1>1, NothingTouched
  <1>3. ASSUME NEW m, Sound(m), stdout' = Append(stdout, m)
        PROVE  InFlight'
    BY <1>0, <1>1, <1>3 DEF InFlight, Sound, AgentTypes
  <1>4. CASE AgentEnds
    BY <1>0, <1>1, <1>4, StillInFlight, <1>2 DEF AgentEnds, MatchInv, Kept
  <1>5. CASE AgentStep
    <2>1. PICK m : Sound(m) /\ stdout' = Append(stdout, m)
      BY <1>5 DEF AgentStep, Sends, Sound, Message, Answers
    <2> QED BY <1>2, <1>3, <2>1 DEF MatchInv, Kept
  <1> QED BY <1>4, <1>5

LEMMA CloseMatches ==
  ASSUME MatchInv, CloseProcess \/ CloseRest \/ LaunchFails \/ Taken
  PROVE  MatchInv'
  <1>1. UNCHANGED <<callVars, pending, results, asked>> /\ (stdout' = stdout \/ stdout' = <<>>)
    BY DEF CloseProcess, CloseRest, LaunchFails, Taken, WakeAll, tableVars, callVars
  <1>2. Kept'
    BY <1>1, NothingTouched DEF MatchInv, Kept
  <1>3. InFlight'
    BY <1>1, StillInFlight DEF MatchInv, InFlight
  <1> QED BY <1>2, <1>3 DEF MatchInv, Kept

LEMMA MatchInit == Init => MatchInv
  <1> SUFFICES ASSUME Init
               PROVE  MatchInv
    OBVIOUS
  <1>1. /\ stdout = <<>> /\ asked = {} /\ results = [i \in Ids |-> NoMessage]
        /\ call = [r \in Requests |-> "idle"] /\ id = [r \in Requests |-> 0]
        /\ outcome = [r \in Requests |-> "none"]
    BY DEF Init, TransportInit
  <1>2. InFlight
    BY <1>1 DEF InFlight
  <1>3. Issued
    BY <1>1 DEF Issued
  <1>4. Filed /\ AnswersMatch /\ NothingLeftBehind
    BY <1>1 DEF Filed, AnswersMatch, NothingLeftBehind
  <1> QED BY <1>2, <1>3, <1>4 DEF MatchInv

LEMMA MatchNext == Apart /\ TypeOK /\ MatchInv /\ [Next]_vars => MatchInv'
  <1> SUFFICES ASSUME Apart, TypeOK, MatchInv, [Next]_vars
               PROVE  MatchInv'
    OBVIOUS
  <1>1. TransportTypes
    BY DEF TypeOK
  <1> QED BY <1>1, TransportSteps, CallsMatch, ReaderMatches, AgentMatches, CloseMatches
          DEF TransportStep

LEMMA MatchInductive ==
  ASSUME Apart
  PROVE  Spec => []MatchInv
  <1>1. TypeOK /\ MatchInv /\ [Next]_vars => MatchInv'
    BY MatchNext
  <1> QED BY <1>1, MatchInit, TypeInit, TypeNext, PTL DEF Spec

\* As long as the agent numbers its own requests apart, a call returns with the answer to
\* its own request, and with nothing else.  (transport.py:120-158, 183-220)
THEOREM AnswersAreOwn ==
  ASSUME Apart
  PROVE  Spec => []AnswersMatch
  <1>1. MatchInv => AnswersMatch
    BY DEF MatchInv
  <1> QED BY <1>1, MatchInductive, PTL

\* Then a call that is over leaves nothing in the tables, but the id of a request that could
\* not be written.  (transport.py:183-224)
THEOREM NothingStays ==
  ASSUME Apart
  PROVE  Spec => []NothingLeftBehind
  <1>1. MatchInv => NothingLeftBehind
    BY DEF MatchInv
  <1> QED BY <1>1, MatchInductive, PTL

-----------------------------------------------------------------------------
(* Answers are whole *)

\* How many of the first k messages of s are updates.
UpdatesIn(s, k) == Cardinality({j \in 1 .. k : s[j].kind = "update"})

Weight(m) == IF m.kind = "update" THEN 1 ELSE 0

\* How many of the agent's words have left the pipe.
Heard == Len(text) + UpdatesIn(notifications, Len(notifications))

Placed(m, place) ==
    m.kind = "update" => m.id = 0 /\ place \in 1 .. Len(said) /\ m.body = said[place]

\* Nothing the agent says is lost or moved: the text, the queue and the pipe hold it in the
\* order in which it was said, all of it as long as the agent lives.
WordsInOrder ==
    /\ Len(text) <= Len(said) /\ \A k \in 1 .. Len(text) : text[k] = said[k]
    /\ \A k \in 1 .. Len(notifications) :
         Placed(notifications[k], Len(text) + UpdatesIn(notifications, k))
    /\ \A k \in 1 .. Len(stdout) : Placed(stdout[k], Heard + UpdatesIn(stdout, k))
    /\ agent = "up" => Heard + UpdatesIn(stdout, Len(stdout)) = Len(said)

\* The agent is idle once it has said so, and no more is taken then.
IdleWhenSaid == state = "idle" => text # <<>> /\ text[Len(text)] = "last"

\* The text of a success that was not cut short is what was said up to that word.
SuccessEndsIdle ==
    handle.success /\ ~cutShort =>
        LET answer == handle.text
        IN  /\ answer # <<>> /\ Len(answer) <= Len(said) /\ answer[Len(answer)] = "last"
            /\ \A k \in 1 .. Len(answer) : answer[k] = said[k]

\* The thread of the prompt has ended when a poll finds the handle completed, and what a poll
\* has reported stays.
ThreadInRun ==
    /\ turn # "none" => run = "running"
    /\ run \in {"begin", "handshake"} =>
         text = <<>> /\ report = "none" /\ caller = "free" /\ ~handle.completed
    /\ known => run = "running" /\ (handle.completed => turn = "over")
    /\ caller = "polling" => known /\ handle.completed
    /\ report = "SUCCEEDED" => handle.success /\ turn = "over" /\ ~known /\ caller = "free"

AnswerInv == WordsInOrder /\ IdleWhenSaid /\ SuccessEndsIdle /\ ThreadInRun

\* Updates are counted one by one.
LEMMA CountOfNone ==
  ASSUME NEW s
  PROVE  UpdatesIn(s, 0) = 0
  <1>1. {j \in 1 .. 0 : s[j].kind = "update"} = {}
    OBVIOUS
  <1> QED
    BY <1>1, FS_EmptySet DEF UpdatesIn

LEMMA CountIsFinite ==
  ASSUME NEW s, NEW k \in Nat
  PROVE  IsFiniteSet({j \in 1 .. k : s[j].kind = "update"}) /\ UpdatesIn(s, k) \in Nat
  <1>1. IsFiniteSet(1 .. k)
    BY FS_Interval
  <1>2. IsFiniteSet({j \in 1 .. k : s[j].kind = "update"})
    BY <1>1, FS_Subset
  <1> QED
    BY <1>2, FS_CardinalityType DEF UpdatesIn

LEMMA CountIsNatural ==
  ASSUME NEW s, NEW k \in Nat
  PROVE  UpdatesIn(s, k) \in Nat
  BY CountIsFinite

LEMMA CountOfNext ==
  ASSUME NEW s, NEW k \in Nat
  PROVE  UpdatesIn(s, k + 1) = UpdatesIn(s, k) + Weight(s[k + 1])
  <1> DEFINE A == {j \in 1 .. k : s[j].kind = "update"}
             B == {j \in 1 .. (k + 1) : s[j].kind = "update"}
  <1>1. IsFiniteSet(A) /\ Cardinality(A) \in Nat
    BY CountIsFinite DEF UpdatesIn
  <1>2. k + 1 \notin A
    OBVIOUS
  <1>3. B = IF s[k + 1].kind = "update" THEN A \cup {k + 1} ELSE A
    OBVIOUS
  <1>4. Cardinality(B) = Cardinality(A) + Weight(s[k + 1])
    <2> HIDE DEF A, B
    <2> QED
      BY <1>1, <1>2, <1>3, FS_AddElement DEF Weight
  <1> QED
    BY <1>4 DEF UpdatesIn

LEMMA CountOfSame ==
  ASSUME NEW s, NEW t, NEW k \in Nat, \A j \in 1 .. k : s[j] = t[j]
  PROVE  UpdatesIn(s, k) = UpdatesIn(t, k)
  <1>1. {j \in 1 .. k : s[j].kind = "update"} = {j \in 1 .. k : t[j].kind = "update"}
    OBVIOUS
  <1> QED
    BY <1>1 DEF UpdatesIn

\* What is counted in front of the rest is the first one.
LEMMA CountOfRest ==
  ASSUME NEW s, NEW t, NEW k \in Nat, \A j \in 1 .. k : t[j] = s[j + 1]
  PROVE  UpdatesIn(s, k + 1) = Weight(s[1]) + UpdatesIn(t, k)
  <1> DEFINE A == {j \in 1 .. k : t[j].kind = "update"}
             B == {j \in 2 .. (k + 1) : s[j].kind = "update"}
             C == {j \in 1 .. (k + 1) : s[j].kind = "update"}
             f == [j \in A |-> j + 1]
  <1>1. IsFiniteSet(A) /\ Cardinality(A) \in Nat
    BY CountIsFinite DEF UpdatesIn
  <1>2. ExistsBijection(A, B)
    <2>1. f \in [A -> B]
      OBVIOUS
    <2>2. \A i, j \in A : f[i] = f[j] => i = j
      OBVIOUS
    <2>3. \A b \in B : \E j \in A : f[j] = b
      <3> SUFFICES ASSUME NEW b \in B PROVE \E j \in A : f[j] = b
        OBVIOUS
      <3>1. b - 1 \in A
        OBVIOUS
      <3>2. f[b - 1] = b
        BY <3>1
      <3> QED
        BY <3>1, <3>2
    <2> HIDE DEF f, A, B
    <2> QED
      BY <2>1, <2>2, <2>3 DEF ExistsBijection, Bijection, Injection, Surjection, IsInjective
  <1>3. IsFiniteSet(B) /\ Cardinality(B) = Cardinality(A)
    <2> HIDE DEF A, B
    <2> QED
      BY <1>1, <1>2, FS_Bijection
  <1>4. C = (IF s[1].kind = "update" THEN B \cup {1} ELSE B) /\ 1 \notin B
    OBVIOUS
  <1>5. Cardinality(C) = Weight(s[1]) + Cardinality(A)
    <2> HIDE DEF A, B, C
    <2>1. Cardinality(B \cup {1}) = Cardinality(B) + 1
      BY <1>3, <1>4, FS_AddElement
    <2> QED
      BY <1>1, <1>3, <1>4, <2>1 DEF Weight
  <1> QED
    BY <1>5 DEF UpdatesIn

\* What taking the first message, and adding a last one, do to the counts.
LEMMA CountsOfTail ==
  ASSUME NEW S, NEW s \in Seq(S), s # <<>>
  PROVE  /\ Len(Tail(s)) \in Nat
         /\ \A k \in 1 .. Len(Tail(s)) :
              /\ k + 1 \in 1 .. Len(s) /\ Tail(s)[k] = s[k + 1]
              /\ UpdatesIn(s, k + 1) = Weight(s[1]) + UpdatesIn(Tail(s), k)
              /\ UpdatesIn(Tail(s), k) \in Nat
         /\ UpdatesIn(s, Len(s)) = Weight(s[1]) + UpdatesIn(Tail(s), Len(Tail(s)))
         /\ UpdatesIn(Tail(s), Len(Tail(s))) \in Nat
         /\ UpdatesIn(s, 1) = Weight(s[1]) /\ Head(s) = s[1] /\ 1 \in 1 .. Len(s)
  <1> DEFINE t == Tail(s)
  <1>1. /\ Len(s) \in Nat /\ Len(s) > 0 /\ Len(t) = Len(s) - 1 /\ Head(s) = s[1]
        /\ \A k \in 1 .. Len(t) : t[k] = s[k + 1]
    BY EmptySeq
  <1> HIDE DEF t
  <1>2. \A k \in 0 .. Len(t) :
          /\ UpdatesIn(s, k + 1) = Weight(s[1]) + UpdatesIn(t, k)
          /\ UpdatesIn(t, k) \in Nat
    <2> SUFFICES ASSUME NEW k \in 0 .. Len(t)
                 PROVE  /\ UpdatesIn(s, k + 1) = Weight(s[1]) + UpdatesIn(t, k)
                        /\ UpdatesIn(t, k) \in Nat
      OBVIOUS
    <2>1. k \in Nat /\ \A j \in 1 .. k : t[j] = s[j + 1]
      BY <1>1
    <2> QED
      BY <2>1, CountOfRest, CountIsFinite
  <1>3. UpdatesIn(s, 1) = Weight(s[1])
    <2>1. UpdatesIn(s, 0 + 1) = UpdatesIn(s, 0) + Weight(s[0 + 1])
      BY CountOfNext
    <2> QED
      BY <2>1, CountOfNone DEF Weight
  <1>4. Len(t) \in 0 .. Len(t) /\ Len(t) + 1 = Len(s) /\ 1 \in 1 .. Len(s) /\ Len(t) \in Nat
    BY <1>1
  <1>5. \A k \in 1 .. Len(t) : k \in 0 .. Len(t) /\ k + 1 \in 1 .. Len(s)
    BY <1>1
  <1>6. UpdatesIn(s, Len(s)) = Weight(s[1]) + UpdatesIn(t, Len(t)) /\ UpdatesIn(t, Len(t)) \in Nat
    BY <1>2, <1>4
  <1>7. \A k \in 1 .. Len(t) :
          /\ k + 1 \in 1 .. Len(s) /\ t[k] = s[k + 1]
          /\ UpdatesIn(s, k + 1) = Weight(s[1]) + UpdatesIn(t, k) /\ UpdatesIn(t, k) \in Nat
    BY <1>1, <1>2, <1>5
  <1> QED
    BY <1>1, <1>3, <1>4, <1>6, <1>7 DEF t

LEMMA CountsOfAppend ==
  ASSUME NEW S, NEW s \in Seq(S), NEW m \in S
  PROVE  LET t == Append(s, m) IN
         /\ Len(t) = Len(s) + 1 /\ t[Len(s) + 1] = m /\ Len(s) \in Nat
         /\ \A k \in 1 .. Len(s) : t[k] = s[k] /\ UpdatesIn(t, k) = UpdatesIn(s, k)
         /\ UpdatesIn(t, Len(s) + 1) = UpdatesIn(s, Len(s)) + Weight(m)
  <1> DEFINE t == Append(s, m)
  <1>1. /\ Len(t) = Len(s) + 1 /\ t[Len(s) + 1] = m /\ Len(s) \in Nat
        /\ \A k \in 1 .. Len(s) : t[k] = s[k]
    BY AppendProperties
  <1> HIDE DEF t
  <1>2. \A k \in 0 .. Len(s) : UpdatesIn(t, k) = UpdatesIn(s, k)
    <2> SUFFICES ASSUME NEW k \in 0 .. Len(s) PROVE UpdatesIn(t, k) = UpdatesIn(s, k)
      OBVIOUS
    <2>1. k \in Nat /\ \A j \in 1 .. k : t[j] = s[j]
      BY <1>1
    <2> QED
      BY <2>1, CountOfSame
  <1>3. UpdatesIn(t, Len(s) + 1) = UpdatesIn(t, Len(s)) + Weight(t[Len(s) + 1])
    BY <1>1, CountOfNext
  <1>4. Len(s) \in 0 .. Len(s) /\ \A k \in 1 .. Len(s) : k \in 0 .. Len(s)
    BY <1>1
  <1>5. UpdatesIn(t, Len(s) + 1) = UpdatesIn(s, Len(s)) + Weight(m)
    BY <1>1, <1>2, <1>3, <1>4
  <1>6. \A k \in 1 .. Len(s) : t[k] = s[k] /\ UpdatesIn(t, k) = UpdatesIn(s, k)
    BY <1>1, <1>2, <1>4
  <1> QED
    BY <1>1, <1>5, <1>6 DEF t

-----------------------------------------------------------------------------
(* The words stay in order *)

\* Without the first message, the others have the places they had.
LEMMA RestPlaced ==
  ASSUME NEW s \in Seq(Messages), s # <<>>, NEW h \in Nat,
         \A k \in 1 .. Len(s) : Placed(s[k], h + UpdatesIn(s, k))
  PROVE  /\ Head(s) = s[1] /\ Weight(s[1]) \in {0, 1} /\ Placed(s[1], h + Weight(s[1]))
         /\ \A k \in 1 .. Len(Tail(s)) :
              Placed(Tail(s)[k], h + Weight(s[1]) + UpdatesIn(Tail(s), k))
         /\ UpdatesIn(s, Len(s)) = Weight(s[1]) + UpdatesIn(Tail(s), Len(Tail(s)))
  <1>1. Weight(s[1]) \in {0, 1}
    BY DEF Weight
  <1>2. Head(s) = s[1] /\ Placed(s[1], h + Weight(s[1]))
        /\ UpdatesIn(s, Len(s)) = Weight(s[1]) + UpdatesIn(Tail(s), Len(Tail(s)))
    BY CountsOfTail
  <1>3. ASSUME NEW k \in 1 .. Len(Tail(s))
        PROVE  Placed(Tail(s)[k], h + Weight(s[1]) + UpdatesIn(Tail(s), k))
    <2>1. /\ k + 1 \in 1 .. Len(s) /\ Tail(s)[k] = s[k + 1]
          /\ UpdatesIn(s, k + 1) = Weight(s[1]) + UpdatesIn(Tail(s), k)
          /\ UpdatesIn(Tail(s), k) \in Nat
      BY CountsOfTail
    <2>2. h + UpdatesIn(s, k + 1) = h + Weight(s[1]) + UpdatesIn(Tail(s), k)
      BY <1>1, <2>1
    <2>3. Placed(s[k + 1], h + UpdatesIn(s, k + 1))
      BY <2>1
    <2> QED BY <2>1, <2>2, <2>3
  <1> QED BY <1>1, <1>2, <1>3

LEMMA AppendIsNotEmpty ==
  ASSUME NEW S, NEW s \in Seq(S), NEW e \in S
  PROVE  Append(s, e) # <<>>
  BY AppendProperties, EmptySeq

\* How long everything is.
LEMMA Lengths ==
  ASSUME TypeOK
  PROVE  /\ stdout \in Seq(Messages) /\ notifications \in Seq(Messages) /\ said \in Seq(Updates)
         /\ text \in Texts
         /\ Len(text) \in Nat /\ Len(said) \in Nat /\ Len(notifications) \in Nat
         /\ Len(stdout) \in Nat /\ Heard \in Nat
         /\ \A k \in Nat : UpdatesIn(stdout, k) \in Nat /\ UpdatesIn(notifications, k) \in Nat
  <1>1. /\ stdout \in Seq(Messages) /\ notifications \in Seq(Messages) /\ said \in Seq(Updates)
        /\ text \in Texts
    BY DEF TypeOK, TransportTypes, AgentTypes, ReaderTypes
  <1>2. /\ Len(text) \in Nat /\ Len(said) \in Nat /\ Len(notifications) \in Nat
        /\ Len(stdout) \in Nat
    BY <1>1, LenProperties DEF Texts
  <1>3. \A k \in Nat : UpdatesIn(stdout, k) \in Nat /\ UpdatesIn(notifications, k) \in Nat
    BY CountIsNatural
  <1>4. Heard \in Nat
    <2>1. UpdatesIn(notifications, Len(notifications)) \in Nat
      BY <1>2, <1>3
    <2> QED BY <1>2, <2>1 DEF Heard
  <1> QED BY <1>1, <1>2, <1>3, <1>4

LEMMA WordsInit == Init => AnswerInv
  <1> SUFFICES ASSUME Init
               PROVE  AnswerInv
    OBVIOUS
  <1>1. text = <<>> /\ notifications = <<>> /\ stdout = <<>> /\ said = <<>>
    BY DEF Init, TransportInit
  <1>2. UpdatesIn(stdout, 0) = 0 /\ UpdatesIn(notifications, 0) = 0
    BY CountOfNone
  <1>3. WordsInOrder
    BY <1>1, <1>2 DEF WordsInOrder, Heard
  <1>4. IdleWhenSaid /\ SuccessEndsIdle /\ ThreadInRun
    BY DEF Init, IdleWhenSaid, SuccessEndsIdle, ThreadInRun
  <1> QED BY <1>3, <1>4 DEF AnswerInv

LEMMA WordsUntouched ==
  ASSUME WordsInOrder, UNCHANGED <<text, notifications, stdout, said>>,
         agent' = "up" => agent = "up"
  PROVE  WordsInOrder'
  BY DEF WordsInOrder, Heard, Placed

\* What the reader takes out of the pipe, it puts at the end of the queue.
LEMMA WordsRead ==
  ASSUME TypeOK, WordsInOrder, ReadMessage, UNCHANGED text
  PROVE  WordsInOrder'
  <1> DEFINE m == stdout[1]
             t == Tail(stdout)
  <1>0. /\ stdout \in Seq(Messages) /\ notifications \in Seq(Messages) /\ Heard \in Nat
        /\ Len(text) \in Nat /\ Len(said) \in Nat /\ Len(notifications) \in Nat
    BY Lengths
  <1>1. stdout # <<>> /\ stdout' = t /\ UNCHANGED <<text, said, agent>> /\ Head(stdout) = m
    BY <1>0, HeadTailProperties DEF ReadMessage, pipeVars
  <1>2. \A k \in 1 .. Len(stdout) : Placed(stdout[k], Heard + UpdatesIn(stdout, k))
    BY DEF WordsInOrder
  <1>3. /\ Weight(m) \in {0, 1} /\ Placed(m, Heard + Weight(m))
        /\ \A k \in 1 .. Len(t) : Placed(t[k], Heard + Weight(m) + UpdatesIn(t, k))
        /\ UpdatesIn(stdout, Len(stdout)) = Weight(m) + UpdatesIn(t, Len(t))
    BY <1>0, <1>1, <1>2, RestPlaced
  <1>4. UpdatesIn(t, Len(t)) \in Nat
    BY <1>0, <1>1, TailOfSeq, LenProperties, CountIsNatural
  <1> HIDE DEF m, t
  <1>5. ASSUME Heard' = Heard + Weight(m)
        PROVE  /\ \A k \in 1 .. Len(stdout') : Placed(stdout[k], Heard + UpdatesIn(stdout, k))'
               /\ agent' = "up" => (Heard + UpdatesIn(stdout, Len(stdout)) = Len(said))'
    <2>1. \A k \in 1 .. Len(t) : Placed(t[k], Heard' + UpdatesIn(t, k))
      BY <1>3, <1>5
    <2>2. agent = "up" => Heard + UpdatesIn(stdout, Len(stdout)) = Len(said)
      BY DEF WordsInOrder
    <2>3. agent = "up" => Heard' + UpdatesIn(t, Len(t)) = Len(said)
      BY <1>0, <1>3, <1>4, <1>5, <2>2
    <2> QED BY <1>1, <2>1, <2>3 DEF Placed
  <1>6. Len(text') <= Len(said') /\ \A k \in 1 .. Len(text') : text'[k] = said'[k]
    BY <1>1 DEF WordsInOrder
  <1>7. CASE UNCHANGED notifications /\ Weight(m) = 0
    <2>1. Heard' = Heard + Weight(m)
      BY <1>0, <1>1, <1>7 DEF Heard
    <2>2. \A k \in 1 .. Len(notifications') :
            Placed(notifications[k], Len(text) + UpdatesIn(notifications, k))'
      BY <1>1, <1>7 DEF WordsInOrder, Placed
    <2> QED BY <1>5, <1>6, <2>1, <2>2 DEF WordsInOrder
  <1>8. CASE notifications' = Append(notifications, m)
    <2> DEFINE n == notifications
               p == Append(n, m)
    <2>1. m \in Messages
      BY <1>0, <1>1, HeadOfSeq
    <2>2. /\ Len(p) = Len(n) + 1 /\ p[Len(n) + 1] = m /\ Len(n) \in Nat
          /\ \A k \in 1 .. Len(n) : p[k] = n[k] /\ UpdatesIn(p, k) = UpdatesIn(n, k)
          /\ UpdatesIn(p, Len(n) + 1) = UpdatesIn(n, Len(n)) + Weight(m)
      BY <1>0, <2>1, CountsOfAppend
    <2>3. UpdatesIn(n, Len(n)) \in Nat /\ Heard = Len(text) + UpdatesIn(n, Len(n))
      BY <2>2, CountIsNatural DEF Heard
    <2>4. \A k \in 1 .. Len(n) : Placed(n[k], Len(text) + UpdatesIn(n, k))
      BY DEF WordsInOrder
    <2>5. notifications' = p
      BY <1>8
    <2> HIDE DEF n, p
    <2>6. Len(text) + UpdatesIn(p, Len(p)) = Heard + Weight(m)
      BY <1>0, <1>3, <2>2, <2>3
    <2>7. Heard' = Heard + Weight(m)
      BY <1>1, <2>5, <2>6 DEF Heard
    <2>8. ASSUME NEW k \in 1 .. Len(p) PROVE Placed(p[k], Len(text) + UpdatesIn(p, k))
      <3>1. CASE k = Len(n) + 1
        BY <1>3, <2>2, <2>6, <3>1
      <3>2. CASE k \in 1 .. Len(n)
        BY <2>2, <2>4, <3>2
      <3> QED BY <2>2, <3>1, <3>2
    <2>9. \A k \in 1 .. Len(notifications') :
            Placed(notifications[k], Len(text) + UpdatesIn(notifications, k))'
      BY <1>1, <2>5, <2>8 DEF Placed
    <2> QED BY <1>5, <1>6, <2>7, <2>9 DEF WordsInOrder
  <1>9. CASE m.id \in pending
    <2>1. pending \subseteq 1 .. (nextId - 1)
      BY DEF TypeOK, TransportTypes, TableTypes
    <2>2. m.kind # "update"
      BY <1>3, <1>9, <2>1 DEF Placed
    <2> QED BY <1>1, <1>7, <1>9, <2>2 DEF ReadMessage, Route, Weight
  <1>10. CASE m.kind = "ask" /\ m.id \notin pending
    BY <1>1, <1>7, <1>10 DEF ReadMessage, Route, Weight
  <1>11. CASE m.kind # "ask" /\ m.id \notin pending
    BY <1>1, <1>8, <1>11 DEF ReadMessage, Route
  <1> QED BY <1>9, <1>10, <1>11

\* What the thread of the prompt takes from the queue, it puts at the end of the text.
LEMMA WordsDrained ==
  ASSUME TypeOK, WordsInOrder, Drain
  PROVE  /\ WordsInOrder'
         /\ UNCHANGED said
         /\ state' = "idle" => text' # <<>> /\ text'[Len(text')] = "last"
  <1> DEFINE m == notifications[1]
             t == Tail(notifications)
  <1>0. /\ stdout \in Seq(Messages) /\ notifications \in Seq(Messages) /\ Heard \in Nat
        /\ text \in Texts /\ Len(text) \in Nat /\ Len(said) \in Nat
        /\ Len(notifications) \in Nat
    BY Lengths
  <1>1. /\ notifications # <<>> /\ notifications' = t /\ Head(notifications) = m
        /\ state # "idle" /\ UNCHANGED <<said, agent, stdout>>
    BY <1>0, HeadTailProperties DEF Drain, pipeVars
  <1>2. \A k \in 1 .. Len(notifications) :
          Placed(notifications[k], Len(text) + UpdatesIn(notifications, k))
    BY DEF WordsInOrder
  <1>3. /\ Weight(m) \in {0, 1} /\ Placed(m, Len(text) + Weight(m))
        /\ \A k \in 1 .. Len(t) : Placed(t[k], Len(text) + Weight(m) + UpdatesIn(t, k))
        /\ UpdatesIn(notifications, Len(notifications)) = Weight(m) + UpdatesIn(t, Len(t))
    BY <1>0, <1>1, <1>2, RestPlaced
  <1>4. UpdatesIn(t, Len(t)) \in Nat
    BY <1>0, <1>1, TailOfSeq, LenProperties, CountIsNatural
  <1>5. m \in Messages
    BY <1>0, <1>1, HeadOfSeq
  <1> HIDE DEF m, t
  <1>6. /\ text' = IF m.kind = "update" THEN Append(text, m.body) ELSE text
        /\ state' = IF m.kind = "update" /\ m.body = "last" THEN "idle" ELSE state
    BY <1>1 DEF Drain
  <1>7. /\ Len(text') = Len(text) + Weight(m) /\ Len(text') <= Len(said)
        /\ \A k \in 1 .. Len(text') : text'[k] = said[k]
        /\ state' = "idle" => text' # <<>> /\ text'[Len(text')] = "last"
    <2>0. Len(text) <= Len(said) /\ \A k \in 1 .. Len(text) : text[k] = said[k]
      BY DEF WordsInOrder
    <2>1. CASE m.kind # "update"
      BY <1>0, <1>1, <1>6, <2>0, <2>1 DEF Weight
    <2>2. CASE m.kind = "update"
      <3>1. Weight(m) = 1 /\ Len(text) + 1 \in 1 .. Len(said) /\ m.body = said[Len(text) + 1]
        BY <1>3, <2>2 DEF Weight, Placed
      <3>2. m.body \in Updates \cup {"none"}
        BY <1>5 DEF Messages
      <3>3. /\ text' = Append(text, m.body) /\ Len(text') = Len(text) + 1
            /\ text'[Len(text) + 1] = m.body /\ \A k \in 1 .. Len(text) : text'[k] = text[k]
        BY <1>0, <1>6, <2>2, <3>2, AppendProperties DEF Texts
      <3>4. text' # <<>>
        BY <1>0, <3>3, AppendIsNotEmpty
      <3>5. state' = "idle" => m.body = "last"
        BY <1>1, <1>6, <2>2
      <3> QED BY <1>0, <2>0, <3>1, <3>3, <3>4, <3>5
    <2> QED BY <2>1, <2>2
  <1>8. Heard' = Heard
    BY <1>0, <1>1, <1>3, <1>4, <1>7 DEF Heard
  <1>9. \A k \in 1 .. Len(t) : Placed(t[k], Len(text') + UpdatesIn(t, k))
    BY <1>3, <1>7
  <1>10. \A k \in 1 .. Len(notifications') :
           Placed(notifications[k], Len(text) + UpdatesIn(notifications, k))'
    BY <1>1, <1>9 DEF Placed
  <1>11. /\ \A k \in 1 .. Len(stdout') : Placed(stdout[k], Heard + UpdatesIn(stdout, k))'
         /\ agent' = "up" => (Heard + UpdatesIn(stdout, Len(stdout)) = Len(said))'
    BY <1>1, <1>8 DEF WordsInOrder, Placed
  <1> QED BY <1>1, <1>7, <1>10, <1>11 DEF WordsInOrder

\* What the agent says goes to the end of the pipe.
LEMMA WordsSaid ==
  ASSUME TypeOK, WordsInOrder, AgentStep, UNCHANGED text
  PROVE  WordsInOrder'
  <1>0. /\ stdout \in Seq(Messages) /\ said \in Seq(Updates) /\ Heard \in Nat
        /\ Len(said) \in Nat /\ Len(stdout) \in Nat
    BY Lengths
  <1>1. PICK m \in Messages :
          /\ Sends(m)
          /\ \/ m.kind # "update" /\ UNCHANGED said
             \/ \E u \in Updates : said' = Append(said, u) /\ m = Message("update", 0, u)
    <2>1. asked \subseteq Nat
      BY DEF TypeOK, TransportTypes, CallTypes
    <2>2. ASSUME NEW i \in asked, NEW kind \in Answers, Sends(Message(kind, i, "none")),
                 UNCHANGED said
          PROVE  \E m \in Messages : Sends(m) /\ m.kind # "update" /\ UNCHANGED said
      <3>1. Message(kind, i, "none") \in Messages /\ Message(kind, i, "none").kind # "update"
        BY <2>1, MessageTypes DEF Kinds, Answers, Message
      <3> QED BY <2>2, <3>1
    <2>3. ASSUME NEW i \in AgentIds, Sends(Message("ask", i, "none")), UNCHANGED said
          PROVE  \E m \in Messages : Sends(m) /\ m.kind # "update" /\ UNCHANGED said
      <3>1. Message("ask", i, "none") \in Messages /\ Message("ask", i, "none").kind # "update"
        BY MessageTypes, AgentIdsAssumption DEF Kinds, Message
      <3> QED BY <2>3, <3>1
    <2>4. ASSUME NEW u \in Updates PROVE Message("update", 0, u) \in Messages
      BY MessageTypes DEF Kinds
    <2> QED BY <2>2, <2>3, <2>4 DEF AgentStep
  <1>2. /\ agent = "up" /\ stdout' = Append(stdout, m) /\ UNCHANGED <<agent, notifications>>
    BY <1>1 DEF Sends, readerVars
  <1>3. Heard' = Heard
    BY <1>2 DEF Heard
  <1>4. /\ Len(said') = Len(said) + Weight(m) /\ Weight(m) \in {0, 1}
        /\ \A k \in 1 .. Len(said) : said'[k] = said[k]
        /\ Placed(m, Len(said))'
    <2>1. CASE m.kind # "update" /\ UNCHANGED said
      BY <1>0, <2>1 DEF Weight, Placed
    <2>2. CASE \E u \in Updates : said' = Append(said, u) /\ m = Message("update", 0, u)
      <3>0. PICK u \in Updates : said' = Append(said, u) /\ m = Message("update", 0, u)
        BY <2>2
      <3>1. m.kind = "update" /\ m.id = 0 /\ m.body = u
        BY <3>0 DEF Message
      <3>2. /\ Len(said') = Len(said) + 1 /\ said'[Len(said) + 1] = u
            /\ \A k \in 1 .. Len(said) : said'[k] = said[k]
        BY <1>0, <3>0, AppendProperties
      <3> QED BY <1>0, <3>1, <3>2 DEF Weight, Placed
    <2> QED BY <1>1, <2>1, <2>2
  <1>5. \A j, k : k \in 1 .. Len(said) /\ said[k] = j => k \in 1 .. Len(said') /\ said'[k] = j
    BY <1>0, <1>4
  <1>6. \A e, place : Placed(e, place) =>
          (e.kind = "update" => e.id = 0 /\ place \in 1 .. Len(said') /\ e.body = said'[place])
    BY <1>5 DEF Placed
  <1>7. /\ Len(text') <= Len(said') /\ \A k \in 1 .. Len(text') : text'[k] = said'[k]
    <2>1. Len(text) \in Nat /\ Len(text) <= Len(said) /\ \A k \in 1 .. Len(text) : text[k] = said[k]
      BY Lengths DEF WordsInOrder
    <2> QED BY <1>0, <1>4, <2>1
  <1>8. \A k \in 1 .. Len(notifications') :
          Placed(notifications[k], Len(text) + UpdatesIn(notifications, k))'
    BY <1>2, <1>6 DEF WordsInOrder, Placed
  <1> DEFINE t == Append(stdout, m)
  <1>9. /\ Len(t) = Len(stdout) + 1 /\ t[Len(stdout) + 1] = m
        /\ \A k \in 1 .. Len(stdout) : t[k] = stdout[k] /\ UpdatesIn(t, k) = UpdatesIn(stdout, k)
        /\ UpdatesIn(t, Len(stdout) + 1) = UpdatesIn(stdout, Len(stdout)) + Weight(m)
    BY <1>0, CountsOfAppend
  <1>10. stdout' = t
    BY <1>2
  <1> HIDE DEF t
  <1>11. Heard + UpdatesIn(t, Len(t)) = Len(said')
    <2>1. UpdatesIn(stdout, Len(stdout)) \in Nat
      BY <1>0, CountIsNatural
    <2>2. Heard + UpdatesIn(stdout, Len(stdout)) = Len(said)
      BY <1>2 DEF WordsInOrder
    <2> QED BY <1>0, <1>4, <1>9, <2>1, <2>2
  <1>12. ASSUME NEW k \in 1 .. Len(t)
         PROVE  Placed(t[k], Heard + UpdatesIn(t, k)) \/ k = Len(t)
    <2>1. CASE k \in 1 .. Len(stdout)
      <3>1. Placed(stdout[k], Heard + UpdatesIn(stdout, k))
        BY <2>1 DEF WordsInOrder
      <3> QED BY <1>9, <2>1, <3>1
    <2> QED BY <1>0, <1>9, <2>1
  <1>13. \A k \in 1 .. Len(stdout') : Placed(stdout[k], Heard + UpdatesIn(stdout, k))'
    <2> SUFFICES ASSUME NEW k \in 1 .. Len(t)
                 PROVE  Placed(stdout[k], Heard + UpdatesIn(stdout, k))'
      BY <1>10
    <2>1. CASE k = Len(t)
      <3>1. t[k] = m /\ Heard + UpdatesIn(t, k) = Len(said')
        BY <1>9, <1>11, <2>1
      <3> QED BY <1>3, <1>4, <1>10, <3>1 DEF Placed
    <2>2. CASE Placed(t[k], Heard + UpdatesIn(t, k))
      <3>1. t[k].kind = "update" => /\ t[k].id = 0 /\ Heard + UpdatesIn(t, k) \in 1 .. Len(said')
                                    /\ t[k].body = said'[Heard + UpdatesIn(t, k)]
        BY <1>6, <2>2
      <3> QED BY <1>3, <1>10, <3>1 DEF Placed
    <2> QED BY <1>12, <2>1, <2>2
  <1>14. agent' = "up" => (Heard + UpdatesIn(stdout, Len(stdout)) = Len(said))'
    BY <1>3, <1>10, <1>11
  <1> QED BY <1>7, <1>8, <1>13, <1>14 DEF WordsInOrder

\* The pipe is closed when the agent has exited.
LEMMA WordsClosed ==
  ASSUME TypeOK, Closed, WordsInOrder, CloseRest, UNCHANGED text
  PROVE  WordsInOrder'
  <1>1. stdout' = <<>> /\ UNCHANGED <<said, notifications, agent>> /\ agent # "up"
    BY DEF CloseRest, pipeVars, readerVars, Closed
  <1>2. Len(stdout') = 0
    BY <1>1
  <1> QED BY <1>1, <1>2 DEF WordsInOrder, Heard, Placed

\* Every step keeps the words in order.
LEMMA WordsNext ==
  ASSUME TypeOK, Closed, AnswerInv, [Next]_vars
  PROVE  WordsInOrder'
  <1>0. WordsInOrder
    BY DEF AnswerInv
  <1> USE DEF pipeVars, callVars, readerVars, transportVars, adapterVars, vars
  <1>1. ASSUME UNCHANGED <<text, notifications, stdout, said>>, agent' = "up" => agent = "up"
        PROVE  WordsInOrder'
    BY <1>0, <1>1, WordsUntouched
  <1>2. CASE Transport
    <2>1. UNCHANGED text
      BY <1>2 DEF Transport
    <2>2. CASE ReadMessage
      BY <1>0, <2>1, <2>2, WordsRead
    <2>3. CASE AgentStep
      BY <1>0, <2>1, <2>3, WordsSaid
    <2>4. CASE Signal \/ Reply \/ EndOfOutput \/ AgentEnds
      BY <1>1, <2>1, <2>4 DEF Signal, Reply, EndOfOutput, AgentEnds
    <2>5. ASSUME NEW r \in Requests, SendStep(r) \/ TimeOut(r)
          PROVE  WordsInOrder'
      BY <1>1, <2>1, <2>5 DEF SendStep, TestAlive, Register, Write, Answered, Expire, TimeOut
    <2> QED BY <1>2, <2>2, <2>3, <2>4, <2>5 DEF Transport, ReaderStep
  <1>3. CASE BeginRun
    BY <1>1, <1>3 DEF BeginRun, Issue
  <1>4. CASE NextRequest
    BY <1>1, <1>4 DEF NextRequest, Issue
  <1>5. CASE StartPrompt
    BY <1>1, <1>5 DEF StartPrompt, Issue, AnswerInv, ThreadInRun
  <1>6. CASE FailRun \/ PollCloses \/ CancelCloses
    <2>1. UNCHANGED text /\ (CloseProcess \/ CloseRest)
      BY <1>6 DEF FailRun, PollCloses, CancelCloses
    <2>2. CASE CloseProcess
      BY <1>1, <2>1, <2>2 DEF CloseProcess
    <2> QED BY <1>0, <2>1, <2>2, WordsClosed
  <1>7. CASE Drain
    BY <1>0, <1>7, WordsDrained
  <1>8. CASE HandshakeFails \/ PromptFails \/ PromptReturns \/ Collect \/ PollCompleted
             \/ CancelJoins \/ Cancel \/ UNCHANGED vars
    BY <1>1, <1>8 DEF HandshakeFails, PromptFails, PromptReturns, Collect, PollCompleted,
                      CancelJoins, Cancel
  <1> QED BY <1>2, <1>3, <1>4, <1>5, <1>6, <1>7, <1>8 DEF Next, RunStep, TurnStep, CallerStep

\* What was said stays said.
LEMMA SaidGrows ==
  ASSUME TypeOK, [Next]_vars
  PROVE  Len(said) <= Len(said') /\ \A k \in 1 .. Len(said) : said'[k] = said[k]
  <1>0. said \in Seq(Updates) /\ Len(said) \in Nat
    BY Lengths
  <1>1. TransportStep
    BY TransportSteps
  <1>2. UNCHANGED said \/ \E u \in Updates : said' = Append(said, u)
    BY <1>1 DEF TransportStep, SendStep, TestAlive, Register, Write, Answered, Expire, TimeOut, Issue,
         ReaderStep, ReadMessage, Signal, Reply, EndOfOutput, AgentStep, Sends, AgentEnds,
         CloseProcess, CloseRest, LaunchFails, Taken, pipeVars
  <1>3. ASSUME NEW u \in Updates, said' = Append(said, u)
        PROVE  Len(said) <= Len(said') /\ \A k \in 1 .. Len(said) : said'[k] = said[k]
    BY <1>0, <1>3, AppendProperties
  <1> QED BY <1>0, <1>2, <1>3

LEMMA IdleNext ==
  ASSUME TypeOK, AnswerInv, [Next]_vars
  PROVE  IdleWhenSaid'
  <1>1. UNCHANGED <<state, text>> \/ StartPrompt \/ Drain
    BY DEF Next, Transport, RunStep, TurnStep, CallerStep, BeginRun, NextRequest, HandshakeFails,
         FailRun, PromptFails, PromptReturns, Collect, PollCompleted, PollCloses, Cancel,
         CancelCloses, CancelJoins, vars, adapterVars
  <1>2. CASE UNCHANGED <<state, text>>
    BY <1>2 DEF AnswerInv, IdleWhenSaid
  <1>3. CASE StartPrompt
    BY <1>3 DEF StartPrompt, IdleWhenSaid
  <1>4. CASE Drain
    BY <1>4, WordsDrained DEF AnswerInv, IdleWhenSaid
  <1> QED BY <1>1, <1>2, <1>3, <1>4

\* A success takes the text once the agent is idle; after that, a cancel may only refuse it.
LEMMA SuccessNext ==
  ASSUME TypeOK, AnswerInv, [Next]_vars
  PROVE  SuccessEndsIdle'
  <1>0. /\ WordsInOrder /\ IdleWhenSaid /\ SuccessEndsIdle /\ Len(said) \in Nat /\ text \in Texts
        /\ Len(text) \in Nat /\ handle \in Handles
    BY Lengths DEF AnswerInv, TypeOK
  <1>1. \/ UNCHANGED <<handle, cutShort>> \/ PromptFails \/ Collect
        \/ CancelJoins
    BY DEF Next, Transport, RunStep, TurnStep, CallerStep, BeginRun, NextRequest, HandshakeFails,
         StartPrompt, FailRun, PromptReturns, Drain, PollCompleted, PollCloses, Cancel,
         CancelCloses, vars, adapterVars
  <1>2. CASE UNCHANGED <<handle, cutShort>>
    <2> DEFINE answer == handle.text
    <2>1. Len(answer) \in Nat
      BY <1>0, LenProperties DEF Handles, Texts
    <2> QED BY <1>0, <1>2, <2>1, SaidGrows DEF SuccessEndsIdle
  <1>3. CASE PromptFails
    BY <1>3 DEF PromptFails, Complete, SuccessEndsIdle
  <1>4. CASE CancelJoins
    <2>1. handle'.success = FALSE
      BY <1>0, <1>4 DEF CancelJoins, Handles
    <2> QED BY <2>1 DEF SuccessEndsIdle
  <1>5. CASE Collect
    <2>1. handle'.text = text /\ UNCHANGED said /\ (~cutShort' => state = "idle")
      BY <1>5 DEF Collect, Complete, transportVars, pipeVars
    <2>2. ~cutShort' => /\ text # <<>> /\ Len(text) <= Len(said) /\ text[Len(text)] = "last"
                        /\ \A k \in 1 .. Len(text) : text[k] = said[k]
      BY <1>0, <2>1 DEF IdleWhenSaid, WordsInOrder
    <2> QED BY <2>1, <2>2 DEF SuccessEndsIdle
  <1> QED BY <1>1, <1>2, <1>3, <1>4, <1>5

LEMMA ThreadNext ==
  ASSUME TypeOK, AnswerInv, [Next]_vars
  PROVE  ThreadInRun'
  <1>0. ThreadInRun /\ handle \in Handles
    BY DEF AnswerInv, TypeOK
  <1> USE DEF ThreadInRun
  <1>1. CASE Transport \/ UNCHANGED vars
    BY <1>0, <1>1 DEF Transport, adapterVars, vars
  <1>2. CASE RunStep
    BY <1>0, <1>2 DEF RunStep, BeginRun, NextRequest, StartPrompt, HandshakeFails, FailRun
  <1>3. CASE TurnStep
    BY <1>0, <1>3 DEF TurnStep, PromptFails, PromptReturns, Drain, Collect, Complete
  <1>4. CASE CallerStep
    BY <1>0, <1>4 DEF CallerStep, PollCompleted, PollCloses, CancelCloses, CancelJoins, Handles
  <1>5. CASE Cancel
    BY <1>0, <1>5 DEF Cancel
  <1> QED BY <1>1, <1>2, <1>3, <1>4, <1>5 DEF Next

\* What ends with the word that is said once, and last, is all that was said.
LEMMA WholeAnswer == TypeOK /\ AnswerInv => AnswerIsWhole
  <1> SUFFICES ASSUME TypeOK, AnswerInv, report = "SUCCEEDED", ~cutShort,
                      \A k \in DOMAIN said : said[k] = "last" => k = Len(said)
               PROVE  handle.text = said
    BY DEF AnswerIsWhole
  <1> DEFINE answer == handle.text
  <1>1. /\ answer \in Texts /\ said \in Seq(Updates) /\ Len(said) \in Nat
        /\ DOMAIN said = 1 .. Len(said)
    BY Lengths, LenProperties DEF TypeOK, Handles
  <1>2. /\ answer # <<>> /\ Len(answer) <= Len(said) /\ answer[Len(answer)] = "last"
        /\ \A k \in 1 .. Len(answer) : answer[k] = said[k]
    BY DEF AnswerInv, ThreadInRun, SuccessEndsIdle
  <1>3. Len(answer) \in 1 .. Len(said)
    BY <1>1, <1>2, LenProperties, EmptySeq DEF Texts
  <1>4. Len(answer) = Len(said)
    BY <1>1, <1>2, <1>3
  <1> HIDE DEF answer
  <1>5. answer = said
    BY <1>1, <1>2, <1>4, SeqEqual DEF Texts
  <1> QED BY <1>5 DEF answer

\* A success carries every word of the agent, in order, if the agent says only with the last
\* of them that it is idle and it was heard in time.
\* (adapter.py:217-226, 305; client.py:238-270; transport.py:183-220)
THEOREM AnswersAreWhole == Spec => []AnswerIsWhole
  <1>1. Init => Closed
    BY DEF Init, TransportInit, Closed, NoAgentLeft
  <1>2. TypeOK /\ Closed /\ AnswerInv /\ [Next]_vars => AnswerInv'
    BY WordsNext, IdleNext, SuccessNext, ThreadNext DEF AnswerInv
  <1> QED BY <1>1, <1>2, WordsInit, WholeAnswer, ClosedNext, TypeInit, TypeNext, PTL DEF Spec
=============================================================================

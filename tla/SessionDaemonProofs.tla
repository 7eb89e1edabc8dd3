------------------------ MODULE SessionDaemonProofs ------------------------
(***************************************************************************)
(* Theorems about SessionDaemon, for any set of connections and any limits *)
(* of the queue and of the result store.                                   *)
(***************************************************************************)
EXTENDS SessionDaemon, SequenceTheorems, FiniteSetTheorems, WellFoundedInduction,
        TLAPS

\* TypeOK is not inductive alone: the worker's steps use wreq as a request, which
\* it is from the moment the worker took one off the queue.
WorkerHasRequest == Holding \/ wpc = "store" => wreq \in Conns

TypeInv == TypeOK /\ WorkerHasRequest

LEMMA TypeInit == Init => TypeInv
  <1> SUFFICES ASSUME Init PROVE TypeInv
    OBVIOUS
  <1>1. \A S : <<>> \in Seq(S)
    BY EmptySeq
  <1>2. queue = <<>> /\ Len(queue) <= MaxQueueDepth
    BY QueueAssumption DEF Init
  <1>3. reply \in [Conns -> Replies]
    BY DEF Init, Replies, ReplyKinds
  <1>4. /\ queue \in Seq(Conns) /\ stored \subseteq Conns
        /\ history \in Seq([role : {"user", "assistant"}, req : Conns])
    BY <1>1 DEF Init
  <1>5. /\ main \in MainPcs /\ wpc \in WorkerPcs /\ outcome \in Outcomes
        /\ pc \in [Conns -> HandlerPcs] /\ result \in [Conns -> Results]
        /\ reqId \in [Conns -> Nat]
    BY DEF Init, MainPcs, HandlerPcs, WorkerPcs, Results, Outcomes
  <1>6. WorkerHasRequest
    BY DEF Init, WorkerHasRequest, Holding
  <1>7. running \in BOOLEAN /\ cancelEvent \in BOOLEAN /\ cancelled \in BOOLEAN
    BY DEF Init
  <1>8. nextId \in Nat \ {0} /\ turnCount \in Nat /\ savedTurns \in Nat
    BY DEF Init
  <1>9. /\ current \in Conns \cup {None} /\ wreq \in Conns \cup {None}
        /\ completed \subseteq Conns /\ accepted \subseteq Conns /\ hit \subseteq Conns
    BY DEF Init
  <1> QED
    BY <1>2, <1>3, <1>4, <1>5, <1>6, <1>7, <1>8, <1>9 DEF TypeInv, TypeOK

\* What a handler writes is a reply.
LEMMA SayTypes ==
  ASSUME reply \in [Conns -> Replies], NEW c \in Conns,
         NEW k \in ReplyKinds, NEW r \in Conns \cup {None}, Say(c, k, r)
  PROVE  reply' \in [Conns -> Replies]
  BY DEF Say, Replies

\* The head of a queue of connections is a connection, and the rest is a queue.
LEMMA HeadTail ==
  ASSUME queue \in Seq(Conns), queue # <<>>
  PROVE  /\ Head(queue) \in Conns
         /\ Tail(queue) \in Seq(Conns)
         /\ Len(Tail(queue)) = Len(queue) - 1
         /\ \A i \in 1..Len(Tail(queue)) : Tail(queue)[i] = queue[i + 1]
         /\ Head(queue) = queue[1] /\ Len(queue) >= 1 /\ Len(queue) \in Nat
  OBVIOUS

\* A step of a draining loop keeps the types of what it changes.
LEMMA DrainTypes ==
  ASSUME TypeInv, NEW at, NEW after, NEW to, Drain(at, after, to)
  PROVE  /\ queue' \in Seq(Conns) /\ Len(queue') <= MaxQueueDepth
         /\ result' \in [Conns -> Results]
         /\ to = at \/ to = after
  <1>1. CASE queue = <<>>
    BY <1>1 DEF TypeInv, TypeOK, Drain
  <1>2. CASE queue # <<>>
    <2>1. queue \in Seq(Conns) /\ Len(queue) <= MaxQueueDepth
      BY DEF TypeInv, TypeOK
    <2>2. queue' = Tail(queue) /\ result' = [result EXCEPT ![Head(queue)] = "withdrawn"]
      BY <1>2 DEF Drain
    <2>3. queue' \in Seq(Conns) /\ Len(queue') <= MaxQueueDepth
      BY <1>2, <2>1, <2>2, HeadTail, QueueAssumption
    <2>4. result' \in [Conns -> Results]
      BY <1>2, <2>1, <2>2, HeadTail DEF TypeInv, TypeOK, Results
    <2> QED
      BY <1>2, <2>3, <2>4 DEF Drain
  <1> QED BY <1>1, <1>2

LEMMA TypeStep == TypeInv /\ [Next]_vars => TypeInv'
  <1> SUFFICES ASSUME TypeInv, [Next]_vars PROVE TypeInv'
    OBVIOUS
  <1> USE ConnsAssumption, QueueAssumption
  <1>1. ASSUME NEW c \in Conns, HandlerStep(c) PROVE TypeInv'
    <2> USE DEF ctxVars, handlerVars, workerVars, fileVars, ghostVars, Goto, HandlerPcs
    <2>1. CASE HandleInspect(c)
      BY <2>1 DEF HandleInspect, TypeInv, TypeOK, WorkerHasRequest, Holding, Say, Replies, ReplyKinds
    <2>2. CASE HandleSendAllocate(c)
      BY <2>2 DEF HandleSendAllocate, TypeInv, TypeOK, WorkerHasRequest, Holding
    <2>3. CASE HandleSendPut(c)
      BY <2>3 DEF HandleSendPut, TypeInv, TypeOK, WorkerHasRequest, Holding, QueueHasRoom
    <2>4. CASE HandleSendFull(c)
      BY <2>4 DEF HandleSendFull, TypeInv, TypeOK, WorkerHasRequest, Holding, Say, Replies, ReplyKinds
    <2>5. CASE HandleSendAck(c)
      <3>1. reply' \in [Conns -> Replies]
        BY <2>5, SayTypes DEF HandleSendAck, TypeInv, TypeOK, ReplyKinds
      <3>2. pc' \in [Conns -> HandlerPcs]
        BY <2>5 DEF HandleSendAck, TypeInv, TypeOK
      <3> QED
        BY <2>5, <3>1, <3>2 DEF HandleSendAck, TypeInv, TypeOK, WorkerHasRequest, Holding
    <2>6. CASE HandleSendResult(c)
      BY <2>6 DEF HandleSendResult, TypeInv, TypeOK, WorkerHasRequest, Holding, Say, Replies, ReplyKinds
    <2>7. CASE HandleCancel(c)
      <3>1. reply' \in [Conns -> Replies]
        BY <2>7, SayTypes DEF HandleCancel, TypeInv, TypeOK, ReplyKinds
      <3>2. pc' \in [Conns -> HandlerPcs] /\ cancelEvent' \in BOOLEAN /\ hit' \subseteq Conns
        BY <2>7 DEF HandleCancel, TypeInv, TypeOK, Current
      <3> QED
        BY <2>7, <3>1, <3>2 DEF HandleCancel, TypeInv, TypeOK, WorkerHasRequest, Holding
    <2>8. CASE HandleCancelDrain(c)
      <3>1. PICK to \in {"cancelDrain", "closed"} :
               /\ Goto(c, "cancelDrain", to)
               /\ Drain("cancelDrain", "closed", to)
               /\ IF to = "closed" THEN Say(c, "cancel_ok", reply[c].req) ELSE UNCHANGED reply
        BY <2>8 DEF HandleCancelDrain
      <3>2. /\ queue' \in Seq(Conns) /\ Len(queue') <= MaxQueueDepth
            /\ result' \in [Conns -> Results]
        BY <3>1, DrainTypes
      <3>3. reply[c].req \in Conns \cup {None}
        BY DEF TypeInv, TypeOK, Replies
      <3>4. reply' \in [Conns -> Replies]
        BY <3>1, <3>3, SayTypes DEF TypeInv, TypeOK, ReplyKinds
      <3>5. pc' \in [Conns -> HandlerPcs]
        BY <3>1 DEF TypeInv, TypeOK
      <3> QED
        BY <2>8, <3>2, <3>4, <3>5 DEF HandleCancelDrain, TypeInv, TypeOK, WorkerHasRequest, Holding
    <2>9. CASE HandleShutdownDrain(c)
      BY <2>9, DrainTypes DEF HandleShutdownDrain, TypeInv, TypeOK, WorkerHasRequest, Holding
    <2>10. CASE HandleShutdownCancel(c)
      BY <2>10 DEF HandleShutdownCancel, TypeInv, TypeOK, WorkerHasRequest, Holding, Current
    <2>11. CASE HandleShutdownAck(c)
      <3>1. reply' \in [Conns -> Replies]
        BY <2>11, SayTypes DEF HandleShutdownAck, TypeInv, TypeOK, ReplyKinds
      <3>2. pc' \in [Conns -> HandlerPcs]
        BY <2>11 DEF HandleShutdownAck, TypeInv, TypeOK
      <3> QED
        BY <2>11, <3>1, <3>2 DEF HandleShutdownAck, TypeInv, TypeOK, WorkerHasRequest, Holding
    <2>12. CASE HandleStopRunning(c)
      BY <2>12 DEF HandleStopRunning, TypeInv, TypeOK, WorkerHasRequest, Holding
    <2>13. CASE HandleResult(c)
      BY <2>13 DEF HandleResult, TypeInv, TypeOK, WorkerHasRequest, Holding, Say, Lookup, Replies, ReplyKinds
    <2> QED
      BY <1>1, <2>1, <2>2, <2>3, <2>4, <2>5, <2>6, <2>7, <2>8, <2>9, <2>10, <2>11, <2>12, <2>13
      DEF HandlerStep
  <1>2. ASSUME WorkerStep \/ WorkerRaise PROVE TypeInv'
    <2> USE DEF ctxVars, handlerVars, workerVars, fileVars, ghostVars, WorkerGoto, WorkerPcs,
                TypeInv, TypeOK, WorkerHasRequest, Holding
    <2>1. CASE WorkerTest \/ WorkerGetEmpty \/ WorkerRaise
      BY <2>1 DEF WorkerTest, WorkerGetEmpty, WorkerRaise
    <2>2. CASE WorkerGet
      BY <2>2, HeadTail DEF WorkerGet
    <2>3. CASE WorkerTake
      BY <2>3 DEF WorkerTake, MakeCurrent, Results
    <2>4. CASE WorkerDispatch \/ WorkerCheckCancelled
      BY <2>4 DEF WorkerDispatch, WorkerCheckCancelled
    <2>5. CASE WorkerAppendUser \/ WorkerAppendAssistant \/ WorkerSaveState
      <3>1. \A e \in [role : {"user", "assistant"}, req : Conns] :
              Append(history, e) \in Seq([role : {"user", "assistant"}, req : Conns])
        BY AppendProperties
      <3>2. CASE WorkerAppendUser
        BY <3>1, <3>2 DEF WorkerAppendUser
      <3>3. CASE WorkerAppendAssistant
        BY <3>1, <3>3 DEF WorkerAppendAssistant
      <3>4. CASE WorkerSaveState
        BY <3>4 DEF WorkerSaveState
      <3> QED
        BY <2>5, <3>2, <3>3, <3>4
    <2>6. CASE WorkerAnswer
      BY <2>6 DEF WorkerAnswer, Response, Results, Outcomes
    <2>7. CASE WorkerStore
      <3>1. stored' \subseteq Conns
        BY <2>7 DEF WorkerStore
      <3>2. completed' \subseteq Conns
        BY <2>7 DEF WorkerStore, Evict
      <3> QED
        BY <2>7, <3>1, <3>2 DEF WorkerStore, Outcomes
    <2> QED
      BY <1>2, <2>1, <2>2, <2>3, <2>4, <2>5, <2>6, <2>7 DEF WorkerStep
  <1>3. ASSUME NEW c \in Conns, MainAccept(c) PROVE TypeInv'
    BY <1>3 DEF MainAccept, MainGoto, MainPcs, HandlerPcs, ctxVars, workerVars, fileVars, ghostVars,
                TypeInv, TypeOK, WorkerHasRequest, Holding
  <1>4. ASSUME MainStep \/ Sigterm PROVE TypeInv'
    <2> USE DEF ctxVars, handlerVars, workerVars, fileVars, ghostVars, MainGoto, MainPcs
    <2>1. CASE MainTest \/ MainAcceptTimeout \/ MainExit \/ Sigterm
      BY <2>1 DEF MainTest, MainAcceptTimeout, MainExit, Sigterm, TypeInv, TypeOK, WorkerHasRequest, Holding
    <2>2. CASE MainDrain
      BY <2>2, DrainTypes DEF MainDrain, TypeInv, TypeOK, WorkerHasRequest, Holding
    <2>3. CASE MainCancel
      BY <2>3 DEF MainCancel, TypeInv, TypeOK, WorkerHasRequest, Holding, Current
    <2> QED
      BY <1>4, <2>1, <2>2, <2>3 DEF MainStep
  <1>5. ASSUME UNCHANGED vars PROVE TypeInv'
    BY <1>5 DEF vars, ctxVars, handlerVars, workerVars, fileVars, ghostVars,
                TypeInv, TypeOK, WorkerHasRequest, Holding
  <1> QED
    BY <1>1, <1>2, <1>3, <1>4, <1>5 DEF Next

\* The variables of the daemon stay in their ranges, and its queue within its depth,
\* for any number of connections.
THEOREM TypeCorrect == Spec => []TypeOK
  <1>1. TypeInv => TypeOK
    BY DEF TypeInv
  <1> QED
    BY TypeInit, TypeStep, <1>1, PTL DEF Spec

-----------------------------------------------------------------------------
(* No request is lost, served twice or answered twice *)

\* A handler that has not put its request yet.
Fresh == {"new", "open", "put"}
FreshUntilPut == \A c \in Conns : pc[c] \in Fresh => c \notin accepted

\* Only a request the queue took is ever answered.
AnsweredAccepted == \A r \in Conns : result[r] # "none" => r \in accepted

AccountInv ==
    /\ TypeInv
    /\ FreshUntilPut
    /\ AnsweredAccepted
    /\ RequestsAccounted

LEMMA AccountInit == Init => AccountInv
  BY TypeInit DEF Init, AccountInv, FreshUntilPut, AnsweredAccepted, RequestsAccounted,
                  Queued, Holding, Fresh

\* In a non-empty queue the head is an open request that the worker does not hold.
LEMMA HeadIsOpen ==
  ASSUME AccountInv, queue # <<>>
  PROVE  /\ Head(queue) \in accepted /\ result[Head(queue)] = "none"
         /\ Holding => wreq # Head(queue)
         /\ \A i \in 1..Len(Tail(queue)) : Tail(queue)[i] # Head(queue)
  <1>1. queue \in Seq(Conns)
    BY DEF AccountInv, TypeInv, TypeOK
  <1>2. Queued(Head(queue))
    BY <1>1, HeadTail DEF Queued
  <1>3. /\ Head(queue) \in accepted /\ result[Head(queue)] = "none"
        /\ Holding => wreq # Head(queue)
    BY <1>1, <1>2, HeadTail DEF AccountInv, RequestsAccounted
  <1>4. ASSUME NEW i \in 1..Len(Tail(queue)), Tail(queue)[i] = Head(queue) PROVE FALSE
    <2>1. queue[i + 1] = queue[1] /\ i + 1 \in 1..Len(queue) /\ 1 \in 1..Len(queue)
      BY <1>1, <1>4, HeadTail
    <2> QED
      BY <2>1 DEF AccountInv, RequestsAccounted
  <1> QED
    BY <1>3, <1>4

\* Taking the head off leaves exactly the other requests in the queue, each once.
LEMMA PopQueued ==
  ASSUME AccountInv, queue # <<>>, queue' = Tail(queue)
  PROVE  /\ \A r \in Conns : Queued(r)' <=> Queued(r) /\ r # Head(queue)
         /\ \A i, j \in 1..Len(queue') : queue'[i] = queue'[j] => i = j
  <1>1. queue \in Seq(Conns)
    BY DEF AccountInv, TypeInv, TypeOK
  <1>2. /\ Len(queue') = Len(queue) - 1 /\ Len(queue) \in Nat
        /\ \A i \in 1..Len(queue') : queue'[i] = queue[i + 1]
        /\ Head(queue) = queue[1]
    BY <1>1, HeadTail
  <1>3. \A i, j \in 1..Len(queue) : queue[i] = queue[j] => i = j
    BY DEF AccountInv, RequestsAccounted
  <1>4. \A i, j \in 1..Len(queue') : queue'[i] = queue'[j] => i = j
    BY <1>2, <1>3
  <1>5. ASSUME NEW r \in Conns, Queued(r)' PROVE Queued(r) /\ r # Head(queue)
    <2>1. PICK i \in 1..Len(queue') : queue'[i] = r
      BY <1>5 DEF Queued
    <2>2. i + 1 \in 1..Len(queue) /\ queue[i + 1] = r
      BY <1>2, <2>1
    <2> QED
      BY <2>1, <2>2, HeadIsOpen DEF Queued
  <1>6. ASSUME NEW r \in Conns, Queued(r), r # Head(queue) PROVE Queued(r)'
    <2>1. PICK i \in 1..Len(queue) : queue[i] = r
      BY <1>6 DEF Queued
    <2>2. i - 1 \in 1..Len(queue') /\ queue'[i - 1] = r
      BY <1>2, <1>6, <2>1
    <2> QED
      BY <2>2 DEF Queued
  <1> QED
    BY <1>4, <1>5, <1>6

\* A step that leaves the queue, the answers and the worker's hands alone.
LEMMA AccountFrame ==
  ASSUME AccountInv, TypeInv', UNCHANGED <<queue, result, accepted>>,
         Holding' <=> Holding, Holding => wreq' = wreq,
         \A c \in Conns : pc'[c] \in Fresh => pc[c] \in Fresh
  PROVE  AccountInv'
  <1>1. FreshUntilPut' /\ AnsweredAccepted'
    BY DEF AccountInv, FreshUntilPut, AnsweredAccepted
  <1>2. \A r : Queued(r)' <=> Queued(r)
    BY DEF Queued
  <1>3. RequestsAccounted'
    BY <1>2 DEF AccountInv, RequestsAccounted
  <1> QED
    BY <1>1, <1>3 DEF AccountInv

\* One turn of a draining loop, whoever runs it, answers the request it takes.
LEMMA AccountDrain ==
  ASSUME AccountInv, TypeInv', NEW at, NEW after, NEW to, Drain(at, after, to),
         UNCHANGED <<accepted, wpc, wreq>>,
         \A c \in Conns : pc'[c] \in Fresh => pc[c] \in Fresh
  PROVE  AccountInv'
  <1>0. Holding' <=> Holding
    BY DEF Holding
  <1>1. CASE queue = <<>>
    BY <1>0, <1>1, AccountFrame DEF Drain
  <1>2. CASE queue # <<>>
    <2>1. queue' = Tail(queue) /\ result' = [result EXCEPT ![Head(queue)] = "withdrawn"]
      BY <1>2 DEF Drain
    <2>2. Head(queue) \in Conns /\ result \in [Conns -> Results]
      BY <1>2, HeadTail DEF AccountInv, TypeInv, TypeOK
    <2>3. \A r \in Conns : result'[r] = IF r = Head(queue) THEN "withdrawn" ELSE result[r]
      BY <2>1, <2>2
    <2>4. FreshUntilPut' /\ AnsweredAccepted'
      BY <1>2, <2>3, HeadIsOpen DEF AccountInv, FreshUntilPut, AnsweredAccepted
    <2>5. \A r \in Conns : (r \in accepted' /\ result'[r] = "none")
                              <=> (Queued(r)' \/ (Holding' /\ wreq' = r))
      BY <1>0, <1>2, <2>1, <2>3, HeadIsOpen, PopQueued DEF AccountInv, RequestsAccounted
    <2>6. Holding' => ~Queued(wreq)'
      BY <1>0, <1>2, <2>1, PopQueued DEF AccountInv, RequestsAccounted, TypeInv, WorkerHasRequest
    <2>7. RequestsAccounted'
      BY <1>2, <2>1, <2>5, <2>6, PopQueued DEF RequestsAccounted
    <2> QED
      BY <2>4, <2>7 DEF AccountInv
  <1> QED
    BY <1>1, <1>2

\* The put adds one request, at the end.
LEMMA AccountPut ==
  ASSUME AccountInv, TypeInv', NEW c \in Conns, HandleSendPut(c)
  PROVE  AccountInv'
  <1>1. /\ queue' = Append(queue, c) /\ accepted' = accepted \cup {c}
        /\ pc[c] = "put" /\ pc' = [pc EXCEPT ![c] = "ack"]
        /\ UNCHANGED <<result, wpc, wreq>>
    BY DEF HandleSendPut, Goto, workerVars
  <1>2. queue \in Seq(Conns) /\ pc \in [Conns -> HandlerPcs]
    BY DEF AccountInv, TypeInv, TypeOK
  <1>3. /\ Len(queue') = Len(queue) + 1 /\ Len(queue) \in Nat
        /\ \A i \in 1..Len(queue) : queue'[i] = queue[i]
        /\ queue'[Len(queue) + 1] = c
    BY <1>1, <1>2, AppendProperties
  <1>4. c \notin accepted /\ result[c] = "none"
    BY <1>1 DEF AccountInv, FreshUntilPut, AnsweredAccepted, Fresh
  <1>5. ~Queued(c)
    BY <1>4 DEF AccountInv, RequestsAccounted
  <1>6. Holding => wreq # c
    BY <1>4 DEF AccountInv, RequestsAccounted
  <1>7. \A r \in Conns : Queued(r)' <=> Queued(r) \/ r = c
    <2>1. ASSUME NEW r \in Conns, Queued(r)' PROVE Queued(r) \/ r = c
      BY <1>3, <2>1 DEF Queued
    <2>2. ASSUME NEW r \in Conns, Queued(r) PROVE Queued(r)'
      <3>1. PICK i \in 1..Len(queue) : queue[i] = r
        BY <2>2 DEF Queued
      <3> QED
        BY <1>3, <3>1 DEF Queued
    <2>3. Queued(c)'
      BY <1>3 DEF Queued
    <2> QED
      BY <2>1, <2>2, <2>3
  <1>8. \A i, j \in 1..Len(queue') : queue'[i] = queue'[j] => i = j
    BY <1>3, <1>5 DEF AccountInv, RequestsAccounted, Queued
  <1>9. \A r \in Conns : (r \in accepted' /\ result'[r] = "none")
                            <=> (Queued(r)' \/ (Holding' /\ wreq' = r))
    BY <1>1, <1>4, <1>6, <1>7 DEF AccountInv, RequestsAccounted, Holding
  <1>10. Holding' => ~Queued(wreq)'
    BY <1>1, <1>6, <1>7 DEF AccountInv, RequestsAccounted, Holding, TypeInv, WorkerHasRequest
  <1>11. FreshUntilPut' /\ AnsweredAccepted'
    BY <1>1, <1>2 DEF AccountInv, FreshUntilPut, AnsweredAccepted, Fresh
  <1> QED
    BY <1>8, <1>9, <1>10, <1>11 DEF AccountInv, RequestsAccounted

\* The worker's get moves the head of the queue into its hands.
LEMMA AccountGet ==
  ASSUME AccountInv, TypeInv', WorkerGet
  PROVE  AccountInv'
  <1>1. /\ queue # <<>> /\ queue' = Tail(queue) /\ wreq' = Head(queue)
        /\ ~Holding /\ Holding' /\ UNCHANGED <<result, accepted, pc>>
    BY DEF WorkerGet, WorkerGoto, Holding, handlerVars, ghostVars
  <1>2. FreshUntilPut' /\ AnsweredAccepted'
    BY <1>1 DEF AccountInv, FreshUntilPut, AnsweredAccepted
  <1>3. \A r \in Conns : (r \in accepted' /\ result'[r] = "none")
                            <=> (Queued(r)' \/ (Holding' /\ wreq' = r))
    BY <1>1, HeadIsOpen, PopQueued DEF AccountInv, RequestsAccounted
  <1>4. wreq' \in Conns
    BY <1>1 DEF TypeInv, WorkerHasRequest
  <1>5. ~Queued(wreq)'
    BY <1>1, <1>4, PopQueued
  <1> QED
    BY <1>1, <1>2, <1>3, <1>5, PopQueued DEF AccountInv, RequestsAccounted

\* What the worker holds was accepted, nobody has answered it, and nobody else has it.
LEMMA HeldIsOpen ==
  ASSUME AccountInv, Holding
  PROVE  wreq \in Conns /\ wreq \in accepted /\ result[wreq] = "none"
  BY DEF AccountInv, RequestsAccounted, TypeInv, WorkerHasRequest

\* The answer leaves the worker's hands empty.
LEMMA AccountAnswer ==
  ASSUME AccountInv, TypeInv', WorkerAnswer
  PROVE  AccountInv'
  <1>1. /\ result' = [result EXCEPT ![wreq] = Response]
        /\ Holding /\ ~Holding' /\ UNCHANGED <<queue, accepted, pc, wreq>>
    BY DEF WorkerAnswer, WorkerGoto, Holding, ctxVars, handlerVars, ghostVars
  <1>2. Response # "none"
    BY DEF AccountInv, TypeInv, TypeOK, Response, Outcomes
  <1>3. \A r \in Conns : result'[r] = IF r = wreq THEN Response ELSE result[r]
    BY <1>1, HeldIsOpen DEF AccountInv, TypeInv, TypeOK
  <1>4. FreshUntilPut' /\ AnsweredAccepted'
    BY <1>1, <1>3, HeldIsOpen DEF AccountInv, FreshUntilPut, AnsweredAccepted
  <1>5. \A r : Queued(r)' <=> Queued(r)
    BY <1>1 DEF Queued
  <1>6. RequestsAccounted'
    BY <1>1, <1>2, <1>3, <1>5 DEF AccountInv, RequestsAccounted
  <1> QED
    BY <1>4, <1>6 DEF AccountInv

LEMMA AccountStep == AccountInv /\ [Next]_vars => AccountInv'
  <1> SUFFICES ASSUME AccountInv, [Next]_vars PROVE AccountInv'
    OBVIOUS
  <1>0. TypeInv'
    BY TypeStep DEF AccountInv
  <1>1. pc \in [Conns -> HandlerPcs]
    BY DEF AccountInv, TypeInv, TypeOK
  <1>2. ASSUME NEW c \in Conns, HandlerStep(c) PROVE AccountInv'
    <2> USE DEF Goto, Fresh, ctxVars, workerVars, ghostVars
    <2>1. CASE HandleSendPut(c)
      BY <1>0, <2>1, AccountPut
    <2>2. CASE HandleCancelDrain(c)
      <3>1. /\ \E to : Drain("cancelDrain", "closed", to)
            /\ \A d \in Conns : pc'[d] \in Fresh => pc[d] \in Fresh
            /\ UNCHANGED <<accepted, wpc, wreq>>
        BY <1>1, <2>2 DEF HandleCancelDrain
      <3> QED
        BY <1>0, <3>1, AccountDrain
    <2>3. CASE HandleShutdownDrain(c)
      <3>1. /\ \E to : Drain("shutDrain", "shutLock", to)
            /\ \A d \in Conns : pc'[d] \in Fresh => pc[d] \in Fresh
            /\ UNCHANGED <<accepted, wpc, wreq>>
        BY <1>1, <2>3 DEF HandleShutdownDrain
      <3> QED
        BY <1>0, <3>1, AccountDrain
    <2>4. CASE \/ HandleInspect(c) \/ HandleSendAllocate(c) \/ HandleSendFull(c)
               \/ HandleSendAck(c) \/ HandleSendResult(c) \/ HandleCancel(c)
               \/ HandleShutdownCancel(c) \/ HandleShutdownAck(c)
               \/ HandleStopRunning(c) \/ HandleResult(c)
      <3>1. UNCHANGED <<queue, result, accepted, wpc, wreq>>
        BY <2>4 DEF HandleInspect, HandleSendAllocate, HandleSendFull, HandleSendAck,
                    HandleSendResult, HandleCancel, HandleShutdownCancel,
                    HandleShutdownAck, HandleStopRunning, HandleResult
      <3>2. \A d \in Conns : pc'[d] \in Fresh => pc[d] \in Fresh
        BY <1>1, <2>4
        DEF HandleInspect, HandleSendAllocate, HandleSendFull, HandleSendAck,
            HandleSendResult, HandleCancel, HandleShutdownCancel, HandleShutdownAck,
            HandleStopRunning, HandleResult
      <3>3. Holding' <=> Holding
        BY <3>1 DEF Holding
      <3> QED
        BY <1>0, <3>1, <3>2, <3>3, AccountFrame
    <2> QED
      BY <1>2, <2>1, <2>2, <2>3, <2>4 DEF HandlerStep
  <1>3. ASSUME WorkerStep \/ WorkerRaise PROVE AccountInv'
    <2>1. CASE WorkerGet
      BY <1>0, <2>1, AccountGet
    <2>2. CASE WorkerAnswer
      BY <1>0, <2>2, AccountAnswer
    <2>3. CASE WorkerTake
      <3>1. result[wreq] # "withdrawn"
        BY <2>3, HeldIsOpen DEF WorkerTake, WorkerGoto, Holding
      <3>2. UNCHANGED <<queue, result, accepted, wreq, pc>> /\ (Holding' <=> Holding)
        BY <2>3, <3>1 DEF WorkerTake, WorkerGoto, Holding, handlerVars, ghostVars
      <3> QED
        BY <1>0, <3>2, AccountFrame
    <2>4. CASE WorkerStore
      <3>1. /\ UNCHANGED <<queue, result, accepted, pc>>
            /\ (Holding' <=> Holding) /\ ~Holding
        BY <2>4 DEF WorkerStore, WorkerGoto, Holding, handlerVars
      <3> QED
        BY <1>0, <3>1, AccountFrame
    <2>5. CASE \/ WorkerTest \/ WorkerGetEmpty \/ WorkerRaise \/ WorkerDispatch
               \/ WorkerCheckCancelled \/ WorkerAppendUser \/ WorkerAppendAssistant
               \/ WorkerSaveState
      <3>1. /\ UNCHANGED <<queue, result, accepted, wreq, pc>>
            /\ (Holding' <=> Holding)
        BY <2>5 DEF WorkerTest, WorkerGetEmpty, WorkerRaise, WorkerDispatch,
                    WorkerCheckCancelled, WorkerAppendUser, WorkerAppendAssistant,
                    WorkerSaveState, WorkerGoto, Holding, ctxVars, handlerVars, ghostVars
      <3> QED
        BY <1>0, <3>1, AccountFrame
    <2> QED
      BY <1>3, <2>1, <2>2, <2>3, <2>4, <2>5 DEF WorkerStep
  <1>4. ASSUME NEW c \in Conns, MainAccept(c) PROVE AccountInv'
    <2>1. /\ UNCHANGED <<queue, result, accepted, wpc, wreq>>
          /\ \A d \in Conns : pc'[d] \in Fresh => pc[d] \in Fresh
      BY <1>1, <1>4 DEF MainAccept, Fresh, ctxVars, workerVars, ghostVars
    <2>2. Holding' <=> Holding
      BY <2>1 DEF Holding
    <2> QED
      BY <1>0, <2>1, <2>2, AccountFrame
  <1>5. ASSUME MainStep \/ Sigterm PROVE AccountInv'
    <2>1. CASE MainDrain
      <3>1. /\ \E to : Drain("drain", "cancel", to)
            /\ UNCHANGED <<accepted, wpc, wreq, pc>>
        BY <2>1 DEF MainDrain, handlerVars, workerVars, ghostVars
      <3> QED
        BY <1>0, <3>1, AccountDrain
    <2>2. CASE MainTest \/ MainAcceptTimeout \/ MainCancel \/ MainExit \/ Sigterm
      <3>1. UNCHANGED <<queue, result, accepted, wpc, wreq, pc>>
        BY <2>2 DEF MainTest, MainAcceptTimeout, MainCancel, MainExit, Sigterm,
                    ctxVars, handlerVars, workerVars, ghostVars
      <3>2. Holding' <=> Holding
        BY <3>1 DEF Holding
      <3> QED
        BY <1>0, <3>1, <3>2, AccountFrame
    <2> QED
      BY <1>5, <2>1, <2>2 DEF MainStep
  <1>6. ASSUME UNCHANGED vars PROVE AccountInv'
    <2>1. UNCHANGED <<queue, result, accepted, wpc, wreq, pc>>
      BY <1>6 DEF vars, ctxVars, handlerVars, workerVars, ghostVars
    <2>2. Holding' <=> Holding
      BY <2>1 DEF Holding
    <2> QED
      BY <1>0, <2>1, <2>2, AccountFrame
  <1> QED
    BY <1>2, <1>3, <1>4, <1>5, <1>6 DEF Next

\* The invariant, for any number of connections.
LEMMA AccountCorrect == Spec => []AccountInv
  BY AccountInit, AccountStep, PTL DEF Spec

\* No request is lost or held twice, whatever sends, cancels, shutdowns and turns of
\* the worker overlap: an accepted, unanswered one is in the queue, once, or held.
THEOREM NoRequestLost == Spec => []RequestsAccounted
  <1>1. AccountInv => RequestsAccounted
    BY DEF AccountInv
  <1> QED
    BY AccountCorrect, <1>1, PTL

\* The worker never takes a withdrawn request: its skip branch is dead code.
THEOREM WorkerNeverSkips == Spec => []WorkerHoldsOpenRequest
  <1>1. AccountInv => WorkerHoldsOpenRequest
    BY HeldIsOpen DEF WorkerHoldsOpenRequest
  <1> QED
    BY AccountCorrect, <1>1, PTL

\* A draining loop answers open requests only.
LEMMA DrainKeepsAnswers ==
  ASSUME AccountInv, NEW at, NEW after, NEW to, Drain(at, after, to),
         NEW r \in Conns, result[r] # "none"
  PROVE  result'[r] = result[r]
  <1>1. CASE queue = <<>>
    BY <1>1 DEF Drain
  <1>2. CASE queue # <<>>
    BY <1>2, HeadIsOpen DEF Drain, AccountInv, TypeInv, TypeOK
  <1> QED
    BY <1>1, <1>2

LEMMA AnswerStep ==
  ASSUME AccountInv, [Next]_vars, NEW r \in Conns, result[r] # "none"
  PROVE  result'[r] = result[r]
  <1>1. ASSUME NEW c \in Conns, HandlerStep(c) PROVE result'[r] = result[r]
    <2>1. CASE HandleCancelDrain(c)
      BY <2>1, DrainKeepsAnswers DEF HandleCancelDrain
    <2>2. CASE HandleShutdownDrain(c)
      BY <2>2, DrainKeepsAnswers DEF HandleShutdownDrain
    <2>3. CASE ~HandleCancelDrain(c) /\ ~HandleShutdownDrain(c)
      BY <1>1, <2>3
      DEF HandlerStep, HandleInspect, HandleSendAllocate, HandleSendPut, HandleSendFull,
          HandleSendAck, HandleSendResult, HandleCancel, HandleShutdownCancel,
          HandleShutdownAck, HandleStopRunning, HandleResult
    <2> QED
      BY <2>1, <2>2, <2>3
  <1>2. ASSUME WorkerStep \/ WorkerRaise PROVE result'[r] = result[r]
    <2>1. CASE WorkerAnswer
      BY <2>1, HeldIsOpen DEF WorkerAnswer, WorkerGoto, Holding, AccountInv, TypeInv, TypeOK
    <2>2. CASE WorkerTake
      BY <2>2, HeldIsOpen DEF WorkerTake, WorkerGoto, Holding
    <2>3. CASE ~WorkerAnswer /\ ~WorkerTake
      BY <1>2, <2>3
      DEF WorkerStep, WorkerTest, WorkerGet, WorkerGetEmpty, WorkerRaise, WorkerDispatch,
          WorkerCheckCancelled, WorkerAppendUser, WorkerAppendAssistant,
          WorkerSaveState, WorkerStore
    <2> QED
      BY <2>1, <2>2, <2>3
  <1>3. ASSUME NEW c \in Conns, MainAccept(c) PROVE result'[r] = result[r]
    BY <1>3 DEF MainAccept
  <1>4. ASSUME MainStep \/ Sigterm PROVE result'[r] = result[r]
    <2>1. CASE MainDrain
      BY <2>1, DrainKeepsAnswers DEF MainDrain
    <2>2. CASE ~MainDrain
      BY <1>4, <2>2 DEF MainStep, MainTest, MainAcceptTimeout, MainCancel, MainExit, Sigterm
    <2> QED
      BY <2>1, <2>2
  <1>5. ASSUME UNCHANGED vars PROVE result'[r] = result[r]
    BY <1>5 DEF vars
  <1> QED
    BY <1>1, <1>2, <1>3, <1>4, <1>5 DEF Next

\* An answer is never overwritten: the waiting handler, a later "result" action and
\* the drains of cancel, shutdown and exit all agree on it.
THEOREM AnswersAreFinal == Spec => AnsweredOnce
  <1>1. AccountInv /\ [Next]_vars
          => [\A r \in Conns : result[r] # "none" => result'[r] = result[r]]_vars
    BY AnswerStep
  <1> QED
    BY AccountCorrect, <1>1, PTL DEF Spec, AnsweredOnce

-----------------------------------------------------------------------------
(* A cancel hits the request it was meant for *)

\* From the take to the store a request is current, and at no other time.
Serving == {"dispatch", "check", "user", "assistant", "save", "answer", "store", "dead"}
CurrentIsServed == current = IF wpc \in Serving THEN wreq ELSE None

\* When the event is set while a request is current, it was set for that request;
\* so was the event that the worker saw.
EventHitsCurrent == cancelEvent /\ current # None => current \in hit
FlagHitsHeld == cancelled /\ wpc \in {"user", "assistant", "save", "answer"} => wreq \in hit

CancelInv ==
    /\ AccountInv
    /\ CurrentIsServed
    /\ EventHitsCurrent
    /\ FlagHitsHeld
    /\ CancelIsolated

LEMMA CancelInit == Init => CancelInv
  BY AccountInit DEF Init, CancelInv, CurrentIsServed, EventHitsCurrent, FlagHitsHeld,
                     CancelIsolated, Serving

\* A step of another thread than the worker: it may set the event for the current
\* request, and it answers no request "cancelled".
LEMMA CancelOthers ==
  ASSUME CancelInv, AccountInv', UNCHANGED <<current, wpc, wreq, cancelled>>,
         \/ UNCHANGED <<cancelEvent, hit>>
         \/ current = None /\ hit' = hit
         \/ hit' = hit \cup Current,
         \A r \in Conns : result'[r] = "cancelled" => result[r] = "cancelled"
  PROVE  CancelInv'
  BY DEF CancelInv, CurrentIsServed, EventHitsCurrent, FlagHitsHeld, CancelIsolated, Current

\* A draining loop answers "withdrawn".
LEMMA DrainWithdraws ==
  ASSUME AccountInv, NEW at, NEW after, NEW to, Drain(at, after, to)
  PROVE  \A r \in Conns : result'[r] = "cancelled" => result[r] = "cancelled"
  BY DEF Drain, AccountInv, TypeInv, TypeOK

LEMMA CancelStep == CancelInv /\ [Next]_vars => CancelInv'
  <1> SUFFICES ASSUME CancelInv, [Next]_vars PROVE CancelInv'
    OBVIOUS
  <1>0. AccountInv /\ AccountInv'
    BY AccountStep DEF CancelInv
  <1>1. ASSUME NEW c \in Conns, HandlerStep(c) PROVE CancelInv'
    <2> USE DEF ctxVars, workerVars, ghostVars
    <2>1. CASE HandleCancelDrain(c) \/ HandleShutdownDrain(c)
      <3>1. \A r \in Conns : result'[r] = "cancelled" => result[r] = "cancelled"
        BY <1>0, <2>1, DrainWithdraws DEF HandleCancelDrain, HandleShutdownDrain
      <3>2. UNCHANGED <<current, wpc, wreq, cancelled, cancelEvent, hit>>
        BY <2>1 DEF HandleCancelDrain, HandleShutdownDrain
      <3> QED
        BY <1>0, <3>1, <3>2, CancelOthers
    <2>2. CASE HandleCancel(c) \/ HandleShutdownCancel(c)
      <3>1. /\ UNCHANGED <<current, wpc, wreq, cancelled, result>>
            /\ UNCHANGED <<cancelEvent, hit>> \/ hit' = hit \cup Current
        BY <2>2 DEF HandleCancel, HandleShutdownCancel
      <3> QED
        BY <1>0, <3>1, CancelOthers
    <2>3. CASE \/ HandleInspect(c) \/ HandleSendAllocate(c) \/ HandleSendPut(c)
               \/ HandleSendFull(c) \/ HandleSendAck(c) \/ HandleSendResult(c)
               \/ HandleShutdownAck(c) \/ HandleStopRunning(c) \/ HandleResult(c)
      <3>1. UNCHANGED <<current, wpc, wreq, cancelled, cancelEvent, hit, result>>
        BY <2>3 DEF HandleInspect, HandleSendAllocate, HandleSendPut, HandleSendFull,
                    HandleSendAck, HandleSendResult, HandleShutdownAck,
                    HandleStopRunning, HandleResult
      <3> QED
        BY <1>0, <3>1, CancelOthers
    <2> QED
      BY <1>1, <2>1, <2>2, <2>3 DEF HandlerStep
  <1>2. ASSUME WorkerStep \/ WorkerRaise PROVE CancelInv'
    <2> USE DEF WorkerGoto, Serving, CancelInv, CurrentIsServed, EventHitsCurrent,
                FlagHitsHeld, CancelIsolated, ctxVars, ghostVars
    <2>1. CASE WorkerTest \/ WorkerGet \/ WorkerGetEmpty \/ WorkerRaise \/ WorkerDispatch
      BY <1>0, <2>1 DEF WorkerTest, WorkerGet, WorkerGetEmpty, WorkerRaise, WorkerDispatch
    <2>2. CASE WorkerTake
      <3>1. result[wreq] # "withdrawn"
        BY <1>0, <2>2, HeldIsOpen DEF WorkerTake, Holding
      <3> QED
        BY <1>0, <2>2, <3>1 DEF WorkerTake, MakeCurrent
    <2>3. CASE WorkerCheckCancelled
      <3>1. wreq # None /\ current = wreq
        BY <1>0, <2>3, HeldIsOpen, ConnsAssumption DEF WorkerCheckCancelled, Holding
      <3> QED
        BY <1>0, <2>3, <3>1 DEF WorkerCheckCancelled
    <2>4. CASE WorkerAppendUser \/ WorkerAppendAssistant \/ WorkerSaveState
      BY <1>0, <2>4 DEF WorkerAppendUser, WorkerAppendAssistant, WorkerSaveState
    <2>5. CASE WorkerAnswer
      <3>1. Response = "cancelled" => wreq \in hit
        BY <1>0, <2>5 DEF WorkerAnswer, Response, AccountInv, TypeInv, TypeOK, Outcomes
      <3>2. \A r \in Conns : result'[r] = IF r = wreq THEN Response ELSE result[r]
        BY <1>0, <2>5 DEF WorkerAnswer, AccountInv, TypeInv, TypeOK
      <3> QED
        BY <1>0, <2>5, <3>1, <3>2 DEF WorkerAnswer
    <2>6. CASE WorkerStore
      BY <1>0, <2>6 DEF WorkerStore
    <2> QED
      BY <1>2, <2>1, <2>2, <2>3, <2>4, <2>5, <2>6 DEF WorkerStep
  <1>3. ASSUME NEW c \in Conns, MainAccept(c) PROVE CancelInv'
    BY <1>0, <1>3, CancelOthers DEF MainAccept, ctxVars, workerVars, ghostVars
  <1>4. ASSUME MainStep \/ Sigterm PROVE CancelInv'
    <2> USE DEF ctxVars, workerVars, ghostVars
    <2>1. CASE MainDrain
      <3>1. \A r \in Conns : result'[r] = "cancelled" => result[r] = "cancelled"
        BY <1>0, <2>1, DrainWithdraws DEF MainDrain
      <3> QED
        BY <1>0, <2>1, <3>1, CancelOthers DEF MainDrain
    <2>2. CASE MainCancel
      BY <1>0, <2>2, CancelOthers DEF MainCancel
    <2>3. CASE MainTest \/ MainAcceptTimeout \/ MainExit \/ Sigterm
      BY <1>0, <2>3, CancelOthers DEF MainTest, MainAcceptTimeout, MainExit, Sigterm
    <2> QED
      BY <1>4, <2>1, <2>2, <2>3 DEF MainStep
  <1>5. ASSUME UNCHANGED vars PROVE CancelInv'
    BY <1>0, <1>5, CancelOthers DEF vars, ctxVars, workerVars, ghostVars
  <1> QED
    BY <1>1, <1>2, <1>3, <1>4, <1>5 DEF Next

\* A request answered "cancelled" was the current one when some cancel, shutdown or
\* exit set the event: no request is cancelled by what was meant for another.
THEOREM CancelHitsItsTarget == Spec => []CancelIsolated
  <1>1. CancelInv => CancelIsolated
    BY DEF CancelInv
  <1> QED
    BY CancelInit, CancelStep, <1>1, PTL DEF Spec

-----------------------------------------------------------------------------
(* The transcript holds the turns that were answered "ok", each whole and once *)

\* The parts of TranscriptMatchesAnswers, and what they need of the turn in hand:
\* where its user line is, and at each place of the worker whether its turn is
\* recorded already, and then for what outcome.
HistoryShape ==
    \/ Len(history) = 2 * turnCount
    \/ Len(history) = 2 * turnCount + 1 /\ wpc \in {"assistant", "dead"}
WholeTurns == \A i \in 1..turnCount : \E r \in Conns : TurnOf(r, i)
OneTurnEach ==
    \A i, j \in 1..turnCount : history[2 * i].req = history[2 * j].req => i = j
OkIsRecorded == \A r \in Conns : result[r] = "ok" => InTranscript(r)
RecordedIsOk ==
    \A r \in Conns : InTranscript(r) =>
        result[r] = "ok" \/ (Holding /\ wreq = r /\ result[r] = "none")

UserLineWritten ==
    wpc = "assistant" =>
        /\ Len(history) = 2 * turnCount + 1
        /\ history[2 * turnCount + 1] = [role |-> "user", req |-> wreq]
NotYetRecorded ==
    wpc \in {"take", "dispatch", "check", "user", "assistant"} => ~InTranscript(wreq)
Records == outcome = "ok" /\ ~cancelled
RecordsWhenWriting == wpc \in {"user", "assistant"} => Records
RecordedWhenOk == wpc \in {"save", "answer"} => (InTranscript(wreq) <=> Records)

TranscriptInv ==
    /\ AccountInv
    /\ HistoryShape /\ WholeTurns /\ OneTurnEach /\ OkIsRecorded /\ RecordedIsOk
    /\ UserLineWritten /\ NotYetRecorded /\ RecordsWhenWriting /\ RecordedWhenOk

LEMMA TranscriptInit == Init => TranscriptInv
  <1> SUFFICES ASSUME Init PROVE TranscriptInv
    OBVIOUS
  <1>1. AccountInv
    BY AccountInit
  <1>2. history = <<>> /\ turnCount = 0 /\ wpc = "test" /\ \A r \in Conns : result[r] = "none"
    BY DEF Init
  <1>3. Len(history) = 2 * turnCount /\ 1..turnCount = {}
    BY <1>2
  <1>4. HistoryShape /\ WholeTurns /\ OneTurnEach /\ OkIsRecorded /\ RecordedIsOk
    BY <1>2, <1>3 DEF HistoryShape, WholeTurns, OneTurnEach, OkIsRecorded, RecordedIsOk, InTranscript
  <1>5. UserLineWritten /\ NotYetRecorded /\ RecordsWhenWriting /\ RecordedWhenOk
    BY <1>2 DEF UserLineWritten, NotYetRecorded, RecordsWhenWriting, RecordedWhenOk
  <1> QED
    BY <1>1, <1>4, <1>5 DEF TranscriptInv

\* As long as no line is written the turns are what they were.
LEMMA TurnsKept ==
  ASSUME UNCHANGED <<history, turnCount>>
  PROVE  /\ \A r : InTranscript(r)' <=> InTranscript(r)
         /\ WholeTurns' <=> WholeTurns
         /\ OneTurnEach' <=> OneTurnEach
  BY DEF InTranscript, TurnOf, WholeTurns, OneTurnEach

\* A step that is not the worker's may withdraw a request that is in nobody's hands,
\* which has no turn.
LEMMA TranscriptOthers ==
  ASSUME TranscriptInv, AccountInv',
         UNCHANGED <<history, turnCount, wpc, wreq, outcome, cancelled>>,
         \A r \in Conns : result'[r] # result[r] =>
            result'[r] = "withdrawn" /\ result[r] = "none" /\ ~(Holding /\ wreq = r)
  PROVE  TranscriptInv'
  <1>1. \A r : InTranscript(r)' <=> InTranscript(r)
    BY TurnsKept
  <1>2. WholeTurns' /\ OneTurnEach'
    BY TurnsKept DEF TranscriptInv
  <1>3. HistoryShape' /\ UserLineWritten'
    BY DEF TranscriptInv, HistoryShape, UserLineWritten
  <1>4. OkIsRecorded'
    BY <1>1 DEF TranscriptInv, OkIsRecorded
  <1>5. RecordedIsOk'
    BY <1>1 DEF TranscriptInv, RecordedIsOk, Holding
  <1>6. NotYetRecorded'
    BY <1>1 DEF TranscriptInv, NotYetRecorded
  <1>7. RecordsWhenWriting' /\ RecordedWhenOk'
    BY <1>1, Zenon DEF TranscriptInv, RecordsWhenWriting, RecordedWhenOk, Records
  <1> QED
    BY <1>2, <1>3, <1>4, <1>5, <1>6, <1>7 DEF TranscriptInv

\* A draining loop withdraws an open request that the worker does not hold.
LEMMA DrainAnswers ==
  ASSUME AccountInv, NEW at, NEW after, NEW to, Drain(at, after, to)
  PROVE  \A r \in Conns : result'[r] # result[r] =>
            result'[r] = "withdrawn" /\ result[r] = "none" /\ ~(Holding /\ wreq = r)
  <1>1. CASE queue = <<>>
    BY <1>1 DEF Drain
  <1>2. CASE queue # <<>>
    <2>1. result' = [result EXCEPT ![Head(queue)] = "withdrawn"] /\ result \in [Conns -> Results]
      BY <1>2 DEF Drain, AccountInv, TypeInv, TypeOK
    <2> QED
      BY <1>2, <2>1, HeadIsOpen
  <1> QED
    BY <1>1, <1>2

\* The worker takes the head of the line: an open request, without a turn.
LEMMA TranscriptGet ==
  ASSUME TranscriptInv, AccountInv', WorkerGet
  PROVE  TranscriptInv'
  <1>1. /\ UNCHANGED <<history, turnCount, result>> /\ wpc = "get" /\ wpc' = "take"
        /\ wreq' = Head(queue) /\ queue # <<>> /\ ~Holding /\ Holding'
    BY DEF WorkerGet, WorkerGoto, Holding, fileVars
  <1>2. wreq' \in Conns /\ result[wreq'] = "none"
    BY <1>1, HeadIsOpen DEF TranscriptInv, AccountInv, TypeInv, WorkerHasRequest
  <1>3. \A r : InTranscript(r)' <=> InTranscript(r)
    BY <1>1, TurnsKept
  <1>4. ~InTranscript(wreq')
    BY <1>1, <1>2 DEF TranscriptInv, RecordedIsOk
  <1>5. NotYetRecorded'
    BY <1>1, <1>4 DEF NotYetRecorded, InTranscript, TurnOf
  <1>6. WholeTurns' /\ OneTurnEach'
    BY <1>1, TurnsKept DEF TranscriptInv
  <1>7. HistoryShape' /\ UserLineWritten' /\ RecordsWhenWriting' /\ RecordedWhenOk'
    BY <1>1 DEF TranscriptInv, HistoryShape, UserLineWritten, RecordsWhenWriting, RecordedWhenOk
  <1>8. OkIsRecorded' /\ RecordedIsOk'
    BY <1>1, <1>3 DEF TranscriptInv, OkIsRecorded, RecordedIsOk
  <1> QED
    BY <1>5, <1>6, <1>7, <1>8 DEF TranscriptInv

\* What the worker does before it knows whether the turn is recorded.
LEMMA TranscriptBeforeCheck ==
  ASSUME TranscriptInv, AccountInv',
         WorkerTake \/ WorkerDispatch \/ WorkerTest \/ WorkerGetEmpty
  PROVE  TranscriptInv'
  <1>1. /\ UNCHANGED <<history, turnCount, result, wreq>>
        /\ Holding' <=> Holding
        /\ wpc \in {"take", "dispatch"} <=> wpc' \in {"dispatch", "check"}
        /\ wpc \notin {"assistant", "dead"}
        /\ wpc' \notin {"take", "user", "assistant", "save", "answer"}
    <2>1. CASE WorkerTake
      <3>1. result[wreq] # "withdrawn"
        BY <2>1, HeldIsOpen DEF TranscriptInv, WorkerTake, WorkerGoto, Holding
      <3> QED
        BY <2>1, <3>1 DEF WorkerTake, WorkerGoto, Holding, fileVars
    <2>2. CASE WorkerDispatch \/ WorkerTest \/ WorkerGetEmpty
      BY <2>2 DEF WorkerDispatch, WorkerTest, WorkerGetEmpty, WorkerGoto, Holding, fileVars
    <2> QED
      BY <2>1, <2>2
  <1>2. \A r : InTranscript(r)' <=> InTranscript(r)
    BY <1>1, TurnsKept
  <1>3. WholeTurns' /\ OneTurnEach'
    BY <1>1, TurnsKept DEF TranscriptInv
  <1>4. HistoryShape' /\ UserLineWritten' /\ RecordsWhenWriting' /\ RecordedWhenOk'
    BY <1>1 DEF TranscriptInv, HistoryShape, UserLineWritten, RecordsWhenWriting, RecordedWhenOk
  <1>5. OkIsRecorded' /\ RecordedIsOk'
    BY <1>1, <1>2 DEF TranscriptInv, OkIsRecorded, RecordedIsOk
  <1>6. NotYetRecorded'
    BY <1>1, <1>2 DEF TranscriptInv, NotYetRecorded
  <1> QED
    BY <1>3, <1>4, <1>5, <1>6 DEF TranscriptInv

\* The check under the lock decides, for good, whether the turn is recorded.
LEMMA TranscriptCheck ==
  ASSUME TranscriptInv, AccountInv', WorkerCheckCancelled
  PROVE  TranscriptInv'
  <1>1. /\ UNCHANGED <<history, turnCount, result, wreq, outcome>>
        /\ wpc = "check" /\ wpc' = (IF RecordsTurn THEN "user" ELSE "save")
        /\ cancelled' = cancelEvent
        /\ Holding /\ Holding'
    BY DEF WorkerCheckCancelled, WorkerGoto, Holding, fileVars
  <1>2. \A r : InTranscript(r)' <=> InTranscript(r)
    BY <1>1, TurnsKept
  <1>3. WholeTurns' /\ OneTurnEach'
    BY <1>1, TurnsKept DEF TranscriptInv
  <1>4. HistoryShape' /\ UserLineWritten'
    BY <1>1 DEF TranscriptInv, HistoryShape, UserLineWritten
  <1>5. OkIsRecorded' /\ RecordedIsOk'
    BY <1>1, <1>2 DEF TranscriptInv, OkIsRecorded, RecordedIsOk
  <1>6. ~InTranscript(wreq)'
    BY <1>1, <1>2 DEF TranscriptInv, NotYetRecorded
  <1>7. Records' <=> RecordsTurn
    BY <1>1, Zenon DEF Records, RecordsTurn
  <1>8. NotYetRecorded' /\ RecordsWhenWriting' /\ RecordedWhenOk'
    BY <1>1, <1>6, <1>7 DEF NotYetRecorded, RecordsWhenWriting, RecordedWhenOk
  <1> QED
    BY <1>3, <1>4, <1>5, <1>8 DEF TranscriptInv

\* A line is written at the end, and moves no other.
LEMMA AppendKeeps ==
  ASSUME TypeOK, NEW e \in [role : {"user", "assistant"}, req : Conns],
         history' = Append(history, e)
  PROVE  /\ Len(history') = Len(history) + 1 /\ Len(history) \in Nat
         /\ history'[Len(history) + 1] = e
         /\ \A i \in 1..Len(history) : history'[i] = history[i]
  <1>1. history \in Seq([role : {"user", "assistant"}, req : Conns])
    BY DEF TypeOK
  <1> QED
    BY <1>1, AppendProperties

LEMMA TranscriptUser ==
  ASSUME TranscriptInv, AccountInv', WorkerAppendUser
  PROVE  TranscriptInv'
  <1>1. /\ UNCHANGED <<turnCount, result, wreq, outcome, cancelled>>
        /\ history' = Append(history, [role |-> "user", req |-> wreq])
        /\ wpc = "user" /\ wpc' = "assistant" /\ Holding /\ Holding'
    BY DEF WorkerAppendUser, WorkerGoto, Holding
  <1>2. TypeOK /\ wreq \in Conns
    BY <1>1 DEF TranscriptInv, AccountInv, TypeInv, WorkerHasRequest
  <1>3. turnCount \in Nat
    BY <1>2 DEF TypeOK
  <1>4. Len(history) = 2 * turnCount
    BY <1>1 DEF TranscriptInv, HistoryShape
  <1>5. /\ Len(history') = 2 * turnCount + 1
        /\ history'[2 * turnCount + 1] = [role |-> "user", req |-> wreq]
        /\ \A i \in 1..(2 * turnCount) : history'[i] = history[i]
    BY <1>1, <1>2, <1>4, AppendKeeps
  <1>6. \A i \in 1..turnCount : /\ history'[2 * i - 1] = history[2 * i - 1]
                                /\ history'[2 * i] = history[2 * i]
    BY <1>3, <1>5
  <1>7. \A r : InTranscript(r)' <=> InTranscript(r)
    BY <1>1, <1>6 DEF InTranscript, TurnOf
  <1>8. WholeTurns' /\ OneTurnEach'
    <2>1. \A i \in 1..turnCount : \A r : TurnOf(r, i)' <=> TurnOf(r, i)
      BY <1>6 DEF TurnOf
    <2>2. WholeTurns'
      BY <1>1, <2>1 DEF TranscriptInv, WholeTurns
    <2>3. OneTurnEach'
      BY <1>1, <1>6 DEF TranscriptInv, OneTurnEach
    <2> QED
      BY <2>2, <2>3
  <1>9. HistoryShape' /\ UserLineWritten'
    BY <1>1, <1>5 DEF HistoryShape, UserLineWritten
  <1>10. OkIsRecorded' /\ RecordedIsOk'
    BY <1>1, <1>7 DEF TranscriptInv, OkIsRecorded, RecordedIsOk
  <1>11. NotYetRecorded'
    BY <1>1, <1>7 DEF TranscriptInv, NotYetRecorded
  <1>12. RecordsWhenWriting' /\ RecordedWhenOk'
    BY <1>1 DEF TranscriptInv, RecordsWhenWriting, RecordedWhenOk, Records
  <1> QED
    BY <1>8, <1>9, <1>10, <1>11, <1>12 DEF TranscriptInv

\* With the assistant's line the request in hand has its turn, the last one, and
\* no other request has a new one.
LEMMA TurnWritten ==
  ASSUME TranscriptInv, WorkerAppendAssistant
  PROVE  /\ turnCount \in Nat /\ turnCount' = turnCount + 1
         /\ Len(history') = 2 * turnCount'
         /\ wreq \in Conns
         /\ \A r : \A i \in 1..turnCount : TurnOf(r, i)' <=> TurnOf(r, i)
         /\ \A i \in 1..turnCount : history'[2 * i] = history[2 * i]
         /\ TurnOf(wreq, turnCount)'
         /\ history'[2 * turnCount'].req = wreq
  <1>1. /\ turnCount' = turnCount + 1 /\ wreq' = wreq
        /\ history' = Append(history, [role |-> "assistant", req |-> wreq])
        /\ wpc = "assistant"
    BY DEF WorkerAppendAssistant, WorkerGoto
  <1>2. TypeOK /\ wreq \in Conns
    BY <1>1 DEF TranscriptInv, AccountInv, TypeInv, WorkerHasRequest, Holding
  <1>3. turnCount \in Nat
    BY <1>2 DEF TypeOK
  <1>4. /\ Len(history) = 2 * turnCount + 1
        /\ history[2 * turnCount + 1] = [role |-> "user", req |-> wreq]
    BY <1>1 DEF TranscriptInv, UserLineWritten
  <1>5. /\ Len(history') = 2 * turnCount + 2
        /\ history'[2 * turnCount + 2] = [role |-> "assistant", req |-> wreq]
        /\ \A i \in 1..(2 * turnCount + 1) : history'[i] = history[i]
    BY <1>1, <1>2, <1>3, <1>4, AppendKeeps
  <1>6. \A i \in 1..turnCount : /\ history'[2 * i - 1] = history[2 * i - 1]
                                /\ history'[2 * i] = history[2 * i]
    BY <1>3, <1>5
  <1>7. \A r : \A i \in 1..turnCount : TurnOf(r, i)' <=> TurnOf(r, i)
    BY <1>6 DEF TurnOf
  <1>8. history'[2 * turnCount + 1] = [role |-> "user", req |-> wreq]
    BY <1>3, <1>4, <1>5
  <1>9. TurnOf(wreq, turnCount)'
    <2>1. 2 * turnCount' = 2 * turnCount + 2 /\ 2 * turnCount' - 1 = 2 * turnCount + 1
      BY <1>1, <1>3
    <2> QED
      BY <1>1, <1>5, <1>8, <2>1 DEF TurnOf
  <1>10. Len(history') = 2 * turnCount' /\ 2 * turnCount + 2 = 2 * turnCount'
    BY <1>1, <1>3, <1>5
  <1>11. history'[2 * turnCount'].req = wreq
    BY <1>5, <1>10
  <1> QED
    BY <1>1, <1>2, <1>3, <1>6, <1>7, <1>9, <1>10, <1>11

LEMMA TranscriptAssistant ==
  ASSUME TranscriptInv, AccountInv', WorkerAppendAssistant
  PROVE  TranscriptInv'
  <1>1. /\ UNCHANGED <<result, wreq, outcome, cancelled>>
        /\ wpc = "assistant" /\ wpc' = "save" /\ Holding /\ Holding'
    BY DEF WorkerAppendAssistant, WorkerGoto, Holding
  <1>2. 1..turnCount' = 1..turnCount \cup {turnCount'} /\ turnCount' \in 1..turnCount'
    BY TurnWritten
  <1>3. \A r : InTranscript(r) => InTranscript(r)'
    BY <1>2, TurnWritten DEF InTranscript
  <1>4. InTranscript(wreq)'
    BY <1>1, <1>2, TurnWritten DEF InTranscript
  <1>5. \A r : InTranscript(r)' => InTranscript(r) \/ r = wreq
    <2> SUFFICES ASSUME NEW r, NEW i \in 1..turnCount', TurnOf(r, i)' PROVE InTranscript(r) \/ r = wreq
      BY DEF InTranscript
    <2>1. CASE i \in 1..turnCount
      BY <2>1, TurnWritten DEF InTranscript
    <2>2. CASE i = turnCount'
      <3>1. history'[2 * i] = [role |-> "assistant", req |-> r]
        BY DEF TurnOf
      <3> QED
        BY <2>2, <3>1, TurnWritten
    <2> QED
      BY <1>2, <2>1, <2>2
  <1>6. WholeTurns'
    <2>1. \A i \in 1..turnCount : \E r \in Conns : TurnOf(r, i)'
      BY TurnWritten DEF TranscriptInv, WholeTurns
    <2>2. \E r \in Conns : TurnOf(r, turnCount)'
      BY <1>1, TurnWritten
    <2> QED
      BY <1>2, <2>1, <2>2 DEF WholeTurns
  <1>7. OneTurnEach'
    <2>1. \A i \in 1..turnCount : history[2 * i].req # wreq
      <3> SUFFICES ASSUME NEW i \in 1..turnCount, history[2 * i].req = wreq PROVE FALSE
        OBVIOUS
      <3>1. PICK r \in Conns : TurnOf(r, i)
        BY DEF TranscriptInv, WholeTurns
      <3>2. r = wreq
        BY <3>1 DEF TurnOf
      <3> QED
        BY <1>1, <3>1, <3>2 DEF TranscriptInv, NotYetRecorded, InTranscript
    <2> QED
      BY <1>2, <2>1, TurnWritten DEF TranscriptInv, OneTurnEach
  <1>8. HistoryShape' /\ UserLineWritten' /\ NotYetRecorded' /\ RecordsWhenWriting'
    BY <1>1, TurnWritten DEF HistoryShape, UserLineWritten, NotYetRecorded, RecordsWhenWriting
  <1>9. OkIsRecorded'
    BY <1>1, <1>3 DEF TranscriptInv, OkIsRecorded
  <1>10. RecordedIsOk'
    BY <1>1, <1>5, HeldIsOpen DEF TranscriptInv, RecordedIsOk
  <1>11. Records'
    BY <1>1 DEF TranscriptInv, RecordsWhenWriting, Records
  <1>12. RecordedWhenOk'
    BY <1>4, <1>11 DEF RecordedWhenOk
  <1> QED
    BY <1>6, <1>7, <1>8, <1>9, <1>10, <1>12 DEF TranscriptInv

\* The answer says "ok" exactly when the turn was written.
LEMMA TranscriptAnswer ==
  ASSUME TranscriptInv, AccountInv', WorkerAnswer
  PROVE  TranscriptInv'
  <1>1. /\ UNCHANGED <<history, turnCount, wreq>> /\ wpc = "answer" /\ wpc' = "store"
        /\ result' = [result EXCEPT ![wreq] = Response] /\ Holding /\ ~Holding'
    BY DEF WorkerAnswer, WorkerGoto, Holding, fileVars
  <1>2. \A r : InTranscript(r)' <=> InTranscript(r)
    BY <1>1, TurnsKept
  <1>3. WholeTurns' /\ OneTurnEach'
    BY <1>1, TurnsKept DEF TranscriptInv
  <1>4. Response = "ok" <=> Records
    BY Zenon DEF Response, Records
  <1>5. \A r \in Conns : result'[r] = IF r = wreq THEN Response ELSE result[r]
    BY <1>1, HeldIsOpen DEF TranscriptInv, AccountInv, TypeInv, TypeOK
  <1>6. InTranscript(wreq) <=> Response = "ok"
    BY <1>1, <1>4 DEF TranscriptInv, RecordedWhenOk
  <1>7. OkIsRecorded'
    BY <1>2, <1>5, <1>6 DEF TranscriptInv, OkIsRecorded
  <1>8. RecordedIsOk'
    BY <1>1, <1>2, <1>5, <1>6 DEF TranscriptInv, RecordedIsOk
  <1>9. HistoryShape' /\ UserLineWritten' /\ NotYetRecorded' /\ RecordsWhenWriting' /\ RecordedWhenOk'
    BY <1>1 DEF TranscriptInv, HistoryShape, UserLineWritten, NotYetRecorded, RecordsWhenWriting, RecordedWhenOk
  <1> QED
    BY <1>3, <1>7, <1>8, <1>9 DEF TranscriptInv

\* The steps that end a turn, or the thread in the middle of it.
LEMMA TranscriptAfter ==
  ASSUME TranscriptInv, AccountInv', WorkerSaveState \/ WorkerStore \/ WorkerRaise
  PROVE  TranscriptInv'
  <1>1. /\ UNCHANGED <<history, turnCount, result>>
        /\ \A r \in Conns : Holding' /\ wreq' = r <=> Holding /\ wreq = r
        /\ wpc' \notin {"take", "dispatch", "check", "user", "assistant", "save"}
        /\ wpc \in {"assistant", "dead"} => wpc' = "dead"
    BY DEF WorkerSaveState, WorkerStore, WorkerRaise, WorkerGoto, Holding, fileVars
  <1>2. \A r : InTranscript(r)' <=> InTranscript(r)
    BY <1>1, TurnsKept
  <1>3. WholeTurns' /\ OneTurnEach'
    BY <1>1, TurnsKept DEF TranscriptInv
  <1>4. HistoryShape' /\ UserLineWritten' /\ NotYetRecorded' /\ RecordsWhenWriting'
    BY <1>1 DEF TranscriptInv, HistoryShape, UserLineWritten, NotYetRecorded, RecordsWhenWriting
  <1>5. OkIsRecorded' /\ RecordedIsOk'
    BY <1>1, <1>2 DEF TranscriptInv, OkIsRecorded, RecordedIsOk
  <1>6. RecordedWhenOk'
    <2>1. CASE WorkerSaveState
      <3>1. UNCHANGED <<wreq, outcome, cancelled>> /\ wpc = "save"
        BY <2>1 DEF WorkerSaveState, WorkerGoto
      <3>2. Records' <=> Records
        BY <3>1, Zenon DEF Records
      <3> QED
        BY <1>2, <3>1, <3>2 DEF TranscriptInv, RecordedWhenOk
    <2>2. CASE WorkerStore \/ WorkerRaise
      BY <2>2 DEF WorkerStore, WorkerRaise, WorkerGoto, RecordedWhenOk
    <2> QED
      BY <2>1, <2>2
  <1> QED
    BY <1>3, <1>4, <1>5, <1>6 DEF TranscriptInv

LEMMA TranscriptStep == TranscriptInv /\ [Next]_vars => TranscriptInv'
  <1> SUFFICES ASSUME TranscriptInv, [Next]_vars PROVE TranscriptInv'
    OBVIOUS
  <1>0. AccountInv /\ AccountInv'
    BY AccountStep DEF TranscriptInv
  <1>1. CASE WorkerStep \/ WorkerRaise
    BY <1>0, <1>1, TranscriptGet, TranscriptBeforeCheck, TranscriptCheck, TranscriptUser,
       TranscriptAssistant, TranscriptAnswer, TranscriptAfter
    DEF WorkerStep
  <1>2. CASE ~(WorkerStep \/ WorkerRaise)
    <2>1. UNCHANGED <<history, turnCount, wpc, wreq, outcome, cancelled>>
      BY <1>2 DEF Next, HandlerStep, HandleInspect, HandleSendAllocate, HandleSendPut,
          HandleSendFull, HandleSendAck, HandleSendResult, HandleCancel, HandleCancelDrain,
          HandleShutdownDrain, HandleShutdownCancel, HandleShutdownAck, HandleStopRunning,
          HandleResult, MainAccept, MainStep, MainTest, MainAcceptTimeout, MainDrain,
          MainCancel, MainExit, Sigterm, vars, workerVars, fileVars
    <2>2. UNCHANGED result \/ \E at, after, to : Drain(at, after, to)
      BY <1>2 DEF Next, HandlerStep, HandleInspect, HandleSendAllocate, HandleSendPut,
          HandleSendFull, HandleSendAck, HandleSendResult, HandleCancel, HandleCancelDrain,
          HandleShutdownDrain, HandleShutdownCancel, HandleShutdownAck, HandleStopRunning,
          HandleResult, MainAccept, MainStep, MainTest, MainAcceptTimeout, MainDrain,
          MainCancel, MainExit, Sigterm, vars
    <2>3. \A r \in Conns : result'[r] # result[r] =>
            result'[r] = "withdrawn" /\ result[r] = "none" /\ ~(Holding /\ wreq = r)
      BY <1>0, <2>2, DrainAnswers
    <2> QED
      BY <1>0, <2>1, <2>3, TranscriptOthers
  <1> QED
    BY <1>1, <1>2

\* The invariant, for any number of connections.
LEMMA TranscriptCorrect == Spec => []TranscriptInv
  BY TranscriptInit, TranscriptStep, PTL DEF Spec

\* history.jsonl holds whole turns only, one for each request that was answered "ok"
\* and none for any other, however cancels, drains and a dying worker cut in.
THEOREM TranscriptAgrees == Spec => []TranscriptMatchesAnswers
  <1>1. TranscriptInv => TranscriptMatchesAnswers
    BY DEF TranscriptInv, TranscriptMatchesAnswers, HistoryShape, WholeTurns, OneTurnEach,
           OkIsRecorded, RecordedIsOk
  <1> QED
    BY TranscriptCorrect, <1>1, PTL

-----------------------------------------------------------------------------
(* The store of results forgets the oldest ids first *)

\* The least-number principle, from the well-founded order of the natural numbers.
LEMMA LeastNumber ==
  ASSUME NEW T, T \subseteq Nat, T # {}
  PROVE  \E m \in T : \A k \in T : m <= k
  <1> DEFINE R == {ss \in Nat \X Nat : ss[1] < ss[2]}
  <1>1. IsWellFoundedOn(R, Nat)
    BY NatLessThanWellFounded DEF OpToRel
  <1>2. \A k, m \in T : k < m => <<k, m>> \in R
    OBVIOUS
  <1> HIDE DEF R
  <1>3. PICK m \in T : \A k \in T : ~ (<<k, m>> \in R)
    BY <1>1, WFMin
  <1>4. \A k \in T : ~(k < m)
    BY <1>2, <1>3
  <1>5. \A k \in T : m <= k
    BY <1>4
  <1> QED
    BY <1>5

\* Ids are given out once, and a request has one before the queue takes it.
IdsDiffer ==
    /\ \A r \in Conns : reqId[r] < nextId
    /\ \A r, s \in Conns : reqId[r] = reqId[s] /\ reqId[r] # 0 => r = s
    /\ \A c \in Conns : pc[c] = "put" => reqId[c] # 0
    /\ \A r \in accepted : reqId[r] # 0

\* Only an answered request is stored.
StoredAnswered ==
    /\ \A r \in stored : result[r] # "none"
    /\ wpc = "store" => result[wreq] # "none"

StoreInv ==
    /\ AccountInv
    /\ IdsDiffer
    /\ StoredAnswered
    /\ IsFiniteSet(completed)
    /\ CompletedAreLargestIds

LEMMA StoreInit == Init => StoreInv
  <1> SUFFICES ASSUME Init PROVE StoreInv
    OBVIOUS
  <1>1. AccountInv
    BY AccountInit
  <1>2. IdsDiffer /\ StoredAnswered
    BY DEF Init, IdsDiffer, StoredAnswered
  <1>3. completed = {} /\ stored = {}
    BY DEF Init
  <1>4. IsFiniteSet(completed) /\ Cardinality(completed) = 0
    BY <1>3, FS_EmptySet
  <1>5. CompletedAreLargestIds
    BY <1>3, <1>4, ResultsAssumption DEF CompletedAreLargestIds
  <1> QED
    BY <1>1, <1>2, <1>4, <1>5 DEF StoreInv

\* Evicting from a set one over its limit takes away its smallest id, and nothing else.
LEMMA EvictSmallest ==
  ASSUME NEW S, S \subseteq Conns, IsFiniteSet(S), Cardinality(S) > MaxCompletedResults,
         reqId \in [Conns -> Nat],
         \A r, s \in S : reqId[r] = reqId[s] => r = s
  PROVE  \E m \in S : /\ Evict(S) = S \ {m}
                      /\ \A s \in S \ {m} : reqId[m] < reqId[s]
  <1>1. S # {}
    BY FS_EmptySet, ResultsAssumption
  <1> DEFINE T == {reqId[r] : r \in S}
  <1>2. T \subseteq Nat /\ T # {}
    BY <1>1
  <1>3. PICK k \in T : \A n \in T : k <= n
    BY <1>2, LeastNumber
  <1>4. PICK m \in S : k = reqId[m]
    OBVIOUS
  <1>5. \A s \in S : reqId[m] <= reqId[s]
    BY <1>3, <1>4
  <1>6. \A s \in S \ {m} : reqId[m] < reqId[s]
    <2> SUFFICES ASSUME NEW s \in S \ {m} PROVE reqId[m] < reqId[s]
      OBVIOUS
    <2>1. reqId[m] \in Nat /\ reqId[s] \in Nat /\ reqId[m] # reqId[s] /\ reqId[m] <= reqId[s]
      BY <1>5
    <2> QED
      BY <2>1
  <1>7. {r \in S : \A s \in S : reqId[r] <= reqId[s]} = {m}
    <2>1. \A r \in S \ {m} : ~(reqId[r] <= reqId[m])
      <3> SUFFICES ASSUME NEW r \in S \ {m} PROVE ~(reqId[r] <= reqId[m])
        OBVIOUS
      <3>1. reqId[m] \in Nat /\ reqId[r] \in Nat /\ reqId[m] < reqId[r]
        BY <1>6
      <3> QED
        BY <3>1
    <2> QED
      BY <1>5, <2>1
  <1>8. Evict(S) = S \ {m}
    BY <1>7 DEF Evict
  <1> QED
    BY <1>6, <1>8

\* Steps that store nothing.
LEMMA StoreFrame ==
  ASSUME StoreInv, AccountInv', IdsDiffer', UNCHANGED <<completed, stored>>,
         \A r \in stored : reqId'[r] = reqId[r],
         StoredAnswered'
  PROVE  StoreInv'
  <1>1. IsFiniteSet(completed')
    BY DEF StoreInv
  <1>2. Cardinality(completed') = Cardinality(completed)
    OBVIOUS
  <1>3. CompletedAreLargestIds'
    BY <1>2 DEF StoreInv, CompletedAreLargestIds
  <1> QED
    BY <1>1, <1>3 DEF StoreInv

\* A stored request, and the one about to be stored, has an id, which no step changes.
LEMMA StoredHasId ==
  ASSUME StoreInv
  PROVE  /\ stored \subseteq accepted
         /\ wpc = "store" => wreq \in accepted
         /\ accepted \subseteq Conns
         /\ reqId \in [Conns -> Nat]
  BY DEF StoreInv, StoredAnswered, AccountInv, AnsweredAccepted, TypeInv, TypeOK, WorkerHasRequest

LEMMA StoreStore ==
  ASSUME StoreInv, AccountInv', WorkerStore
  PROVE  StoreInv'
  <1>1. /\ completed' = Evict(completed \cup {wreq}) /\ stored' = stored \cup {wreq}
        /\ wpc = "store" /\ wpc' = "test"
        /\ UNCHANGED <<result, reqId, nextId, pc, accepted>>
    BY DEF WorkerStore, WorkerGoto, handlerVars
  <1>2. IdsDiffer'
    BY <1>1 DEF StoreInv, IdsDiffer
  <1>3. StoredAnswered'
    BY <1>1 DEF StoreInv, StoredAnswered
  <1> DEFINE S == completed \cup {wreq}
  <1>4. /\ completed \subseteq stored /\ stored \subseteq accepted /\ wreq \in accepted
        /\ accepted \subseteq Conns /\ reqId \in [Conns -> Nat]
    BY <1>1, StoredHasId DEF StoreInv, CompletedAreLargestIds
  <1>5. \A r, s \in accepted : reqId[r] = reqId[s] => r = s
    BY <1>4 DEF StoreInv, IdsDiffer
  <1>6. /\ IsFiniteSet(S) /\ Cardinality(S) \in Nat /\ Cardinality(completed) \in Nat
        /\ Cardinality(S) = IF wreq \in completed THEN Cardinality(completed)
                                                  ELSE Cardinality(completed) + 1
    BY FS_AddElement, FS_CardinalityType DEF StoreInv
  <1>7. Cardinality(completed) <= MaxCompletedResults /\ MaxCompletedResults \in Nat
    BY ResultsAssumption DEF StoreInv, CompletedAreLargestIds
  <1>8. completed # stored =>
          /\ Cardinality(completed) = MaxCompletedResults
          /\ \A r \in stored \ completed, s \in completed : reqId[r] < reqId[s]
    BY DEF StoreInv, CompletedAreLargestIds
  <1>9. IsFiniteSet(completed') /\ CompletedAreLargestIds'
    <2>1. CASE Cardinality(S) <= MaxCompletedResults
      <3>1. completed' = S
        BY <1>1, <1>6, <1>7, <2>1 DEF Evict
      <3>2. completed = stored \/ wreq \in completed
        BY <1>6, <1>7, <1>8, <2>1
      <3>3. completed' # stored' => completed # stored /\ S = completed
        BY <1>1, <3>1, <3>2
      <3>4. stored' \ completed' \subseteq stored \ completed
        BY <1>1, <3>1
      <3> QED
        BY <1>1, <1>4, <1>6, <1>8, <2>1, <3>1, <3>3, <3>4 DEF CompletedAreLargestIds
    <2>2. CASE Cardinality(S) > MaxCompletedResults
      <3>1. wreq \notin completed /\ Cardinality(S) = MaxCompletedResults + 1
        BY <1>6, <1>7, <2>2
      <3>2. S \subseteq accepted /\ S \subseteq Conns
        BY <1>4
      <3>3. \A r, s \in S : reqId[r] = reqId[s] => r = s
        BY <1>5, <3>2
      <3>4. PICK m \in S : /\ completed' = S \ {m}
                           /\ \A s \in S \ {m} : reqId[m] < reqId[s]
        <4> HIDE DEF S
        <4> QED
          BY <1>1, <1>4, <1>6, <2>2, <3>2, <3>3, EvictSmallest DEF S
      <3>5. IsFiniteSet(completed') /\ Cardinality(completed') = MaxCompletedResults
        <4> HIDE DEF S
        <4>1. IsFiniteSet(S \ {m}) /\ Cardinality(S \ {m}) = Cardinality(S) - 1
          BY <1>6, FS_RemoveElement
        <4> QED
          BY <1>7, <3>1, <3>4, <4>1
      <3>6. completed' \subseteq stored'
        BY <1>1, <1>4, <3>4
      <3>7. \A r \in stored' \ completed', s \in completed' : reqId'[r] < reqId'[s]
        <4> SUFFICES ASSUME NEW r \in stored' \ completed', NEW s \in completed'
                     PROVE  reqId[r] < reqId[s]
          BY <1>1
        <4>1. s \in S \ {m} /\ (r = m \/ r \in stored \ completed)
          BY <1>1, <3>4
        <4>2. CASE r = m
          BY <3>4, <4>1, <4>2
        <4>3. CASE r \in stored \ completed /\ r # m
          <5>1. \A t \in completed : reqId[r] < reqId[t]
            BY <1>8, <4>3
          <5>2. CASE s \in completed
            BY <5>1, <5>2
          <5>3. CASE s = wreq /\ m # wreq
            <6>1. reqId[r] < reqId[m] /\ reqId[m] < reqId[s]
              BY <3>4, <4>1, <5>1, <5>3
            <6>2. reqId[r] \in Nat /\ reqId[m] \in Nat /\ reqId[s] \in Nat
              BY <1>4, <3>2, <4>1, <4>3
            <6> QED
              BY <6>1, <6>2
          <5> QED
            BY <4>1, <5>2, <5>3
        <4> QED
          BY <4>1, <4>2, <4>3
      <3>8. Cardinality(completed') <= MaxCompletedResults
        BY <1>7, <3>5
      <3> QED
        BY <3>5, <3>6, <3>7, <3>8 DEF CompletedAreLargestIds
    <2> QED
      BY <1>6, <1>7, <2>1, <2>2
  <1> QED
    BY <1>2, <1>3, <1>9 DEF StoreInv

LEMMA IdsStep ==
  ASSUME StoreInv, [Next]_vars
  PROVE  /\ IdsDiffer'
         /\ \A r \in accepted : reqId'[r] = reqId[r]
  <1>1. /\ reqId \in [Conns -> Nat] /\ pc \in [Conns -> HandlerPcs]
        /\ nextId \in Nat \ {0} /\ FreshUntilPut /\ accepted \subseteq Conns
    BY DEF StoreInv, AccountInv, TypeInv, TypeOK
  <1>2. ASSUME NEW c \in Conns, HandleSendAllocate(c)
        PROVE  IdsDiffer' /\ \A r \in accepted : reqId'[r] = reqId[r]
    <2>1. /\ pc[c] = "open" /\ c \notin accepted
          /\ reqId' = [reqId EXCEPT ![c] = nextId] /\ nextId' = nextId + 1
          /\ pc' = [pc EXCEPT ![c] = "put"] /\ UNCHANGED accepted
      BY <1>1, <1>2 DEF HandleSendAllocate, Goto, FreshUntilPut, Fresh, ghostVars
    <2>2. \A r \in Conns : reqId'[r] = IF r = c THEN nextId ELSE reqId[r]
      BY <1>1, <2>1
    <2>3. \A r \in Conns : pc'[r] = "put" => r = c \/ pc[r] = "put"
      BY <1>1, <2>1
    <2>4. \A r \in Conns : reqId[r] < nextId /\ reqId[r] \in Nat
      BY <1>1 DEF StoreInv, IdsDiffer
    <2>5. \A r \in Conns : reqId'[r] < nextId'
      BY <1>1, <2>1, <2>2, <2>4
    <2>6. \A r, s \in Conns : reqId'[r] = reqId'[s] /\ reqId'[r] # 0 => r = s
      BY <1>1, <2>2, <2>4 DEF StoreInv, IdsDiffer
    <2>7. \A r \in Conns : pc'[r] = "put" => reqId'[r] # 0
      BY <1>1, <2>2, <2>3 DEF StoreInv, IdsDiffer
    <2>8. \A r \in accepted : reqId'[r] = reqId[r]
      BY <1>1, <2>1, <2>2
    <2>9. \A r \in accepted' : reqId'[r] # 0
      BY <2>1, <2>8 DEF StoreInv, IdsDiffer
    <2> QED
      BY <2>5, <2>6, <2>7, <2>8, <2>9 DEF IdsDiffer
  <1>3. ASSUME NEW c \in Conns, HandleSendPut(c)
        PROVE  IdsDiffer' /\ \A r \in accepted : reqId'[r] = reqId[r]
    <2>1. /\ pc[c] = "put" /\ accepted' = accepted \cup {c} /\ UNCHANGED <<reqId, nextId>>
          /\ \A r \in Conns : pc'[r] = "put" => pc[r] = "put"
      BY <1>1, <1>3 DEF HandleSendPut, Goto
    <2> QED
      BY <2>1 DEF StoreInv, IdsDiffer
  <1>4. ASSUME UNCHANGED <<reqId, nextId, accepted>>,
               \A r \in Conns : pc'[r] = "put" => pc[r] = "put"
        PROVE  IdsDiffer' /\ \A r \in accepted : reqId'[r] = reqId[r]
    BY <1>4 DEF StoreInv, IdsDiffer
  <1>5. CASE ~\E c \in Conns : HandleSendAllocate(c) \/ HandleSendPut(c)
    <2>1. UNCHANGED <<reqId, nextId, accepted>>
      BY <1>5 DEF Next, HandlerStep, HandleInspect, HandleSendFull,
          HandleSendAck, HandleSendResult, HandleCancel, HandleCancelDrain,
          HandleShutdownDrain, HandleShutdownCancel, HandleShutdownAck, HandleStopRunning,
          HandleResult, MainAccept, MainStep, MainTest, MainAcceptTimeout, MainDrain,
          MainCancel, MainExit, Sigterm, WorkerStep, WorkerTest, WorkerGet, WorkerGetEmpty,
          WorkerTake, WorkerDispatch, WorkerRaise, WorkerCheckCancelled, WorkerAppendUser,
          WorkerAppendAssistant, WorkerSaveState, WorkerAnswer, WorkerStore,
          vars, handlerVars, ctxVars, ghostVars
    <2>2. UNCHANGED pc \/ \E c \in Conns, to \in HandlerPcs \ {"put"} : pc' = [pc EXCEPT ![c] = to]
      BY <1>5 DEF Next, HandlerStep, HandleInspect, HandleSendFull,
          HandleSendAck, HandleSendResult, HandleCancel, HandleCancelDrain,
          HandleShutdownDrain, HandleShutdownCancel, HandleShutdownAck, HandleStopRunning,
          HandleResult, MainAccept, MainStep, MainTest, MainAcceptTimeout, MainDrain,
          MainCancel, MainExit, Sigterm, WorkerStep, WorkerTest, WorkerGet, WorkerGetEmpty,
          WorkerTake, WorkerDispatch, WorkerRaise, WorkerCheckCancelled, WorkerAppendUser,
          WorkerAppendAssistant, WorkerSaveState, WorkerAnswer, WorkerStore,
          vars, handlerVars, ctxVars, Goto, HandlerPcs
    <2>3. \A r \in Conns : pc'[r] = "put" => pc[r] = "put"
      BY <1>1, <2>2
    <2> QED
      BY <1>4, <2>1, <2>3
  <1> QED
    BY <1>2, <1>3, <1>5

LEMMA StoreStep == StoreInv /\ [Next]_vars => StoreInv'
  <1> SUFFICES ASSUME StoreInv, [Next]_vars PROVE StoreInv'
    OBVIOUS
  <1>0. AccountInv /\ AccountInv'
    BY AccountStep DEF StoreInv
  <1>1. CASE WorkerStore
    BY <1>0, <1>1, StoreStore
  <1>2. CASE ~WorkerStore
    <2>1. UNCHANGED <<completed, stored>>
      BY <1>2 DEF Next, HandlerStep, HandleInspect, HandleSendAllocate, HandleSendPut,
          HandleSendFull, HandleSendAck, HandleSendResult, HandleCancel, HandleCancelDrain,
          HandleShutdownDrain, HandleShutdownCancel, HandleShutdownAck, HandleStopRunning,
          HandleResult, MainAccept, MainStep, MainTest, MainAcceptTimeout, MainDrain,
          MainCancel, MainExit, Sigterm, WorkerStep, WorkerTest, WorkerGet, WorkerGetEmpty,
          WorkerTake, MakeCurrent, WorkerDispatch, WorkerRaise, WorkerCheckCancelled,
          WorkerAppendUser, WorkerAppendAssistant, WorkerSaveState, WorkerAnswer,
          vars, ctxVars, ghostVars
    <2>2. \A r \in stored : reqId'[r] = reqId[r]
      BY IdsStep, StoredHasId
    <2>3. \A r \in Conns : result[r] # "none" => result'[r] # "none"
      BY <1>0, AnswerStep
    <2>4. wpc' = "store" => UNCHANGED <<wpc, wreq>> \/ WorkerAnswer
      BY <1>2 DEF Next, HandlerStep, HandleInspect, HandleSendAllocate, HandleSendPut,
          HandleSendFull, HandleSendAck, HandleSendResult, HandleCancel, HandleCancelDrain,
          HandleShutdownDrain, HandleShutdownCancel, HandleShutdownAck, HandleStopRunning,
          HandleResult, MainAccept, MainStep, MainTest, MainAcceptTimeout, MainDrain,
          MainCancel, MainExit, Sigterm, WorkerStep, WorkerTest, WorkerGet, WorkerGetEmpty,
          WorkerTake, WorkerDispatch, WorkerRaise, WorkerCheckCancelled, WorkerAppendUser,
          WorkerAppendAssistant, WorkerSaveState, WorkerGoto, vars, workerVars
    <2>5. wpc' = "store" => result'[wreq'] # "none"
      <3>1. CASE WorkerAnswer
        <4>1. wreq \in Conns /\ wreq' = wreq /\ result' = [result EXCEPT ![wreq] = Response]
          BY <1>0, <3>1, HeldIsOpen DEF WorkerAnswer, WorkerGoto, Holding
        <4>2. Response # "none" /\ result \in [Conns -> Results]
          BY <1>0 DEF AccountInv, TypeInv, TypeOK, Response, Outcomes
        <4> QED
          BY <4>1, <4>2
      <3>2. CASE wpc = "store" /\ UNCHANGED wreq
        BY <1>0, <2>3, <3>2 DEF StoreInv, StoredAnswered, AccountInv, TypeInv, WorkerHasRequest
      <3> QED
        BY <2>4, <3>1, <3>2
    <2>6. StoredAnswered'
      BY <2>1, <2>3, <2>5, StoredHasId DEF StoreInv, StoredAnswered
    <2> QED
      BY <1>0, <2>1, <2>2, <2>6, IdsStep, StoreFrame
  <1> QED
    BY <1>1, <1>2

LEMMA StoreCorrect == Spec => []StoreInv
  BY StoreInit, StoreStep, PTL DEF Spec

LEMMA StoreGoesByIds == Spec => []CompletedAreLargestIds
  <1>1. StoreInv => CompletedAreLargestIds
    BY DEF StoreInv
  <1> QED
    BY StoreCorrect, <1>1, PTL

\* A result is stored unless it was overtaken.
LEMMA StoredUnlessOvertaken ==
  ASSUME StoreInv, [Next]_vars, NEW r \in stored' \ stored
  PROVE  r \in completed' <=> ~Overtaken(r)
  <1>1. CASE WorkerStore
    <2> DEFINE S == completed \cup {r}
    <2>1. r = wreq /\ r \notin stored /\ completed' = Evict(S)
      BY <1>1 DEF WorkerStore
    <2>2. /\ completed \subseteq stored /\ stored \subseteq accepted /\ r \in accepted
          /\ accepted \subseteq Conns /\ reqId \in [Conns -> Nat]
      BY <1>1, <2>1, StoredHasId DEF StoreInv, CompletedAreLargestIds, WorkerStore, WorkerGoto
    <2>3. \A q, s \in accepted : reqId[q] = reqId[s] => q = s
      BY <2>2 DEF StoreInv, IdsDiffer
    <2>4. /\ IsFiniteSet(S) /\ Cardinality(S) = Cardinality(completed) + 1
          /\ Cardinality(completed) \in Nat
      BY <2>1, <2>2, FS_AddElement, FS_CardinalityType DEF StoreInv
    <2>5. Cardinality(completed) <= MaxCompletedResults /\ MaxCompletedResults \in Nat
      BY ResultsAssumption DEF StoreInv, CompletedAreLargestIds
    <2>6. CASE Cardinality(completed) < MaxCompletedResults
      <3>1. completed' = S
        BY <2>1, <2>4, <2>5, <2>6 DEF Evict
      <3> QED
        BY <2>4, <2>5, <2>6, <3>1 DEF Overtaken
    <2>7. CASE Cardinality(completed) = MaxCompletedResults
      <3>1. completed' = S \ {q \in S : \A s \in S : reqId[q] <= reqId[s]}
        BY <2>1, <2>4, <2>5, <2>7 DEF Evict
      <3>2. r \in completed' <=> ~\A s \in S : reqId[r] <= reqId[s]
        BY <3>1
      <3>3. (\A s \in S : reqId[r] <= reqId[s]) <=> (\A s \in completed : reqId[r] < reqId[s])
        <4>1. \A s \in completed : /\ reqId[r] \in Nat /\ reqId[s] \in Nat
                                   /\ reqId[r] # reqId[s]
          BY <2>1, <2>2, <2>3
        <4>2. reqId[r] <= reqId[r]
          BY <2>2
        <4> QED
          BY <4>1, <4>2
      <3> QED
        BY <2>7, <3>2, <3>3 DEF Overtaken
    <2> QED
      BY <2>4, <2>5, <2>6, <2>7
  <1>2. CASE ~WorkerStore
    <2>1. UNCHANGED stored
      BY <1>2 DEF Next, HandlerStep, HandleInspect, HandleSendAllocate, HandleSendPut,
          HandleSendFull, HandleSendAck, HandleSendResult, HandleCancel, HandleCancelDrain,
          HandleShutdownDrain, HandleShutdownCancel, HandleShutdownAck, HandleStopRunning,
          HandleResult, MainAccept, MainStep, MainTest, MainAcceptTimeout, MainDrain,
          MainCancel, MainExit, Sigterm, WorkerStep, WorkerTest, WorkerGet, WorkerGetEmpty,
          WorkerTake, WorkerDispatch, WorkerRaise, WorkerCheckCancelled, WorkerAppendUser,
          WorkerAppendAssistant, WorkerSaveState, WorkerAnswer, vars, ghostVars
    <2> QED
      BY <2>1
  <1> QED
    BY <1>1, <1>2

\* For any limit, and although the worker may finish requests out of the order of their
\* ids: the result it just finished is kept unless it was overtaken, and of the others
\* those with the largest ids.
THEOREM StoreKeepsTheLatest == Spec => LatestResultKept
  <1>1. ASSUME StoreInv, StoreInv', [Next]_vars
        PROVE  [/\ \A r \in stored' \ stored : r \in completed' <=> ~Overtaken(r)
                /\ CompletedAreLargestIds']_vars
    <2>1. \A r \in stored' \ stored : r \in completed' <=> ~Overtaken(r)
      BY <1>1, StoredUnlessOvertaken
    <2>2. CompletedAreLargestIds'
      BY <1>1 DEF StoreInv
    <2> QED
      BY <2>1, <2>2
  <1> QED
    BY <1>1, StoreCorrect, PTL DEF Spec, LatestResultKept

-----------------------------------------------------------------------------
(* What the "result" action says is true *)

LEMMA ReplyStep ==
  ASSUME CancelInv, StoreInv, [Next]_vars, NEW c \in Conns, reply'[c] # reply[c]
  PROVE  /\ reply'[c].kind = "result" => result[reply'[c].req] # "none"
         /\ reply'[c].kind = "pending" => wreq = reply'[c].req
  <1>1. reply \in [Conns -> Replies]
    BY DEF StoreInv, AccountInv, TypeInv, TypeOK
  <1>2. PICK d \in Conns : HandlerStep(d) /\ ~UNCHANGED reply
    BY DEF Next, MainAccept, MainStep, MainTest, MainAcceptTimeout, MainDrain,
           MainCancel, MainExit, Sigterm, WorkerStep, WorkerTest, WorkerGet, WorkerGetEmpty,
           WorkerTake, WorkerDispatch, WorkerRaise, WorkerCheckCancelled, WorkerAppendUser,
           WorkerAppendAssistant, WorkerSaveState, WorkerAnswer, WorkerStore,
           vars, handlerVars
  <1>3. CASE HandleResult(d)
    <2>1. PICK r \in Conns : Say(d, Lookup(r), r)
      BY <1>3 DEF HandleResult
    <2>2. c = d /\ reply'[c] = [kind |-> Lookup(r), req |-> r]
      BY <1>1, <2>1 DEF Say
    <2>3. CASE r \in completed
      <3>1. result[r] # "none" /\ Lookup(r) = "result"
        BY <2>3 DEF StoreInv, CompletedAreLargestIds, StoredAnswered, Lookup
      <3> QED
        BY <2>2, <3>1
    <2>4. CASE r \notin completed /\ current = r
      <3>1. wreq = r
        BY <2>4, ConnsAssumption DEF CancelInv, CurrentIsServed
      <3>2. Lookup(r) = "pending"
        BY <2>4 DEF Lookup
      <3> QED
        BY <2>2, <3>1, <3>2
    <2>5. CASE r \notin completed /\ current # r
      <3>1. Lookup(r) = "not_found"
        BY <2>5 DEF Lookup
      <3> QED
        BY <2>2, <3>1
    <2> QED
      BY <2>3, <2>4, <2>5
  <1>4. CASE HandleSendResult(d)
    BY <1>1, <1>4 DEF HandleSendResult, Say
  <1>5. CASE ~HandleResult(d) /\ ~HandleSendResult(d)
    <2>1. \E k \in ReplyKinds \ {"result", "pending"} : \E r : Say(d, k, r)
      BY <1>2, <1>5 DEF HandlerStep, HandleInspect, HandleSendAllocate, HandleSendPut,
          HandleSendFull, HandleSendAck, HandleCancel, HandleCancelDrain, HandleShutdownDrain,
          HandleShutdownCancel, HandleShutdownAck, HandleStopRunning, ReplyKinds
    <2> QED
      BY <1>1, <2>1 DEF Say
  <1> QED
    BY <1>2, <1>3, <1>4, <1>5

\* What a client is told about a request is true when it is told: a result it gets is
\* final, a request called pending is in the worker's hands.
THEOREM LookupsAreTrue == Spec => LookupTruthful
  <1>1. CancelInv /\ StoreInv /\ [Next]_vars
          => [\A c \in Conns : reply'[c] # reply[c] =>
                /\ reply'[c].kind = "result" => result[reply'[c].req] # "none"
                /\ reply'[c].kind = "pending" => wreq = reply'[c].req]_vars
    BY ReplyStep
  <1>2. Spec => []CancelInv
    BY CancelInit, CancelStep, PTL DEF Spec
  <1> QED
    BY StoreCorrect, <1>1, <1>2, PTL DEF Spec, LookupTruthful

-----------------------------------------------------------------------------
(* The daemon implements PromptService *)

\* What PromptService sees of the daemon besides its queue and its answers.
InHands == IF Holding THEN {wreq} ELSE {}
Turns == [i \in 1..turnCount |-> history[2 * i].req]

TurnsOfHistory ==
    /\ Turns \in Seq(Conns) /\ Len(Turns) = turnCount /\ turnCount \in Nat
    /\ \A i \in 1..turnCount : Turns[i] = history[2 * i].req

LEMMA TurnsIsSeq == TranscriptInv => TurnsOfHistory
  <1> SUFFICES ASSUME TranscriptInv PROVE TurnsOfHistory
    OBVIOUS
  <1>1. turnCount \in Nat
    BY DEF TranscriptInv, AccountInv, TypeInv, TypeOK
  <1>2. ASSUME NEW i \in 1..turnCount PROVE history[2 * i].req \in Conns
    <2>1. PICK r \in Conns : TurnOf(r, i)
      BY DEF TranscriptInv, WholeTurns
    <2> QED
      BY <2>1 DEF TurnOf
  <1>3. Turns \in [1..turnCount -> Conns]
    BY <1>2 DEF Turns
  <1>4. Turns \in Seq(Conns) /\ Len(Turns) = turnCount
    BY <1>1, <1>3, SeqDef
  <1> QED
    BY <1>1, <1>4 DEF Turns, TurnsOfHistory

\* A request is in the transcript of PromptService when it has a turn in history.jsonl.
LEMMA RecordedIsInTranscript ==
  ASSUME TranscriptInv, NEW r
  PROVE  Service!Recorded(r) <=> InTranscript(r)
  <1>1. Service!Recorded(r) <=> \E i \in 1..turnCount : history[2 * i].req = r
    BY TurnsIsSeq DEF Service!Recorded, Turns, TurnsOfHistory
  <1>2. ASSUME NEW i \in 1..turnCount PROVE history[2 * i].req = r <=> TurnOf(r, i)
    <2>1. PICK s \in Conns : TurnOf(s, i)
      BY DEF TranscriptInv, WholeTurns
    <2>2. history[2 * i].req = s
      BY <2>1 DEF TurnOf
    <2>3. TurnOf(r, i) => history[2 * i].req = r
      BY DEF TurnOf
    <2> QED
      BY <2>1, <2>2, <2>3
  <1> QED
    BY <1>1, <1>2 DEF InTranscript

LEMMA ServiceInit == Init => Service!Init
  <1> SUFFICES ASSUME Init PROVE Service!Init
    OBVIOUS
  <1>1. queue = <<>> /\ result = [r \in Conns |-> "none"] /\ ~Holding
    BY DEF Init, Holding
  <1>2. Turns = <<>>
    <2>1. 1..turnCount = {} /\ turnCount = 0
      BY DEF Init
    <2>2. TranscriptInv
      BY TranscriptInit
    <2> QED
      BY <2>1, <2>2, TurnsIsSeq, EmptySeq DEF TurnsOfHistory
  <1> QED
    BY <1>1, <1>2 DEF Service!Init, Turns

\* Steps that PromptService does not see.
LEMMA ServiceStutters ==
  ASSUME UNCHANGED <<queue, result>>, InHands' = InHands, Turns' = Turns
  PROVE  UNCHANGED Service!svcVars
  BY DEF Service!svcVars, InHands, Turns

LEMMA ServicePut ==
  ASSUME TranscriptInv, NEW c \in Conns, HandleSendPut(c)
  PROVE  Service!Submit(c)
  <1>1. /\ Len(queue) < MaxQueueDepth /\ queue' = Append(queue, c) /\ pc[c] = "put"
        /\ UNCHANGED <<result, wpc, wreq, history, turnCount>>
    BY DEF HandleSendPut, QueueHasRoom, Goto, workerVars, fileVars
  <1>2. c \notin accepted /\ result[c] = "none"
    BY <1>1 DEF TranscriptInv, AccountInv, FreshUntilPut, AnsweredAccepted, Fresh
  <1>3. ~Service!InLine(c) /\ c \notin InHands
    BY <1>2 DEF TranscriptInv, AccountInv, RequestsAccounted, Queued, Service!InLine, InHands
  <1>4. InHands' = InHands /\ Turns' = Turns
    BY <1>1 DEF InHands, Holding, Turns
  <1> QED
    BY <1>1, <1>2, <1>3, <1>4 DEF Service!Submit, InHands, Turns

LEMMA ServiceGet ==
  ASSUME TranscriptInv, WorkerGet
  PROVE  Service!Begin
  <1>1. /\ queue # <<>> /\ queue' = Tail(queue) /\ wreq' = Head(queue) /\ ~Holding /\ Holding'
        /\ UNCHANGED <<result, history, turnCount>>
    BY DEF WorkerGet, WorkerGoto, Holding, fileVars
  <1>2. InHands = {} /\ InHands' = {Head(queue)} /\ Turns' = Turns
    BY <1>1 DEF InHands, Turns
  <1> QED
    BY <1>1, <1>2 DEF Service!Begin, InHands, Turns

LEMMA ServiceRecord ==
  ASSUME TranscriptInv, TranscriptInv', WorkerAppendAssistant, NEW r, r = wreq
  PROVE  Service!Record(r)
  <1>1. /\ UNCHANGED <<queue, result, wreq>> /\ Holding /\ Holding' /\ wpc = "assistant"
    BY DEF WorkerAppendAssistant, WorkerGoto, Holding, ctxVars
  <1>2. InHands = {wreq} /\ InHands' = {wreq}
    BY <1>1 DEF InHands
  <1>3. ~Service!Recorded(wreq)
    BY <1>1, RecordedIsInTranscript DEF TranscriptInv, NotYetRecorded
  <1>4. Turns' = Append(Turns, wreq)
    <2>1. /\ Turns \in Seq(Conns) /\ Len(Turns) = turnCount /\ turnCount \in Nat
          /\ \A i \in 1..turnCount : Turns[i] = history[2 * i].req
      BY TurnsIsSeq DEF TurnsOfHistory
    <2>2. /\ Turns' \in Seq(Conns) /\ Len(Turns') = turnCount'
          /\ \A i \in 1..turnCount' : Turns'[i] = history'[2 * i].req
      <3>1. TurnsOfHistory'
        BY TurnsIsSeq, PTL
      <3> QED
        BY <3>1 DEF TurnsOfHistory
    <2>3. /\ turnCount' = turnCount + 1 /\ wreq \in Conns
          /\ \A i \in 1..turnCount : history'[2 * i] = history[2 * i]
          /\ history'[2 * turnCount'].req = wreq
      BY TurnWritten
    <2>4. /\ Append(Turns, wreq) \in Seq(Conns) /\ Len(Append(Turns, wreq)) = turnCount + 1
          /\ \A i \in 1..turnCount : Append(Turns, wreq)[i] = Turns[i]
          /\ Append(Turns, wreq)[turnCount + 1] = wreq
      BY <2>1, <2>3, AppendProperties
    <2>5. \A i \in 1..Len(Turns') : Turns'[i] = Append(Turns, wreq)[i]
      BY <2>1, <2>2, <2>3, <2>4
    <2> QED
      BY <2>2, <2>3, <2>4, <2>5, SeqEqual
  <1> QED
    BY <1>1, <1>2, <1>3, <1>4 DEF Service!Record, InHands, Turns

LEMMA ServiceAnswer ==
  ASSUME TranscriptInv, WorkerAnswer, NEW r, r = wreq, NEW a, a = Response
  PROVE  Service!Answer(r, a) /\ a \in Service!ServedAnswers
  <1>1. /\ UNCHANGED <<queue, history, turnCount>> /\ Holding /\ ~Holding' /\ wpc = "answer"
        /\ result' = [result EXCEPT ![wreq] = Response]
    BY DEF WorkerAnswer, WorkerGoto, Holding, ctxVars, fileVars
  <1>2. InHands = {wreq} /\ InHands' = {} /\ Turns' = Turns
    BY <1>1 DEF InHands, Turns
  <1>3. Response = "ok" <=> Records
    BY Zenon DEF Response, Records
  <1>4. Response = "ok" <=> Service!Recorded(wreq)
    BY <1>1, <1>3, RecordedIsInTranscript DEF TranscriptInv, RecordedWhenOk
  <1>5. Response \in Service!ServedAnswers
    BY DEF TranscriptInv, AccountInv, TypeInv, TypeOK, Response, Outcomes, Service!ServedAnswers
  <1> QED
    BY <1>1, <1>2, <1>4, <1>5 DEF Service!Answer, InHands, Turns

\* A turn of a draining loop withdraws the head of the line, or ends the loop.
LEMMA ServiceDrain ==
  ASSUME NEW at, NEW after, NEW to, Drain(at, after, to),
         UNCHANGED <<wpc, wreq, history, turnCount>>
  PROVE  Service!Withdraw \/ UNCHANGED Service!svcVars
  <1>1. InHands' = InHands /\ Turns' = Turns
    BY DEF InHands, Holding, Turns
  <1>2. CASE queue = <<>>
    BY <1>1, <1>2, ServiceStutters DEF Drain
  <1>3. CASE queue # <<>>
    BY <1>1, <1>3 DEF Drain, Service!Withdraw, InHands, Turns
  <1> QED
    BY <1>2, <1>3

LEMMA ServiceStep ==
  ASSUME TranscriptInv, TranscriptInv', [Next]_vars
  PROVE  [Service!Next]_(Service!svcVars)
  <1>1. ASSUME NEW c \in Conns, HandleSendPut(c) PROVE Service!Next
    BY <1>1, ServicePut DEF Service!Next
  <1>2. CASE WorkerGet
    BY <1>2, ServiceGet DEF Service!Next
  <1>3. CASE WorkerAppendAssistant
    <2>1. PICK r \in Conns : r = wreq
      BY <1>3, TurnWritten
    <2>2. Service!Record(r)
      BY <1>3, <2>1, ServiceRecord
    <2> QED
      BY <2>2 DEF Service!Next
  <1>4. CASE WorkerAnswer
    <2>1. PICK r \in Conns : r = wreq
      BY <1>4, HeldIsOpen DEF TranscriptInv, WorkerAnswer, WorkerGoto, Holding
    <2>2. PICK a : a = Response
      OBVIOUS
    <2>3. Service!Answer(r, a) /\ a \in Service!ServedAnswers
      BY <1>4, <2>1, <2>2, ServiceAnswer
    <2> QED
      BY <2>3 DEF Service!Next
  <1>5. ASSUME NEW at, NEW after, NEW to, Drain(at, after, to),
               UNCHANGED <<workerVars, fileVars>> \/ UNCHANGED <<wpc, wreq, history, turnCount>>
        PROVE  Service!Next \/ UNCHANGED Service!svcVars
    <2>1. UNCHANGED <<wpc, wreq, history, turnCount>>
      BY <1>5 DEF workerVars, fileVars
    <2> QED
      BY <1>5, <2>1, ServiceDrain DEF Service!Next
  <1>6. CASE WorkerAppendUser
    <2>1. /\ UNCHANGED <<queue, result, wreq, turnCount>> /\ Holding /\ Holding'
      BY <1>6 DEF WorkerAppendUser, WorkerGoto, Holding, ctxVars
    <2>2. InHands' = InHands
      BY <2>1 DEF InHands
    <2>3. Turns' = Turns
      <3>1. TypeOK /\ wreq \in Conns /\ Len(history) = 2 * turnCount /\ turnCount \in Nat
        BY <1>6 DEF TranscriptInv, AccountInv, TypeInv, TypeOK, WorkerHasRequest, HistoryShape,
                    WorkerAppendUser, WorkerGoto, Holding
      <3>2. \A i \in 1..turnCount : history'[2 * i] = history[2 * i]
        BY <1>6, <3>1, AppendKeeps DEF WorkerAppendUser
      <3> QED
        BY <2>1, <3>2 DEF Turns
    <2> QED
      BY <2>1, <2>2, <2>3, ServiceStutters
  <1>7. ASSUME UNCHANGED <<queue, result, history, turnCount>>,
               InHands' = InHands
        PROVE  UNCHANGED Service!svcVars
    BY <1>7, ServiceStutters DEF Turns
  <1>8. ASSUME WorkerStep \/ WorkerRaise,
               ~WorkerGet, ~WorkerAppendAssistant, ~WorkerAnswer, ~WorkerAppendUser
        PROVE  UNCHANGED Service!svcVars
    <2>1. WorkerTake => result[wreq] # "withdrawn"
      BY HeldIsOpen DEF TranscriptInv, WorkerTake, WorkerGoto, Holding
    <2>2. /\ UNCHANGED <<queue, result, history, turnCount>>
          /\ Holding' <=> Holding
          /\ Holding => wreq' = wreq
      BY <1>8, <2>1 DEF WorkerStep, WorkerTest, WorkerGetEmpty, WorkerRaise, WorkerTake,
          WorkerDispatch, WorkerCheckCancelled, WorkerSaveState, WorkerStore,
          WorkerGoto, Holding, ctxVars, fileVars
    <2> QED
      BY <1>7, <2>2 DEF InHands
  <1>9. ASSUME NEW c \in Conns, HandlerStep(c) \/ MainAccept(c), ~HandleSendPut(c),
               ~HandleCancelDrain(c), ~HandleShutdownDrain(c)
        PROVE  UNCHANGED Service!svcVars
    <2>1. UNCHANGED <<queue, result, history, turnCount, wpc, wreq>>
      BY <1>9 DEF HandlerStep, HandleInspect, HandleSendAllocate,
          HandleSendFull, HandleSendAck, HandleSendResult, HandleCancel,
          HandleShutdownCancel, HandleShutdownAck, HandleStopRunning,
          HandleResult, MainAccept, ctxVars, workerVars, fileVars
    <2> QED
      BY <1>7, <2>1 DEF InHands, Holding
  <1>10. ASSUME NEW c \in Conns, HandleCancelDrain(c) \/ HandleShutdownDrain(c)
         PROVE  Service!Next \/ UNCHANGED Service!svcVars
    BY <1>5, <1>10 DEF HandleCancelDrain, HandleShutdownDrain
  <1>11. CASE MainStep \/ Sigterm
    <2>1. CASE MainDrain
      BY <1>5, <2>1 DEF MainDrain
    <2>2. CASE MainTest \/ MainAcceptTimeout \/ MainCancel \/ MainExit \/ Sigterm
      <3>1. UNCHANGED <<queue, result, history, turnCount, wpc, wreq>>
        BY <2>2 DEF MainTest, MainAcceptTimeout, MainCancel, MainExit, Sigterm,
                    ctxVars, workerVars, fileVars
      <3> QED
        BY <1>7, <3>1 DEF InHands, Holding
    <2> QED
      BY <1>11, <2>1, <2>2 DEF MainStep
  <1>12. CASE UNCHANGED vars
    <2>1. UNCHANGED <<queue, result, history, turnCount, wpc, wreq>>
      BY <1>12 DEF vars, ctxVars, workerVars, fileVars
    <2> QED
      BY <1>7, <2>1 DEF InHands, Holding
  <1> QED
    BY <1>1, <1>2, <1>3, <1>4, <1>6, <1>8, <1>9, <1>10, <1>11, <1>12 DEF Next

\* The daemon, for any number of connections and any limits, serves prompts the way
\* PromptService says: first come first served, one at a time, one answer each, and a
\* transcript of exactly the prompts answered "ok".
THEOREM DaemonImplementsService == Spec => ImplementsService
  <1>1. TranscriptInv /\ TranscriptInv' /\ [Next]_vars => [Service!Next]_(Service!svcVars)
    BY ServiceStep
  <1> QED
    BY ServiceInit, TranscriptCorrect, <1>1, PTL DEF Spec, ImplementsService, Service!Spec
=============================================================================

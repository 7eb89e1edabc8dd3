--------------------------- MODULE FrontEndProofs ---------------------------
(***************************************************************************)
(* Proofs about FrontEnd and the modules it is built from: how the files   *)
(* and the options of a call come to its settings (Settings), a request to *)
(* its invocations (RunPlan), and what the caller of a run is told         *)
(* (ProgressBridge), for any files, options and requests, any number of    *)
(* invocations, any interval of the bridge and any patience of the host.   *)
(***************************************************************************)
EXTENDS FrontEnd, FiniteSetTheorems, SequenceTheorems, WellFoundedInduction, TLAPS

-----------------------------------------------------------------------------
(* The inductive invariant.  The first parts say where the settings and the plan come from,   *)
(* the others are about the run.                                                              *)

SettingsResolved ==
    /\ caller \in {"mcp", "cli"}
    /\ phase = "resolved" => policy = Policy(caller, option)

\* A plan is made of a request that none of the checks refused.
PlanChecked ==
    /\ phase = "planned" /\ caller = "cli" =>
         LET p == WithRequest(request) IN
         /\ request \in Requests /\ plan = RunPlanned(request, p)
         /\ FirstCode(RunChecks(request, p, p.known, p.served)) = "none"
    /\ phase = "planned" /\ caller = "mcp" =>
         request \in ToolCalls /\ plan = ToolPlan(request) /\ FirstCode(ToolChecks(request)) = "none"

NotBegun == phase \notin {"running", "over"} => host = "none" /\ count = 0 /\ reported = 0

CallTypes ==
    /\ count \in Nat /\ announced \in 0 .. count
    /\ running \subseteq 1 .. count /\ noted \subseteq 1 .. count
    /\ calling \in [0 .. count -> Int] /\ done \in Nat /\ reported \in Nat
    /\ sinceEmit \in 0 .. Interval /\ waited \in 0 .. Patience /\ quiet \in 0 .. Patience
    /\ loop \in Seq(Int)

\* The callback is one thread's at a time, and what it sends is what it has counted.
OneHolds ==
    \A t, u \in 0 .. count : calling[t] # Idle /\ calling[u] # Idle => t = u

SendsTheCount ==
    caller = "mcp" => \A t \in 0 .. count : calling[t] # Idle => calling[t] = done

EndsCounted == done <= Cardinality(noted)

\* A progress that waits for the event loop is no less than what the host has been told, and
\* no less than those before it.
LoopInOrder ==
    /\ reported <= done
    /\ \A j \in 1 .. Len(loop) : loop[j] # Result =>
         /\ reported <= loop[j] /\ loop[j] <= done
         /\ \A i \in 1 .. j : loop[i] # Result => loop[i] <= loop[j]

HeadingPrinted ==
    caller = "cli" /\ count > 1 => \A i \in 1 .. count : calling[i] # Idle => heading = i

AwaitedWhileWaiting == caller = "mcp" /\ host = "waiting" => server = "awaiting"

\* While nothing is on its way and nothing has failed, a host that reads the notifications has
\* waited no longer than since the last heartbeat, and no provider has been writing for longer
\* than an interval without one.
HeardSinceOutput ==
    caller = "mcp" /\ host = "waiting" /\ token /\ LockFree /\ loop = <<>> /\ ~disabled =>
        /\ waited <= quiet + Interval
        /\ sinceEmit < Interval => waited <= sinceEmit

BridgeInv ==
    /\ CallTypes /\ OneHolds /\ SendsTheCount /\ EndsCounted /\ LoopInOrder
    /\ HeadingPrinted /\ AwaitedWhileWaiting /\ HeardSinceOutput

FrontInv == SettingsResolved /\ PlanChecked /\ NotBegun /\ BridgeInv

-----------------------------------------------------------------------------
(* The steps of the run *)

\* How many ends have been noted; one more when another is.
LEMMA NotedCounts ==
  ASSUME CallTypes
  PROVE  /\ IsFiniteSet(noted) /\ Cardinality(noted) \in Nat
         /\ \A i \in (1 .. count) \ noted : Cardinality(noted \cup {i}) = Cardinality(noted) + 1
  <1>1. IsFiniteSet(1 .. count)
    BY FS_Interval DEF CallTypes
  <1>2. IsFiniteSet(noted)
    BY <1>1, FS_Subset DEF CallTypes
  <1> QED
    BY <1>2, FS_CardinalityType, FS_AddElement

\* What the callback does to its own state, whoever calls it.
LEMMA NotifyKeeps ==
  ASSUME BridgeInv, NEW t \in 0 .. count, NEW type, Notify(t, type),
         type = "delta" => t # Main, caller \in {"mcp", "cli"},
         UNCHANGED <<caller, count, loop, server, host, token, reported, waited>>
  PROVE  /\ calling' \in [0 .. count -> Int] /\ done' \in Nat /\ sinceEmit' \in 0 .. Interval
         /\ done' = IF caller = "mcp" /\ type = "finished" /\ ~disabled THEN done + 1 ELSE done
         /\ OneHolds' /\ SendsTheCount' /\ LoopInOrder' /\ HeadingPrinted'
         /\ AwaitedWhileWaiting'
  <1>1. \A u \in 0 .. count : calling[u] = Idle
    BY DEF Notify, LockFree, BridgeInv, CallTypes
  <1>2. CASE caller = "mcp"
    <2>1. done' = IF type = "finished" /\ ~disabled THEN done + 1 ELSE done
      BY <1>2 DEF Notify, CallBridge
    <2>2. calling' = calling \/ calling' = [calling EXCEPT ![t] = done']
      BY <1>2 DEF Notify, CallBridge
    <2>3. sinceEmit' = 0 \/ sinceEmit' = sinceEmit
      BY <1>2 DEF Notify, CallBridge, LastEmit
    <2>4. done' \in Nat /\ done <= done'
      BY <2>1 DEF BridgeInv, CallTypes
    <2>5. calling' \in [0 .. count -> Int] /\ sinceEmit' \in 0 .. Interval
      BY <2>2, <2>3, <2>4, ClockAssumption DEF BridgeInv, CallTypes
    <2>6. \A u \in 0 .. count : calling'[u] # Idle => u = t /\ calling'[u] = done'
      BY <1>1, <2>2 DEF BridgeInv, CallTypes
    <2>7. LoopInOrder'
      <3>1. \A j \in 1 .. Len(loop) : loop[j] \in Int
        BY DEF BridgeInv, CallTypes
      <3>2. reported \in Nat /\ done \in Nat
        BY DEF BridgeInv, CallTypes
      <3> QED
        BY <2>4, <3>1, <3>2 DEF BridgeInv, LoopInOrder
    <2>8. OneHolds' /\ SendsTheCount' /\ HeadingPrinted'
      BY <1>2, <2>6 DEF OneHolds, SendsTheCount, HeadingPrinted
    <2>9. AwaitedWhileWaiting'
      BY DEF Notify, BridgeInv, AwaitedWhileWaiting
    <2> QED
      BY <1>2, <2>1, <2>4, <2>5, <2>7, <2>8, <2>9
  <1>3. CASE caller = "cli"
    <2>1. done' = done /\ sinceEmit' = sinceEmit
      BY <1>3 DEF Notify, CallPrinter
    <2>2. \/ calling' = calling /\ heading' = heading
          \/ /\ type = "delta" /\ calling' = [calling EXCEPT ![t] = t]
             /\ heading' = IF count > 1 THEN t ELSE heading
      BY <1>3 DEF Notify, CallPrinter
    <2>3. calling' \in [0 .. count -> Int]
      BY <2>2 DEF BridgeInv, CallTypes
    <2>4. \A u \in 0 .. count : calling'[u] # Idle => u = t /\ (count > 1 => heading' = t)
      BY <1>1, <2>2 DEF BridgeInv, CallTypes
    <2>5. OneHolds' /\ SendsTheCount' /\ HeadingPrinted'
      BY <1>3, <2>4 DEF OneHolds, SendsTheCount, HeadingPrinted
    <2>6. LoopInOrder'
      BY <2>1 DEF BridgeInv, LoopInOrder
    <2>7. AwaitedWhileWaiting'
      BY DEF Notify, BridgeInv, AwaitedWhileWaiting
    <2> QED
      BY <1>3, <2>1, <2>3, <2>5, <2>6, <2>7 DEF BridgeInv, CallTypes
  <1> QED
    BY <1>2, <1>3

\* A heartbeat that is held back follows one that was not, by less than the interval.
LEMMA NotifyIsHeard ==
  ASSUME BridgeInv, NEW t \in 0 .. count, NEW type, Notify(t, type),
         UNCHANGED <<caller, count, loop, host, token, waited>>,
         quiet' = quiet \/ (type = "delta" /\ quiet' = 0)
  PROVE  HeardSinceOutput'
  <1> SUFFICES ASSUME caller = "mcp", host = "waiting", token, LockFree', loop = <<>>, ~disabled'
               PROVE  waited <= quiet' + Interval /\ (sinceEmit' < Interval => waited <= sinceEmit')
    BY DEF HeardSinceOutput
  <1>1. ~disabled /\ LockFree
    BY DEF Notify
  <1>2. waited <= quiet + Interval /\ (sinceEmit < Interval => waited <= sinceEmit)
    BY <1>1 DEF BridgeInv, HeardSinceOutput
  <1>3. done' \in Nat
    BY DEF Notify, CallBridge, BridgeInv, CallTypes
  <1>4. CASE Throttled(type)
    BY <1>2, <1>4, ClockAssumption DEF Throttled, Notify, CallBridge, LastEmit, BridgeInv, CallTypes
  <1>5. CASE ~Throttled(type)
    <2>1. calling' = [calling EXCEPT ![t] = done'] /\ t \in DOMAIN calling
      BY <1>1, <1>5 DEF Notify, CallBridge, BridgeInv, CallTypes
    <2>2. calling'[t] # Idle /\ t \in DOMAIN calling'
      BY <1>3, <2>1 DEF Idle
    <2> QED
      BY <2>2 DEF LockFree
  <1> QED
    BY <1>4, <1>5


\* The steps of the thread of a run and of its providers that call the callback.
LEMMA NotifyingSteps ==
  ASSUME BridgeInv, caller \in {"mcp", "cli"},
         \/ Announce \/ TaskFinished
         \/ \E i \in 1 .. count : Write(i) \/ Note(i)
  PROVE  BridgeInv'
  <1>0. 0 \in 0 .. count /\ \A i \in 1 .. count : i \in 0 .. count /\ i # Main
    BY DEF BridgeInv, CallTypes, Main
  <1>1. CASE Announce
    <2>1. announced' \in 0 .. count
      BY <1>1 DEF Announce, BridgeInv, CallTypes
    <2>2. HeardSinceOutput'
      BY <1>0, <1>1, NotifyIsHeard DEF Announce, hostVars, clockVars, Main
    <2>3. /\ calling' \in [0 .. count -> Int] /\ done' \in Nat /\ sinceEmit' \in 0 .. Interval
          /\ done' = done
          /\ OneHolds' /\ SendsTheCount' /\ LoopInOrder' /\ HeadingPrinted'
          /\ AwaitedWhileWaiting'
      BY <1>0, <1>1, NotifyKeeps DEF Announce, hostVars, clockVars, Main
    <2>4. CallTypes'
      BY <1>1, <2>1, <2>3 DEF Announce, hostVars, clockVars, BridgeInv, CallTypes
    <2>5. EndsCounted'
      BY <1>1, <2>3 DEF Announce, BridgeInv, EndsCounted
    <2> QED
      BY <2>2, <2>3, <2>4, <2>5 DEF BridgeInv
  <1>2. CASE TaskFinished
    <2>2. HeardSinceOutput'
      BY <1>0, <1>2, NotifyIsHeard DEF TaskFinished, hostVars, clockVars, Main
    <2>3. /\ calling' \in [0 .. count -> Int] /\ done' \in Nat /\ sinceEmit' \in 0 .. Interval
          /\ done' = done
          /\ OneHolds' /\ SendsTheCount' /\ LoopInOrder' /\ HeadingPrinted'
          /\ AwaitedWhileWaiting'
      BY <1>0, <1>2, NotifyKeeps DEF TaskFinished, hostVars, clockVars, Main
    <2>4. CallTypes'
      BY <1>2, <2>3 DEF TaskFinished, hostVars, clockVars, BridgeInv, CallTypes
    <2>5. EndsCounted'
      BY <1>2, <2>3 DEF TaskFinished, BridgeInv, EndsCounted
    <2> QED
      BY <2>2, <2>3, <2>4, <2>5 DEF BridgeInv
  <1>3. ASSUME NEW i \in 1 .. count, Write(i) PROVE BridgeInv'
    <2>2. HeardSinceOutput'
      BY <1>0, <1>3, NotifyIsHeard DEF Write, runVars, hostVars
    <2>3. /\ calling' \in [0 .. count -> Int] /\ done' \in Nat /\ sinceEmit' \in 0 .. Interval
          /\ done' = done
          /\ OneHolds' /\ SendsTheCount' /\ LoopInOrder' /\ HeadingPrinted'
          /\ AwaitedWhileWaiting'
      BY <1>0, <1>3, NotifyKeeps DEF Write, runVars, hostVars
    <2>4. CallTypes'
      BY <1>3, <2>3, ClockAssumption DEF Write, runVars, hostVars, BridgeInv, CallTypes
    <2>5. EndsCounted'
      BY <1>3, <2>3 DEF Write, runVars, BridgeInv, EndsCounted
    <2> QED
      BY <2>2, <2>3, <2>4, <2>5 DEF BridgeInv
  <1>4. ASSUME NEW i \in 1 .. count, Note(i) PROVE BridgeInv'
    <2>1. i \notin noted /\ noted' = noted \cup {i}
      BY <1>4 DEF Note
    <2>2. HeardSinceOutput'
      BY <1>0, <1>4, NotifyIsHeard DEF Note, hostVars, clockVars, Main
    <2>3. /\ calling' \in [0 .. count -> Int] /\ done' \in Nat /\ sinceEmit' \in 0 .. Interval
          /\ done' = IF caller = "mcp" /\ ~disabled THEN done + 1 ELSE done
          /\ OneHolds' /\ SendsTheCount' /\ LoopInOrder' /\ HeadingPrinted'
          /\ AwaitedWhileWaiting'
      BY <1>0, <1>4, NotifyKeeps DEF Note, hostVars, clockVars, Main
    <2>4. CallTypes'
      BY <1>4, <2>1, <2>3 DEF Note, hostVars, clockVars, BridgeInv, CallTypes
    <2>5. EndsCounted'
      <3>1. Cardinality(noted') = Cardinality(noted) + 1 /\ Cardinality(noted) \in Nat
        BY <2>1, NotedCounts DEF BridgeInv
      <3>2. done' <= done + 1 /\ done \in Nat /\ done' \in Nat
        BY <2>3 DEF BridgeInv, CallTypes
      <3>3. done <= Cardinality(noted)
        BY DEF BridgeInv, EndsCounted
      <3> QED
        BY <3>1, <3>2, <3>3 DEF EndsCounted
    <2> QED
      BY <2>2, <2>3, <2>4, <2>5 DEF BridgeInv
  <1> QED
    BY <1>1, <1>2, <1>3, <1>4

\* Steps of the run that tell nothing.
LEMMA SilentSteps ==
  ASSUME BridgeInv, Submit \/ \E i \in 1 .. count : Finish(i)
  PROVE  BridgeInv'
  <1>1. /\ UNCHANGED <<caller, count, announced, noted, bridgeVars, loop, server, hostVars,
                       clockVars, heading>>
        /\ running' \subseteq 1 .. count
    BY DEF Submit, Finish, BridgeInv, CallTypes
  <1>2. CallTypes'
    BY <1>1 DEF BridgeInv, CallTypes, bridgeVars, hostVars, clockVars
  <1>3. OneHolds' /\ SendsTheCount' /\ EndsCounted' /\ LoopInOrder' /\ HeadingPrinted'
    BY <1>1 DEF BridgeInv, OneHolds, SendsTheCount, EndsCounted, LoopInOrder, HeadingPrinted,
                bridgeVars, hostVars, clockVars
  <1>4. AwaitedWhileWaiting' /\ HeardSinceOutput'
    BY <1>1 DEF BridgeInv, AwaitedWhileWaiting, HeardSinceOutput, LockFree,
                bridgeVars, hostVars, clockVars
  <1> QED
    BY <1>2, <1>3, <1>4 DEF BridgeInv

\* A progress goes behind what is on its way, and is no less than any of it.
LEMMA LeftInOrder ==
  ASSUME BridgeInv, loop' = Append(loop, done) \/ loop' = Append(loop, Result),
         UNCHANGED <<done, reported>>
  PROVE  loop' \in Seq(Int) /\ LoopInOrder' /\ loop' # <<>>
  <1>1. loop \in Seq(Int) /\ Len(loop) \in Nat /\ done \in Nat /\ reported \in Nat
    BY DEF BridgeInv, CallTypes
  <1>2. PICK e \in Int : loop' = Append(loop, e) /\ (e = done \/ e = Result)
    BY <1>1 DEF Result
  <1>3. /\ loop' \in Seq(Int) /\ Len(loop') = Len(loop) + 1 /\ loop'[Len(loop) + 1] = e
        /\ \A j \in 1 .. Len(loop) : loop'[j] = loop[j]
    BY <1>1, <1>2, AppendProperties
  <1>4. \A j \in 1 .. Len(loop) : loop[j] \in Int
    BY <1>1
  <1>5. ASSUME NEW j \in 1 .. Len(loop'), loop'[j] # Result
        PROVE  /\ reported <= loop'[j] /\ loop'[j] <= done
               /\ \A i \in 1 .. j : loop'[i] # Result => loop'[i] <= loop'[j]
    <2>1. CASE j \in 1 .. Len(loop)
      <3>1. loop'[j] = loop[j] /\ \A i \in 1 .. j : loop'[i] = loop[i]
        BY <1>1, <1>3, <2>1
      <3> QED
        BY <1>5, <2>1, <3>1 DEF BridgeInv, LoopInOrder
    <2>2. CASE j = Len(loop) + 1
      BY <1>1, <1>2, <1>3, <1>4, <1>5, <2>2 DEF BridgeInv, LoopInOrder
    <2> QED
      BY <1>1, <1>3, <2>1, <2>2
  <1>6. loop' # <<>>
    BY <1>1, <1>3, EmptySeq
  <1> QED
    BY <1>3, <1>5, <1>6 DEF BridgeInv, LoopInOrder

LEMMA EmitStep ==
  ASSUME BridgeInv, caller \in {"mcp", "cli"}, NEW t \in Threads, Emit(t)
  PROVE  BridgeInv'
  <1>1. /\ t \in 0 .. count /\ calling[t] # Idle
        /\ calling' = [calling EXCEPT ![t] = Idle] /\ calling' \in [0 .. count -> Int]
        /\ UNCHANGED <<runVars, done, sinceEmit, server, hostVars, clockVars, heading>>
    BY DEF Emit, Threads, Main, Idle, BridgeInv, CallTypes
  <1>2. \A u \in 0 .. count : calling'[u] = Idle
    BY <1>1 DEF BridgeInv, OneHolds, CallTypes
  <1>3. OneHolds' /\ SendsTheCount' /\ HeadingPrinted' /\ EndsCounted' /\ AwaitedWhileWaiting'
    BY <1>1, <1>2 DEF OneHolds, SendsTheCount, HeadingPrinted, EndsCounted, AwaitedWhileWaiting,
                      BridgeInv, CallTypes, runVars, hostVars
  <1>4. CASE caller = "mcp" /\ loop' = Append(loop, done) /\ UNCHANGED disabled
    <2>1. loop' \in Seq(Int) /\ LoopInOrder' /\ loop' # <<>>
      BY <1>1, <1>4, LeftInOrder DEF hostVars
    <2>2. CallTypes'
      BY <1>1, <2>1 DEF BridgeInv, CallTypes, runVars, hostVars, clockVars
    <2>3. HeardSinceOutput'
      BY <1>1, <1>4, <2>1 DEF BridgeInv, HeardSinceOutput, runVars, hostVars
    <2> QED
      BY <1>3, <2>1, <2>2, <2>3 DEF BridgeInv
  <1>5. CASE caller = "mcp" /\ disabled' = TRUE /\ UNCHANGED loop
    <2>2. CallTypes'
      BY <1>1, <1>5 DEF BridgeInv, CallTypes, runVars, hostVars, clockVars
    <2>3. HeardSinceOutput' /\ LoopInOrder'
      BY <1>1, <1>5 DEF BridgeInv, HeardSinceOutput, LoopInOrder, runVars, hostVars
    <2> QED
      BY <1>3, <2>2, <2>3 DEF BridgeInv
  <1>6. CASE caller = "cli" /\ UNCHANGED <<loop, disabled>>
    <2>2. CallTypes'
      BY <1>1, <1>6 DEF BridgeInv, CallTypes, runVars, hostVars, clockVars
    <2>3. HeardSinceOutput' /\ LoopInOrder'
      BY <1>1, <1>6 DEF BridgeInv, HeardSinceOutput, LoopInOrder, runVars, hostVars
    <2> QED
      BY <1>3, <2>2, <2>3 DEF BridgeInv
  <1>7. \/ caller = "mcp" /\ loop' = Append(loop, done) /\ UNCHANGED disabled
        \/ caller = "mcp" /\ disabled' = TRUE /\ UNCHANGED loop
        \/ caller = "cli" /\ UNCHANGED <<loop, disabled>>
    <2>1. caller = "mcp" => calling[t] = done
      BY <1>1 DEF BridgeInv, SendsTheCount
    <2> QED
      BY <2>1 DEF Emit, Leave
  <1> QED
    BY <1>4, <1>5, <1>6, <1>7

\* The result goes behind the notifications.
LEMMA ReturnStep ==
  ASSUME BridgeInv, caller \in {"mcp", "cli"}, Return
  PROVE  BridgeInv'
  <1>1. UNCHANGED <<caller, count, announced, running, noted, bridgeVars, server, token, reported,
                    clockVars, heading>>
    BY DEF Return
  <1>2. OneHolds' /\ SendsTheCount' /\ HeadingPrinted' /\ EndsCounted'
    BY <1>1 DEF BridgeInv, OneHolds, SendsTheCount, HeadingPrinted, EndsCounted, bridgeVars
  <1>3. CASE caller = "mcp"
    <2>1. loop' = Append(loop, Result) /\ UNCHANGED host
      BY <1>3 DEF Return
    <2>2. loop' \in Seq(Int) /\ LoopInOrder' /\ loop' # <<>>
      BY <1>1, <2>1, LeftInOrder DEF bridgeVars
    <2>3. CallTypes'
      BY <1>1, <2>2 DEF BridgeInv, CallTypes, bridgeVars, clockVars
    <2>4. AwaitedWhileWaiting' /\ HeardSinceOutput'
      BY <1>1, <2>1, <2>2 DEF BridgeInv, AwaitedWhileWaiting, HeardSinceOutput,
                              bridgeVars
    <2> QED
      BY <1>2, <2>2, <2>3, <2>4 DEF BridgeInv
  <1>4. CASE caller = "cli"
    <2>1. host' = "answered" /\ UNCHANGED loop
      BY <1>4 DEF Return
    <2>2. CallTypes' /\ LoopInOrder'
      BY <1>1, <2>1 DEF BridgeInv, CallTypes, LoopInOrder, bridgeVars, clockVars
    <2>3. AwaitedWhileWaiting' /\ HeardSinceOutput'
      BY <1>1, <1>4 DEF AwaitedWhileWaiting, HeardSinceOutput
    <2> QED
      BY <1>2, <2>2, <2>3 DEF BridgeInv
  <1> QED
    BY <1>3, <1>4


\* What waits for the event loop, once the first of it has been taken.
LEMMA TailInOrder ==
  ASSUME BridgeInv, loop # <<>>
  PROVE  /\ Len(loop) \in Nat /\ Len(loop) > 0 /\ Head(loop) = loop[1] /\ Tail(loop) \in Seq(Int)
         /\ Len(Tail(loop)) = Len(loop) - 1
         /\ \A j \in 1 .. Len(Tail(loop)) :
              Tail(loop)[j] = loop[j + 1] /\ j + 1 \in 1 .. Len(loop)
  <1>1. loop \in Seq(Int)
    BY DEF BridgeInv, CallTypes
  <1>2. Len(loop) \in Nat /\ Len(loop) > 0
    BY <1>1, EmptySeq
  <1>3. Tail(loop) \in Seq(Int) /\ Len(Tail(loop)) = Len(loop) - 1
    BY <1>1, <1>2, HeadTailProperties
  <1>4. \A j \in 1 .. Len(Tail(loop)) : Tail(loop)[j] = loop[j + 1]
    BY <1>1, <1>2, HeadTailProperties
  <1> QED
    BY <1>1, <1>2, <1>3, <1>4

LEMMA ReportProgressStep ==
  ASSUME BridgeInv, ReportProgress
  PROVE  BridgeInv'
  <1>1. /\ loop # <<>> /\ Head(loop) # Result /\ loop' = Tail(loop)
        /\ UNCHANGED <<runVars, calling, done, sinceEmit, server, host, token, quiet, heading>>
    BY DEF ReportProgress
  <1>2. \/ disabled' = TRUE /\ UNCHANGED <<reported, waited>>
        \/ reported' = Head(loop) /\ waited' = 0 /\ UNCHANGED disabled
        \/ ~(token /\ host = "waiting") /\ UNCHANGED <<disabled, reported, waited>>
    BY DEF ReportProgress
  <1>3. /\ Len(loop) \in Nat /\ Len(loop) > 0 /\ Head(loop) = loop[1] /\ Tail(loop) \in Seq(Int)
        /\ Len(Tail(loop)) = Len(loop) - 1
        /\ \A j \in 1 .. Len(Tail(loop)) : Tail(loop)[j] = loop[j + 1] /\ j + 1 \in 1 .. Len(loop)
    BY <1>1, TailInOrder
  <1>4. loop[1] \in Int /\ reported <= loop[1] /\ loop[1] <= done /\ reported \in Nat /\ done \in Nat
    <2>1. 1 \in 1 .. Len(loop) /\ loop \in Seq(Int)
      BY <1>3 DEF BridgeInv, CallTypes
    <2>2. loop[1] \in Int
      BY <2>1
    <2> QED
      BY <1>1, <1>3, <2>1, <2>2 DEF BridgeInv, LoopInOrder, CallTypes
  <1>5. LoopInOrder'
    <2>1. (reported' = reported \/ reported' = loop[1]) /\ reported' <= done
      BY <1>2, <1>3, <1>4
    <2>2. ASSUME NEW j \in 1 .. Len(loop'), loop'[j] # Result
          PROVE  /\ reported' <= loop'[j] /\ loop'[j] <= done
                 /\ \A i \in 1 .. j : loop'[i] # Result => loop'[i] <= loop'[j]
      <3>1. loop'[j] = loop[j + 1] /\ j + 1 \in 1 .. Len(loop) /\ j \in Nat
        BY <1>1, <1>3, <2>2
      <3>2. \A i \in 1 .. j : loop'[i] = loop[i + 1] /\ i + 1 \in 1 .. j + 1
        BY <1>1, <1>3, <2>2, <3>1
      <3>3. /\ reported <= loop[j + 1] /\ loop[j + 1] <= done
            /\ \A i \in 1 .. (j + 1) : loop[i] # Result => loop[i] <= loop[j + 1]
        BY <2>2, <3>1 DEF BridgeInv, LoopInOrder
      <3>4. loop[1] <= loop[j + 1]
        BY <1>1, <1>3, <3>1, <3>3
      <3> QED
        BY <2>1, <3>1, <3>2, <3>3, <3>4
    <2> QED
      BY <1>1, <2>1, <2>2 DEF LoopInOrder
  <1>6. CallTypes'
    <2>1. reported' \in Nat
      BY <1>2, <1>3, <1>4
    <2>2. waited' \in 0 .. Patience
      BY <1>2, ClockAssumption DEF BridgeInv, CallTypes
    <2> QED
      BY <1>1, <1>3, <2>1, <2>2 DEF BridgeInv, CallTypes, runVars
  <1>7. OneHolds' /\ SendsTheCount' /\ HeadingPrinted' /\ EndsCounted' /\ AwaitedWhileWaiting'
    BY <1>1 DEF BridgeInv, OneHolds, SendsTheCount, HeadingPrinted, EndsCounted,
                AwaitedWhileWaiting, runVars
  <1>8. HeardSinceOutput'
    <2>1. quiet \in 0 .. Patience /\ sinceEmit \in 0 .. Interval
      BY DEF BridgeInv, CallTypes
    <2>2. host = "waiting" /\ token => disabled' \/ waited' = 0
      BY <1>2
    <2> QED
      BY <1>1, <2>1, <2>2, ClockAssumption DEF HeardSinceOutput
  <1> QED
    BY <1>5, <1>6, <1>7, <1>8 DEF BridgeInv

LEMMA DeliverStep ==
  ASSUME BridgeInv, Deliver
  PROVE  BridgeInv'
  <1>1. /\ loop # <<>> /\ Head(loop) = Result /\ loop' = Tail(loop)
        /\ UNCHANGED <<runVars, bridgeVars, token, reported, clockVars, heading>>
        /\ host' = "answered" \/ host' = host
        /\ host' = "waiting" => host = "waiting" /\ server # "awaiting"
    BY DEF Deliver
  <1>2. /\ Len(loop) \in Nat /\ Len(loop) > 0 /\ Tail(loop) \in Seq(Int)
        /\ Len(Tail(loop)) = Len(loop) - 1
        /\ \A j \in 1 .. Len(Tail(loop)) : Tail(loop)[j] = loop[j + 1] /\ j + 1 \in 1 .. Len(loop)
    BY <1>1, TailInOrder
  <1>3. LoopInOrder'
    <2>1. ASSUME NEW j \in 1 .. Len(loop'), loop'[j] # Result
          PROVE  /\ reported <= loop'[j] /\ loop'[j] <= done
                 /\ \A i \in 1 .. j : loop'[i] # Result => loop'[i] <= loop'[j]
      <3>1. loop'[j] = loop[j + 1] /\ j + 1 \in 1 .. Len(loop) /\ j \in Nat
        BY <1>1, <1>2, <2>1
      <3>2. \A i \in 1 .. j : loop'[i] = loop[i + 1] /\ i + 1 \in 1 .. j + 1
        BY <1>1, <1>2, <2>1, <3>1
      <3>3. /\ reported <= loop[j + 1] /\ loop[j + 1] <= done
            /\ \A i \in 1 .. (j + 1) : loop[i] # Result => loop[i] <= loop[j + 1]
        BY <2>1, <3>1 DEF BridgeInv, LoopInOrder
      <3> QED
        BY <3>1, <3>2, <3>3
    <2>2. reported <= done
      BY DEF BridgeInv, LoopInOrder
    <2> QED
      BY <1>1, <2>1, <2>2 DEF LoopInOrder, bridgeVars
  <1>4. CallTypes'
    BY <1>1, <1>2 DEF BridgeInv, CallTypes, runVars, bridgeVars, clockVars
  <1>5. OneHolds' /\ SendsTheCount' /\ HeadingPrinted' /\ EndsCounted'
    BY <1>1 DEF BridgeInv, OneHolds, SendsTheCount, HeadingPrinted, EndsCounted, runVars, bridgeVars
  <1>6. AwaitedWhileWaiting' /\ HeardSinceOutput'
    BY <1>1 DEF BridgeInv, AwaitedWhileWaiting, HeardSinceOutput, runVars
  <1> QED
    BY <1>3, <1>4, <1>5, <1>6 DEF BridgeInv

LEMMA HostSteps ==
  ASSUME BridgeInv, GiveUp \/ Disconnect
  PROVE  BridgeInv'
  <1>1. /\ UNCHANGED <<runVars, bridgeVars, loop, token, reported, clockVars, heading>>
        /\ caller = "mcp" /\ host = "waiting" /\ host' \in {"gaveUp", "gone"}
    BY DEF GiveUp, Disconnect
  <1>2. CallTypes' /\ LoopInOrder'
    BY <1>1 DEF BridgeInv, CallTypes, LoopInOrder, runVars, bridgeVars, clockVars
  <1>3. OneHolds' /\ SendsTheCount' /\ HeadingPrinted' /\ EndsCounted'
    BY <1>1 DEF BridgeInv, OneHolds, SendsTheCount, HeadingPrinted, EndsCounted, runVars, bridgeVars
  <1>4. AwaitedWhileWaiting' /\ HeardSinceOutput'
    BY <1>1 DEF BridgeInv, AwaitedWhileWaiting, HeardSinceOutput, runVars, bridgeVars
  <1> QED
    BY <1>2, <1>3, <1>4 DEF BridgeInv

\* A tick brings the patience of the host and the silence of the providers forward alike.
LEMMA TickStep ==
  ASSUME BridgeInv, Tick
  PROVE  BridgeInv'
  <1>1. /\ caller = "mcp" /\ host = "waiting" /\ loop = <<>> /\ LockFree /\ waited < Patience
        /\ UNCHANGED <<runVars, calling, done, disabled, loop, server, hostVars, heading>>
        /\ waited' = waited + 1
        /\ quiet' = IF quiet < Patience THEN quiet + 1 ELSE quiet
        /\ sinceEmit' = IF sinceEmit < Interval THEN sinceEmit + 1 ELSE sinceEmit
    BY DEF Tick
  <1>2. waited \in 0 .. Patience /\ quiet \in 0 .. Patience /\ sinceEmit \in 0 .. Interval
    BY DEF BridgeInv, CallTypes
  <1>3. waited' \in 0 .. Patience /\ quiet' \in 0 .. Patience /\ sinceEmit' \in 0 .. Interval
    BY <1>1, <1>2, ClockAssumption
  <1>4. CallTypes' /\ LoopInOrder'
    BY <1>1, <1>3 DEF BridgeInv, CallTypes, LoopInOrder, runVars, hostVars
  <1>5. OneHolds' /\ SendsTheCount' /\ HeadingPrinted' /\ EndsCounted' /\ AwaitedWhileWaiting'
    BY <1>1 DEF BridgeInv, OneHolds, SendsTheCount, HeadingPrinted, EndsCounted,
                AwaitedWhileWaiting, runVars, hostVars
  <1>6. HeardSinceOutput'
    <2>1. token /\ ~disabled =>
            waited <= quiet + Interval /\ (sinceEmit < Interval => waited <= sinceEmit)
      BY <1>1 DEF BridgeInv, HeardSinceOutput
    <2>2. token /\ ~disabled =>
            waited' <= quiet' + Interval /\ (sinceEmit' < Interval => waited' <= sinceEmit')
      BY <1>1, <1>2, <2>1, ClockAssumption
    <2> QED
      BY <1>1, <2>2 DEF HeardSinceOutput, hostVars
  <1> QED
    BY <1>4, <1>5, <1>6 DEF BridgeInv

\* Every step of the run keeps the invariant.
LEMMA CallKeeps ==
  ASSUME BridgeInv, caller \in {"mcp", "cli"}, CallNext
  PROVE  BridgeInv'
  BY NotifyingSteps, SilentSteps, EmitStep, ReturnStep, ReportProgressStep, DeliverStep, HostSteps,
     TickStep
  DEF CallNext, RunStep, LoopStep

-----------------------------------------------------------------------------
(* Deadlines *)

\* Dictionaries with the same entries have the same effect.
LEMMA OverrideAlike ==
  ASSUME NEW base, NEW t, NEW u, DOMAIN t = DOMAIN u, \A k \in DOMAIN t : t[k] = u[k]
  PROVE  Override(base, t) = Override(base, u)
  BY DEF Override

LEMMA WithAgentsAlike ==
  ASSUME NEW agents, NEW t, NEW u, DOMAIN t = DOMAIN u, \A k \in DOMAIN t : t[k] = u[k]
  PROVE  WithAgents(t, agents) = WithAgents(u, agents)
  BY OverrideAlike DEF WithAgents

\* Where the command line accepts the files, the MCP server leaves nothing of them out.
LEMMA SameTimeouts ==
  ASSUME NEW c, CliAccepts(c, Nothing, c.timeouts), NEW numbers, NEW over
  PROVE  Deadlines(numbers, CliTimeouts(c, Nothing), over) = Deadlines(numbers, McpTimeouts(c), over)
  <1> DEFINE kept == [p \in {q \in DOMAIN c.timeouts : c.timeouts[q] > 0} |-> c.timeouts[p]]
             w == WithAgents(c.timeouts, AgentsOf(c))
  <1>1. DOMAIN kept = DOMAIN c.timeouts /\ \A k \in DOMAIN kept : kept[k] = c.timeouts[k]
    BY DEF CliAccepts
  <1>2. McpTimeouts(c) = w
    <2>1. McpTimeouts(c) = WithAgents(kept, AgentsOf(c))
      BY DEF McpTimeouts
    <2> HIDE DEF kept
    <2> QED
      BY <1>1, <2>1, WithAgentsAlike
  <1>3. DOMAIN CliTimeouts(c, Nothing) = DOMAIN w /\ \A k \in DOMAIN w : CliTimeouts(c, Nothing)[k] = w[k]
    <2> HIDE DEF w
    <2>1. CliTimeouts(c, Nothing) = Override(w, Nothing)
      BY DEF CliTimeouts, w
    <2>2. DOMAIN Nothing = {}
      BY DEF Nothing
    <2> QED
      BY <2>1, <2>2 DEF Override
  <1> HIDE DEF w
  <1> QED
    BY <1>2, <1>3 DEF Deadlines, Get

LEMMA SameNumbers ==
  ASSUME NEW c, CliAccepts(c, Nothing, c.timeouts)
  PROVE  CliNumbers(c, Nothing) = McpNumbers(c, Nothing)
  <1>1. DOMAIN Nothing = {}
    BY DEF Nothing
  <1>2. ASSUME NEW k \in Keys
        PROVE  CliNumbers(c, Nothing)[k] = McpNumbers(c, Nothing)[k]
    <2>1. CliNumbers(c, Nothing)[k] = Get(c.numbers, k, Defaults[k])
      BY <1>1, <1>2 DEF CliNumbers, Get
    <2>2. Get(c.numbers, k, Defaults[k]) >= 0
      BY <1>2, <2>1 DEF CliAccepts
    <2>3. Get(Nothing, k, 0) = 0
      BY <1>1 DEF Get
    <2> QED
      BY <1>2, <2>1, <2>2, <2>3 DEF McpNumbers
  <1> QED
    BY <1>2 DEF CliNumbers, McpNumbers

-----------------------------------------------------------------------------
(* Requests that no check refuses *)

LEMMA LeastNumber ==
  ASSUME NEW S, S \subseteq Nat, S # {}
  PROVE  \E n \in S : \A m \in S : n <= m
  <1> DEFINE R == {pair \in Nat \X Nat : pair[1] < pair[2]}
  <1>1. IsWellFoundedOn(R, Nat)
    BY NatLessThanWellFounded DEF OpToRel
  <1>2. \A m, n \in S : m < n => <<m, n>> \in R
    OBVIOUS
  <1> HIDE DEF R
  <1>3. PICK n \in S : \A m \in S : <<m, n>> \notin R
    BY <1>1, WFMin
  <1>4. \A m \in S : ~(m < n)
    BY <1>2, <1>3
  <1> QED
    BY <1>4

\* Where FirstCode finds nothing, every check has passed.
LEMMA NoCode ==
  ASSUME NEW checks, NEW n \in Nat, DOMAIN checks = 1 .. n, FirstCode(checks) = "none",
         \A i \in 1 .. n : checks[i].code # "none"
  PROVE  \A i \in 1 .. n : ~checks[i].holds
  <1> DEFINE failing == {i \in DOMAIN checks : checks[i].holds}
  <1> SUFFICES ASSUME failing # {} PROVE FALSE
    OBVIOUS
  <1>1. \E i \in failing : \A j \in failing : i <= j
    <2>1. failing \subseteq Nat
      OBVIOUS
    <2> HIDE DEF failing
    <2> QED
      BY <2>1, LeastNumber
  <1>2. PICK i \in failing : FirstCode(checks) = checks[i].code
    BY <1>1 DEF FirstCode
  <1> QED
    BY <1>2

\* A function over 1 .. n is a sequence of length n.
LEMMA IsSequence ==
  ASSUME NEW s, NEW n \in Nat, s = [i \in 1 .. n |-> s[i]]
  PROVE  Len(s) = n /\ s \in Seq({s[i] : i \in 1 .. n})
  <1>1. s \in [1 .. n -> {s[i] : i \in 1 .. n}]
    OBVIOUS
  <1>2. s \in Seq({s[i] : i \in 1 .. n})
    BY <1>1, SeqDef
  <1> QED
    BY <1>2, LenProperties

LEMMA DistinctIsSequence ==
  ASSUME NEW names \in Seq(STRING)
  PROVE  \E n \in Nat : DOMAIN Distinct(names) = 1 .. n
  <1> DEFINE firsts == {i \in DOMAIN names : \A j \in 1 .. i - 1 : names[j] # names[i]}
  <1>1. DOMAIN names = 1 .. Len(names) /\ Len(names) \in Nat
    OBVIOUS
  <1>2. IsFiniteSet(firsts)
    <2>1. firsts \subseteq 1 .. Len(names)
      BY <1>1
    <2>2. IsFiniteSet(1 .. Len(names))
      BY <1>1, FS_Interval
    <2> HIDE DEF firsts
    <2> QED
      BY <2>1, <2>2, FS_Subset
  <1>3. DOMAIN Distinct(names) = 1 .. Cardinality(firsts)
    BY DEF Distinct
  <1> QED
    BY <1>2, <1>3, FS_CardinalityType

\* The agents of a request are a list, and so are its invocations, one for each.
LEMMA AgentsAreListed ==
  ASSUME NEW r \in Requests
  PROVE  \E n \in Nat : DOMAIN Agents(r) = 1 .. n /\ (n = 0 => Agents(r) = <<>>)
  <1>1. r.agents \in Seq([alias : STRING, provider : STRING, model : STRING])
        /\ r.providers \in Seq(STRING)
    BY CallAssumption
  <1>2. CASE r.agents # <<>>
    BY <1>1, <1>2, EmptySeq DEF Agents
  <1>3. CASE r.agents = <<>>
    <2>1. PICK n \in Nat : DOMAIN Distinct(r.providers) = 1 .. n
      BY <1>1, DistinctIsSequence
    <2>2. Agents(r) = DefaultAgents(Providers(r), r.models) /\ Providers(r) = Distinct(r.providers)
      BY <1>3 DEF Agents, Providers
    <2>3. DOMAIN Agents(r) = 1 .. n /\ Agents(r) = [i \in 1 .. n |-> Agents(r)[i]]
      BY <2>1, <2>2 DEF DefaultAgents
    <2>4. n = 0 => Agents(r) = <<>>
      BY <2>3, IsSequence, EmptySeq
    <2> QED
      BY <2>3, <2>4
  <1> QED
    BY <1>2, <1>3


LEMMA Passed ==
  ASSUME NEW b \in BOOLEAN, NEW why
  PROVE  Check(b, why).code = why /\ (~Check(b, why).holds => ~b)
  BY DEF Check

\* The checks of the command line that the plan of a run rests on.
LEMMA CommandChecked ==
  ASSUME NEW r \in Requests, NEW pol, FirstCode(RunChecks(r, pol, pol.known, pol.served)) = "none"
  PROVE  /\ ModeOf(r, pol) \in Modes
         /\ Agents(r) # <<>>
         /\ \A i \in DOMAIN Agents(r) : ~StrictFails(Agents(r)[i].provider, r, pol)
  <1> DEFINE first == RequestChecks(r, pol, pol.known)
             all == RunChecks(r, pol, pol.known, pol.served)
             agents == Agents(r)
             scope == Check(ScopeFails(r.targets, r.allowed) \/ ParseFails(agents), "input_error")
             some == Check(agents = <<>>, "provider_selection_required")
             served == Check(\E i \in DOMAIN agents : agents[i].provider \notin pol.served,
                             "invalid_providers")
             strict(i) == StrictFails(agents[i].provider, r, pol)
             each == [i \in DOMAIN agents |->
                        Check(strict(i) \/ UnknownModel(agents[i]),
                              IF strict(i) THEN "strict" ELSE "input_error")]
  <1>1. FirstCode(first) = "none" /\ all = <<scope, some, served>> \o each
    BY DEF RunChecks
  <1>2. ModeOf(r, pol) \in Modes
    <2>1. /\ first[1].code # "none" /\ first[2].code # "none" /\ first[3].code # "none"
          /\ first[4].code # "none" /\ first[5].code # "none" /\ first[6].code # "none"
          /\ first[7].code # "none" /\ first[8].code # "none" /\ first[9].code # "none"
      BY DEF RequestChecks, Check
    <2>2. DOMAIN first = 1 .. 9
      BY DEF RequestChecks
    <2>3. first[4] = Check(~pol.accepted \/ ModeOf(r, pol) \notin Modes
                             \/ Chosen(pol, "divide", "") \notin {"", "files", "dimensions"},
                           "config_error")
      BY DEF RequestChecks
    <2> HIDE DEF first
    <2>4. \A i \in 1 .. 9 : first[i].code # "none"
      BY <2>1
    <2>5. ~first[4].holds
      <3>1. 9 \in Nat /\ 4 \in 1 .. 9 /\ FirstCode(first) = "none"
        BY <1>1
      <3>2. \A i \in 1 .. 9 : ~first[i].holds
        BY <2>2, <2>4, <3>1, NoCode
      <3> QED
        BY <3>1, <3>2
    <2> QED
      BY <2>3, <2>5, Passed
  <1>3. PICK n \in Nat : DOMAIN agents = 1 .. n
    BY AgentsAreListed
  <1>4. Len(each) = n /\ each \in Seq({each[i] : i \in 1 .. n})
    BY <1>3, IsSequence
  <1> HIDE DEF scope, some, served, each, all, first
  <1>5. /\ DOMAIN all = 1 .. (3 + n)
        /\ all[1] = scope /\ all[2] = some /\ all[3] = served
        /\ \A i \in 1 .. n : all[3 + i] = each[i]
    BY <1>1, <1>4
  <1>6. /\ scope.code # "none" /\ some.code # "none" /\ served.code # "none"
        /\ \A i \in 1 .. n : each[i].code # "none"
    BY <1>3 DEF scope, some, served, each, Check
  <1>7. \A k \in 1 .. (3 + n) : all[k].code # "none"
    <2> SUFFICES ASSUME NEW k \in 1 .. (3 + n) PROVE all[k].code # "none"
      OBVIOUS
    <2>1. CASE k > 3
      <3>1. k - 3 \in 1 .. n /\ k = 3 + (k - 3)
        BY <2>1
      <3> QED
        BY <1>5, <1>6, <3>1
    <2> QED
      BY <1>5, <1>6, <2>1
  <1>8. \A k \in 1 .. (3 + n) : ~all[k].holds
    BY <1>5, <1>7, NoCode DEF all
  <1>9. agents # <<>>
    <2>1. ~some.holds
      BY <1>5, <1>8
    <2> QED
      BY <2>1, Passed DEF some
  <1>10. ASSUME NEW i \in 1 .. n PROVE ~strict(i)
    <2>1. ~each[i].holds
      BY <1>5, <1>8
    <2>2. each[i] = Check(strict(i) \/ UnknownModel(agents[i]),
                          IF strict(i) THEN "strict" ELSE "input_error")
      BY <1>3 DEF each
    <2>3. (strict(i) \/ UnknownModel(agents[i])) \in BOOLEAN
      OBVIOUS
    <2> HIDE DEF strict
    <2> QED
      BY <2>1, <2>2, <2>3, Passed
  <1> QED
    BY <1>2, <1>3, <1>9, <1>10

\* The invocations of a plan are those that were declared, except that the division of the
\* files may give them another scope.
LEMMA PlannedInvocations ==
  ASSUME NEW r \in Requests, NEW pol
  PROVE  \E n \in Nat :
           /\ DOMAIN Agents(r) = 1 .. n /\ DOMAIN RunPlanned(r, pol).invocations = 1 .. n
           /\ Len(RunPlanned(r, pol).invocations) = n
           /\ \A i \in 1 .. n : RunPlanned(r, pol).invocations[i].provider = Agents(r)[i].provider
           /\ n # 0 /\ Chosen(pol, "divide", "") = "files" =>
                \A i \in 1 .. n : RunPlanned(r, pol).invocations[i].scope =
                  {[kind |-> "file", files |-> {f}] : f \in Assigned(i, n, FilesForDivision(r.targets))}
  <1> DEFINE declared == ParseInvocations(Agents(r), r.targets)
             d == Chosen(pol, "divide", "")
             invs == RunPlanned(r, pol).invocations
  <1>1. PICK n \in Nat : DOMAIN Agents(r) = 1 .. n
    BY AgentsAreListed
  <1>2. /\ declared = [i \in 1 .. n |-> declared[i]]
        /\ \A i \in 1 .. n : declared[i].provider = Agents(r)[i].provider
                             /\ declared[i].scope = r.targets
                             /\ DOMAIN declared[i] = {"id", "provider", "model", "scope"}
    BY <1>1 DEF ParseInvocations
  <1>3. Len(declared) = n
    BY <1>2, IsSequence
  <1>4. invs = ApplyFileDivision(declared, d)
    BY DEF RunPlanned
  <1> HIDE DEF declared, d, invs
  <1>5. CASE d # "files" \/ n = 0
    <2>1. invs = declared
      BY <1>3, <1>4, <1>5 DEF ApplyFileDivision
    <2> QED
      BY <1>1, <1>2, <1>3, <1>5, <2>1 DEF invs, d
  <1>6. CASE d = "files" /\ n # 0
    <2>1. invs = [i \in 1 .. n |-> [declared[i] EXCEPT !.scope =
                   {[kind |-> "file", files |-> {f}] :
                      f \in Assigned(i, n, FilesForDivision(declared[1].scope))}]]
      BY <1>3, <1>4, <1>6 DEF ApplyFileDivision
    <2>2. declared[1].scope = r.targets
      BY <1>2, <1>6
    <2>3. Len(invs) = n
      BY <2>1, IsSequence
    <2>4. \A i \in 1 .. n : invs[i].provider = Agents(r)[i].provider
      BY <1>2, <2>1
    <2>5. \A i \in 1 .. n : invs[i].scope =
             {[kind |-> "file", files |-> {f}] : f \in Assigned(i, n, FilesForDivision(r.targets))}
      BY <1>2, <2>1, <2>2
    <2> QED
      BY <1>1, <2>1, <2>3, <2>4, <2>5 DEF invs
  <1> QED
    BY <1>5, <1>6


-----------------------------------------------------------------------------
(* The division of the files *)

Holders(f, n, F) == {i \in 1 .. n : f \in Assigned(i, n, F)}

\* However many files and invocations there are, each file is dealt to one of them.
LEMMA DealtOnce ==
  ASSUME NEW F, F \subseteq Nat, NEW n \in Nat \ {0}, NEW f
  PROVE  Cardinality(Holders(f, n, F)) = IF f \in F THEN 1 ELSE 0
  <1> DEFINE before == Cardinality({g \in F : g < f})
             to == Holders(f, n, F)
  <1>1. CASE f \notin F
    <2>1. to = {}
      BY <1>1 DEF Holders, Assigned
    <2> QED
      BY <1>1, <2>1, FS_EmptySet
  <1>2. CASE f \in F
    <2>1. before \in Nat
      <3>1. {g \in F : g < f} \subseteq 0 .. f
        <4>1. f \in Nat /\ \A g \in F : g \in Nat /\ (g < f => g \in 0 .. f)
          BY <1>2
        <4> QED
          BY <4>1
      <3>2. IsFiniteSet(0 .. f)
        BY <1>2, FS_Interval
      <3> QED
        BY <3>1, <3>2, FS_Subset, FS_CardinalityType
    <2>2. to = {i \in 1 .. n : before % n = i - 1}
      BY <1>2 DEF Holders, Assigned
    <2> HIDE DEF before
    <2>3. before % n \in 0 .. (n - 1)
      BY <2>1
    <2>4. to = {(before % n) + 1}
      BY <2>2, <2>3
    <2> QED
      BY <1>2, <2>4, FS_Singleton
  <1> QED
    BY <1>1, <1>2

\* The files that are divided are files of the repository.
LEMMA DividedAreFiles ==
  ASSUME NEW r \in Requests
  PROVE  FilesForDivision(r.targets) \subseteq Nat
  <1>1. \A p \in r.targets : ~Outside(p) => p.files \subseteq Files
    BY CallAssumption DEF Outside
  <1>2. FilesForDivision(r.targets) \subseteq Files
    BY <1>1 DEF FilesForDivision
  <1> QED
    BY <1>2, FilesAssumption

-----------------------------------------------------------------------------
(* Permissions and risk *)

\* A provider that has the permissions of its profile, as they are, runs within the mode.
LEMMA ProfileWithinMode ==
  ASSUME NEW p \in BuiltIn, NEW mode \in Modes, NEW perms, NEW transport,
         ExecutionPermissions(p, mode) # Unsupported,
         DOMAIN perms = DOMAIN ExecutionPermissions(p, mode),
         \A k \in DOMAIN perms : perms[k] = ExecutionPermissions(p, mode)[k]
  PROVE  KeepsTo(mode, p, perms, transport)
  <1>1. CASE p = "claude"
    BY <1>1
    DEF KeepsTo, WritesUnasked, EffectiveRisk, Within, ExecutionPermissions, BuiltIn, Profiles, OneKey, ByMode, Get, Modes,
         Rated, Levels, Says
  <1>2. CASE p = "codex"
    BY <1>2
    DEF KeepsTo, WritesUnasked, EffectiveRisk, Within, ExecutionPermissions, BuiltIn, Profiles, OneKey, ByMode, Get, Modes,
         Rated, Levels, Says
  <1>3. CASE p = "gemini"
    BY <1>3
    DEF KeepsTo, WritesUnasked, EffectiveRisk, Within, ExecutionPermissions, BuiltIn, Profiles, OneKey, ByMode, Get, Modes,
         Rated, Levels, Says
  <1>4. CASE p = "opencode"
    BY <1>4
    DEF KeepsTo, WritesUnasked, EffectiveRisk, Within, ExecutionPermissions, BuiltIn, Profiles, OneKey, ByMode, Get, Modes,
         Rated, Levels, Says
  <1>5. CASE p = "qwen"
    BY <1>5
    DEF KeepsTo, WritesUnasked, EffectiveRisk, Within, ExecutionPermissions, BuiltIn, Profiles, OneKey, ByMode, Get, Modes,
         Rated, Levels, Says
  <1>6. CASE p = "hermes"
    <2>1. mode = "yolo" /\ DOMAIN perms = {"yolo"} /\ perms["yolo"] = "true"
      BY <1>6 DEF ExecutionPermissions, BuiltIn, Profiles, ByMode, Get, Modes
    <2> QED
      BY <1>6, <2>1 DEF KeepsTo, WritesUnasked, EffectiveRisk, Within, Says
  <1>7. CASE p = "pi"
    BY <1>7
    DEF KeepsTo, WritesUnasked, EffectiveRisk, Within, ExecutionPermissions, BuiltIn, Profiles, OneKey, ByMode, Get, Modes,
         Rated, Levels, Says
  <1>8. CASE p = "copilot"
    BY <1>8
    DEF KeepsTo, WritesUnasked, EffectiveRisk, Within, ExecutionPermissions, BuiltIn, Profiles, OneKey, ByMode, Get, Modes,
         Rated, Levels, Says
  <1>9. CASE p = "grok"
    BY <1>9
    DEF KeepsTo, WritesUnasked, EffectiveRisk, Within, ExecutionPermissions, BuiltIn, Profiles, OneKey, ByMode, Get, Modes,
         Rated, Levels, Says
  <1>10. CASE p = "cursor"
    <2>1. CASE mode = "read_only"
      <3>1. /\ DOMAIN perms = {"mode", "force", "sandbox"}
            /\ perms["mode"] = "ask" /\ perms["force"] = "false" /\ perms["sandbox"] = "enabled"
        BY <1>10, <2>1 DEF ExecutionPermissions, BuiltIn, Profiles, OneKey, ByMode, Get
      <3> QED
        BY <1>10, <2>1, <3>1 DEF KeepsTo, WritesUnasked, EffectiveRisk, CursorRisk, Within, Rated, Levels, Says, Get
    <2>2. CASE mode = "write"
      <3>1. /\ DOMAIN perms = {"mode", "force", "sandbox"}
            /\ perms["force"] = "true" /\ perms["sandbox"] = "enabled"
        BY <1>10, <2>2 DEF ExecutionPermissions, BuiltIn, Profiles, OneKey, ByMode, Get
      <3> QED
        BY <1>10, <2>2, <3>1 DEF KeepsTo, WritesUnasked, EffectiveRisk, CursorRisk, Within, Rated, Levels, Says, Get
    <2>3. CASE mode = "yolo"
      <3>1. /\ DOMAIN perms = {"mode", "force", "sandbox"} /\ perms["sandbox"] = "disabled"
        BY <1>10, <2>3 DEF ExecutionPermissions, BuiltIn, Profiles, OneKey, ByMode, Get
      <3> QED
        BY <1>10, <2>3, <3>1 DEF KeepsTo, WritesUnasked, EffectiveRisk, CursorRisk, Within, Rated, Levels, Says, Get
    <2> QED
      BY <2>1, <2>2, <2>3 DEF Modes
  <1> QED
    BY <1>1, <1>2, <1>3, <1>4, <1>5, <1>6, <1>7, <1>8, <1>9, <1>10 DEF BuiltIn, Profiles

\* The adapter of a provider knows the keys of its profile, where there is one.
LEMMA ProfileKnown ==
  ASSUME NEW p \in BuiltIn, NEW mode \in Modes, ExecutionPermissions(p, mode) # Unsupported
  PROVE  DOMAIN ExecutionPermissions(p, mode) \subseteq ShimKeys(p)
  <1>1. CASE p \in {"claude", "codex", "gemini", "opencode", "qwen"}
    BY <1>1 DEF ExecutionPermissions, BuiltIn, Profiles, OneKey, ByMode, Get, Modes, ShimKeys
  <1>2. CASE p \in {"pi", "copilot", "grok", "cursor"}
    BY <1>2 DEF ExecutionPermissions, BuiltIn, Profiles, OneKey, ByMode, Get, Modes, ShimKeys
  <1>3. CASE p = "hermes"
    <2>1. DOMAIN ExecutionPermissions(p, mode) = {"yolo"}
      BY <1>3 DEF ExecutionPermissions, BuiltIn, Profiles, ByMode, Get, Modes
    <2> QED
      BY <1>3, <2>1 DEF ShimKeys
  <1> QED
    BY <1>1, <1>2, <1>3 DEF BuiltIn, Profiles

LEMMA NoAdapterKeepsUnsupported ==
  ASSUME NEW p \in BuiltIn, NEW transport
  PROVE  "unsupported" \notin SupportedKeys(p, transport)
  BY DEF SupportedKeys, ShimKeys, BuiltIn, Profiles

\* Where no permission is granted by name and the adapter knows all that there are, they are
\* those of the profile.
LEMMA AppliedIsProfile ==
  ASSUME NEW p, NEW mode, NEW grants, p \notin DOMAIN grants, NEW supported,
         DOMAIN ExecutionPermissions(p, mode) \subseteq supported
  PROVE  LET perms == Applied(Permissions(p, mode, grants), supported) IN
         /\ DOMAIN perms = DOMAIN ExecutionPermissions(p, mode)
         /\ \A k \in DOMAIN perms : perms[k] = ExecutionPermissions(p, mode)[k]
  <1> DEFINE own == ExecutionPermissions(p, mode)
  <1>1. DOMAIN Nothing = {}
    BY DEF Nothing
  <1>2. Permissions(p, mode, grants) = Override(own, Nothing)
    BY DEF Permissions, Get
  <1> HIDE DEF own
  <1>3. /\ DOMAIN Permissions(p, mode, grants) = DOMAIN own
        /\ \A k \in DOMAIN own : Permissions(p, mode, grants)[k] = own[k]
    BY <1>1, <1>2 DEF Override
  <1> QED
    BY <1>3 DEF Applied, own

\* Nor does naming a key that is not in the profile matter to whether there is one.
LEMMA PermissionsIncludeProfile ==
  ASSUME NEW p, NEW mode, NEW grants
  PROVE  DOMAIN ExecutionPermissions(p, mode) \subseteq DOMAIN Permissions(p, mode, grants)
  BY DEF Permissions, Override

-----------------------------------------------------------------------------
(* The invariant of the whole call *)

LEMMA BridgeRests ==
  ASSUME BridgeInv, UNCHANGED callVars
  PROVE  BridgeInv'
  <1>1. UNCHANGED <<runVars, bridgeVars, loop, server, hostVars, clockVars, heading>>
    BY DEF callVars
  <1>2. CallTypes' /\ LoopInOrder'
    BY <1>1 DEF BridgeInv, CallTypes, LoopInOrder, runVars, bridgeVars, hostVars, clockVars
  <1>3. OneHolds' /\ SendsTheCount' /\ HeadingPrinted' /\ EndsCounted'
    BY <1>1 DEF BridgeInv, OneHolds, SendsTheCount, HeadingPrinted, EndsCounted, runVars, bridgeVars
  <1>4. AwaitedWhileWaiting' /\ HeardSinceOutput'
    BY <1>1 DEF BridgeInv, AwaitedWhileWaiting, HeardSinceOutput, LockFree,
                runVars, bridgeVars, hostVars, clockVars
  <1> QED
    BY <1>2, <1>3, <1>4 DEF BridgeInv

\* Before a run, and when it begins, nobody has been told anything.
Untold ==
    /\ loop = <<>> /\ noted = {} /\ done = 0 /\ reported = 0 /\ waited = 0 /\ ~disabled
    /\ \A t \in 0 .. count : calling[t] = Idle
    /\ host # "gone" /\ (host = "waiting" => server = "awaiting")

LEMMA NothingTold == CallTypes /\ Untold => BridgeInv
  <1> SUFFICES ASSUME CallTypes, Untold PROVE BridgeInv
    OBVIOUS
  <1>1. OneHolds /\ SendsTheCount /\ HeadingPrinted
    BY DEF Untold, OneHolds, SendsTheCount, HeadingPrinted
  <1>2. EndsCounted
    BY FS_EmptySet DEF Untold, EndsCounted
  <1>3. LoopInOrder
    BY EmptySeq DEF Untold, LoopInOrder
  <1>4. AwaitedWhileWaiting
    BY DEF Untold, AwaitedWhileWaiting
  <1>5. HeardSinceOutput
    BY ClockAssumption DEF Untold, HeardSinceOutput, CallTypes
  <1> QED
    BY <1>1, <1>2, <1>3, <1>4, <1>5 DEF BridgeInv

LEMMA FrontStarts ==
  ASSUME Init
  PROVE  FrontInv
  <1>1. SettingsResolved /\ PlanChecked /\ NotBegun
    BY DEF Init, SettingsResolved, PlanChecked, NotBegun
  <1>2. calling = [t \in 0 .. 0 |-> Idle]
    BY DEF Init, Main
  <1>3. CallTypes
    BY <1>2, EmptySeq, ClockAssumption DEF Init, CallTypes, Idle
  <1>4. Untold
    BY <1>2 DEF Init, Untold
  <1> QED
    BY <1>1, <1>3, <1>4, NothingTold DEF FrontInv

\* The number of the invocations that begin is the length of the plan.
LEMMA PlanIsListed ==
  ASSUME SettingsResolved, PlanChecked, phase = "planned"
  PROVE  Len(plan.invocations) \in Nat
  <1>1. CASE caller = "cli"
    <2> DEFINE pol == WithRequest(request)
    <2>1. request \in Requests /\ plan = RunPlanned(request, pol)
      BY <1>1 DEF PlanChecked
    <2> HIDE DEF pol
    <2>2. PICK n \in Nat : Len(RunPlanned(request, pol).invocations) = n
      <3>1. \A r \in Requests : \A pp : \E n \in Nat : Len(RunPlanned(r, pp).invocations) = n
        BY PlannedInvocations
      <3> QED
        BY <2>1, <3>1
    <2> QED
      BY <2>1, <2>2
  <1>2. CASE caller = "mcp"
    <2> DEFINE invs == ToolPlan(request).invocations
    <2>1. request \in ToolCalls /\ plan = ToolPlan(request)
      BY <1>2 DEF PlanChecked
    <2>2. DOMAIN request.providers = 1 .. Len(request.providers) /\ Len(request.providers) \in Nat
      BY <2>1, CallAssumption
    <2>3. invs = [i \in 1 .. Len(request.providers) |-> invs[i]]
      BY <2>2 DEF ToolPlan, ParseInvocations, DefaultAgents
    <2> HIDE DEF invs
    <2>4. Len(invs) \in Nat
      BY <2>2, <2>3, IsSequence
    <2> QED
      BY <2>1, <2>4 DEF invs
  <1> QED
    BY <1>1, <1>2 DEF SettingsResolved

LEMMA BeginStep ==
  ASSUME FrontInv, Begin
  PROVE  FrontInv'
  <1> DEFINE n == Len(plan.invocations)
  <1>1. n \in Nat
    BY PlanIsListed DEF FrontInv, Begin
  <1>2. Begins(caller, n) /\ phase' = "running"
    BY DEF Begin
  <1> HIDE DEF n
  <1>3. caller' = caller /\ caller \in {"mcp", "cli"}
    BY <1>2 DEF Begins, FrontInv, SettingsResolved
  <1>4. SettingsResolved' /\ PlanChecked' /\ NotBegun'
    BY <1>2, <1>3 DEF SettingsResolved, PlanChecked, NotBegun
  <1>5. CallTypes'
    <2>1. calling' \in [0 .. n -> Int]
      BY <1>2 DEF Begins, Idle
    <2>2. loop' \in Seq(Int)
      BY <1>2, EmptySeq DEF Begins
    <2> QED
      BY <1>1, <1>2, <2>1, <2>2, ClockAssumption DEF Begins, CallTypes
  <1>6. Untold'
    BY <1>2 DEF Begins, Untold
  <1>7. BridgeInv'
    BY <1>5, <1>6, NothingTold, PTL
  <1> QED
    BY <1>4, <1>7 DEF FrontInv

\* A plan is recorded only of a request that passed.
LEMMA PlanStep ==
  ASSUME FrontInv, PlanCommand \/ PlanTool
  PROVE  PlanChecked'
  <1>1. CASE PlanCommand
    <2>1. PICK r \in Requests :
            /\ request' = r
            /\ Decide(RunChecks(r, WithRequest(r), WithRequest(r).known, WithRequest(r).served),
                      RunPlanned(r, WithRequest(r)))
      BY <1>1 DEF PlanCommand
    <2>2. caller = "cli" /\ caller' = "cli"
      BY <1>1 DEF PlanCommand, callVars, runVars
    <2>3. ASSUME phase' = "planned"
          PROVE  /\ plan' = RunPlanned(r, WithRequest(r)) /\ policy' = policy
                 /\ FirstCode(RunChecks(r, WithRequest(r), WithRequest(r).known,
                                        WithRequest(r).served)) = "none"
      BY <2>1, <2>3 DEF Decide, Refuse
    <2>4. ASSUME phase' = "planned" PROVE WithRequest(request)' = WithRequest(r)
      BY <2>1, <2>3, <2>4 DEF WithRequest
    <2> QED
      BY <2>1, <2>2, <2>3, <2>4 DEF PlanChecked
  <1>2. CASE PlanTool
    <2>1. PICK r \in ToolCalls : request' = r /\ Decide(ToolChecks(r), ToolPlan(r))
      BY <1>2 DEF PlanTool
    <2>2. caller' = "mcp"
      BY <1>2 DEF PlanTool, callVars, runVars
    <2>3. phase' = "planned" => plan' = ToolPlan(r) /\ FirstCode(ToolChecks(r)) = "none"
      BY <2>1 DEF Decide, Refuse
    <2> QED
      BY <2>1, <2>2, <2>3 DEF PlanChecked
  <1> QED
    BY <1>1, <1>2

LEMMA FrontKeeps ==
  ASSUME FrontInv, [Next]_vars
  PROVE  FrontInv'
  <1>0. caller \in {"mcp", "cli"}
    BY DEF FrontInv, SettingsResolved
  <1>1. CASE LoadFile \/ LoadAgents \/ Resolve \/ Settle \/ PlanCommand \/ PlanTool \/ End
    <2>1. UNCHANGED callVars
      BY <1>1 DEF LoadFile, LoadAgents, Resolve, Settle, PlanCommand, PlanTool, End
    <2>2. BridgeInv'
      BY <2>1, BridgeRests DEF FrontInv
    <2>3. caller' = caller /\ UNCHANGED <<host, count, reported>>
      BY <2>1 DEF callVars, runVars, hostVars
    <2>4. SettingsResolved'
      <3>1. CASE Resolve
        <4>1. policy' = Policy(caller, option') /\ config' = config
          BY <3>1 DEF Resolve
        <4>2. Policy(caller, option)' = Policy(caller, option')
          BY <2>3, <4>1 DEF Policy
        <4> QED
          BY <1>0, <2>3, <4>1, <4>2 DEF SettingsResolved
      <3>2. CASE ~Resolve
        <4>1. phase' # "resolved"
          <5>1. CASE LoadFile
            BY <5>1 DEF LoadFile, Next3
          <5>2. CASE PlanCommand \/ PlanTool
            BY <5>2 DEF PlanCommand, PlanTool, Decide, Refuse
          <5> QED
            BY <1>1, <3>2, <5>1, <5>2 DEF LoadAgents, Settle, End
        <4> QED
          BY <1>0, <2>3, <4>1 DEF SettingsResolved
      <3> QED
        BY <3>1, <3>2
    <2>5. PlanChecked'
      <3>1. CASE LoadFile
        BY <3>1 DEF LoadFile, Next3, PlanChecked
      <3>2. CASE PlanCommand \/ PlanTool
        BY <3>2, PlanStep
      <3>3. CASE LoadAgents \/ Resolve \/ Settle \/ End
        BY <3>3 DEF LoadAgents, Resolve, Settle, End, PlanChecked
      <3> QED
        BY <1>1, <3>1, <3>2, <3>3
    <2>6. NotBegun'
      <3>1. phase' \notin {"running", "over"} => phase \notin {"running", "over"}
        BY <1>1 DEF LoadFile, LoadAgents, Resolve, Settle, PlanCommand, PlanTool, End
      <3> QED
        BY <2>3, <3>1 DEF FrontInv, NotBegun
    <2> QED
      BY <2>2, <2>4, <2>5, <2>6 DEF FrontInv
  <1>2. CASE Begin
    BY <1>2, BeginStep
  <1>3. CASE Run
    <2>1. phase = "running" /\ CallNext /\ UNCHANGED frontVars
      BY <1>3 DEF Run
    <2>2. BridgeInv'
      BY <1>0, <2>1, CallKeeps DEF FrontInv
    <2>3. caller' = caller
      BY <2>1 DEF CallNext, RunStep, LoopStep, Announce, Submit, TaskFinished, Return, ReportProgress,
                  Deliver, GiveUp, Disconnect, Tick, Emit, Write, Finish, Note, runVars
    <2>4. SettingsResolved' /\ PlanChecked' /\ NotBegun'
      BY <1>0, <2>1, <2>3 DEF SettingsResolved, PlanChecked, NotBegun, frontVars
    <2> QED
      BY <2>2, <2>4 DEF FrontInv
  <1>4. CASE UNCHANGED vars
    <2>1. UNCHANGED callVars /\ UNCHANGED frontVars
      BY <1>4 DEF vars
    <2>2. BridgeInv'
      BY <2>1, BridgeRests DEF FrontInv
    <2>3. SettingsResolved' /\ NotBegun'
      <3>1. Policy(caller, option)' = Policy(caller, option)
        BY <2>1 DEF Policy, frontVars, callVars, runVars
      <3> QED
        BY <2>1, <3>1 DEF FrontInv, SettingsResolved, NotBegun, frontVars, callVars, runVars, hostVars
    <2>4. PlanChecked'
      BY <2>1 DEF FrontInv, PlanChecked, WithRequest, frontVars, callVars, runVars
    <2> QED
      BY <2>2, <2>3, <2>4 DEF FrontInv
  <1> QED
    BY <1>1, <1>2, <1>3, <1>4 DEF Next, Prepare

\* The invariant holds in every state of every call.
THEOREM FrontCorrect == Spec => []FrontInv
  BY FrontStarts, FrontKeeps, PTL DEF Spec

-----------------------------------------------------------------------------
(* The theorems *)

\* The command line and the MCP server make the same deadlines of any files that the command
\* line accepts, when nothing is given along.
THEOREM FilesGiveTheSameDeadlines == Spec => []SameDeadlines
  <1>1. ASSUME FrontInv PROVE SameDeadlines
    <2> SUFFICES ASSUME phase = "resolved", option = NoOption, CliAccepts(config, Nothing, config.timeouts)
                 PROVE  LET other == Policy(IF caller = "cli" THEN "mcp" ELSE "cli", NoOption)
                            over == BuiltIn \cup Names(AgentsOf(config))
                        IN  Deadlines(policy.numbers, policy.timeouts, over)
                              = Deadlines(other.numbers, other.timeouts, over)
      BY DEF SameDeadlines
    <2> DEFINE over == BuiltIn \cup Names(AgentsOf(config))
               cli == Policy("cli", NoOption)
               mcp == Policy("mcp", NoOption)
    <2>1. NoOption.numbers = Nothing /\ NoOption.timeouts = Nothing
      BY DEF NoOption
    <2>2. /\ cli.numbers = CliNumbers(config, Nothing) /\ cli.timeouts = CliTimeouts(config, Nothing)
          /\ mcp.numbers = McpNumbers(config, Nothing) /\ mcp.timeouts = McpTimeouts(config)
      BY <2>1 DEF Policy
    <2>3. \/ policy = cli /\ caller = "cli"
          \/ policy = mcp /\ caller = "mcp"
      BY <1>1 DEF FrontInv, SettingsResolved
    <2> HIDE DEF over, cli, mcp
    <2>4. Deadlines(cli.numbers, cli.timeouts, over) = Deadlines(mcp.numbers, mcp.timeouts, over)
      <3>1. cli.numbers = mcp.numbers
        BY <2>2, SameNumbers
      <3> QED
        BY <2>2, <3>1, SameTimeouts
    <2> QED
      BY <2>3, <2>4 DEF over, cli, mcp
  <1> QED
    BY <1>1, FrontCorrect, PTL

\* A tool call whose plan is made passed the checks of the mode.
LEMMA ToolChecked ==
  ASSUME NEW r \in ToolCalls, FirstCode(ToolChecks(r)) = "none"
  PROVE  /\ r.mode \in Modes
         /\ \A i \in DOMAIN r.providers : ExecutionPermissions(r.providers[i], r.mode) # Unsupported
  <1> DEFINE all == ToolChecks(r)
             unsupported == \E i \in DOMAIN r.providers :
                              ExecutionPermissions(r.providers[i], r.mode) = Unsupported
  <1>1. /\ DOMAIN all = 1 .. 6
        /\ all[4] = Check(r.mode \notin Modes, "invalid_execution_mode")
        /\ all[5] = Check(unsupported, "unsupported_execution_mode")
    BY DEF ToolChecks
  <1>2. /\ all[1].code # "none" /\ all[2].code # "none" /\ all[3].code # "none"
        /\ all[4].code # "none" /\ all[5].code # "none" /\ all[6].code # "none"
    BY DEF ToolChecks, Check
  <1> HIDE DEF all
  <1>3. \A i \in 1 .. 6 : ~all[i].holds
    <2>1. 6 \in Nat /\ \A i \in 1 .. 6 : all[i].code # "none"
      BY <1>2
    <2>2. FirstCode(all) = "none"
      BY DEF all
    <2> QED
      BY <1>1, <2>1, <2>2, NoCode
  <1>4. ~all[4].holds /\ ~all[5].holds
    BY <1>3
  <1>5. r.mode \in Modes
    BY <1>1, <1>4, Passed
  <1>6. ~unsupported
    <2>1. unsupported \in BOOLEAN
      OBVIOUS
    <2> HIDE DEF unsupported
    <2> QED
      BY <1>1, <1>4, <2>1, Passed
  <1> QED
    BY <1>5, <1>6

\* A provider that nobody has granted a permission by name runs within the mode of the call,
\* or is one of the two that write without asking, whatever the request and whatever the files
\* say of the mode.
THEOREM ProvidersKeepToTheMode == Spec => []WithinMode
  <1>1. ASSUME FrontInv, phase = "planned", caller = "cli", NEW i \in DOMAIN plan.invocations,
               NEW p, p = plan.invocations[i].provider, NEW pol, pol = WithRequest(request),
               p \in BuiltIn, p \notin DOMAIN pol.grants, Enforcement(pol) = "strict"
        PROVE  KeepsTo(ModeOf(request, pol), p,
                       Applied(Permissions(p, ModeOf(request, pol), pol.grants),
                               SupportedKeys(p, request.transport)), request.transport)
    <2> DEFINE mode == ModeOf(request, pol)
               supported == SupportedKeys(p, request.transport)
               own == ExecutionPermissions(p, mode)
               perms == Applied(Permissions(p, mode, pol.grants), supported)
    <2>1. /\ request \in Requests /\ plan = RunPlanned(request, pol)
          /\ FirstCode(RunChecks(request, pol, pol.known, pol.served)) = "none"
      BY <1>1 DEF FrontInv, PlanChecked
    <2>2. i \in DOMAIN Agents(request) /\ p = Agents(request)[i].provider
      BY <1>1, <2>1, PlannedInvocations
    <2>3. mode \in Modes /\ ~StrictFails(p, request, pol)
      BY <2>1, <2>2, CommandChecked
    <2>4. DOMAIN Permissions(p, mode, pol.grants) \subseteq supported
      BY <1>1, <2>3 DEF StrictFails, FailsStrict, PermissionsOf
    <2>5. DOMAIN own \subseteq supported
      BY <2>4, PermissionsIncludeProfile
    <2>6. own # Unsupported
      <3>1. "unsupported" \notin supported
        BY <1>1, NoAdapterKeepsUnsupported
      <3>2. "unsupported" \in DOMAIN Unsupported
        BY DEF Unsupported
      <3> QED
        BY <2>5, <3>1, <3>2
    <2>7. DOMAIN perms = DOMAIN own /\ \A k \in DOMAIN perms : perms[k] = own[k]
      BY <1>1, <2>5, AppliedIsProfile
    <2> HIDE DEF mode, perms, supported
    <2>8. KeepsTo(mode, p, perms, request.transport)
      BY <1>1, <2>3, <2>6, <2>7, ProfileWithinMode
    <2> QED
      BY <2>8 DEF mode, perms, supported
  <1>2. ASSUME FrontInv, phase = "planned", caller = "mcp", NEW i \in DOMAIN plan.invocations,
               NEW p, p = plan.invocations[i].provider, p \in BuiltIn
        PROVE  KeepsTo(request.mode, p,
                       Applied(Permissions(p, request.mode, Nothing), SupportedKeys(p, "shim")), "shim")
    <2> DEFINE mode == request.mode
               own == ExecutionPermissions(p, mode)
               perms == Applied(Permissions(p, mode, Nothing), SupportedKeys(p, "shim"))
    <2>1. /\ request \in ToolCalls /\ plan = ToolPlan(request)
          /\ FirstCode(ToolChecks(request)) = "none"
      BY <1>2 DEF FrontInv, PlanChecked
    <2>2. i \in DOMAIN request.providers /\ p = request.providers[i]
      BY <1>2, <2>1 DEF ToolPlan, ParseInvocations, DefaultAgents
    <2>3. mode \in Modes /\ own # Unsupported
      BY <2>1, <2>2, ToolChecked
    <2>4. DOMAIN own \subseteq SupportedKeys(p, "shim")
      BY <1>2, <2>3, ProfileKnown DEF SupportedKeys
    <2>5. p \notin DOMAIN Nothing
      BY DEF Nothing
    <2>6. DOMAIN perms = DOMAIN own /\ \A k \in DOMAIN perms : perms[k] = own[k]
      BY <2>4, <2>5, AppliedIsProfile
    <2> HIDE DEF mode, perms
    <2>7. KeepsTo(mode, p, perms, "shim")
      BY <1>2, <2>3, <2>6, ProfileWithinMode
    <2> QED
      BY <2>7 DEF mode, perms
  <1>3. ASSUME FrontInv PROVE WithinMode
    <2>1. caller \in {"mcp", "cli"}
      BY <1>3 DEF FrontInv, SettingsResolved
    <2>2. CASE caller = "cli"
      BY <1>1, <1>3, <2>2 DEF WithinMode
    <2>3. CASE caller = "mcp"
      BY <1>2, <1>3, <2>3 DEF WithinMode
    <2> QED
      BY <2>1, <2>2, <2>3
  <1> QED
    BY <1>3, FrontCorrect, PTL

\* Where the files are divided, each file of the scope goes to exactly one invocation, for any
\* number of files, of paths that overlap and of invocations.
THEOREM EachFileGoesToOne == Spec => []FilesDividedOnce
  <1>1. ASSUME FrontInv, phase = "planned", caller = "cli",
               Chosen(WithRequest(request), "divide", "") = "files", NEW f \in Files
        PROVE  Cardinality({i \in DOMAIN plan.invocations :
                             \E p \in plan.invocations[i].scope : f \in p.files})
                 = IF f \in FilesForDivision(request.targets) THEN 1 ELSE 0
    <2> DEFINE pol == WithRequest(request)
               F == FilesForDivision(request.targets)
    <2>1. /\ request \in Requests /\ plan = RunPlanned(request, pol)
          /\ FirstCode(RunChecks(request, pol, pol.known, pol.served)) = "none"
      BY <1>1 DEF FrontInv, PlanChecked
    <2>2. Chosen(pol, "divide", "") = "files"
      BY <1>1
    <2> HIDE DEF pol
    <2>3. PICK n \in Nat :
            /\ DOMAIN Agents(request) = 1 .. n /\ DOMAIN plan.invocations = 1 .. n
            /\ n # 0 => \A i \in 1 .. n :
                 plan.invocations[i].scope = {[kind |-> "file", files |-> {g}] : g \in Assigned(i, n, F)}
      <3>1. plan.invocations = RunPlanned(request, pol).invocations
        BY <2>1
      <3>2. \A r \in Requests : \E n \in Nat :
              /\ DOMAIN Agents(r) = 1 .. n /\ DOMAIN RunPlanned(r, pol).invocations = 1 .. n
              /\ n # 0 => \A i \in 1 .. n : RunPlanned(r, pol).invocations[i].scope =
                   {[kind |-> "file", files |-> {g}] : g \in Assigned(i, n, FilesForDivision(r.targets))}
        BY <2>2, PlannedInvocations
      <3> HIDE DEF F
      <3>3. F = FilesForDivision(request.targets)
        BY DEF F
      <3> QED
        BY <2>1, <3>1, <3>2, <3>3
    <2>4. n # 0
      <3>1. Agents(request) # <<>>
        BY <2>1, CommandChecked
      <3>2. PICK m \in Nat : DOMAIN Agents(request) = 1 .. m /\ (m = 0 => Agents(request) = <<>>)
        BY <2>1, AgentsAreListed
      <3> QED
        BY <2>3, <3>1, <3>2
    <2> HIDE DEF F
    <2>5. ASSUME NEW i \in 1 .. n
          PROVE  (\E p \in plan.invocations[i].scope : f \in p.files) <=> f \in Assigned(i, n, F)
      <3>1. plan.invocations[i].scope = {[kind |-> "file", files |-> {g}] : g \in Assigned(i, n, F)}
        BY <2>3, <2>4
      <3>2. ASSUME NEW p \in plan.invocations[i].scope, f \in p.files PROVE f \in Assigned(i, n, F)
        BY <3>1, <3>2
      <3>3. ASSUME f \in Assigned(i, n, F) PROVE \E p \in plan.invocations[i].scope : f \in p.files
        <4>1. [kind |-> "file", files |-> {f}] \in plan.invocations[i].scope
          BY <3>1, <3>3
        <4>2. f \in [kind |-> "file", files |-> {f}].files
          OBVIOUS
        <4> QED
          BY <4>1, <4>2
      <3> QED
        BY <3>2, <3>3
    <2>6. {i \in DOMAIN plan.invocations : \E p \in plan.invocations[i].scope : f \in p.files}
            = Holders(f, n, F)
      BY <2>3, <2>5 DEF Holders
    <2>7. F \subseteq Nat
      BY <2>1, DividedAreFiles DEF F
    <2>8. Cardinality(Holders(f, n, F)) = IF f \in F THEN 1 ELSE 0
      BY <2>3, <2>4, <2>7, DealtOnce
    <2> QED
      BY <2>6, <2>8 DEF F
  <1>2. ASSUME FrontInv PROVE FilesDividedOnce
    BY <1>1, <1>2 DEF FilesDividedOnce
  <1> QED
    BY <1>2, FrontCorrect, PTL

\* No step tells a host less than before or more than has ended, nor prints under a heading of
\* another invocation, for any number of invocations and any order of their outputs.
THEOREM ReportsAreTrue == Spec => ReportTruthful
  <1>1. ASSUME FrontInv, [Next]_vars, host' = "waiting"
        PROVE  reported' >= reported /\ reported' <= Cardinality(noted)
    <2>1. /\ reported \in Nat /\ done \in Nat /\ Cardinality(noted) \in Nat
          /\ reported <= done /\ done <= Cardinality(noted)
      BY <1>1, NotedCounts DEF FrontInv, BridgeInv, CallTypes, LoopInOrder, EndsCounted
    <2>2. CASE reported' = reported
      BY <2>1, <2>2
    <2>3. CASE ReportProgress
      <3>1. /\ loop # <<>> /\ Head(loop) # Result
            /\ reported' = reported \/ reported' = Head(loop)
        BY <2>3 DEF ReportProgress
      <3>2. Head(loop) = loop[1] /\ 1 \in 1 .. Len(loop)
        BY <1>1, <3>1, TailInOrder DEF FrontInv
      <3>3. loop[1] \in Int
        BY <1>1, <3>2 DEF FrontInv, BridgeInv, CallTypes
      <3>4. reported <= loop[1] /\ loop[1] <= done
        BY <1>1, <3>1, <3>2 DEF FrontInv, BridgeInv, LoopInOrder
      <3> QED
        BY <2>1, <3>1, <3>2, <3>3, <3>4
    <2>4. CASE Begin
      <3>1. reported = 0 /\ reported' = 0
        BY <1>1, <2>4 DEF Begin, Begins, FrontInv, NotBegun
      <3> QED
        BY <2>1, <3>1
    <2>5. reported' = reported \/ ReportProgress \/ Begin
      BY <1>1 DEF Next, Prepare, LoadFile, LoadAgents, Resolve, Settle, PlanCommand, PlanTool, End, Run,
                  CallNext, RunStep, LoopStep, Announce, Submit, TaskFinished, Return, Deliver, GiveUp,
                  Disconnect, Tick, Emit, Write, Finish, Note, vars, callVars, hostVars
    <2> QED
      BY <2>2, <2>3, <2>4, <2>5
  <1>2. ASSUME FrontInv, caller = "cli", NEW i \in 1 .. count, count > 1, calling[i] # Idle
        PROVE  heading = i
    BY <1>2 DEF FrontInv, BridgeInv, HeadingPrinted
  <1>3. ASSUME FrontInv, [Next]_vars
        PROVE  [/\ host' = "waiting" => reported' >= reported /\ reported' <= Cardinality(noted)
                /\ caller = "cli" => \A i \in 1 .. count :
                     (count > 1 /\ calling[i] # Idle /\ calling'[i] = Idle) => heading = i]_callVars
    BY <1>1, <1>2, <1>3
  <1> QED
    BY <1>3, FrontCorrect, PTL DEF Spec, ReportTruthful

\* As long as every notification gets through, a host that reads the heartbeats gives up only a
\* run that has been silent, for any interval of the bridge and any longer patience.
THEOREM NobodyWritingIsGivenUp == Spec => GivenUpInSilence
  <1>1. ASSUME FrontInv, [Next]_vars, host = "waiting", host' = "gaveUp", token, LockFree, loop = <<>>,
               ~disabled
        PROVE  quiet >= Patience - Interval
    <2>1. GiveUp
      BY <1>1 DEF Next, Prepare, LoadFile, LoadAgents, Resolve, Settle, PlanCommand, PlanTool, Begin,
                  Begins, End, Run, CallNext, RunStep, LoopStep, Announce, Submit, TaskFinished, Return,
                  ReportProgress, Deliver, Disconnect, Tick, Emit, Write, Finish, Note, vars, callVars,
                  hostVars
    <2>2. caller = "mcp" /\ waited = Patience
      BY <2>1 DEF GiveUp
    <2>3. waited <= quiet + Interval
      BY <1>1, <2>2 DEF FrontInv, BridgeInv, HeardSinceOutput
    <2> QED
      BY <1>1, <2>2, <2>3, ClockAssumption DEF FrontInv, BridgeInv, CallTypes
  <1>2. ASSUME FrontInv, [Next]_vars
        PROVE  [host = "waiting" /\ host' = "gaveUp" /\ token =>
                  quiet >= Patience - Interval \/ ~LockFree \/ loop # <<>> \/ disabled]_callVars
    BY <1>1, <1>2
  <1> QED
    BY <1>2, FrontCorrect, PTL DEF Spec, GivenUpInSilence
=============================================================================

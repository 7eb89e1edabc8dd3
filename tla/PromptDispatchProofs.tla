------------------------ MODULE PromptDispatchProofs ------------------------
(***************************************************************************)
(* Proofs about PromptDispatch, for any number of retries and any stall    *)
(* timeout: attempts are made in order, each only when the run before it   *)
(* is settled, and what is returned tells of them.  The clock does not     *)
(* matter: whatever it says, the code does one or the other.               *)
(***************************************************************************)
EXTENDS PromptDispatch, FiniteSetTheorems, TLAPS

\* Where an attempt has not begun, where its run is in the worker's hands, where it is over.
Before == {"detect", "check", "run"}
Working == {"test", "poll", "stall", "cancel", "kill", "reap"}
Napping == {"backoff", "nap_check", "nap"}
Judged == {"retry"} \cup Napping

\* A result may be a success; a definition of its own, for provers that would mix it up with
\* the other Boolean values.
Succeeded(r) == r.success

\* Runs before the attempt were made and may be mended, runs after it were not made.
InOrder ==
    /\ \A n \in Runs : n < attempt => proc[n] # "none" /\ kinds[n] = "retryable"
    /\ \A n \in Runs : n > attempt => proc[n] = "none"
    /\ pc \in Before => proc[attempt] = "none"
    /\ pc = "detect" => attempt = 1
    /\ pc \in Working \cup Judged => proc[attempt] # "none"
    /\ pc \in Judged => result.attempts = attempt /\ kinds[attempt] = result.kind
    /\ pc \in Napping => result.kind = "retryable" /\ attempt <= MaxRetries

\* What is returned counts the runs.
Counted ==
    pc = "returned" => /\ result.attempts <= attempt
                       /\ \A n \in Runs : proc[n] # "none" <=> n <= result.attempts

\* A success is the end of the last run.
LastSucceeded ==
    Succeeded(result) => /\ pc = "returned" /\ result.attempts \in Runs
                         /\ proc[result.attempts] = "succeeded" /\ result.attempts \in records

\* A run that the worker has not in its hands works no longer, or is out of reach.
Settled(n) == Live(n) => OutOfReach(n)

HandsFree ==
    /\ \A n \in Runs : n # attempt \/ pc \notin Working => Settled(n)
    /\ pc \in Working => attempt \in handles
    /\ pc = "reap" => proc[attempt] \in {"killed", "succeeded", "failed"}

\* A run that was started after the cancel is the last one, and is being cancelled.
LateIsLast ==
    late # {} =>
        /\ late = {attempt} /\ event
        /\ \/ pc = "test"
           \/ pc \in {"cancel", "kill", "reap"} /\ stopping = "Cancelled"
           \/ pc \in {"retry", "returned"} /\ ~Succeeded(result) /\ result.kind = "cancelled"

IInv == TypeOK /\ InOrder /\ Counted /\ LastSucceeded /\ HandsFree /\ LateIsLast

USE DEF Before, Working, Napping, Judged, Settled, OutOfReach, Live, Exited

-----------------------------------------------------------------------------
(* Results and runs *)

LEMMA RunsNumbered == 1 \in Runs /\ \A n \in Runs : n \in Nat \ {0} /\ n <= MaxRetries + 1
  BY RetriesAssumption, RunsAssumption

LEMMA RunAfter ==
  ASSUME NEW n \in Runs, n <= MaxRetries
  PROVE  n + 1 \in Runs
  BY RetriesAssumption, RunsAssumption

LEMMA RunBefore ==
  ASSUME NEW n \in Runs
  PROVE  n - 1 \in {0} \cup Runs /\ (n > 1 => n - 1 \in Runs)
  BY RetriesAssumption, RunsAssumption

LEMMA FailureFields ==
  ASSUME NEW e \in Errors, NEW k \in Kinds, NEW n \in {0} \cup Runs
  PROVE  /\ Failure(e, k, n) \in ResultsOf
         /\ Failure(e, k, n).kind = k /\ Failure(e, k, n).attempts = n
  BY DEF Failure, ResultsOf

LEMMA FailureFails ==
  ASSUME NEW e, NEW k, NEW n
  PROVE  ~Succeeded(Failure(e, k, n))
  BY DEF Failure, Succeeded

\* What an exit with success comes to.
Success(n) == [NoResult EXCEPT !.success = TRUE, !.attempts = n]

LEMMA SuccessFields ==
  ASSUME NEW n \in Runs
  PROVE  Success(n) \in ResultsOf /\ Success(n).attempts = n
  BY DEF Success, NoResult, Failure, ResultsOf, Errors, Kinds

\* What a cancel while the backoff naps comes to.
Napped(r) == [r EXCEPT !.error = "Cancelled during retry backoff"]

LEMMA NappedFields ==
  ASSUME NEW r \in ResultsOf
  PROVE  /\ Napped(r) \in ResultsOf
         /\ Napped(r).kind = r.kind /\ Napped(r).attempts = r.attempts
  BY DEF Napped, ResultsOf, Errors

LEMMA NappedFails ==
  ASSUME NEW r \in ResultsOf
  PROVE  Succeeded(Napped(r)) <=> Succeeded(r)
  BY DEF Napped, ResultsOf, Succeeded

LEMMA ResultFields ==
  ASSUME NEW r \in ResultsOf
  PROVE  r.kind \in Kinds /\ r.attempts \in {0} \cup Runs
  BY DEF ResultsOf

LEMMA AttemptedMeans ==
  ASSUME NEW from, NEW r, Attempted(from, r)
  PROVE  /\ pc = from /\ result' = r /\ kinds' = [kinds EXCEPT ![attempt] = r.kind]
         /\ pc' \in {"returned", "retry"} /\ (pc' = "returned" <=> Succeeded(r))
  BY DEF Attempted, Return, Goto, Succeeded

LEMMA ConstantsTyped ==
  /\ "none" \in Errors /\ "unavailable" \in Errors /\ "Cancelled" \in Errors
  /\ "timed out" \in Errors /\ "failed" \in Errors /\ "Cancelled during retry backoff" \in Errors
  /\ "none" \in Kinds /\ "cancelled" \in Kinds /\ "retryable" \in Kinds /\ "fatal" \in Kinds
  BY DEF Errors, Kinds

LEMMA FailureResult ==
  ASSUME NEW e \in Errors, NEW n \in {0} \cup Runs, result' = Failure(e, "none", n)
  PROVE  result' \in ResultsOf /\ result'.attempts = n
  <1>1. "none" \in Kinds
    BY ConstantsTyped
  <1>2. Failure(e, "none", n) \in ResultsOf /\ Failure(e, "none", n).attempts = n
    BY <1>1, FailureFields
  <1> QED BY <1>2

-----------------------------------------------------------------------------
(* The invariant *)

LEMMA InvInit == Init => IInv
  <1> SUFFICES ASSUME Init PROVE IInv
    OBVIOUS
  <1> USE RunsNumbered DEF Init, ShimInit
  <1>1. result \in ResultsOf
    BY FailureFields, ConstantsTyped DEF NoResult
  <1>2. ~Succeeded(result)
    BY FailureFails DEF NoResult
  <1>3. event \in BOOLEAN
    BY Zenon
  <1>4. TypeOK
    BY <1>1, <1>3, ConstantsTyped DEF TypeOK, Pcs, ProcStates
  <1>5. InOrder
    BY DEF InOrder
  <1>6. Counted /\ LastSucceeded /\ HandsFree /\ LateIsLast
    BY <1>2 DEF Counted, LastSucceeded, HandsFree, LateIsLast
  <1> QED BY <1>4, <1>5, <1>6 DEF IInv

\* While an attempt is made or judged, the runs are those up to it.
LEMMA RunsMade ==
  ASSUME IInv, pc \in Working \cup Judged
  PROVE  attempt \in Nat /\ \A n \in Runs : proc[n] # "none" <=> n <= attempt
  <1>1. attempt \in Runs /\ attempt \in Nat
    BY RunsNumbered DEF IInv, TypeOK
  <1>2. proc[attempt] # "none"
    BY DEF IInv, InOrder
  <1>3. ASSUME NEW n \in Runs
        PROVE  proc[n] # "none" <=> n <= attempt
    <2>1. n \in Nat
      BY RunsNumbered
    <2> QED BY <1>1, <1>2, <2>1 DEF IInv, InOrder
  <1> QED BY <1>1, <1>3

\* A result that counts the runs as they were counted at the attempt.
LEMMA CountedAfter ==
  ASSUME attempt \in Nat, \A n \in Runs : proc[n] # "none" <=> n <= attempt,
         result'.attempts = attempt, UNCHANGED <<attempt, proc>>
  PROVE  Counted'
  BY DEF Counted

\* The order of the runs while the worker naps, and once it goes on to the next attempt.
LEMMA NapsInOrder ==
  ASSUME InOrder, pc = "backoff", pc' = "nap_check",
         UNCHANGED <<attempt, proc, kinds, result>>
  PROVE  InOrder'
  BY DEF InOrder

LEMMA NextInOrder ==
  ASSUME \A n \in Runs : n \in Nat, attempt \in Nat, pc' = "check", attempt' = attempt + 1,
         attempt + 1 \in Runs, attempt # 0, UNCHANGED <<proc, kinds>>,
         kinds[attempt] = "retryable",
         \A n \in Runs : n < attempt => kinds[n] = "retryable",
         \A n \in Runs : proc[n] # "none" <=> n <= attempt
  PROVE  InOrder'
  BY DEF InOrder

\* The dispatch ends before an attempt.
LEMMA ReturnsEarly ==
  ASSUME IInv, pc \in {"detect", "check"}, pc' = "returned",
         result' \in ResultsOf, result'.attempts = attempt - 1, ~Succeeded(result)',
         UNCHANGED <<attempt, event, stopping, shimVars, kinds, late>>
  PROVE  IInv'
  <1> USE RunsNumbered DEF IInv, shimVars
  <1>1. TypeOK'
    BY DEF TypeOK, Pcs
  <1>2. InOrder'
    BY DEF InOrder
  <1>3. Counted'
    <2>1. attempt \in Nat /\ pc \in Before
      BY DEF TypeOK
    <2>2. \A n \in Runs : proc[n] # "none" <=> n <= attempt - 1
      BY <2>1 DEF InOrder
    <2> QED BY <2>1, <2>2 DEF Counted
  <1>4. LastSucceeded'
    BY DEF LastSucceeded
  <1>5. HandsFree' /\ LateIsLast'
    BY DEF HandsFree, LateIsLast
  <1> QED BY <1>1, <1>2, <1>3, <1>4, <1>5

LEMMA CheckStep ==
  ASSUME IInv, DetectFails \/ Detect \/ CheckCancelled \/ DetectRaises
  PROVE  IInv'
  <1>1. CASE Detect \/ DetectRaises \/ (CheckCancelled /\ ~event)
    <2> USE RunsNumbered DEF IInv
    <2>1. /\ UNCHANGED <<attempt, event, stopping, result, shimVars, kinds, late>>
          /\ pc \in {"detect", "check"} /\ pc' \in {"check", "run", "raised"}
      BY <1>1 DEF Detect, DetectRaises, CheckCancelled, Goto
    <2>2. TypeOK'
      BY <2>1 DEF TypeOK, Pcs, shimVars
    <2>3. InOrder'
      BY <2>1 DEF InOrder, shimVars
    <2>4. Counted' /\ LastSucceeded'
      BY <2>1 DEF Counted, LastSucceeded, shimVars
    <2>5. HandsFree' /\ LateIsLast'
      BY <2>1 DEF HandsFree, LateIsLast, shimVars
    <2> QED BY <2>2, <2>3, <2>4, <2>5
  <1>2. CASE DetectFails
    <2>1. result' = Failure("unavailable", "none", 0) /\ attempt = 1
      BY <1>2 DEF DetectFails, Return, Goto, IInv, InOrder
    <2>2. result' \in ResultsOf /\ result'.attempts = 0
      <3>1. "unavailable" \in Errors /\ 0 \in {0} \cup Runs
        BY ConstantsTyped
      <3> QED BY ONLY <2>1, <3>1, FailureResult
    <2>3. ~Succeeded(result)'
      BY <2>1, FailureFails
    <2> QED BY <1>2, <2>1, <2>2, <2>3, ReturnsEarly DEF DetectFails, Return, Goto
  <1>3. CASE CheckCancelled /\ event
    <2> DEFINE before == attempt - 1
    <2>1. before \in {0} \cup Runs
      BY RunBefore DEF IInv, TypeOK
    <2>2. result' = Failure("Cancelled", "none", before)
      BY <1>3 DEF CheckCancelled, Return, Goto
    <2> HIDE DEF before
    <2>3. result' \in ResultsOf /\ result'.attempts = before
      <3>1. "Cancelled" \in Errors
        BY ConstantsTyped
      <3> QED BY ONLY <2>1, <2>2, <3>1, FailureResult
    <2>4. ~Succeeded(result)'
      BY <2>2, FailureFails
    <2> USE DEF before
    <2> QED BY <1>3, <2>3, <2>4, ReturnsEarly DEF CheckCancelled, Return, Goto
  <1> QED BY <1>1, <1>2, <1>3

LEMMA StartStep ==
  ASSUME IInv, Run \/ RunRaises
  PROVE  IInv'
  <1> USE RunsNumbered DEF IInv, Run, RunRaises, Goto, Start, StartFails, shimVars
  <1>1. TypeOK'
    BY DEF TypeOK, Pcs, ProcStates
  <1>2. InOrder'
    BY DEF InOrder, TypeOK
  <1>3. Counted' /\ LastSucceeded'
    BY DEF Counted, LastSucceeded, InOrder, TypeOK
  <1>4. HandsFree'
    BY DEF HandsFree, InOrder, TypeOK
  <1>5. LateIsLast'
    BY DEF LateIsLast
  <1> QED BY <1>1, <1>2, <1>3, <1>4, <1>5

\* The worker looks, at the event or at the clock, and goes elsewhere.
LEMMA LookStep ==
  ASSUME IInv, TestCancelled \/ PollSleeps \/ TestStalled
  PROVE  IInv'
  <1> USE DEF IInv, TestCancelled, PollSleeps, TestStalled, Goto, PollRunning, shimVars
  <1>1. TypeOK'
    BY DEF TypeOK, Pcs
  <1>2. InOrder' /\ Counted' /\ LastSucceeded'
    BY DEF InOrder, Counted, LastSucceeded
  <1>3. HandsFree' /\ LateIsLast'
    BY DEF HandsFree, LateIsLast
  <1> QED BY <1>1, <1>2, <1>3

\* An attempt is over once its run is settled.
LEMMA AttemptedEnds ==
  ASSUME IInv, NEW from \in {"poll", "cancel", "kill", "reap"},
         NEW r \in ResultsOf, Attempted(from, r), r.attempts = attempt,
         late # {} => ~Succeeded(r) /\ r.kind = "cancelled",
         UNCHANGED <<attempt, event, late>>,
         stopping' \in {"none", "Cancelled", "timed out"},
         proc' = proc, handles' = handles \ {attempt} \/ handles' = handles,
         logs' \subseteq Runs, records \subseteq records', records' \subseteq Runs,
         immune \subseteq immune', immune' \subseteq Runs,
         Settled(attempt)',
         Succeeded(r) => proc[attempt] = "succeeded" /\ attempt \in records'
  PROVE  IInv'
  <1> USE DEF IInv
  <1>1. /\ pc = from /\ result' = r /\ pc' \in {"returned", "retry"}
        /\ kinds' = [kinds EXCEPT ![attempt] = r.kind]
    BY AttemptedMeans
  <1>2. pc' = "returned" <=> Succeeded(r)
    BY AttemptedMeans
  <1>3. r.kind \in Kinds
    BY ResultFields
  <1>4. TypeOK'
    BY <1>1, <1>3 DEF TypeOK, Pcs
  <1>5. InOrder'
    BY <1>1, RunsNumbered DEF InOrder, TypeOK
  <1>6. Counted'
    <2>1. attempt \in Nat /\ \A n \in Runs : proc[n] # "none" <=> n <= attempt
      BY <1>1, RunsMade
    <2>2. result'.attempts = attempt /\ UNCHANGED <<attempt, proc>>
      BY <1>1
    <2> QED BY <2>1, <2>2, CountedAfter
  <1>7. LastSucceeded'
    BY <1>1, <1>2 DEF LastSucceeded, TypeOK
  <1>8. HandsFree'
    BY <1>1 DEF HandsFree, TypeOK
  <1>9. LateIsLast'
    BY <1>1, <1>2 DEF LateIsLast
  <1> QED BY <1>4, <1>5, <1>6, <1>7, <1>8, <1>9

LEMMA PollStep ==
  ASSUME IInv, PollCompletes \/ PollFails
  PROVE  IInv'
  <1>1. CASE PollFails
    <2> USE DEF IInv, PollFails, PollRaises, Goto
    <2>1. TypeOK'
      BY <1>1 DEF TypeOK, Pcs
    <2>2. InOrder' /\ Counted' /\ LastSucceeded' /\ HandsFree' /\ LateIsLast'
      BY <1>1 DEF InOrder, Counted, LastSucceeded, HandsFree, LateIsLast
    <2> QED BY <2>1, <2>2
  <1>2. CASE PollCompletes
    <2>1. PICK r \in ResultsOf :
            /\ Attempted("poll", r) /\ r.attempts = attempt
            /\ Succeeded(r) => proc[attempt] = "succeeded"
      <3>1. attempt \in Runs
        BY DEF IInv, TypeOK
      <3>2. CASE proc[attempt] = "succeeded"
        BY <1>2, <3>1, <3>2, SuccessFields DEF PollCompletes, Success
      <3>3. CASE proc[attempt] # "succeeded"
        <4>1. PICK k \in {"retryable", "fatal"} : Attempted("poll", Failure("failed", k, attempt))
          BY <1>2, <3>3 DEF PollCompletes
        <4>2. k \in Kinds /\ "failed" \in Errors /\ attempt \in {0} \cup Runs
          BY <3>1, ConstantsTyped
        <4>3. Failure("failed", k, attempt) \in ResultsOf
              /\ Failure("failed", k, attempt).attempts = attempt
          BY <4>2, FailureFields
        <4> QED BY <4>1, <4>3, FailureFails
      <3> QED BY <3>2, <3>3
    <2>2. late = {}
      BY <2>1, AttemptedMeans DEF IInv, LateIsLast
    <2>3. Settled(attempt)' /\ proc' = proc
      BY <1>2 DEF PollCompletes, PollDone
    <2> QED BY <1>2, <2>1, <2>2, <2>3, AttemptedEnds DEF PollCompletes, PollDone, IInv, TypeOK
  <1> QED BY <1>1, <1>2

LEMMA CancelStep ==
  ASSUME IInv, Cancel \/ Kill \/ Reap
  PROVE  IInv'
  <1>1. CASE CancelGoesOn("cancel", "kill") /\ CancelTerminate(attempt)
    <2> USE DEF IInv, CancelGoesOn, CancelTerminate, Signal, Goto
    <2>1. TypeOK'
      BY <1>1 DEF TypeOK, Pcs, ProcStates
    <2>2. InOrder' /\ Counted' /\ LastSucceeded'
      BY <1>1 DEF InOrder, Counted, LastSucceeded, TypeOK
    <2>3. HandsFree' /\ LateIsLast'
      BY <1>1 DEF HandsFree, LateIsLast, TypeOK
    <2> QED BY <2>1, <2>2, <2>3
  <1>2. CASE CancelGoesOn("kill", "reap") /\ CancelKill(attempt)
    <2> USE DEF IInv, CancelGoesOn, CancelKill, Signal, Goto
    <2>1. TypeOK'
      BY <1>2 DEF TypeOK, Pcs, ProcStates
    <2>2. InOrder' /\ Counted' /\ LastSucceeded'
      BY <1>2 DEF InOrder, Counted, LastSucceeded, TypeOK
    <2>3. HandsFree' /\ LateIsLast'
      BY <1>2 DEF HandsFree, LateIsLast, TypeOK
    <2> QED BY <2>1, <2>2, <2>3
  <1>3. ASSUME NEW from \in {"cancel", "kill", "reap"}, CancelEnds(from),
               CancelNothing(attempt) \/ SignalFails(attempt)
                 \/ (from = "reap" /\ CancelKeeps(attempt))
        PROVE  IInv'
    <2> DEFINE k == IF stopping = "Cancelled" THEN "cancelled" ELSE "retryable"
    <2> DEFINE r == Failure(stopping, k, attempt)
    <2>1. /\ Attempted(from, r) /\ UNCHANGED <<attempt, event, late>> /\ stopping' = "none"
      BY <1>3 DEF CancelEnds
    <2>2. late # {} => k = "cancelled"
      BY <2>1, AttemptedMeans DEF IInv, LateIsLast
    <2>6. stopping \in Errors /\ k \in Kinds /\ attempt \in {0} \cup Runs
      BY ConstantsTyped DEF IInv, TypeOK
    <2> HIDE DEF k
    <2>7. r \in ResultsOf /\ r.attempts = attempt /\ r.kind = k
      BY <2>6, FailureFields
    <2>8. ~Succeeded(r)
      BY FailureFails
    <2> HIDE DEF r
    <2>3. /\ proc' = proc /\ (handles' = handles \ {attempt} \/ handles' = handles)
          /\ logs' \subseteq Runs /\ records' = records
          /\ immune \subseteq immune' /\ immune' \subseteq Runs
      BY <1>3 DEF CancelNothing, SignalFails, CancelKeeps, Forget, shimVars, IInv, TypeOK
    <2>4. attempt \in handles
      BY <2>1, AttemptedMeans DEF IInv, HandsFree
    <2>5. Settled(attempt)'
      BY <1>3, <2>1, <2>3, <2>4 DEF CancelNothing, SignalFails, CancelKeeps, shimVars
    <2> QED BY <2>1, <2>2, <2>3, <2>5, <2>7, <2>8, AttemptedEnds DEF IInv, TypeOK
  <1> QED BY <1>1, <1>2, <1>3 DEF Cancel, Kill, Reap

LEMMA RetryStep ==
  ASSUME IInv, Retry \/ Backoff \/ NapCheck \/ Nap
  PROVE  IInv'
  <1> USE RunsNumbered DEF IInv, Goto, shimVars
  <1>1. CASE Retry
    <2>1. TypeOK' /\ InOrder'
      BY <1>1 DEF Retry, Retryable, TypeOK, Pcs, InOrder
    <2>2. Counted'
      BY <1>1, RunsMade DEF Retry, InOrder, Counted
    <2>3. LastSucceeded' /\ HandsFree'
      BY <1>1 DEF Retry, Retryable, LastSucceeded, HandsFree
    <2>4. LateIsLast'
      BY <1>1 DEF Retry, Retryable, LateIsLast
    <2> QED BY <2>1, <2>2, <2>3, <2>4
  <1>2. CASE Backoff
    <2>1. TypeOK' /\ InOrder'
      <3>1. attempt <= MaxRetries => attempt + 1 \in Runs
        BY RunAfter DEF TypeOK
      <3>2. TypeOK'
        BY <1>2, <3>1 DEF Backoff, TypeOK, Pcs, InOrder
      <3>3. CASE pc' = "nap_check"
        <4>1. pc = "backoff" /\ UNCHANGED <<attempt, proc, kinds, result>>
          BY <1>2, <3>3 DEF Backoff
        <4>2. InOrder
          OBVIOUS
        <4> QED BY ONLY <3>2, <3>3, <4>1, <4>2, NapsInOrder
      <3>4. CASE pc' = "check"
        <4>1. attempt' = attempt + 1 /\ pc = "backoff" /\ UNCHANGED <<proc, kinds>>
          BY <1>2, <3>4 DEF Backoff
        <4>2. kinds[attempt] = "retryable" /\ attempt <= MaxRetries
          BY <4>1 DEF InOrder
        <4>3. \A n \in Runs : n < attempt => kinds[n] = "retryable"
          BY DEF InOrder
        <4>4. attempt \in Nat /\ attempt # 0 /\ \A n \in Runs : n \in Nat
          BY RunsNumbered DEF TypeOK
        <4>5. \A n \in Runs : proc[n] # "none" <=> n <= attempt
          BY <4>1, RunsMade
        <4> QED BY ONLY <3>1, <3>2, <3>4, <4>1, <4>2, <4>3, <4>4, <4>5, NextInOrder
      <3>5. pc' \in {"nap_check", "check"}
        BY <1>2 DEF Backoff
      <3> QED BY <3>2, <3>3, <3>4, <3>5
    <2>2. Counted' /\ LastSucceeded' /\ HandsFree' /\ LateIsLast'
      BY <1>2 DEF Backoff, TypeOK, InOrder, Counted, LastSucceeded, HandsFree, LateIsLast
    <2> QED BY <2>1, <2>2
  <1>3. CASE NapCheck
    <2>1. /\ result' \in ResultsOf
          /\ result'.kind = result.kind /\ result'.attempts = result.attempts
      BY <1>3, NappedFields DEF NapCheck, Return, Napped, TypeOK
    <2>2. Succeeded(result)' <=> Succeeded(result)
      <3>1. result' = result \/ result' = Napped(result)
        BY <1>3 DEF NapCheck, Return, Napped
      <3>2. result \in ResultsOf
        BY DEF TypeOK
      <3> QED BY ONLY <3>1, <3>2, NappedFails
    <2>3. /\ pc' \in {"nap", "returned"} /\ pc = "nap_check"
          /\ UNCHANGED <<attempt, event, stopping, shimVars, kinds, late>>
      BY <1>3 DEF NapCheck, Return
    <2>4. TypeOK'
      BY <2>1, <2>3 DEF TypeOK, Pcs
    <2>5. InOrder'
      BY <2>1, <2>3 DEF TypeOK, InOrder
    <2>6. Counted'
      BY <2>1, <2>3, RunsMade DEF InOrder, Counted
    <2>7. LastSucceeded'
      BY <2>1, <2>2, <2>3 DEF LastSucceeded
    <2>8. HandsFree' /\ LateIsLast'
      BY <2>3 DEF HandsFree, LateIsLast
    <2> QED BY <2>4, <2>5, <2>6, <2>7, <2>8
  <1>4. CASE Nap
    <2>1. TypeOK' /\ InOrder'
      BY <1>4 DEF Nap, TypeOK, Pcs, InOrder
    <2>2. Counted' /\ LastSucceeded' /\ HandsFree' /\ LateIsLast'
      BY <1>4 DEF Nap, Counted, LastSucceeded, HandsFree, LateIsLast
    <2> QED BY <2>1, <2>2
  <1> QED BY <1>1, <1>2, <1>3, <1>4

LEMMA EnvironmentStep ==
  ASSUME IInv, SetEvent \/ ProcessExits \/ Tick \/ UNCHANGED vars
  PROVE  IInv'
  <1> USE DEF IInv, callVars, shimVars
  <1>1. CASE SetEvent \/ Tick \/ UNCHANGED vars
    <2>1. TypeOK' /\ InOrder'
      BY <1>1 DEF SetEvent, Tick, vars, TypeOK, InOrder
    <2>2. Counted' /\ LastSucceeded' /\ HandsFree' /\ LateIsLast'
      BY <1>1 DEF SetEvent, Tick, vars, Counted, LastSucceeded, HandsFree, LateIsLast
    <2> QED BY <2>1, <2>2
  <1>2. ASSUME NEW n \in Runs, Exit(n), UNCHANGED <<callVars, event>>
        PROVE  IInv'
    <2>1. PICK s \in {"succeeded", "failed"} :
            proc' = [proc EXCEPT ![n] = s] /\ Live(n)
      BY <1>2 DEF Exit
    <2>2. TypeOK' /\ InOrder'
      BY <1>2, <2>1 DEF Exit, TypeOK, ProcStates, InOrder
    <2>3. Counted' /\ LastSucceeded'
      BY <1>2, <2>1 DEF Exit, TypeOK, Counted, LastSucceeded
    <2>4. HandsFree' /\ LateIsLast'
      BY <1>2, <2>1 DEF Exit, TypeOK, HandsFree, LateIsLast
    <2> QED BY <2>2, <2>3, <2>4
  <1> QED BY <1>1, <1>2 DEF ProcessExits

LEMMA InvStep == IInv /\ [Next]_vars => IInv'
  <1> SUFFICES ASSUME IInv, [Next]_vars PROVE IInv'
    OBVIOUS
  <1> QED BY CheckStep, StartStep, LookStep, PollStep, CancelStep, RetryStep, EnvironmentStep
             DEF Next, DispatchStep

\* What holds of every dispatch.
THEOREM Invariance == Spec => []IInv
  BY InvInit, InvStep, PTL DEF Spec

-----------------------------------------------------------------------------

\* Every variable keeps its range, whatever the adapter raises.
THEOREM TypeCorrect == Spec => []TypeOK
  <1>1. IInv => TypeOK
    BY DEF IInv
  <1> QED BY <1>1, Invariance, PTL

\* No provider works beside a later one or after the prompt was given up, for any number of
\* retries: a worker lets go of a run only when it is settled.  (daemon.py:111-168)
THEOREM NoProviderStays == Spec => []NoRunLeftBehind
  <1>1. IInv => NoRunLeftBehind
    BY RunsNumbered DEF IInv, NoRunLeftBehind, HandsFree, InOrder, TypeOK, Ended
  <1> QED BY <1>1, Invariance, PTL

\* A prompt is tried again only after a failure that a retry may mend.  (daemon.py:199-232)
THEOREM OnlyMendableRetried == Spec => []RetriesMend
  <1>1. ASSUME IInv, NEW n \in Runs, n > 1, proc[n] # "none"
        PROVE  proc[n - 1] # "none" /\ kinds[n - 1] = "retryable"
    <2>1. n - 1 \in Runs
      BY <1>1, RunBefore
    <2>2. n \in Nat /\ attempt \in Nat
      BY RunsNumbered, <1>1 DEF IInv, TypeOK
    <2>3. n - 1 < attempt
      BY <1>1, <2>2 DEF IInv, InOrder
    <2> QED BY <1>1, <2>1, <2>3 DEF IInv, InOrder
  <1>2. IInv => RetriesMend
    BY <1>1 DEF RetriesMend
  <1> QED BY <1>2, Invariance, PTL

\* After a cancel at most one more run is started, and its answer is not taken.
\* (daemon.py:196-198, 111-117)
THEOREM CancelsStop == Spec => []CancelStopsRuns
  <1>1. ASSUME IInv PROVE CancelStopsRuns
    <2>1. late = {} \/ late = {attempt}
      BY <1>1 DEF IInv, LateIsLast
    <2>2. Cardinality(late) <= 1
      BY <2>1, FS_EmptySet, FS_Singleton
    <2>3. pc = "returned" /\ late # {} => ~result.success
      BY <1>1 DEF IInv, LateIsLast, Succeeded
    <2> QED BY <2>2, <2>3 DEF CancelStopsRuns
  <1> QED BY <1>1, Invariance, PTL

\* The result counts the runs that were made, and a success is the exit of the last of them
\* with its logs read.  (daemon.py:189-238)
THEOREM ResultIsTrue == Spec => []ResultTruthful
  <1>1. ASSUME IInv, pc = "returned"
        PROVE  /\ result.attempts = Cardinality({n \in Runs : proc[n] # "none"})
               /\ result.success => proc[result.attempts] = "succeeded" /\ result.attempts \in records
               /\ \A n \in records : n < result.attempts => kinds[n] = "retryable"
    <2>1. result.attempts \in {0} \cup Runs /\ result.attempts <= attempt
      BY <1>1, ResultFields DEF IInv, TypeOK, Counted
    <2>2. result.attempts \in 0..(MaxRetries + 1)
      BY <2>1, RunsAssumption, RetriesAssumption
    <2>3. {n \in Runs : proc[n] # "none"} = 1..result.attempts
      BY <1>1, <2>2, RunsAssumption, RetriesAssumption DEF IInv, Counted
    <2>4. Cardinality(1..result.attempts) = result.attempts
      BY <2>2, FS_Interval
    <2>5. result.success => proc[result.attempts] = "succeeded" /\ result.attempts \in records
      BY <1>1 DEF IInv, LastSucceeded, Succeeded
    <2>6. \A n \in records : n < result.attempts => kinds[n] = "retryable"
      <3>1. attempt \in Runs
        BY <1>1 DEF IInv, TypeOK
      <3>2. attempt \in Nat
        BY <3>1, RunsNumbered
      <3>3. result.attempts \in Nat
        BY <2>2, RetriesAssumption
      <3>4. \A n \in records : n \in Runs /\ n \in Nat
        BY <1>1, RunsNumbered DEF IInv, TypeOK
      <3> QED BY <1>1, <2>1, <3>2, <3>3, <3>4 DEF IInv, InOrder
    <2> QED BY <2>3, <2>4, <2>5, <2>6
  <1>2. IInv => ResultTruthful
    BY <1>1 DEF ResultTruthful
  <1> QED BY <1>2, Invariance, PTL
=============================================================================

--------------------------- MODULE PromptService ---------------------------
(***************************************************************************)
(* What a session daemon promises its clients, with no thread, lock,       *)
(* socket or event in sight: prompts are submitted, wait in line, are      *)
(* served one at a time and first come first served, and each is answered  *)
(* once.  A prompt answered "ok" is in the transcript, once, and only such *)
(* prompts are.  A prompt still in line may be withdrawn.                  *)
(* SessionDaemon implements this specification.                            *)
(***************************************************************************)
EXTENDS Naturals, Sequences

CONSTANTS
    Requests,
    Places      \* how many may wait in line

VARIABLES
    line,        \* requests waiting, oldest first
    serving,     \* the request being served: a set with at most one element
    answer,      \* answer given to each request, "none" before
    transcript   \* requests recorded as completed turns, in order

svcVars == <<line, serving, answer, transcript>>

ServedAnswers == {"ok", "empty", "error", "cancelled"}
Answers == {"none", "withdrawn"} \cup ServedAnswers

InLine(r) == \E i \in 1..Len(line) : line[i] = r
Recorded(r) == \E i \in 1..Len(transcript) : transcript[i] = r

Init ==
    /\ line = <<>>
    /\ serving = {}
    /\ answer = [r \in Requests |-> "none"]
    /\ transcript = <<>>

\* A request enters the line once, if there is a place: not while it waits or is served,
\* and not after its answer.
Submit(r) ==
    /\ Len(line) < Places
    /\ answer[r] = "none" /\ ~InLine(r) /\ r \notin serving
    /\ line' = Append(line, r)
    /\ UNCHANGED <<serving, answer, transcript>>

Begin ==
    /\ serving = {} /\ line # <<>>
    /\ serving' = {Head(line)}
    /\ line' = Tail(line)
    /\ UNCHANGED <<answer, transcript>>

Record(r) ==
    /\ r \in serving /\ ~Recorded(r)
    /\ transcript' = Append(transcript, r)
    /\ UNCHANGED <<line, serving, answer>>

Answer(r, a) ==
    /\ r \in serving
    /\ a = "ok" <=> Recorded(r)
    /\ answer' = [answer EXCEPT ![r] = a]
    /\ serving' = {}
    /\ UNCHANGED <<line, transcript>>

Withdraw ==
    /\ line # <<>>
    /\ answer' = [answer EXCEPT ![Head(line)] = "withdrawn"]
    /\ line' = Tail(line)
    /\ UNCHANGED <<serving, transcript>>

Next ==
    \/ \E r \in Requests : Submit(r)
    \/ Begin
    \/ \E r \in Requests : Record(r)
    \/ \E r \in Requests, a \in ServedAnswers : Answer(r, a)
    \/ Withdraw

Spec == Init /\ [][Next]_svcVars
=============================================================================

---------------------------- MODULE AnswerStream ----------------------------
(***************************************************************************)
(* What the poll loop of src/runtime/invocation_runtime.py shows of an     *)
(* answer while a provider writes it.  Each poll decodes the whole log so  *)
(* far (src/runtime/answer_transport.py) and sends what is new.  The       *)
(* provider writes lines, and a poll may find the last of them half        *)
(* written.                                                                *)
(***************************************************************************)
EXTENDS Naturals, SequencesExt

CONSTANTS
    Pieces,     \* pieces of answer text
    Texts,      \* what a line may say: sequences of pieces
    MaxLines    \* bound: lines a provider writes

ASSUME TextsAssumption == Texts \subseteq Seq(Pieces) \ {<<>>} /\ MaxLines \in Nat

VARIABLES
    decoder,    \* the decoder of the provider's adapter
    log, half,  \* the whole lines of the log; a line is half written
    provider,   \* "up", or how it ended
    at, seen,   \* where the loop is, how the provider was when polled
    emitted,    \* emitted_answer: what the last decoding said
    shown,      \* the deltas sent, joined
    result,
    early       \* history: text was shown of a log whose lines were not understood

providerVars == <<log, half, provider>>
streamVars == <<decoder, providerVars, at, seen, emitted, shown, result, early>>

Decoders == {"plain", "json", "codex", "pi"}

\* What a line is: a piece of the answer, the answer so far, the answer with the end of
\* the turn, the end, an error, or no JSON at all.
Kinds == {"delta", "message", "end", "done", "error", "text"}
Lines ==
    [kind : {"delta", "message", "end", "text"}, text : Texts]
      \cup [kind : {"done", "error"}, text : {<<>>}]
HalfLine == <<"half">>

-----------------------------------------------------------------------------
(* The decoders *)

\* The lines that add to the answer, and those that give it anew.
Adding == [json |-> {"delta", "message"}, codex |-> {"delta"}, pi |-> {"delta"}]
Giving == [json |-> {}, codex |-> {"message", "end"}, pi |-> {"end"}]

\* What the first say together, and where the others are.
Added ==
    FlattenSeq([k \in 1..Len(log) |->
                  IF log[k].kind \in Adding[decoder] THEN log[k].text ELSE <<>>])

Given == {k \in 1..Len(log) : log[k].kind \in Giving[decoder]}

\* The last line that says how the turn ended.
Status ==
    LET IsVerdict(l) == l.kind \in {"end", "done", "error"}
        verdicts == SelectSeq(log, IsVerdict)
    IN  IF verdicts = <<>> THEN "running"
        ELSE IF Last(verdicts).kind = "error" THEN "failed" ELSE "succeeded"

Raw == FlattenSeq([k \in 1..Len(log) |-> log[k].text]) \o (IF half THEN HalfLine ELSE <<>>)

Understood == decoder # "plain" /\ \E k \in 1..Len(log) : log[k].kind # "text"

\* Of a log without a line it understands, the decoder for JSON events takes all for text.
AsPlain == decoder = "plain" \/ (decoder = "json" /\ ~Understood)

\* The last text given anew is the answer, or else all that was added to it; it stands
\* for the deltas if there were none.
Decode ==
    IF AsPlain THEN [deltas |-> Raw, final |-> Raw, status |-> "succeeded"]
    ELSE LET final == IF Given = {} THEN Added ELSE log[Max(Given)].text
         IN  [deltas |-> IF Added = <<>> THEN final ELSE Added, final |-> final,
              status |-> IF decoder = "json" /\ Status = "running" /\ Added # <<>>
                         THEN "succeeded" ELSE Status]

-----------------------------------------------------------------------------

StreamInit ==
    /\ decoder \in Decoders
    /\ log = <<>> /\ half = FALSE /\ provider = "up"
    /\ at = "poll" /\ seen = "up"
    /\ emitted = <<>> /\ shown = <<>> /\ early = FALSE
    /\ result = [status |-> "none", output |-> <<>>]

(* The provider *)

\* A provider of the plain decoder writes text; half a line of text is a line of its own
\* here, so that only other lines are half written.
WriteLine ==
    /\ provider = "up" /\ Len(log) < MaxLines
    /\ \E l \in Lines :
         /\ decoder = "plain" => l.kind = "text"
         /\ half => l.kind # "text"
         /\ log' = Append(log, l)
    /\ half' = FALSE
    /\ UNCHANGED <<decoder, provider, at, seen, emitted, shown, result, early>>

WriteHalf ==
    /\ provider = "up" /\ Len(log) < MaxLines /\ ~half /\ decoder # "plain"
    /\ half' = TRUE
    /\ UNCHANGED <<decoder, log, provider, at, seen, emitted, shown, result, early>>

Exit ==
    /\ provider = "up" /\ provider' \in {"succeeded", "failed"}
    /\ UNCHANGED <<decoder, log, half, at, seen, emitted, shown, result, early>>

-----------------------------------------------------------------------------
(* The loop of _run_one_invocation *)

End(status, output) == at' = "over" /\ result' = [status |-> status, output |-> output]

\* The event is set, the poll raises, or a deadline has passed: the record says what was
\* emitted.
StopRun ==
    /\ at = "poll" /\ End("stopped", emitted)
    /\ UNCHANGED <<decoder, providerVars, seen, emitted, shown, early>>

Poll ==
    /\ at = "poll" /\ at' = "look" /\ seen' = provider
    /\ UNCHANGED <<decoder, providerVars, emitted, shown, result, early>>

\* Mutant of Fresh: what was emitted before is emitted again.
FreshAlways(answer) == answer

\* What is new of an answer: the rest if it begins as before, otherwise all of it.
Fresh(answer) ==
    IF IsPrefix(emitted, answer) THEN SubSeq(answer, Len(emitted) + 1, Len(answer)) ELSE answer

Look ==
    /\ at = "look"
    /\ LET t == Decode
       IN  /\ IF t.deltas = <<>> THEN UNCHANGED <<emitted, shown>>
              ELSE emitted' = t.deltas /\ shown' = shown \o Fresh(t.deltas)
           /\ early' = (early \/ (decoder = "json" /\ AsPlain /\ t.deltas # <<>>))
           /\ \/ seen = "up" /\ at' = "poll" /\ UNCHANGED result
              \/ seen = "succeeded" /\ t.status # "failed" /\ End("success", t.final)
              \/ seen = "succeeded" /\ t.status = "failed" /\ End("failed", emitted')
              \/ seen = "failed" /\ End("failed", emitted')
    /\ UNCHANGED <<decoder, providerVars, seen>>

StreamNext == WriteLine \/ WriteHalf \/ Exit \/ StopRun \/ Poll \/ Look

StreamSpec == StreamInit /\ [][StreamNext]_streamVars

-----------------------------------------------------------------------------
(* What holds *)

\* Every variable stays in its range.
StreamTypeOK ==
    /\ decoder \in Decoders /\ log \in Seq(Lines) /\ half \in BOOLEAN /\ early \in BOOLEAN
    /\ provider \in {"up", "succeeded", "failed"} /\ seen \in {"up", provider}
    /\ at \in {"poll", "look", "over"}
    /\ result.status \in {"none", "success", "failed", "stopped"}
    /\ {emitted, shown, result.output} \subseteq Seq(Pieces \cup {"half"})

\* The lines that give the answer agree with each other and with what was added to it,
\* and come after it.
Consistent ==
    decoder \in {"codex", "pi"} =>
        \A i \in Given, j \in 1..Len(log) :
            /\ j \in Given => log[j].text = log[i].text
            /\ log[j].kind \in Adding[decoder] => j < i /\ log[i].text = Added

\* The text that a successful run has shown, delta by delta, over however many polls, is
\* its answer, if the provider's lines agree and none was shown before it was understood.
\* Even if they do not, nothing is shown of the answer but what the last decoding adds up
\* to comes last.
AnswerIsShown ==
    result.status = "success" =>
        /\ Consistent /\ ~(early /\ Understood) => shown = result.output
        /\ IsSuffix(Decode.deltas, shown)
=============================================================================

--------------------------- MODULE InvocationStage ---------------------------
(***************************************************************************)
(* What a stage promises: a set of invocations is given to the providers,  *)
(* each of them ends once, in one way; none is begun after a stop; and the *)
(* verdict is drawn from all of them.  An invocation begun before the stop *)
(* may still start its provider after it, or after its stage is over, but  *)
(* then for nothing: it is no success.  InvocationRun implements it,       *)
(* InvocationWorkflow builds on it.                                        *)
(***************************************************************************)
CONSTANT Invocations

VARIABLES
    members,    \* the invocations of the stage
    phase,      \* "running" or "returned"
    begun,      \* those found not to be stopped, so that their provider is started
    timely,     \* those whose provider was started, and before the stop
    ended,      \* how each ended, "none" until it did
    verdict,    \* status of the stage, "none" until it returns
    stopped     \* the user cancelled, or the deadline of the task passed

stageVars == <<members, phase, begun, timely, ended, verdict>>

Statuses == {"success", "failed", "cancelled", "timeout"}
Verdicts == {"complete", "partial", "failed"}

\* What is said of outcomes, by invocation or by record.
Judge(outcomes) ==
    IF outcomes \subseteq {"success"} THEN "complete"
    ELSE IF "success" \in outcomes THEN "partial" ELSE "failed"

Stop ==
    /\ ~stopped /\ stopped' = TRUE
    /\ UNCHANGED stageVars

Begin(i) ==
    /\ phase = "running" /\ ~stopped
    /\ i \in members \ begun /\ ended[i] = "none"
    /\ begun' = begun \cup {i}
    /\ UNCHANGED <<members, phase, timely, ended, verdict, stopped>>

\* The provider of an invocation that timed out may start when it is too late.
StartProvider(i) ==
    /\ ~stopped /\ i \in begun \ timely
    /\ timely' = timely \cup {i}
    /\ UNCHANGED <<members, phase, begun, ended, verdict, stopped>>

\* Some invocations have ended, a success only if its provider was started in time.
Conclude ==
    /\ phase = "running"
    /\ ended' \in [Invocations -> {"none"} \cup Statuses]
    /\ \A i \in Invocations :
         \/ ended'[i] = ended[i]
         \/ i \in members /\ ended[i] = "none" /\ (ended'[i] = "success" => i \in timely)
    /\ UNCHANGED <<members, phase, begun, timely, verdict, stopped>>

Return ==
    /\ phase = "running" /\ \A i \in members : ended[i] # "none"
    /\ phase' = "returned"
    /\ verdict' = Judge({ended[i] : i \in members})
    /\ UNCHANGED <<members, begun, timely, ended, stopped>>

StageInit ==
    /\ members = Invocations /\ phase = "running" /\ begun = {} /\ timely = {}
    /\ ended = [i \in Invocations |-> "none"] /\ verdict = "none" /\ stopped \in BOOLEAN

StageNext == Stop \/ Conclude \/ Return \/ \E i \in Invocations : Begin(i) \/ StartProvider(i)

StageSpec == StageInit /\ [][StageNext]_<<stageVars, stopped>>
=============================================================================

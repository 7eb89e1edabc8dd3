---------------------------- MODULE ShimAdapter ----------------------------
(***************************************************************************)
(* The runs of one ShimAdapterBase, src/runtime/adapters/shim.py: a        *)
(* provider process per run, the handle the adapter keeps for it in _runs, *)
(* its two log files and the result record poll writes at the end.  A      *)
(* caller composes the operations below with steps of its own; cancel is   *)
(* three steps, with the sleeps of the code between them.                  *)
(***************************************************************************)
CONSTANT Runs

VARIABLES
    proc,     \* the process of each run
    handles,  \* runs in _runs
    logs,     \* runs whose log files the adapter holds open
    records,  \* runs with a result file
    immune    \* history: processes that could not be signalled

shimVars == <<proc, handles, logs, records, immune>>

\* "stopping" and "killed": SIGTERM or SIGKILL is on its way to the process group.
ProcStates == {"none", "running", "stopping", "killed", "succeeded", "failed"}

Live(r) == proc[r] \in {"running", "stopping", "killed"}
Exited(r) == proc[r] \in {"succeeded", "failed"}

ShimInit ==
    /\ proc = [r \in Runs |-> "none"]
    /\ handles = {} /\ logs = {} /\ records = {} /\ immune = {}

\* Environment: a process ends, by itself or by a signal.
Exit(r) ==
    /\ \/ proc[r] \in {"running", "stopping"}
          /\ \E s \in {"succeeded", "failed"} : proc' = [proc EXCEPT ![r] = s]
       \/ proc[r] = "killed" /\ proc' = [proc EXCEPT ![r] = "failed"]
    /\ UNCHANGED <<handles, logs, records, immune>>

\* run: the logs are opened, the process spawned, the handle stored.  If the spawn
\* fails the logs are closed again and nothing is left.
Start(r) ==
    /\ proc[r] = "none"
    /\ proc' = [proc EXCEPT ![r] = "running"]
    /\ handles' = handles \cup {r}
    /\ logs' = logs \cup {r}
    /\ UNCHANGED <<records, immune>>

StartFails(r) == proc[r] = "none" /\ UNCHANGED shimVars

\* poll.  A run without a handle is reported as expired; no caller polls one.
PollRunning(r) == r \in handles /\ Live(r) /\ UNCHANGED shimVars

PollDone(r) ==
    /\ r \in handles /\ Exited(r)
    /\ handles' = handles \ {r}
    /\ logs' = logs \ {r}
    /\ records' = records \cup {r}
    /\ UNCHANGED <<proc, immune>>

\* A log that is not UTF-8, or a record that cannot be written.
PollRaises(r) ==
    /\ r \in handles /\ Exited(r)
    /\ logs' = logs \ {r}
    /\ UNCHANGED <<proc, handles, records, immune>>

\* cancel
Forget(r) == handles' = handles \ {r} /\ logs' = logs \ {r}

Signal(r, state) == proc' = [proc EXCEPT ![r] = state] /\ UNCHANGED immune

\* The signal is refused and the adapter gives the process up.
SignalFails(r) ==
    /\ r \in handles /\ Live(r)
    /\ immune' = immune \cup {r}
    /\ Forget(r)
    /\ UNCHANGED <<proc, records>>

\* Nothing to cancel: the run is unknown, or its process has ended.
CancelNothing(r) ==
    /\ r \notin handles \/ Exited(r)
    /\ Forget(r)
    /\ UNCHANGED <<proc, records, immune>>

CancelTerminate(r) ==
    /\ r \in handles /\ Live(r)
    /\ Signal(r, "stopping")
    /\ UNCHANGED <<handles, logs, records>>

\* 0.2 seconds later: a process that did not heed SIGTERM is killed.
CancelKill(r) ==
    /\ Live(r)
    /\ Signal(r, "killed")
    /\ UNCHANGED <<handles, logs, records>>

\* Its handle and logs are kept if it has not ended after another 0.1 seconds.
CancelKeeps(r) == proc[r] = "killed" /\ UNCHANGED shimVars
=============================================================================

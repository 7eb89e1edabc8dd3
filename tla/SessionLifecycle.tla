-------------------------- MODULE SessionLifecycle --------------------------
(***************************************************************************)
(* The life of one named session: the operations of                        *)
(* src/runtime/session/manager.py, run by any number of mco processes at   *)
(* once, and the daemon processes they launch (run_daemon in daemon.py).   *)
(* They meet in two files: state.json, read and rewritten whole without a  *)
(* lock, and the socket, a path that any daemon may unlink or bind.        *)
(*                                                                         *)
(* A daemon is identified with its pid; no pid is used twice.  A save or a *)
(* load of state.json is one step.  What a daemon does between its start   *)
(* and its end is SessionDaemon.                                           *)
(***************************************************************************)
EXTENDS Naturals, FiniteSets

CONSTANTS
    Managers,    \* mco processes that operate on the session
    Daemons,     \* pids: a bound on the number of launches
    None,
    Operations,  \* what the managers do
    MayCrash,    \* a daemon may be killed outright
    MayBeSlow    \* a daemon may need more than the five seconds it is given

ASSUME NoneAssumption == None \notin Daemons
ASSUME OperationsAssumption ==
    Operations \subseteq {"start", "stop", "list", "ensure", "resume"}
ASSUME SwitchesAssumption == MayCrash \in BOOLEAN /\ MayBeSlow \in BOOLEAN

VARIABLES
    file,      \* state.json: status ("absent" without the file) and pid
    sock,      \* the daemon that bound the socket file, None without the file
    dpc,       \* where each daemon is in run_daemon
    told,      \* daemons whose running flag is off
    mpc,       \* where each manager is
    oldPid,    \* the pid a resuming manager read, None otherwise
    launched,  \* the daemon a manager launched and waits for
    outcome,   \* how its last operation ended
    \* history variable
    bound      \* daemons that ever bound the socket

daemonVars  == <<dpc, told, bound>>
managerVars == <<mpc, oldPid, launched, outcome>>
vars == <<file, sock, daemonVars, managerVars>>

Pids == Daemons \cup {None}
States == [status : {"absent", "active", "crashed", "stopped"}, pid : Pids]
DaemonPcs == {"unborn", "load", "unlink", "bind", "announce", "serving",
              "closing", "cleanup", "final", "dead"}
ManagerPcs == {"idle", "start", "resume", "ensure", "list", "stop", "save_new",
               "save_resume", "launch", "wait", "verify", "mark_crashed",
               "list_mark", "stop_load", "stop_save"}
Outcomes == {"none", "running", "already_active", "not_found", "failed", "listed",
             "stopped"}

Absent == [status |-> "absent", pid |-> None]
Stopped == [status |-> "stopped", pid |-> None]
Crashed == [status |-> "crashed", pid |-> None]
Active(d) == [status |-> "active", pid |-> d]

\* _is_pid_alive
Alive(d) == d # None /\ dpc[d] \notin {"unborn", "dead"}

\* The session looks alive to a manager that read s.
Running(s) == s.status = "active" /\ Alive(s.pid)

Init ==
    /\ file = Absent /\ sock = None
    /\ dpc = [d \in Daemons |-> "unborn"] /\ told = {} /\ bound = {}
    /\ mpc = [m \in Managers |-> "idle"]
    /\ oldPid = [m \in Managers |-> None]
    /\ launched = [m \in Managers |-> None]
    /\ outcome = [m \in Managers |-> "none"]

-----------------------------------------------------------------------------
(* Daemons: run_daemon *)

DaemonGoto(d, from, to) ==
    /\ dpc[d] = from
    /\ dpc' = [dpc EXCEPT ![d] = to]

\* Mutant of DaemonLoad: the pid is saved before the bind.
DaemonLoadAnnounces(d) ==
    /\ DaemonGoto(d, "load", IF file = Absent THEN "dead" ELSE "unlink")
    /\ file' = Active(d)
    /\ UNCHANGED <<sock, told, bound, managerVars>>

DaemonLoad(d) ==
    /\ DaemonGoto(d, "load", IF file = Absent THEN "dead" ELSE "unlink")
    /\ UNCHANGED <<file, sock, told, bound, managerVars>>

\* "Clean up stale socket": whatever is there is removed.
DaemonUnlink(d) ==
    /\ DaemonGoto(d, "unlink", "bind")
    /\ sock' = None
    /\ UNCHANGED <<file, told, bound, managerVars>>

DaemonBind(d) ==
    /\ DaemonGoto(d, "bind", "announce")
    /\ sock = None
    /\ sock' = d
    /\ bound' = bound \cup {d}
    /\ UNCHANGED <<file, told, managerVars>>

\* The path was bound meanwhile: the loser writes "crashed" and returns.
DaemonBindFails(d) ==
    /\ DaemonGoto(d, "bind", "dead")
    /\ sock # None
    /\ file' = Crashed
    /\ UNCHANGED <<sock, told, bound, managerVars>>

DaemonAnnounce(d) ==
    /\ DaemonGoto(d, "announce", "serving")
    /\ file' = Active(d)
    /\ UNCHANGED <<sock, told, bound, managerVars>>

\* The worker saves the daemon's own SessionState after every prompt.
DaemonTurn(d) ==
    /\ dpc[d] \in {"serving", "closing", "cleanup", "final"}
    /\ file' = Active(d)
    /\ UNCHANGED <<sock, daemonVars, managerVars>>

\* Mutant of DaemonClose: a daemon that state.json does not name stays.
DaemonCloseNamed(d) ==
    /\ d \in told /\ file.pid = d
    /\ DaemonGoto(d, "serving", "closing")
    /\ UNCHANGED <<file, sock, told, bound, managerVars>>

\* The accept loop ends; the threads are joined with timeouts.
DaemonClose(d) ==
    /\ d \in told
    /\ DaemonGoto(d, "serving", "closing")
    /\ UNCHANGED <<file, sock, told, bound, managerVars>>

DaemonJoined(d) ==
    /\ DaemonGoto(d, "closing", "cleanup")
    /\ UNCHANGED <<file, sock, told, bound, managerVars>>

\* The socket path is unlinked, whoever bound it ...
DaemonCleanup(d) ==
    /\ DaemonGoto(d, "cleanup", "final")
    /\ sock' = None
    /\ UNCHANGED <<file, told, bound, managerVars>>

\* ... and the last state saved.
DaemonFinal(d) ==
    /\ DaemonGoto(d, "final", "dead")
    /\ file' = Stopped
    /\ UNCHANGED <<sock, told, bound, managerVars>>

\* kill -9, the machine's memory, an error in the main thread: the files stay.
DaemonCrash(d) ==
    /\ MayCrash
    /\ Alive(d)
    /\ dpc' = [dpc EXCEPT ![d] = "dead"]
    /\ UNCHANGED <<file, sock, told, bound, managerVars>>

DaemonStep(d) ==
    \/ DaemonLoad(d) \/ DaemonUnlink(d) \/ DaemonBind(d) \/ DaemonBindFails(d)
    \/ DaemonAnnounce(d) \/ DaemonClose(d) \/ DaemonJoined(d) \/ DaemonCleanup(d)
    \/ DaemonFinal(d)

-----------------------------------------------------------------------------
(* Managers: start_session, resume_session, ensure_session, list_sessions, *)
(* stop_session *)

Goto(m, from, to) ==
    /\ mpc[m] = from
    /\ mpc' = [mpc EXCEPT ![m] = to]

\* The operation ends with o, or goes on.
Return(m, from, o) ==
    /\ Goto(m, from, "idle")
    /\ outcome' = [outcome EXCEPT ![m] = o]
    /\ launched' = [launched EXCEPT ![m] = None]

Continue(m, from, to) == Goto(m, from, to) /\ UNCHANGED <<outcome, launched>>

Busy == {m \in Managers : mpc[m] # "idle"}
Unborn == {d \in Daemons : dpc[d] = "unborn"}

\* Bound: an operation begins only when a pid is left for it.
Begin(m, op) ==
    /\ Cardinality(Busy) < Cardinality(Unborn) \/ op \in {"list", "stop"}
    /\ Goto(m, "idle", op)
    /\ outcome' = [outcome EXCEPT ![m] = "none"]
    /\ UNCHANGED <<file, sock, daemonVars, oldPid, launched>>

StartLoad(m) ==
    /\ IF Running(file) THEN Return(m, "start", "already_active")
                        ELSE Continue(m, "start", "save_new")
    /\ UNCHANGED <<file, sock, daemonVars, oldPid>>

StartSave(m) ==
    /\ Continue(m, "save_new", "launch")
    /\ file' = Active(None)
    /\ UNCHANGED <<sock, daemonVars, oldPid>>

ResumeLoad(m) ==
    /\ \/ file = Absent /\ Return(m, "resume", "not_found") /\ UNCHANGED oldPid
       \/ Running(file) /\ Return(m, "resume", "running") /\ UNCHANGED oldPid
       \/ /\ file # Absent /\ ~Running(file)
          /\ Continue(m, "resume", "save_resume")
          /\ oldPid' = [oldPid EXCEPT ![m] = file.pid]
    /\ UNCHANGED <<file, sock, daemonVars>>

\* The status is set; the pid is the one that was loaded.
ResumeSave(m) ==
    /\ Continue(m, "save_resume", "launch")
    /\ file' = Active(oldPid[m])
    /\ oldPid' = [oldPid EXCEPT ![m] = None]
    /\ UNCHANGED <<sock, daemonVars>>

\* ensure_session with the provider of the session: return it, resume it or start
\* it; the latter two load the state again.
EnsureLoad(m) ==
    /\ IF Running(file)
       THEN Return(m, "ensure", "running")
       ELSE Continue(m, "ensure", IF file = Absent THEN "start" ELSE "resume")
    /\ UNCHANGED <<file, sock, daemonVars, oldPid>>

Launch(m) ==
    /\ Goto(m, "launch", "wait")
    /\ \E d \in Unborn :
          /\ dpc' = [dpc EXCEPT ![d] = "load"]
          /\ launched' = [launched EXCEPT ![m] = d]
    /\ UNCHANGED <<file, sock, told, bound, oldPid, outcome>>

\* Up to five seconds for the socket path to exist, bound by whichever daemon.  They
\* do not pass before the daemon launched has had its chance, unless it is slow.
WaitEnds(m) ==
    /\ Continue(m, "wait", "verify")
    /\ sock # None \/ MayBeSlow \/ dpc[launched[m]] \notin {"load", "unlink", "bind"}
    /\ UNCHANGED <<file, sock, daemonVars, oldPid>>

\* Mutant of Verify: the wait starts again until the daemon is up.
VerifyOrWait(m) ==
    /\ IF Alive(file.pid) THEN Return(m, "verify", "running")
                          ELSE Continue(m, "verify", "wait")
    /\ UNCHANGED <<file, sock, daemonVars, oldPid>>

Verify(m) ==
    /\ IF Alive(file.pid) THEN Return(m, "verify", "running")
                          ELSE Continue(m, "verify", "mark_crashed")
    /\ UNCHANGED <<file, sock, daemonVars, oldPid>>

MarkCrashed(m) ==
    /\ Return(m, "mark_crashed", "failed")
    /\ file' = Crashed
    /\ UNCHANGED <<sock, daemonVars, oldPid>>

ListLoad(m) ==
    /\ IF file.status = "active" /\ ~Alive(file.pid)
       THEN Continue(m, "list", "list_mark")
       ELSE Return(m, "list", "listed")
    /\ UNCHANGED <<file, sock, daemonVars, oldPid>>

ListMark(m) ==
    /\ Return(m, "list_mark", "listed")
    /\ file' = Crashed
    /\ UNCHANGED <<sock, daemonVars, oldPid>>

\* The daemon behind the socket acknowledges a shutdown and is told to stop, or
\* nobody answers.
Answering == sock # None /\ dpc[sock] = "serving"

StopCall(m) ==
    /\ IF Answering
       THEN Return(m, "stop", "stopped") /\ told' = told \cup {sock}
       ELSE Continue(m, "stop", "stop_load") /\ UNCHANGED told
    /\ UNCHANGED <<file, sock, dpc, bound, oldPid>>

\* SIGTERM to the pid in the file: the handler turns running off; before it is
\* installed the signal kills.
StopKill(m) ==
    /\ IF file = Absent THEN Return(m, "stop_load", "stopped")
                        ELSE Continue(m, "stop_load", "stop_save")
    /\ LET d == file.pid
       IN  IF ~Alive(d) THEN UNCHANGED <<told, dpc>>
           ELSE IF dpc[d] = "announce"
                THEN dpc' = [dpc EXCEPT ![d] = "dead"] /\ UNCHANGED told
                ELSE told' = told \cup {d} /\ UNCHANGED dpc
    /\ UNCHANGED <<file, sock, bound, oldPid>>

StopSave(m) ==
    /\ Return(m, "stop_save", "stopped")
    /\ file' = Stopped
    /\ UNCHANGED <<sock, daemonVars, oldPid>>

ManagerStep(m) ==
    \/ StartLoad(m) \/ StartSave(m) \/ ResumeLoad(m) \/ ResumeSave(m) \/ EnsureLoad(m)
    \/ Launch(m) \/ WaitEnds(m) \/ Verify(m) \/ MarkCrashed(m)
    \/ ListLoad(m) \/ ListMark(m) \/ StopCall(m) \/ StopKill(m) \/ StopSave(m)

Next ==
    \/ \E m \in Managers : ManagerStep(m) \/ \E op \in Operations : Begin(m, op)
    \/ \E d \in Daemons : DaemonStep(d) \/ DaemonTurn(d) \/ DaemonCrash(d)

Spec == Init /\ [][Next]_vars

\* Processes are scheduled and every wait has a timeout.  Nothing makes an operation
\* begin, a prompt arrive or a daemon crash.
Fairness ==
    /\ \A m \in Managers : WF_vars(ManagerStep(m))
    /\ \A d \in Daemons : WF_vars(DaemonStep(d))

FairSpec == Spec /\ Fairness

-----------------------------------------------------------------------------
(* What holds *)

\* Every variable stays in its range.
TypeOK ==
    /\ file \in States /\ sock \in Pids
    /\ dpc \in [Daemons -> DaemonPcs] /\ told \subseteq Daemons
    /\ mpc \in [Managers -> ManagerPcs] /\ oldPid \in [Managers -> Pids]
    /\ launched \in [Managers -> Pids] /\ outcome \in [Managers -> Outcomes]
    /\ bound \subseteq Daemons

\* state.json only ever names a daemon that bound the socket, however many
\* managers and daemons write over each other: a pid in it is never that of a
\* daemon that lost the bind or has not got there.
NamedDaemonBound ==
    /\ file.pid # None => file.pid \in bound
    /\ \A m \in Managers : oldPid[m] # None => oldPid[m] \in bound

\* Every operation comes to an end, whatever happens to the daemon it waits for.
OperationsEnd == \A m \in Managers : mpc[m] # "idle" ~> mpc[m] = "idle"

\* A daemon that was launched serves or ends: none hangs on its way up, and one that is told
\* to stop ends, though others may have unlinked its socket and overwritten its state.
DaemonsSettle ==
    \A d \in Daemons :
        dpc[d] # "unborn" ~> dpc[d] = "dead" \/ (dpc[d] = "serving" /\ d \notin told)

-----------------------------------------------------------------------------
(* What comments and docstrings say, and the code does not do *)

\* ensure_session, "Idempotent session create-or-return": however often and by whom a
\* session is ensured, one daemon serves it.
OneDaemonServes == \A d, e \in Daemons : dpc[d] = "serving" /\ dpc[e] = "serving" => d = e
=============================================================================

----------------------- MODULE SessionLifecycleProofs -----------------------
(***************************************************************************)
(* Proofs about SessionLifecycle, for any number of managers and daemons:  *)
(* its variables keep their ranges, and whom state.json and the socket may *)
(* name.                                                                   *)
(***************************************************************************)
EXTENDS SessionLifecycle, TLAPS

\* Daemons with the socket behind them.
Up == {"announce", "serving", "closing", "cleanup", "final"}

\* A daemon gets that far only through its own bind, and nobody else is told to stop.
UpWasBound ==
    /\ \A d \in Daemons : dpc[d] \in Up => d \in bound
    /\ sock # None => sock \in bound
    /\ told \subseteq bound

\* NamedDaemonBound with what it takes to be inductive.
IInv == TypeOK /\ UpWasBound /\ NamedDaemonBound

USE DEF Pids, States, DaemonPcs, ManagerPcs, Outcomes, daemonVars, managerVars

-----------------------------------------------------------------------------
(* Type correctness *)

LEMMA TypeInit == Init => TypeOK
  BY DEF Init, TypeOK, Absent

\* What a manager that returns or goes on leaves in its own variables.
LEMMA ReturnTypes ==
  ASSUME TypeOK, NEW m \in Managers, NEW from, NEW o \in Outcomes, Return(m, from, o)
  PROVE  /\ mpc' \in [Managers -> ManagerPcs] /\ launched' \in [Managers -> Pids]
         /\ outcome' \in [Managers -> Outcomes]
  BY DEF Return, Goto, TypeOK

LEMMA ContinueTypes ==
  ASSUME TypeOK, NEW m \in Managers, NEW from, NEW to \in ManagerPcs, Continue(m, from, to)
  PROVE  /\ mpc' \in [Managers -> ManagerPcs] /\ launched' \in [Managers -> Pids]
         /\ outcome' \in [Managers -> Outcomes]
  BY DEF Continue, Goto, TypeOK

\* Every step of a daemon keeps the ranges.
LEMMA DaemonTypes ==
  ASSUME TypeOK, NEW d \in Daemons, DaemonStep(d) \/ DaemonTurn(d) \/ DaemonCrash(d)
  PROVE  TypeOK'
  <1> USE DEF TypeOK, DaemonGoto
  <1>1. CASE DaemonLoad(d)
    BY <1>1 DEF DaemonLoad
  <1>2. CASE DaemonUnlink(d)
    BY <1>2 DEF DaemonUnlink
  <1>3. CASE DaemonBind(d)
    BY <1>3 DEF DaemonBind
  <1>4. CASE DaemonBindFails(d)
    BY <1>4 DEF DaemonBindFails, Crashed
  <1>5. CASE DaemonAnnounce(d)
    BY <1>5 DEF DaemonAnnounce, Active
  <1>6. CASE DaemonClose(d)
    BY <1>6 DEF DaemonClose
  <1>7. CASE DaemonJoined(d)
    BY <1>7 DEF DaemonJoined
  <1>8. CASE DaemonCleanup(d)
    BY <1>8 DEF DaemonCleanup
  <1>9. CASE DaemonFinal(d)
    BY <1>9 DEF DaemonFinal, Stopped
  <1>10. CASE DaemonTurn(d)
    BY <1>10 DEF DaemonTurn, Active
  <1>11. CASE DaemonCrash(d)
    BY <1>11 DEF DaemonCrash
  <1> QED
    BY <1>1, <1>2, <1>3, <1>4, <1>5, <1>6, <1>7, <1>8, <1>9, <1>10, <1>11 DEF DaemonStep

\* Every step of a manager keeps the ranges.
LEMMA ManagerTypes ==
  ASSUME TypeOK, NEW m \in Managers,
         ManagerStep(m) \/ \E op \in Operations : Begin(m, op)
  PROVE  TypeOK'
  <1> USE DEF TypeOK
  <1>1. CASE StartLoad(m)
    BY <1>1, ReturnTypes, ContinueTypes DEF StartLoad
  <1>2. CASE StartSave(m)
    BY <1>2, ContinueTypes DEF StartSave, Active
  <1>3. CASE ResumeLoad(m)
    BY <1>3, ReturnTypes, ContinueTypes DEF ResumeLoad
  <1>4. CASE ResumeSave(m)
    BY <1>4, ContinueTypes DEF ResumeSave, Active
  <1>5. CASE EnsureLoad(m)
    BY <1>5, ReturnTypes, ContinueTypes DEF EnsureLoad
  <1>6. CASE Launch(m)
    BY <1>6 DEF Launch, Goto, Unborn
  <1>7. CASE WaitEnds(m)
    BY <1>7, ContinueTypes DEF WaitEnds
  <1>8. CASE Verify(m)
    BY <1>8, ReturnTypes, ContinueTypes DEF Verify
  <1>9. CASE MarkCrashed(m)
    BY <1>9, ReturnTypes DEF MarkCrashed, Crashed
  <1>10. CASE ListLoad(m)
    BY <1>10, ReturnTypes, ContinueTypes DEF ListLoad
  <1>11. CASE ListMark(m)
    BY <1>11, ReturnTypes DEF ListMark, Crashed
  <1>12. CASE StopCall(m)
    BY <1>12, ReturnTypes, ContinueTypes DEF StopCall, Answering
  <1>13. CASE StopKill(m)
    <2>1. /\ mpc' \in [Managers -> ManagerPcs] /\ launched' \in [Managers -> Pids]
          /\ outcome' \in [Managers -> Outcomes]
      BY <1>13, ReturnTypes, ContinueTypes DEF StopKill
    <2>2. Alive(file.pid) => file.pid \in Daemons
      BY DEF Alive
    <2>3. dpc' \in [Daemons -> DaemonPcs] /\ told' \subseteq Daemons
      BY <1>13, <2>2 DEF StopKill
    <2> QED BY <1>13, <2>1, <2>3 DEF StopKill
  <1>14. CASE StopSave(m)
    BY <1>14, ReturnTypes DEF StopSave, Stopped
  <1>15. ASSUME NEW op \in Operations, Begin(m, op) PROVE TypeOK'
    BY <1>15, OperationsAssumption DEF Begin, Goto
  <1> QED
    BY <1>1, <1>2, <1>3, <1>4, <1>5, <1>6, <1>7, <1>8, <1>9, <1>10, <1>11, <1>12, <1>13,
       <1>14, <1>15 DEF ManagerStep

LEMMA TypeStep == TypeOK /\ [Next]_vars => TypeOK'
  <1> SUFFICES ASSUME TypeOK, [Next]_vars PROVE TypeOK'
    OBVIOUS
  <1>1. CASE UNCHANGED vars
    BY <1>1 DEF vars, TypeOK
  <1>2. CASE Next
    BY <1>2, DaemonTypes, ManagerTypes DEF Next
  <1> QED BY <1>1, <1>2

\* Every variable keeps its range, however many managers and daemons there are.
THEOREM TypeCorrect == Spec => []TypeOK
  BY TypeInit, TypeStep, PTL DEF Spec

-----------------------------------------------------------------------------
(* Whom the files name *)

LEMMA BoundInit == Init => UpWasBound /\ NamedDaemonBound
  BY DEF Init, UpWasBound, NamedDaemonBound, Absent, Up

\* A step of a daemon: its bind is noted, and only a daemon that is up names itself.
LEMMA DaemonBound ==
  ASSUME IInv, NEW d \in Daemons, DaemonStep(d) \/ DaemonTurn(d) \/ DaemonCrash(d)
  PROVE  UpWasBound' /\ NamedDaemonBound'
  <1> USE DEF IInv, TypeOK, UpWasBound, NamedDaemonBound, DaemonGoto, Up
  <1>1. CASE DaemonLoad(d)
    BY <1>1 DEF DaemonLoad
  <1>2. CASE DaemonUnlink(d)
    BY <1>2 DEF DaemonUnlink
  <1>3. CASE DaemonBind(d)
    BY <1>3 DEF DaemonBind
  <1>4. CASE DaemonBindFails(d)
    BY <1>4 DEF DaemonBindFails, Crashed
  <1>5. CASE DaemonAnnounce(d)
    BY <1>5 DEF DaemonAnnounce, Active
  <1>6. CASE DaemonClose(d)
    BY <1>6 DEF DaemonClose
  <1>7. CASE DaemonJoined(d)
    BY <1>7 DEF DaemonJoined
  <1>8. CASE DaemonCleanup(d)
    BY <1>8 DEF DaemonCleanup
  <1>9. CASE DaemonFinal(d)
    BY <1>9 DEF DaemonFinal, Stopped
  <1>10. CASE DaemonTurn(d)
    BY <1>10 DEF DaemonTurn, Active
  <1>11. CASE DaemonCrash(d)
    BY <1>11 DEF DaemonCrash
  <1> QED
    BY <1>1, <1>2, <1>3, <1>4, <1>5, <1>6, <1>7, <1>8, <1>9, <1>10, <1>11 DEF DaemonStep

\* A step of a manager: what it writes it has read, and whom it tells has been named or
\* has the socket.
LEMMA ManagerBound ==
  ASSUME IInv, NEW m \in Managers,
         ManagerStep(m) \/ \E op \in Operations : Begin(m, op)
  PROVE  UpWasBound' /\ NamedDaemonBound'
  <1> USE DEF IInv, TypeOK, UpWasBound, NamedDaemonBound, Up
  <1>1. CASE UNCHANGED <<file, sock, daemonVars, oldPid>>
    BY <1>1
  <1>2. CASE StartSave(m)
    BY <1>2 DEF StartSave, Active
  <1>3. CASE ResumeLoad(m)
    BY <1>3 DEF ResumeLoad
  <1>4. CASE ResumeSave(m)
    BY <1>4 DEF ResumeSave, Active
  <1>5. CASE Launch(m)
    BY <1>5 DEF Launch, Unborn
  <1>6. CASE MarkCrashed(m) \/ ListMark(m)
    BY <1>6 DEF MarkCrashed, ListMark, Crashed
  <1>7. CASE StopCall(m)
    BY <1>7 DEF StopCall, Answering
  <1>8. CASE StopKill(m)
    <2>1. Alive(file.pid) => file.pid \in bound
      BY DEF Alive
    <2> QED BY <1>8, <2>1 DEF StopKill
  <1>9. CASE StopSave(m)
    BY <1>9 DEF StopSave, Stopped
  <1> QED
    BY <1>1, <1>2, <1>3, <1>4, <1>5, <1>6, <1>7, <1>8, <1>9
    DEF ManagerStep, StartLoad, EnsureLoad, WaitEnds, Verify, ListLoad, Begin

\* The invariant is inductive.
LEMMA BoundStep == IInv /\ [Next]_vars => IInv'
  <1> SUFFICES ASSUME IInv, [Next]_vars PROVE IInv'
    OBVIOUS
  <1>1. TypeOK'
    BY TypeStep DEF IInv
  <1>2. CASE UNCHANGED vars
    BY <1>1, <1>2 DEF vars, IInv, UpWasBound, NamedDaemonBound
  <1>3. CASE Next
    BY <1>1, <1>3, DaemonBound, ManagerBound DEF Next, IInv
  <1> QED BY <1>2, <1>3

LEMMA Inductive == Spec => []IInv
  <1>1. Init => IInv
    BY TypeInit, BoundInit DEF IInv
  <1> QED BY <1>1, BoundStep, PTL DEF Spec

\* state.json never names a daemon that did not bind the socket, whatever managers and
\* daemons write over each other.  (manager.py:90-119, 233-252; daemon.py:543-578)
THEOREM OnlyBoundAreNamed == Spec => []NamedDaemonBound
  <1>1. IInv => NamedDaemonBound
    BY DEF IInv
  <1> QED BY <1>1, Inductive, PTL

\* Nobody stops a daemon that is still on its way up: a shutdown or a signal that turns a
\* running flag off hits one that bound the socket.  (manager.py:126-137)
THEOREM OnlyBoundAreTold == Spec => [](told \subseteq bound)
  <1>1. IInv => told \subseteq bound
    BY DEF IInv, UpWasBound
  <1> QED BY <1>1, Inductive, PTL
=============================================================================

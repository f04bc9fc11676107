-------------------------- MODULE RfcServiceProofs --------------------------
(***************************************************************************)
(* The service lock for any number of processes, lock files, starts, kills *)
(* and signals: one process in the request until a lock file is removed    *)
(* under it, no process refused on behalf of a dead one, no lock file left *)
(* behind.                                                                 *)
(***************************************************************************)
EXTENDS RfcService, TLAPS

(***************************************************************************)
(* Types.                                                                  *)
(***************************************************************************)

\* The counter of the wait for the route starts at IpRouteCnt and ends at -1.
LEMMA CountType ==
  ASSUME TypeOK, NEW i \in Instances
  PROVE  /\ [cnt EXCEPT ![i] = 0] \in [Instances -> -1..IpRouteCnt]
         /\ [cnt EXCEPT ![i] = IpRouteCnt] \in [Instances -> -1..IpRouteCnt]
         /\ IpRouteCnt # -1
  BY BoundAssumption DEF TypeOK

\* Closing the files of a process keeps the types of the lock.
LEMMA ReleaseType ==
  ASSUME TypeOK, NEW i \in Instances, Release(i)
  PROVE  lock' \in [Inodes -> Instances \cup {None}] /\ fd' \in [Instances -> Inodes \cup {None}]
  BY DEF TypeOK, Release

\* Every step keeps the types.
LEMMA TypeStep == TypeOK /\ [Next]_vars => TypeOK'
<1> SUFFICES ASSUME TypeOK, [Next]_vars
             PROVE  TypeOK'
  OBVIOUS
<1> USE DEF Goto, Steps, RunningSteps, counters
<1>0. CASE UNCHANGED vars
  BY <1>0 DEF vars, TypeOK
<1>1. ASSUME NEW i \in Instances, Start(i) PROVE TypeOK'
  BY <1>1 DEF Start, TypeOK
<1>2. ASSUME NEW i \in Instances, Signal(i) PROVE TypeOK'
  BY <1>2 DEF Signal, TypeOK
<1>3. ASSUME NEW i \in Instances, Kill(i) PROVE TypeOK'
  BY <1>3, CountType, ReleaseType DEF Kill, Release, TypeOK
<1>4. ASSUME NEW i \in Instances, Step(i) PROVE TypeOK'
  <2>1. CASE CreateDirectory(i)
    BY <2>1 DEF CreateDirectory, TypeOK
  <2>2. CASE OpenLock(i)
    BY <2>2, NoneAssumption DEF OpenLock, TypeOK
  <2>3. CASE OpenLockFails(i)
    BY <2>3, CountType DEF OpenLockFails, TypeOK
  <2>4. CASE Lock(i)
    <3>1. fd[i] \in Inodes
      BY <2>4 DEF Lock, TypeOK
    <3> QED
      BY <2>4, <3>1, CountType DEF Lock, TypeOK
  <2>5. CASE Refuse(i)
    BY <2>5 DEF Refuse, TypeOK
  <2>6. CASE CheckRoute(i)
    <3>1. cnt[i] \in 0..IpRouteCnt
      BY <2>6, BoundAssumption DEF CheckRoute, TypeOK
    <3>2. /\ cnt' \in [Instances -> -1..IpRouteCnt]
          /\ cnt'[i] = -1 => cnt[i] = 0
          /\ \A j \in Instances \ {i} : cnt'[j] = cnt[j]
      BY <2>6, <3>1, BoundAssumption DEF CheckRoute, TypeOK
    <3> QED
      BY <2>6, <3>2 DEF CheckRoute, TypeOK
  <2>7. CASE RouteMissing(i)
    BY <2>7 DEF RouteMissing, TypeOK, Events
  <2>8. CASE RouteFound(i)
    BY <2>8 DEF RouteFound, TypeOK
  <2>9. CASE CheckDns(i)
    BY <2>9 DEF CheckDns, TypeOK
  <2>10. CASE InitializeFails(i)
    BY <2>10 DEF InitializeFails, TypeOK
  <2>11. CASE ProcessRequest(i)
    BY <2>11 DEF ProcessRequest, TypeOK
  <2>18. CASE SetsReturn(i)
    BY <2>18 DEF SetsReturn, TypeOK
  <2>12. ASSUME NEW from, NEW event \in Events,
                NEW to \in {"exit", "critical", "reboot", "post"}, Send(i, from, event, to)
         PROVE  TypeOK'
    BY <2>12 DEF Send, TypeOK
  <2>13. CASE \/ SendInProgress(i) \/ SendComplete(i) \/ SendCriticalUpdate(i)
              \/ SendRebootRequired(i) \/ SendError(i)
    BY <2>12, <2>13
       DEF SendInProgress, SendComplete, SendCriticalUpdate, SendRebootRequired, SendError, Events
  <2>14. CASE PostProcess(i)
    BY <2>14 DEF PostProcess, TypeOK
  <2>15. CASE SignalHandler(i)
    BY <2>15 DEF SignalHandler, RemoveLockFile, TypeOK
  <2>16. CASE CleanupLockFile(i)
    BY <2>16 DEF CleanupLockFile, RemoveLockFile, TypeOK
  <2>17. CASE Terminate(i)
    BY <2>17, CountType, ReleaseType DEF Terminate, Release, TypeOK
  <2> QED
    BY <1>4, <2>1, <2>2, <2>3, <2>4, <2>5, <2>6, <2>7, <2>8, <2>9, <2>10, <2>11, <2>13,
       <2>14, <2>15, <2>16, <2>17, <2>18 DEF Step, CheckDeviceIsOnline, RFCManagerProcess
<1>5. CASE RouteChanges
  BY <1>5 DEF RouteChanges, TypeOK
<1>6. CASE HostifHangs \/ HostifAnswers
  <2>1. hangs' \in BOOLEAN
    BY <1>6, Zenon DEF HostifHangs, HostifAnswers
  <2>2. /\ UNCHANGED <<link, lock, fd, pc, cnt, reboot, routeFlag, status, exposed, starts, kills>>
        /\ events' \in Nat
    BY <1>6 DEF HostifHangs, HostifAnswers, TypeOK
  <2> QED
    BY <2>1, <2>2 DEF TypeOK
<1> QED
  BY <1>0, <1>1, <1>2, <1>3, <1>4, <1>5, <1>6 DEF Next

\* The types hold at boot.
LEMMA TypeInit == Init => TypeOK
<1> SUFFICES ASSUME Init PROVE TypeOK
  OBVIOUS
<1>1. cnt \in [Instances -> -1..IpRouteCnt]
  <2>1. cnt = [i \in Instances |-> 0]
    BY Zenon DEF Init
  <2>2. 0 \in -1..IpRouteCnt
    BY BoundAssumption
  <2> QED
    BY <2>1, <2>2
<1>2. pc \in [Instances -> Steps] /\ \A i \in Instances : pc[i] = "off"
  BY DEF Init, Steps
<1>3. /\ reboot \in [Instances -> BOOLEAN] /\ exposed \in BOOLEAN
      /\ routeFlag \in BOOLEAN /\ hangs \in BOOLEAN
  BY Zenon DEF Init
<1> QED
  BY <1>1, <1>2, <1>3 DEF Init, TypeOK, Events

\* Every variable of the service keeps its type, for any number of processes.
THEOREM TypeCorrect == Spec => []TypeOK
  BY TypeInit, TypeStep, PTL DEF Spec

(***************************************************************************)
(* The lock.                                                               *)
(***************************************************************************)

\* What the lock sees of a step that neither opens, locks nor removes the
\* lock file: process i runs on, begins to exit, or is not that far yet.
Internal(i) ==
  /\ UNCHANGED <<link, lock, fd, exposed, kills>>
  /\ \A j \in Instances \ {i} : pc'[j] = pc[j]
  /\ \/ Running(i) /\ pc'[i] \in RunningSteps
     \/ pc'[i] \in {"exit", "signalled"}
     \/ pc[i] \in {"off", "mkdir"} /\ pc'[i] \in {"mkdir", "open"}

\* The steps of a process that are internal: all of the wait for the network,
\* of the request and of its events.
LEMMA InternalSteps ==
  ASSUME TypeOK, NEW i \in Instances,
         \/ Start(i) \/ Signal(i) \/ CreateDirectory(i)
         \/ CheckRoute(i) \/ RouteMissing(i) \/ RouteFound(i) \/ CheckDns(i)
         \/ InitializeFails(i) \/ ProcessRequest(i) \/ SetsReturn(i)
         \/ SendInProgress(i) \/ SendComplete(i) \/ SendCriticalUpdate(i)
         \/ SendRebootRequired(i) \/ SendError(i) \/ PostProcess(i)
  PROVE  Internal(i)
<1> USE DEF TypeOK, Internal, Goto, Running, RunningSteps, counters
<1>1. CASE Start(i) \/ Signal(i) \/ CreateDirectory(i)
  BY <1>1 DEF Start, Signal, CreateDirectory
<1>2. CASE CheckRoute(i)
  BY <1>2 DEF CheckRoute
<1>3. CASE RouteMissing(i) \/ RouteFound(i) \/ CheckDns(i)
  BY <1>3 DEF RouteMissing, RouteFound, CheckDns
<1>4. CASE InitializeFails(i) \/ ProcessRequest(i) \/ SetsReturn(i) \/ PostProcess(i)
  BY <1>4 DEF InitializeFails, ProcessRequest, SetsReturn, PostProcess
<1>5. CASE SendInProgress(i)
  BY <1>5 DEF SendInProgress, Send
<1>6. CASE SendComplete(i) \/ SendError(i)
  BY <1>6 DEF SendComplete, SendError, Send
<1>7. CASE SendCriticalUpdate(i) \/ SendRebootRequired(i)
  BY <1>7 DEF SendCriticalUpdate, SendRebootRequired, Send
<1> QED
  BY <1>1, <1>2, <1>3, <1>4, <1>5, <1>6, <1>7

\* A property of the lock that every kind of step preserves is preserved by
\* Next: the case split the next three lemmas share.
LEMMA StepKinds ==
  ASSUME TypeOK, [Next]_vars
  PROVE  \/ UNCHANGED <<link, lock, fd, pc, exposed, kills>>
         \/ \E i \in Instances :
              \/ Internal(i) \/ OpenLock(i) \/ OpenLockFails(i) \/ Lock(i) \/ Refuse(i)
              \/ SignalHandler(i) \/ CleanupLockFile(i) \/ Terminate(i) \/ Kill(i)
<1>1. CASE UNCHANGED vars \/ RouteChanges \/ HostifHangs \/ HostifAnswers
  BY <1>1 DEF vars, RouteChanges, HostifHangs, HostifAnswers, counters
<1>2. CASE \E i \in Instances : Start(i) \/ Step(i) \/ Signal(i) \/ Kill(i)
  <2>1. PICK i \in Instances : Start(i) \/ Step(i) \/ Signal(i) \/ Kill(i)
    BY <1>2
  <2> QED
    BY <2>1, InternalSteps DEF Step, CheckDeviceIsOnline, RFCManagerProcess
<1> QED
  BY <1>1, <1>2 DEF Next

\* A lock belongs to a process that has the file open and runs or ends, in
\* every state: closing a file drops its lock, SIGKILL included.
LEMMA HolderStep == TypeOK /\ HolderInv /\ [Next]_vars => HolderInv'
<1> SUFFICES ASSUME TypeOK, HolderInv, [Next]_vars
             PROVE  HolderInv'
  OBVIOUS
<1> USE DEF TypeOK, HolderInv, Goto
<1>1. CASE UNCHANGED <<link, lock, fd, pc, exposed, kills>>
  BY <1>1
<1>2. ASSUME NEW i \in Instances, Internal(i) PROVE HolderInv'
  BY <1>2 DEF Internal, RunningSteps
<1>3. ASSUME NEW i \in Instances, OpenLock(i) PROVE HolderInv'
  <2>1. \A n \in Inodes : lock[n] # i
    BY <1>3, NoneAssumption DEF OpenLock, RunningSteps
  <2> QED
    BY <1>3, <2>1 DEF OpenLock
<1>4. ASSUME NEW i \in Instances, OpenLockFails(i) PROVE HolderInv'
  BY <1>4 DEF OpenLockFails, RunningSteps
<1>5. ASSUME NEW i \in Instances, Lock(i) PROVE HolderInv'
  <2>1. fd[i] \in Inodes
    BY <1>5 DEF Lock
  <2> QED
    BY <1>5, <2>1 DEF Lock, RunningSteps
<1>6. ASSUME NEW i \in Instances, Refuse(i) PROVE HolderInv'
  <2>1. \A n \in Inodes : lock[n] # i
    BY <1>6, NoneAssumption DEF Refuse, RunningSteps
  <2> QED
    BY <1>6, <2>1 DEF Refuse
<1>7. ASSUME NEW i \in Instances, SignalHandler(i) \/ CleanupLockFile(i) PROVE HolderInv'
  BY <1>7 DEF SignalHandler, CleanupLockFile
<1>8. ASSUME NEW i \in Instances, Terminate(i) \/ Kill(i) PROVE HolderInv'
  BY <1>8 DEF Terminate, Kill, Release
<1> QED
  BY <1>1, <1>2, <1>3, <1>4, <1>5, <1>6, <1>7, <1>8, StepKinds

\* Where no lock file was removed under a process that counts on it, such a
\* process has the file of that name open, and a running one holds it.
LEMMA LockStep == TypeOK /\ LockInv /\ [Next]_vars => LockInv'
<1> SUFFICES ASSUME TypeOK, LockInv, [Next]_vars, ~exposed', NEW k \in Instances
             PROVE  /\ (Relies(k) => link # None /\ fd[k] = link)'
                    /\ (Running(k) => lock[fd[k]] = k)'
  BY DEF LockInv
<1> DEFINE Goal == /\ (Relies(k) => link # None /\ fd[k] = link)'
                   /\ (Running(k) => lock[fd[k]] = k)'
<1> USE DEF TypeOK, LockInv, Goto, Relies, Running, RunningSteps
<1>1. CASE UNCHANGED <<link, lock, fd, pc, exposed, kills>>
  BY <1>1
<1>2. ASSUME NEW i \in Instances, Internal(i) PROVE Goal
  <2>1. ~exposed /\ (Relies(k)' => Relies(k)) /\ (Running(k)' => Running(k))
    BY <1>2 DEF Internal
  <2> QED
    BY <1>2, <2>1 DEF Internal
<1>3. ASSUME NEW i \in Instances, OpenLock(i) PROVE Goal
  <2>1. PICK n \in Inodes :
          /\ IF link = None THEN \A j \in Instances : fd[j] # n ELSE n = link
          /\ link' = n /\ fd' = [fd EXCEPT ![i] = n]
    BY <1>3 DEF OpenLock
  <2>2. ~exposed /\ UNCHANGED lock /\ pc' = [pc EXCEPT ![i] = "flock"]
    BY <1>3 DEF OpenLock
  <2> QED
    BY <2>1, <2>2, NoneAssumption
<1>4. ASSUME NEW i \in Instances, OpenLockFails(i) PROVE Goal
  BY <1>4 DEF OpenLockFails
<1>5. ASSUME NEW i \in Instances, Lock(i) PROVE Goal
  <2>1. fd[i] \in Inodes /\ ~exposed /\ link # None /\ fd[i] = link
    BY <1>5 DEF Lock
  <2>2. CASE k = i
    BY <1>5, <2>1, <2>2 DEF Lock
  <2>3. CASE k # i
    <3>1. ~Running(k)
      BY <1>5, <2>1, <2>3, NoneAssumption DEF Lock
    <3> QED
      BY <1>5, <2>1, <2>3, <3>1 DEF Lock
  <2> QED
    BY <2>2, <2>3
<1>6. ASSUME NEW i \in Instances, Refuse(i) PROVE Goal
  BY <1>6 DEF Refuse
<1>7. ASSUME NEW i \in Instances, SignalHandler(i) \/ CleanupLockFile(i) PROVE Goal
  <2>1. ~exposed /\ RemoveLockFile(i) /\ UNCHANGED <<lock, fd>>
    BY <1>7 DEF SignalHandler, CleanupLockFile, RemoveLockFile
  <2>2. \A j \in Instances : pc'[j] = IF j = i THEN pc'[i] ELSE pc[j]
    BY <1>7 DEF SignalHandler, CleanupLockFile
  <2>3. pc'[i] \in {"exit", "close"}
    BY <1>7 DEF SignalHandler, CleanupLockFile
  <2>4. ~Relies(k)'
    <3>1. CASE k = i
      BY <2>3, <3>1
    <3>2. CASE k # i
      BY <2>1, <2>2, <3>2 DEF RemoveLockFile
    <3> QED
      BY <3>1, <3>2
  <2> QED
    BY <2>4
<1>8. ASSUME NEW i \in Instances, Terminate(i) \/ Kill(i) PROVE Goal
  <2>1. ~exposed /\ Release(i) /\ UNCHANGED link /\ pc' = [pc EXCEPT ![i] = "off"]
    BY <1>8 DEF Terminate, Kill
  <2> QED
    BY <2>1 DEF Release
<1> QED
  BY <1>1, <1>2, <1>3, <1>4, <1>5, <1>6, <1>7, <1>8, StepKinds

\* A lock file that is there has a process left that will remove it.
LEMMA CleanStep == TypeOK /\ CleanInv /\ [Next]_vars => CleanInv'
<1> SUFFICES ASSUME TypeOK, CleanInv, [Next]_vars, (kills = 0)', (link # None)'
             PROVE  \E k \in Instances : WillClean(k)'
  BY DEF CleanInv
<1> USE DEF TypeOK, CleanInv, WillClean, Goto, RunningSteps
<1>1. CASE UNCHANGED <<link, lock, fd, pc, exposed, kills>>
  BY <1>1
<1>2. ASSUME NEW i \in Instances, Internal(i) PROVE \E k \in Instances : WillClean(k)'
  <2>1. PICK k \in Instances : WillClean(k)
    BY <1>2 DEF Internal
  <2>2. WillClean(k)'
    BY <1>2, <2>1 DEF Internal, Running
  <2> QED
    BY <2>2
<1>3. ASSUME NEW i \in Instances, OpenLock(i) PROVE \E k \in Instances : WillClean(k)'
  BY <1>3 DEF OpenLock
<1>4. ASSUME NEW i \in Instances, OpenLockFails(i) \/ Lock(i) \/ Refuse(i)
      PROVE  \E k \in Instances : WillClean(k)'
  <2>1. pc'[i] \in {"route", "refused"}
    BY <1>4 DEF OpenLockFails, Lock, Refuse
  <2> QED
    BY <2>1
<1>5. ASSUME NEW i \in Instances, SignalHandler(i) \/ CleanupLockFile(i)
      PROVE  \E k \in Instances : WillClean(k)'
  BY <1>5 DEF SignalHandler, CleanupLockFile, RemoveLockFile
<1>6. ASSUME NEW i \in Instances, Terminate(i) PROVE \E k \in Instances : WillClean(k)'
  <2>1. kills = 0 /\ link # None /\ pc[i] = "close" /\ pc' = [pc EXCEPT ![i] = "off"]
    BY <1>6 DEF Terminate, counters
  <2>2. PICK k \in Instances : WillClean(k)
    BY <2>1
  <2> QED
    BY <2>1, <2>2
<1>7. ASSUME NEW i \in Instances, Kill(i) PROVE \E k \in Instances : WillClean(k)'
  BY <1>7 DEF Kill
<1> QED
  BY <1>1, <1>2, <1>3, <1>4, <1>5, <1>6, <1>7, StepKinds

\* The invariant of the service lock.
LEMMA Invariance == Spec => []ServiceInv
<1>1. Init => HolderInv /\ LockInv /\ CleanInv
  BY NoneAssumption DEF Init, HolderInv, LockInv, CleanInv, Relies, Running, RunningSteps
<1> QED
  BY <1>1, TypeInit, TypeStep, HolderStep, LockStep, CleanStep, PTL DEF Spec, ServiceInv

\* Any number of processes, starts, kills and signals: as long as no lock
\* file is removed under a process that counts on it and every open succeeds,
\* at most one process is past the check of main (CurrentRunningInst).
THEOREM Exclusion == Spec => []OneUntilExposed
<1>1. ServiceInv => OneUntilExposed
  BY DEF ServiceInv, LockInv, OneUntilExposed, Relies
<1> QED
  BY <1>1, Invariance, PTL

\* Nobody is refused on behalf of a process that is gone.
THEOREM OnlyHoldersRefuse == Spec => RefusedByHolder
<1> DEFINE A == \A i \in Instances :
                  Refuse(i) => \E j \in Instances \ {i} : pc[j] # "off" /\ lock[fd[i]] = j
<1>1. ServiceInv => A
  <2> SUFFICES ASSUME ServiceInv, NEW i \in Instances, Refuse(i)
               PROVE  \E j \in Instances \ {i} : pc[j] # "off" /\ lock[fd[i]] = j
    OBVIOUS
  <2>1. fd[i] \in Inodes /\ lock[fd[i]] \in Instances
    BY DEF ServiceInv, TypeOK, Refuse
  <2>2. pc[lock[fd[i]]] \in RunningSteps \cup {"signalled", "exit", "close"}
    BY <2>1 DEF ServiceInv, HolderInv, Refuse
  <2> QED
    BY <2>1, <2>2 DEF Refuse, RunningSteps
<1>2. ServiceInv /\ [Next]_vars => [A]_vars
  BY <1>1
<1> QED
  BY <1>2, Invariance, PTL DEF Spec, RefusedByHolder

\* Nobody was killed and everybody has ended: the lock file is gone.
THEOREM LockFileRemoved == Spec => []NoStaleLockFile
<1>1. ServiceInv => NoStaleLockFile
  BY DEF ServiceInv, CleanInv, NoStaleLockFile, WillClean, RunningSteps
<1> QED
  BY <1>1, Invariance, PTL
=============================================================================

----------------------------- MODULE RfcService -----------------------------
(***************************************************************************)
(* The life of an rfcMgr process (rfc_main.cpp, rfc_manager.cpp; video     *)
(* build): the service lock that keeps a second process out, the wait for  *)
(* the network, the request, which waits for as long as tr69hostif hangs,  *)
(* and the events for the Maintenance Manager.                             *)
(*                                                                         *)
(* The lock is an flock on whatever file /tmp/.rfcServiceLock names when   *)
(* the process opens it.  Every process that ends through exit, the        *)
(* refused ones too, removes that name (atexit, SIGINT and SIGTERM), so    *)
(* the file a process has locked need not be the file of that name.        *)
(***************************************************************************)
EXTENDS Integers

CONSTANTS
  Instances,    \* rfcMgr processes, started by boot, cron or an operator
  Inodes,       \* files that can be created for the lock
  None,         \* no file, no owner
  IpRouteCnt,   \* checks of the route flag
  MaxStarts,    \* processes started
  MaxEvents     \* signals, kills, hangs and changes of the route flag

ASSUME NoneAssumption == None \notin Inodes /\ None \notin Instances
ASSUME BoundAssumption ==
  IpRouteCnt \in Nat /\ MaxStarts \in Nat /\ MaxEvents \in Nat

VARIABLES
  link,       \* the file of the name /tmp/.rfcServiceLock, or None
  lock,       \* who holds the flock of each file
  fd,         \* the lock file each process has open
  pc,         \* the next step of each process
  cnt,        \* IpRouteCnt of CheckIProuteConnectivity
  reboot,     \* isRebootRequired of the finished request
  routeFlag,  \* IP_ROUTE_FLAG, /tmp/route_available, is there
  hangs,      \* tr69hostif accepts requests and does not answer
  status,     \* the last event sent to the Maintenance Manager
  exposed,    \* history: the lock was not taken, or its file was removed
              \* under a process that counts on it
  starts,     \* processes started so far
  kills,      \* processes killed with SIGKILL
  events      \* signals, kills, hangs and changes of the route flag so far

counters == <<starts, kills, events>>
vars == <<link, lock, fd, pc, cnt, reboot, routeFlag, hangs, status, exposed, counters>>

\* The process has passed the lock check and has not begun to exit.
RunningSteps ==
  {"route", "verdict", "dns", "process", "sets", "complete", "critical", "reboot", "error", "post"}

Steps == {"off", "mkdir", "open", "flock", "refused", "signalled", "exit", "close"} \cup RunningSteps

Events == {"", "INPROGRESS", "COMPLETE", "CRITICAL_UPDATE", "REBOOT_REQUIRED", "ERROR"}

Running(i) == pc[i] \in RunningSteps

\* The process counts on the file it has open being the lock file.
Relies(i) == pc[i] = "flock" \/ Running(i)

\* Boot: /tmp is empty.
Init ==
  /\ link = None
  /\ lock = [n \in Inodes |-> None]
  /\ fd = [i \in Instances |-> None]
  /\ pc = [i \in Instances |-> "off"]
  /\ cnt = [i \in Instances |-> 0]
  /\ reboot = [i \in Instances |-> FALSE]
  /\ routeFlag \in BOOLEAN
  /\ hangs = FALSE
  /\ status = ""
  /\ exposed = FALSE
  /\ starts = 0 /\ kills = 0 /\ events = 0

Goto(i, step) == pc' = [pc EXCEPT ![i] = step]

(***************************************************************************)
(* The lock.                                                               *)
(***************************************************************************)

\* The child of the fork: atexit and the signal handlers are set up.
Start(i) ==
  /\ pc[i] = "off"
  /\ starts < MaxStarts
  /\ starts' = starts + 1
  /\ Goto(i, "mkdir")
  /\ UNCHANGED <<link, lock, fd, cnt, reboot, routeFlag, hangs, status, exposed, kills, events>>

\* createDirectoryIfNotExists(SECURE_RFC_PATH); without it main calls exit.
CreateDirectory(i) ==
  /\ pc[i] = "mkdir"
  /\ \/ Goto(i, "open")
     \/ Goto(i, "exit")
  /\ UNCHANGED <<link, lock, fd, cnt, reboot, routeFlag, hangs, status, exposed, counters>>

\* CurrentRunningInst: open with O_CREAT.
OpenLock(i) ==
  /\ pc[i] = "open"
  /\ \E n \in Inodes :
       /\ IF link = None THEN \A j \in Instances : fd[j] # n ELSE n = link
       /\ link' = n
       /\ fd' = [fd EXCEPT ![i] = n]
  /\ Goto(i, "flock")
  /\ UNCHANGED <<lock, cnt, reboot, routeFlag, hangs, status, exposed, counters>>

\* The open fails: "no other instance", and the process goes on unlocked.
OpenLockFails(i) ==
  /\ pc[i] = "open"
  /\ Goto(i, "route")
  /\ cnt' = [cnt EXCEPT ![i] = IpRouteCnt]
  /\ exposed' = TRUE
  /\ UNCHANGED <<link, lock, fd, reboot, routeFlag, hangs, status, counters>>

\* Variant of Lock: the result of flock is not looked at.
LockUnchecked(i) ==
  /\ pc[i] = "flock"
  /\ lock' = [lock EXCEPT ![fd[i]] = i]
  /\ Goto(i, "route")
  /\ cnt' = [cnt EXCEPT ![i] = IpRouteCnt]
  /\ UNCHANGED <<link, fd, reboot, routeFlag, hangs, status, exposed, counters>>

\* flock(LOCK_EX | LOCK_NB) succeeds.
Lock(i) ==
  /\ pc[i] = "flock"
  /\ lock[fd[i]] = None
  /\ lock' = [lock EXCEPT ![fd[i]] = i]
  /\ Goto(i, "route")
  /\ cnt' = [cnt EXCEPT ![i] = IpRouteCnt]
  /\ UNCHANGED <<link, fd, reboot, routeFlag, hangs, status, exposed, counters>>

\* Variant of Refuse: the file counts as a lock, held or not.
RefuseForFile(i) ==
  /\ pc[i] = "flock"
  /\ fd' = [fd EXCEPT ![i] = None]
  /\ Goto(i, "refused")
  /\ UNCHANGED <<link, lock, cnt, reboot, routeFlag, hangs, status, exposed, counters>>

\* It fails: the file is closed and main gives up.
Refuse(i) ==
  /\ pc[i] = "flock"
  /\ lock[fd[i]] # None
  /\ fd' = [fd EXCEPT ![i] = None]
  /\ Goto(i, "refused")
  /\ UNCHANGED <<link, lock, cnt, reboot, routeFlag, hangs, status, exposed, counters>>

\* Whoever removes the name exposes the processes that count on the file.
RemoveLockFile(i) ==
  /\ link' = None
  /\ exposed' = (exposed \/ (\E j \in Instances \ {i} : link # None /\ fd[j] = link /\ Relies(j)))

\* The locks a process gives up when its files are closed.
Release(i) ==
  /\ lock' = [n \in Inodes |-> IF lock[n] = i THEN None ELSE lock[n]]
  /\ fd' = [fd EXCEPT ![i] = None]

\* Variant of CleanupLockFile: the handler is not registered.
ExitWithoutCleanup(i) ==
  /\ pc[i] = "exit"
  /\ Goto(i, "close")
  /\ UNCHANGED <<link, lock, fd, cnt, reboot, routeFlag, hangs, status, exposed, counters>>

\* exit runs the atexit handler cleanup_lock_file ...
CleanupLockFile(i) ==
  /\ pc[i] = "exit"
  /\ RemoveLockFile(i)
  /\ Goto(i, "close")
  /\ UNCHANGED <<lock, fd, cnt, reboot, routeFlag, hangs, status, counters>>

\* ... and then the kernel closes what is open.
Terminate(i) ==
  /\ pc[i] = "close"
  /\ Release(i)
  /\ Goto(i, "off")
  /\ reboot' = [reboot EXCEPT ![i] = FALSE]
  /\ cnt' = [cnt EXCEPT ![i] = 0]
  /\ UNCHANGED <<link, routeFlag, hangs, status, exposed, counters>>

\* SIGINT or SIGTERM interrupts the process wherever it is.
Signal(i) ==
  /\ pc[i] \notin {"off", "signalled", "exit", "close"}
  /\ events < MaxEvents
  /\ events' = events + 1
  /\ Goto(i, "signalled")
  /\ UNCHANGED <<link, lock, fd, cnt, reboot, routeFlag, hangs, status, exposed, starts, kills>>

\* signal_handler removes the name and calls exit, which removes it again.
SignalHandler(i) ==
  /\ pc[i] = "signalled"
  /\ RemoveLockFile(i)
  /\ Goto(i, "exit")
  /\ UNCHANGED <<lock, fd, cnt, reboot, routeFlag, hangs, status, counters>>

\* SIGKILL or a crash: the name stays, the kernel drops the flock.
Kill(i) ==
  /\ pc[i] # "off"
  /\ events < MaxEvents
  /\ events' = events + 1
  /\ kills' = kills + 1
  /\ Release(i)
  /\ Goto(i, "off")
  /\ reboot' = [reboot EXCEPT ![i] = FALSE]
  /\ cnt' = [cnt EXCEPT ![i] = 0]
  /\ UNCHANGED <<link, routeFlag, hangs, status, exposed, starts>>

(***************************************************************************)
(* The network: CheckDeviceIsOnline.                                       *)
(***************************************************************************)

\* Variant of CheckRoute: the count ends below -1.
CheckRouteUnbounded(i) ==
  /\ pc[i] = "route"
  /\ cnt' = [cnt EXCEPT ![i] = @ - 1]
  /\ IF routeFlag THEN Goto(i, "verdict") ELSE UNCHANGED pc
  /\ UNCHANGED <<link, lock, fd, reboot, routeFlag, hangs, status, exposed, counters>>

\* Variant of CheckRoute: the checks are not counted.
CheckRouteUncounted(i) ==
  /\ pc[i] = "route"
  /\ IF routeFlag THEN Goto(i, "verdict") ELSE UNCHANGED pc
  /\ UNCHANGED <<link, lock, fd, cnt, reboot, routeFlag, hangs, status, exposed, counters>>

\* One turn of while (IpRouteCnt--): the flag ends the wait, otherwise the
\* process sleeps and looks again; the last test leaves -1 behind.
CheckRoute(i) ==
  /\ pc[i] = "route"
  /\ cnt' = [cnt EXCEPT ![i] = @ - 1]
  /\ IF cnt[i] = 0 \/ routeFlag THEN Goto(i, "verdict") ELSE UNCHANGED pc
  /\ UNCHANGED <<link, lock, fd, reboot, routeFlag, hangs, status, exposed, counters>>

\* CheckIProuteConnectivity returns false: "route flag not present".
RouteMissing(i) ==
  /\ pc[i] = "verdict"
  /\ cnt[i] = 0 /\ routeFlag
  /\ status' = "ERROR"
  /\ Goto(i, "exit")
  /\ UNCHANGED <<link, lock, fd, cnt, reboot, routeFlag, hangs, exposed, counters>>

\* It returns true, whatever the gateway file holds.
RouteFound(i) ==
  /\ pc[i] = "verdict"
  /\ ~(cnt[i] = 0 /\ routeFlag)
  /\ Goto(i, "dns")
  /\ UNCHANGED <<link, lock, fd, cnt, reboot, routeFlag, hangs, status, exposed, counters>>

\* isDnsResolve: without a nameserver the device is offline and main ends.
CheckDns(i) ==
  /\ pc[i] = "dns"
  /\ \/ Goto(i, "process")
     \/ Goto(i, "exit")
  /\ UNCHANGED <<link, lock, fd, cnt, reboot, routeFlag, hangs, status, exposed, counters>>

(***************************************************************************)
(* RFCManagerProcess.                                                      *)
(***************************************************************************)

\* InitializeRuntimeFeatureControlProcessor fails: no event, no post-process.
InitializeFails(i) ==
  /\ pc[i] = "process"
  /\ Goto(i, "exit")
  /\ UNCHANGED <<link, lock, fd, cnt, reboot, routeFlag, hangs, status, exposed, counters>>

\* ProcessRuntimeFeatureControlReq: it fails or finds nothing to apply, or
\* it comes to its sets.
ProcessRequest(i) ==
  /\ pc[i] = "process"
  /\ \E to \in {"error", "complete", "sets"} : Goto(i, to)
  /\ UNCHANGED <<link, lock, fd, cnt, reboot, routeFlag, hangs, status, exposed, counters>>

\* The sets of the request have no timeout: they return when tr69hostif
\* answers.
SetsReturn(i) ==
  /\ pc[i] = "sets"
  /\ ~hangs
  /\ \/ Goto(i, "error") /\ UNCHANGED reboot
     \/ Goto(i, "complete") /\ \E r \in BOOLEAN : reboot' = [reboot EXCEPT ![i] = r]
  /\ UNCHANGED <<link, lock, fd, cnt, routeFlag, hangs, status, exposed, counters>>

\* SendEventToMaintenanceManager, once per event.
Send(i, from, event, to) ==
  /\ pc[i] = from
  /\ status' = event
  /\ Goto(i, to)
  /\ UNCHANGED <<link, lock, fd, cnt, reboot, routeFlag, hangs, exposed, counters>>

SendInProgress(i) == Send(i, "refused", "INPROGRESS", "exit")
SendComplete(i) == Send(i, "complete", "COMPLETE", IF reboot[i] THEN "critical" ELSE "post")
SendCriticalUpdate(i) == Send(i, "critical", "CRITICAL_UPDATE", "reboot")
SendRebootRequired(i) == Send(i, "reboot", "REBOOT_REQUIRED", "post")
SendError(i) == Send(i, "error", "ERROR", "post")

\* RFCManagerPostProcess runs a script; main returns.
PostProcess(i) ==
  /\ pc[i] = "post"
  /\ Goto(i, "exit")
  /\ UNCHANGED <<link, lock, fd, cnt, reboot, routeFlag, hangs, status, exposed, counters>>

\* The network stack creates or removes the route flag.
RouteChanges ==
  /\ events < MaxEvents
  /\ events' = events + 1
  /\ routeFlag' = ~routeFlag
  /\ UNCHANGED <<link, lock, fd, pc, cnt, reboot, hangs, status, exposed, starts, kills>>

\* tr69hostif stops answering, and answers again or is started anew.
HostifHangs ==
  /\ ~hangs
  /\ events < MaxEvents
  /\ events' = events + 1
  /\ hangs' = TRUE
  /\ UNCHANGED <<link, lock, fd, pc, cnt, reboot, routeFlag, status, exposed, starts, kills>>

HostifAnswers ==
  /\ hangs
  /\ hangs' = FALSE
  /\ UNCHANGED <<link, lock, fd, pc, cnt, reboot, routeFlag, status, exposed, counters>>

\* The wait for the network, up to main's decision to go on or to end.
CheckDeviceIsOnline(i) ==
  CheckRoute(i) \/ RouteMissing(i) \/ RouteFound(i) \/ CheckDns(i)

RFCManagerProcess(i) ==
  \/ InitializeFails(i) \/ ProcessRequest(i) \/ SetsReturn(i)
  \/ SendComplete(i) \/ SendCriticalUpdate(i) \/ SendRebootRequired(i) \/ SendError(i)
  \/ PostProcess(i)

\* The steps a process takes by itself.
Step(i) ==
  \/ CreateDirectory(i) \/ OpenLock(i) \/ OpenLockFails(i) \/ Lock(i) \/ Refuse(i)
  \/ SendInProgress(i)
  \/ CheckDeviceIsOnline(i)
  \/ RFCManagerProcess(i)
  \/ SignalHandler(i) \/ CleanupLockFile(i) \/ Terminate(i)

Next ==
  \/ \E i \in Instances : Start(i) \/ Step(i) \/ Signal(i) \/ Kill(i)
  \/ RouteChanges \/ HostifHangs \/ HostifAnswers

Spec == Init /\ [][Next]_vars

\* A process that is started is scheduled: sleeps, downloads and the post-
\* process script end.  A set ends if tr69hostif answers, which nothing
\* promises.
FairSpec == Spec /\ \A i \in Instances : WF_vars(Step(i))

(***************************************************************************)
(* Properties.                                                             *)
(***************************************************************************)

\* Every variable keeps its type; a process that has a lock file to lock has
\* it open, and one that waits for the route has checks left.
TypeOK ==
  /\ link \in Inodes \cup {None}
  /\ lock \in [Inodes -> Instances \cup {None}]
  /\ fd \in [Instances -> Inodes \cup {None}]
  /\ pc \in [Instances -> Steps]
  /\ \A i \in Instances : pc[i] = "flock" => fd[i] # None
  /\ cnt \in [Instances -> -1..IpRouteCnt]
  /\ \A i \in Instances : pc[i] = "route" => cnt[i] # -1
  /\ reboot \in [Instances -> BOOLEAN]
  /\ routeFlag \in BOOLEAN /\ hangs \in BOOLEAN
  /\ status \in Events
  /\ exposed \in BOOLEAN
  /\ starts \in Nat /\ kills \in Nat /\ events \in Nat

\* The lock keeps a second process out of the request until a lock file is
\* removed under a process that counts on it or cannot be opened, whatever
\* processes were killed before (CurrentRunningInst).
OneUntilExposed ==
  ~exposed => \A i, j \in Instances : Running(i) /\ Running(j) => i = j

\* A process is only refused while another live process holds the lock: the
\* lock of a killed one never keeps the next one out.
RefusedByHolder ==
  [][\A i \in Instances :
       Refuse(i) => \E j \in Instances \ {i} : pc[j] # "off" /\ lock[fd[i]] = j]_vars

\* When every process has ended and none was killed, the lock file is gone
\* (cleanup_lock_file), however signals and exits interleaved.
NoStaleLockFile ==
  kills = 0 /\ (\A i \in Instances : pc[i] = "off") => link = None

\* Every process ends: the wait for the route is bounded and no process
\* waits for another; unless tr69hostif hangs time and again, because
\* setRFCParameter has no timeout.
ProcessEnds ==
  <>[](~hangs) => \A i \in Instances : pc[i] = "mkdir" ~> pc[i] = "off"

(***************************************************************************)
(* The inductive invariant.                                                *)
(***************************************************************************)

\* A lock belongs to a process that has the file open and runs or ends.
HolderInv ==
  \A n \in Inodes : lock[n] # None =>
    fd[lock[n]] = n /\ pc[lock[n]] \in RunningSteps \cup {"signalled", "exit", "close"}

\* Where nothing was exposed, whoever counts on the lock has the file of
\* that name open, and whoever runs holds it.
LockInv ==
  ~exposed => \A i \in Instances :
    /\ Relies(i) => link # None /\ fd[i] = link
    /\ Running(i) => lock[fd[i]] = i

\* A process that may have created the lock file has not ended before
\* removing it.
WillClean(i) == pc[i] \in {"flock", "refused", "signalled", "exit"} \cup RunningSteps

CleanInv == kills = 0 /\ link # None => \E i \in Instances : WillClean(i)

ServiceInv == TypeOK /\ HolderInv /\ LockInv /\ CleanInv

(***************************************************************************)
(* What comments and documents say.                                        *)
(***************************************************************************)

\* "PID lock file (prevents multiple instances)".
OneInstance == \A i, j \in Instances : Running(i) /\ Running(j) => i = j
=============================================================================

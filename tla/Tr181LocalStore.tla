--------------------------- MODULE Tr181LocalStore ---------------------------
(***************************************************************************)
(* The device-local store of libtr181api as tr181api.cpp implements it:    *)
(* processes that share tr181localstore.ini and guard it with the named    *)
(* POSIX semaphore "localstore".  An update reads the whole file, rewrites *)
(* it in place (truncate, write, fsync) and posts the semaphore; the       *)
(* buffer of stdio may reach the file cut anywhere in between.  sem_wait   *)
(* may fail while it blocks (EINTR): the code logs that and goes on, and   *)
(* posts the permit it never took.  A process may die at any step; a       *)
(* reboot recreates the semaphore and keeps the file.                      *)
(***************************************************************************)
EXTENDS LocalStoreOps

CONSTANTS
  MaxInterrupts, \* failed sem_waits explored per boot
  MaxCrashes     \* process deaths and reboots explored

ASSUME BoundsAssumption == MaxInterrupts \in Nat /\ MaxCrashes \in Nat

VARIABLES
  file,        \* tr181localstore.ini
  sem,         \* the value of the semaphore
  pc,          \* the next step of each caller
  alive,       \* FALSE after a caller died, its pc is where it died
  op,          \* the operation a caller executes
  dict,        \* m_dict of setValue
  rest,        \* the keys of m_dict that are not in the file yet
  ret,         \* the status a caller returns
  interrupts,  \* sem_waits that failed since boot
  crashes      \* deaths and reboots so far

vars == <<file, sem, pc, alive, op, dict, rest, ret, interrupts, crashes>>

Steps == {"idle", "wait", "access", "open", "write", "post"}

\* The steps between sem_wait and sem_post.
Critical == {"access", "open", "write", "post"}

EmptyStore == [k \in Keys |-> Absent]

Running(c, step) == alive[c] /\ pc[c] = step

Goto(c, step) == pc' = [pc EXCEPT ![c] = step]

Init ==
  /\ file \in Stores
  /\ sem = 1
  /\ pc = [c \in Callers |-> "idle"]
  /\ alive = [c \in Callers |-> TRUE]
  /\ op = [c \in Callers |-> NoOperation]
  /\ dict = [c \in Callers |-> EmptyStore]
  /\ rest = [c \in Callers |-> {}]
  /\ ret = [c \in Callers |-> NoResult]
  /\ interrupts = 0
  /\ crashes = 0

(***************************************************************************)
(* getLocalParam, setLocalParam, clearLocalParam.                          *)
(***************************************************************************)

\* The call and a sem_open that succeeds.
Call(c, o) ==
  /\ Running(c, "idle")
  /\ Goto(c, "wait")
  /\ op' = [op EXCEPT ![c] = o]
  /\ ret' = [ret EXCEPT ![c] = NoResult]
  /\ UNCHANGED <<file, sem, alive, dict, rest, interrupts, crashes>>

\* sem_open returns SEM_FAILED: the call returns at once.
SemOpenFails(c, o) ==
  /\ Running(c, "idle")
  /\ op' = [op EXCEPT ![c] = o]
  /\ ret' = [ret EXCEPT ![c] = Outcome("tr181Failure", Absent)]
  /\ UNCHANGED <<file, sem, pc, alive, dict, rest, interrupts, crashes>>

\* Variant of SemWait: the caller does not block.
SemWaitUnblocked(c) ==
  /\ Running(c, "wait")
  /\ sem' = sem - 1
  /\ Goto(c, "access")
  /\ UNCHANGED <<file, alive, op, dict, rest, ret, interrupts, crashes>>

SemWait(c) ==
  /\ Running(c, "wait")
  /\ sem > 0
  /\ sem' = sem - 1
  /\ Goto(c, "access")
  /\ UNCHANGED <<file, alive, op, dict, rest, ret, interrupts, crashes>>

\* A signal interrupts the blocked sem_wait; the caller proceeds anyway.
SemWaitFails(c) ==
  /\ Running(c, "wait")
  /\ sem = 0
  /\ interrupts < MaxInterrupts
  /\ interrupts' = interrupts + 1
  /\ Goto(c, "access")
  /\ UNCHANGED <<file, sem, alive, op, dict, rest, ret, crashes>>

\* getLocalParam reads the file, then the defaults of the caller.
ReadParam(c) ==
  /\ Running(c, "access")
  /\ op[c].kind = "get"
  /\ ret' = [ret EXCEPT ![c] = LocalValue(file, c, op[c].key)]
  /\ Goto(c, "post")
  /\ UNCHANGED <<file, sem, alive, op, dict, rest, interrupts, crashes>>

\* Variant of NothingToClear: the early return posts, and so does its caller.
NothingToClearPosts(c) ==
  /\ Running(c, "access")
  /\ op[c].kind = "clear"
  /\ Cleared(file, op[c].target) = {}
  /\ ret' = [ret EXCEPT ![c] = Outcome("tr181Success", Absent)]
  /\ sem' = sem + 1
  /\ Goto(c, "post")
  /\ UNCHANGED <<file, alive, op, dict, rest, interrupts, crashes>>

\* clearLocalParam finds nothing to clear and returns without a write.
NothingToClear(c) ==
  /\ Running(c, "access")
  /\ op[c].kind = "clear"
  /\ Cleared(file, op[c].target) = {}
  /\ ret' = [ret EXCEPT ![c] = Outcome("tr181Success", Absent)]
  /\ Goto(c, "post")
  /\ UNCHANGED <<file, sem, alive, op, dict, rest, interrupts, crashes>>

\* Variant of ReadDict: lines without a value are not read.
ReadDictSkipsEmpty(c) ==
  /\ Running(c, "access")
  /\ op[c].kind \in {"set", "clear"}
  /\ op[c].kind = "clear" => Cleared(file, op[c].target) # {}
  /\ dict' = [dict EXCEPT ![c] =
       Updated([k \in Keys |-> IF file[k] = Empty THEN Absent ELSE file[k]], op[c])]
  /\ Goto(c, "open")
  /\ UNCHANGED <<file, sem, alive, op, rest, ret, interrupts, crashes>>

\* setValue reads the file into m_dict and applies the operation to it.
ReadDict(c) ==
  /\ Running(c, "access")
  /\ op[c].kind \in {"set", "clear"}
  /\ op[c].kind = "clear" => Cleared(file, op[c].target) # {}
  /\ dict' = [dict EXCEPT ![c] = Updated(file, op[c])]
  /\ Goto(c, "open")
  /\ UNCHANGED <<file, sem, alive, op, rest, ret, interrupts, crashes>>

\* fopen(.., "w") empties the file.
OpenStore(c) ==
  /\ Running(c, "open")
  /\ file' = EmptyStore
  /\ rest' = [rest EXCEPT ![c] = Lines(dict[c])]
  /\ Goto(c, "write")
  /\ UNCHANGED <<sem, alive, op, dict, ret, interrupts, crashes>>

OpenStoreFails(c) ==
  /\ Running(c, "open")
  /\ ret' = [ret EXCEPT ![c] = Outcome("tr181Failure", Absent)]
  /\ dict' = [dict EXCEPT ![c] = EmptyStore]
  /\ Goto(c, "post")
  /\ UNCHANGED <<file, sem, alive, op, rest, interrupts, crashes>>

\* Variant of WriteChunk: the loop over the dictionary does not advance.
WriteChunkAgain(c) ==
  /\ Running(c, "write")
  /\ \E S \in (SUBSET rest[c]) \ {{}} :
        /\ \A k \in rest[c] \ S : file[k] = Absent
        /\ file' = [k \in Keys |-> IF k \in S THEN dict[c][k] ELSE file[k]]
  /\ UNCHANGED <<sem, pc, alive, op, dict, rest, ret, interrupts, crashes>>

\* The stdio buffer reaches the file in chunks, in the order of the
\* unordered_map: any.  A line begun by the chunk before is finished first.
WriteChunk(c) ==
  /\ Running(c, "write")
  /\ \E S \in (SUBSET rest[c]) \ {{}} :
        /\ \A k \in rest[c] \ S : file[k] = Absent
        /\ file' = [k \in Keys |-> IF k \in S THEN dict[c][k] ELSE file[k]]
        /\ rest' = [rest EXCEPT ![c] = @ \ S]
  /\ UNCHANGED <<sem, pc, alive, op, dict, ret, interrupts, crashes>>

\* A chunk ends inside the value of a line: the buffer is flushed by bytes.
WritePart(c) ==
  /\ Running(c, "write")
  /\ \A k \in rest[c] : file[k] = Absent
  /\ \E k \in rest[c] : \E v \in Cut(dict[c][k]) : file' = [file EXCEPT ![k] = v]
  /\ UNCHANGED <<sem, pc, alive, op, dict, rest, ret, interrupts, crashes>>

\* Variant of CloseStore: the semaphore is posted before the buffer is out.
CloseStoreEarly(c) ==
  /\ Running(c, "write")
  /\ ret' = [ret EXCEPT ![c] = Outcome("tr181Success", Absent)]
  /\ dict' = [dict EXCEPT ![c] = EmptyStore]
  /\ rest' = [rest EXCEPT ![c] = {}]
  /\ Goto(c, "post")
  /\ UNCHANGED <<file, sem, alive, op, interrupts, crashes>>

\* fsync and fclose; m_dict goes out of scope.
CloseStore(c) ==
  /\ Running(c, "write")
  /\ rest[c] = {}
  /\ ret' = [ret EXCEPT ![c] = Outcome("tr181Success", Absent)]
  /\ dict' = [dict EXCEPT ![c] = EmptyStore]
  /\ Goto(c, "post")
  /\ UNCHANGED <<file, sem, alive, op, rest, interrupts, crashes>>

\* sem_post, sem_close and the return.
SemPost(c) ==
  /\ Running(c, "post")
  /\ sem' = sem + 1
  /\ Goto(c, "idle")
  /\ UNCHANGED <<file, alive, op, dict, rest, ret, interrupts, crashes>>

(***************************************************************************)
(* Failures.                                                               *)
(***************************************************************************)

\* A caller dies in the middle of a call; the kernel gives back no permit.
Die(c) ==
  /\ alive[c]
  /\ pc[c] # "idle"
  /\ crashes < MaxCrashes
  /\ crashes' = crashes + 1
  /\ alive' = [alive EXCEPT ![c] = FALSE]
  /\ op' = [op EXCEPT ![c] = NoOperation]
  /\ dict' = [dict EXCEPT ![c] = EmptyStore]
  /\ rest' = [rest EXCEPT ![c] = {}]
  /\ ret' = [ret EXCEPT ![c] = NoResult]
  /\ UNCHANGED <<file, sem, pc, interrupts>>

\* The dead process is started again.
Restart(c) ==
  /\ ~alive[c]
  /\ alive' = [alive EXCEPT ![c] = TRUE]
  /\ Goto(c, "idle")
  /\ UNCHANGED <<file, sem, op, dict, rest, ret, interrupts, crashes>>

\* The device restarts: named semaphores are gone, the file stays.
Reboot ==
  /\ crashes < MaxCrashes
  /\ crashes' = crashes + 1
  /\ sem' = 1
  /\ pc' = [c \in Callers |-> "idle"]
  /\ alive' = [c \in Callers |-> TRUE]
  /\ op' = [c \in Callers |-> NoOperation]
  /\ dict' = [c \in Callers |-> EmptyStore]
  /\ rest' = [c \in Callers |-> {}]
  /\ ret' = [c \in Callers |-> NoResult]
  /\ interrupts' = 0
  /\ UNCHANGED file

Progress(c) ==
  \/ SemWait(c) \/ ReadParam(c) \/ NothingToClear(c) \/ ReadDict(c)
  \/ OpenStore(c) \/ WriteChunk(c) \/ CloseStore(c) \/ SemPost(c)

Next ==
  \/ \E c \in Callers :
        \/ \E o \in Operations : Call(c, o) \/ SemOpenFails(c, o)
        \/ Progress(c)
        \/ SemWaitFails(c)
        \/ OpenStoreFails(c)
        \/ WritePart(c)
        \/ Die(c)
        \/ Restart(c)
  \/ Reboot

Spec == Init /\ [][Next]_vars

\* A live caller never stops inside a call: the scheduler runs it until it
\* blocks in sem_wait, and sem_wait returns once a permit stays available.
FairSpec == Spec /\ \A c \in Callers : WF_vars(Progress(c))

(***************************************************************************)
(* Properties.                                                             *)
(***************************************************************************)

\* Every variable keeps its type (the types the C++ declarations give).
TypeOK ==
  /\ file \in Stores
  /\ sem \in Nat
  /\ pc \in [Callers -> Steps]
  /\ alive \in [Callers -> BOOLEAN]
  /\ op \in [Callers -> Operations \cup {NoOperation}]
  /\ dict \in [Callers -> Stores]
  /\ rest \in [Callers -> SUBSET Keys]
  /\ ret \in [Callers -> Outcomes]
  /\ interrupts \in Nat
  /\ crashes \in Nat

\* The critical section of the three API calls is exclusive, across
\* processes and across deaths inside it, as long as no sem_wait failed
\* since boot (the semaphore of tr181api.cpp is never over-posted).
MutualExclusion ==
  interrupts = 0 =>
    \A c, d \in Callers : pc[c] \in Critical /\ pc[d] \in Critical => c = d

\* A caller that is about to rewrite the file holds a dictionary computed
\* from the file as it still is: setValue's read-modify-write loses no
\* update, as long as no sem_wait failed since boot.
FreshDict ==
  interrupts = 0 =>
    \A c \in Callers : Running(c, "open") => dict[c] = Updated(file, op[c])

\* What a rewrite in progress has put in the file: everything but the lines
\* it still has to write, and the beginning of one of those.
WriteInProgress ==
  interrupts = 0 =>
    \A c \in Callers : Running(c, "write") =>
      /\ \A k \in Keys :
           IF k \in rest[c] THEN file[k] \in {Absent} \cup Cut(dict[c][k])
                            ELSE file[k] = dict[c][k]
      /\ \A j, k \in rest[c] : file[j] # Absent /\ file[k] # Absent => j = k

\* The permit is either in the semaphore or with the one caller inside.
PermitInv ==
  interrupts = 0 =>
    /\ sem \in {0, 1}
    /\ sem = 1 => \A c \in Callers : pc[c] \notin Critical

\* A caller on its way through a call has an operation, and only an update
\* rewrites the file.
OperationInv ==
  \A c \in Callers : alive[c] =>
    /\ pc[c] # "idle" => op[c] \in Operations
    /\ pc[c] \in {"open", "write"} => op[c].kind \in {"set", "clear"}

\* The inductive invariant.
StoreInv ==
  /\ TypeOK
  /\ MutualExclusion
  /\ PermitInv
  /\ OperationInv
  /\ FreshDict
  /\ WriteInProgress

\* The permit comes back: whatever the callers do, the semaphore is
\* available again and again (every path through the three API calls,
\* early returns included, ends in sem_post), unless somebody dies.
PermitReturns == [](crashes = 0) => []<>(sem > 0)

(***************************************************************************)
(* Refinement.                                                             *)
(***************************************************************************)

\* The callers that rewrite the file.
Writers == {c \in Callers : Running(c, "write")}

\* The map the callers see: the file, or what it is being rewritten to.
AbsStore == IF Writers = {} THEN file ELSE dict[CHOOSE c \in Writers : TRUE]

AbsPhase ==
  [c \in Callers |->
     IF ~alive[c] \/ pc[c] = "idle" THEN "idle"
     ELSE IF pc[c] \in {"write", "post"} THEN "done"
     ELSE "pending"]

AbsResult ==
  [c \in Callers |->
     IF Running(c, "write") THEN Outcome("tr181Success", Absent) ELSE ret[c]]

Atomic == INSTANCE LocalStore WITH
  store <- AbsStore, phase <- AbsPhase, request <- op, result <- AbsResult

\* The store implements the atomic map of module LocalStore: an update
\* takes effect when setValue opens the file for writing and is complete
\* when the semaphore is posted; nobody sees the states in between.  Every
\* step is one of the map, unless a sem_wait failed since boot.
AtomicStore ==
  /\ Atomic!Init
  /\ [][interrupts = 0 /\ interrupts' = 0 => [Atomic!Next]_(Atomic!vars)]_vars
=============================================================================

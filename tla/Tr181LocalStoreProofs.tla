------------------------ MODULE Tr181LocalStoreProofs ------------------------
(***************************************************************************)
(* Proofs about the device-local store for any set of callers, keys and    *)
(* values: the critical section is exclusive, no update is lost, and the   *)
(* store implements an atomic map, unless a sem_wait fails.                *)
(***************************************************************************)
EXTENDS Tr181LocalStore, TLAPS

USE SentinelsAssumption, CutsAssumption, DefaultsAssumption, BoundsAssumption

(***************************************************************************)
(* Facts about the pure operations.                                        *)
(***************************************************************************)

\* The operands of an operation of tr181api have their types.
LEMMA OperationFields ==
  ASSUME NEW o \in Operations \cup {NoOperation}
  PROVE  /\ o.kind = "get" => o.key \in Keys
         /\ o.kind = "set" => o.key \in Keys /\ o.value \in Values \cup {Empty}
         /\ o.kind \in {"get", "set", "clear", "none"}
         /\ o.kind # "none" => o \in Operations
BY DEF Operations, NoOperation

\* getLocalParam returns one of the outcomes tr181api.h lists.
LEMMA LocalValueType ==
  ASSUME NEW ini \in Stores, NEW c \in Callers, NEW k \in Keys
  PROVE  LocalValue(ini, c, k) \in Outcomes
<1>1. ASSUME NEW s \in Stores PROVE GetValue(s, k) \in Outcomes
  <2>1. s[k] \in Cells
    BY <1>1 DEF Stores
  <2>2. CASE s[k] \in Values
    BY <2>2 DEF GetValue, Outcomes, Outcome, Codes
  <2>3. CASE s[k] = Empty
    BY <2>3 DEF GetValue, Outcomes, Outcome, Codes
  <2>4. CASE s[k] = Absent
    BY <2>4 DEF GetValue, Outcomes, Outcome, Codes
  <2>5. QED BY <2>1, <2>2, <2>3, <2>4 DEF Cells
<1>2. Defaults[c] \in Stores
  OBVIOUS
<1>3. QED BY <1>1, <1>2 DEF LocalValue

\* setValue computes a dictionary from a dictionary.
LEMMA UpdatedType ==
  ASSUME NEW ini \in Stores, NEW o \in Operations \cup {NoOperation},
         o.kind \in {"set", "clear"}
  PROVE  Updated(ini, o) \in Stores
<1>1. CASE o.kind = "clear"
  BY <1>1 DEF Updated, Stores, Cells
<1>2. CASE o.kind = "set"
  BY <1>2, OperationFields DEF Updated, Stores, Cells
<1>3. QED BY <1>1, <1>2

\* clearLocalParam without a match would write back what it read.
LEMMA NothingCleared ==
  ASSUME NEW ini \in Stores, NEW o \in Operations,
         o.kind = "clear", Cleared(ini, o.target) = {}
  PROVE  Updated(ini, o) = ini
BY DEF Updated, Stores

\* The results a call can return without reading a parameter.
LEMMA PlainOutcomes ==
  /\ Outcome("tr181Success", Absent) \in Outcomes
  /\ Outcome("tr181Failure", Absent) \in Outcomes
  /\ NoResult \in Outcomes
BY DEF Outcome, Outcomes, Codes, NoResult

LEMMA EmptyStoreType == EmptyStore \in Stores
BY DEF EmptyStore, Stores, Cells

\* What a line cut by a death reads as is a value, or empty.
LEMMA CutType ==
  ASSUME NEW cell \in Cells
  PROVE  Cut(cell) \subseteq Values \cup {Empty}
BY DEF Cut

(***************************************************************************)
(* Types.                                                                  *)
(***************************************************************************)

LEMMA TypeStep == TypeOK /\ [Next]_vars => TypeOK'
<1> SUFFICES ASSUME TypeOK, [Next]_vars PROVE TypeOK'
  OBVIOUS
<1> USE PlainOutcomes, EmptyStoreType DEF TypeOK, Running, Goto, Steps
<1>1. ASSUME NEW c \in Callers, NEW o \in Operations, Call(c, o) PROVE TypeOK'
  BY <1>1 DEF Call
<1>2. ASSUME NEW c \in Callers, NEW o \in Operations, SemOpenFails(c, o) PROVE TypeOK'
  BY <1>2 DEF SemOpenFails
<1>3. ASSUME NEW c \in Callers, SemWait(c) PROVE TypeOK'
  BY <1>3 DEF SemWait
<1>4. ASSUME NEW c \in Callers, SemWaitFails(c) PROVE TypeOK'
  BY <1>4 DEF SemWaitFails
<1>5. ASSUME NEW c \in Callers, ReadParam(c) PROVE TypeOK'
  <2>1. op[c].key \in Keys
    BY <1>5, OperationFields DEF ReadParam
  <2>2. LocalValue(file, c, op[c].key) \in Outcomes
    BY <2>1, LocalValueType
  <2>3. QED BY <1>5, <2>2 DEF ReadParam
<1>6. ASSUME NEW c \in Callers, NothingToClear(c) PROVE TypeOK'
  BY <1>6 DEF NothingToClear
<1>7. ASSUME NEW c \in Callers, ReadDict(c) PROVE TypeOK'
  <2>1. Updated(file, op[c]) \in Stores
    BY <1>7, UpdatedType DEF ReadDict
  <2>2. QED BY <1>7, <2>1 DEF ReadDict
<1>8. ASSUME NEW c \in Callers, OpenStore(c) PROVE TypeOK'
  BY <1>8 DEF OpenStore, Lines
<1>9. ASSUME NEW c \in Callers, OpenStoreFails(c) PROVE TypeOK'
  BY <1>9 DEF OpenStoreFails
<1>10. ASSUME NEW c \in Callers, WriteChunk(c) PROVE TypeOK'
  <2>1. PICK S \in (SUBSET rest[c]) \ {{}} :
          /\ file' = [k \in Keys |-> IF k \in S THEN dict[c][k] ELSE file[k]]
          /\ rest' = [rest EXCEPT ![c] = @ \ S]
    BY <1>10 DEF WriteChunk
  <2>2. file' \in Stores
    BY <2>1 DEF Stores
  <2>3. QED BY <1>10, <2>1, <2>2 DEF WriteChunk
<1>10a. ASSUME NEW c \in Callers, WritePart(c) PROVE TypeOK'
  <2>1. PICK k \in rest[c] : \E v \in Cut(dict[c][k]) : file' = [file EXCEPT ![k] = v]
    BY <1>10a DEF WritePart
  <2>2. dict[c][k] \in Cells
    BY <2>1 DEF Stores
  <2>3. file' \in Stores
    BY <2>1, <2>2, CutType DEF Stores, Cells
  <2>4. QED BY <1>10a, <2>3 DEF WritePart
<1>11. ASSUME NEW c \in Callers, CloseStore(c) PROVE TypeOK'
  BY <1>11 DEF CloseStore
<1>12. ASSUME NEW c \in Callers, SemPost(c) PROVE TypeOK'
  BY <1>12 DEF SemPost
<1>13. ASSUME NEW c \in Callers, Die(c) PROVE TypeOK'
  BY <1>13 DEF Die
<1>14. ASSUME NEW c \in Callers, Restart(c) PROVE TypeOK'
  BY <1>14 DEF Restart
<1>15. CASE Reboot
  BY <1>15 DEF Reboot
<1>16. CASE UNCHANGED vars
  BY <1>16 DEF vars
<1>17. QED
  BY <1>1, <1>2, <1>3, <1>4, <1>5, <1>6, <1>7, <1>8, <1>9, <1>10, <1>10a, <1>11,
     <1>12, <1>13, <1>14, <1>15, <1>16 DEF Next, Progress

\* Every variable of the store keeps the type tr181api.cpp gives it.
THEOREM TypeCorrect == Spec => []TypeOK
<1>1. Init => TypeOK
  BY PlainOutcomes, EmptyStoreType DEF Init, TypeOK, Steps
<1>2. QED BY <1>1, TypeStep, PTL DEF Spec

(***************************************************************************)
(* The critical section.                                                   *)
(***************************************************************************)

LockInv == MutualExclusion /\ PermitInv

LEMMA LockStep == TypeOK /\ LockInv /\ [Next]_vars => LockInv'
<1> SUFFICES ASSUME TypeOK, LockInv, [Next]_vars PROVE LockInv'
  OBVIOUS
<1> USE DEF TypeOK, LockInv, MutualExclusion, PermitInv, Running, Goto, Steps, Critical
<1>1. ASSUME NEW c \in Callers, NEW o \in Operations, Call(c, o) PROVE LockInv'
  BY <1>1 DEF Call
<1>2. ASSUME NEW c \in Callers, NEW o \in Operations, SemOpenFails(c, o) PROVE LockInv'
  BY <1>2 DEF SemOpenFails
<1>3. ASSUME NEW c \in Callers, SemWait(c) PROVE LockInv'
  BY <1>3 DEF SemWait
<1>4. ASSUME NEW c \in Callers, SemWaitFails(c) PROVE LockInv'
  BY <1>4 DEF SemWaitFails
<1>5. ASSUME NEW c \in Callers, ReadParam(c) PROVE LockInv'
  BY <1>5 DEF ReadParam
<1>6. ASSUME NEW c \in Callers, NothingToClear(c) PROVE LockInv'
  BY <1>6 DEF NothingToClear
<1>7. ASSUME NEW c \in Callers, ReadDict(c) PROVE LockInv'
  BY <1>7 DEF ReadDict
<1>8. ASSUME NEW c \in Callers, OpenStore(c) PROVE LockInv'
  BY <1>8 DEF OpenStore
<1>9. ASSUME NEW c \in Callers, OpenStoreFails(c) PROVE LockInv'
  BY <1>9 DEF OpenStoreFails
<1>10. ASSUME NEW c \in Callers, WriteChunk(c) PROVE LockInv'
  BY <1>10 DEF WriteChunk
<1>10a. ASSUME NEW c \in Callers, WritePart(c) PROVE LockInv'
  BY <1>10a DEF WritePart
<1>11. ASSUME NEW c \in Callers, CloseStore(c) PROVE LockInv'
  BY <1>11 DEF CloseStore
<1>12. ASSUME NEW c \in Callers, SemPost(c) PROVE LockInv'
  BY <1>12 DEF SemPost
<1>13. ASSUME NEW c \in Callers, Die(c) PROVE LockInv'
  BY <1>13 DEF Die
<1>14. ASSUME NEW c \in Callers, Restart(c) PROVE LockInv'
  BY <1>14 DEF Restart
<1>15. CASE Reboot
  BY <1>15 DEF Reboot
<1>16. CASE UNCHANGED vars
  BY <1>16 DEF vars
<1>17. QED
  BY <1>1, <1>2, <1>3, <1>4, <1>5, <1>6, <1>7, <1>8, <1>9, <1>10, <1>10a, <1>11,
     <1>12, <1>13, <1>14, <1>15, <1>16 DEF Next, Progress

\* The three calls of tr181api.cpp exclude one another between sem_wait and
\* sem_post, across processes and deaths, until a sem_wait fails.
THEOREM Exclusion == Spec => []MutualExclusion
<1>1. Init => LockInv
  BY DEF Init, LockInv, MutualExclusion, PermitInv, Critical
<1>2. Spec => [](TypeOK /\ LockInv)
  BY <1>1, LockStep, TypeCorrect, PTL DEF Spec
<1>3. QED BY <1>2, PTL DEF LockInv

(***************************************************************************)
(* The read-modify-write of setValue.                                      *)
(***************************************************************************)

LEMMA OperationStep == TypeOK /\ OperationInv /\ [Next]_vars => OperationInv'
<1> SUFFICES ASSUME TypeOK, OperationInv, [Next]_vars PROVE OperationInv'
  OBVIOUS
<1> USE DEF TypeOK, OperationInv, Running, Goto, Steps
<1>1. ASSUME NEW c \in Callers, NEW o \in Operations, Call(c, o) PROVE OperationInv'
  BY <1>1 DEF Call
<1>2. ASSUME NEW c \in Callers, NEW o \in Operations, SemOpenFails(c, o) PROVE OperationInv'
  BY <1>2 DEF SemOpenFails
<1>3. ASSUME NEW c \in Callers, SemWait(c) PROVE OperationInv'
  BY <1>3 DEF SemWait
<1>4. ASSUME NEW c \in Callers, SemWaitFails(c) PROVE OperationInv'
  BY <1>4 DEF SemWaitFails
<1>5. ASSUME NEW c \in Callers, ReadParam(c) PROVE OperationInv'
  BY <1>5 DEF ReadParam
<1>6. ASSUME NEW c \in Callers, NothingToClear(c) PROVE OperationInv'
  BY <1>6 DEF NothingToClear
<1>7. ASSUME NEW c \in Callers, ReadDict(c) PROVE OperationInv'
  BY <1>7 DEF ReadDict
<1>8. ASSUME NEW c \in Callers, OpenStore(c) PROVE OperationInv'
  BY <1>8 DEF OpenStore
<1>9. ASSUME NEW c \in Callers, OpenStoreFails(c) PROVE OperationInv'
  BY <1>9 DEF OpenStoreFails
<1>10. ASSUME NEW c \in Callers, WriteChunk(c) PROVE OperationInv'
  BY <1>10 DEF WriteChunk
<1>10a. ASSUME NEW c \in Callers, WritePart(c) PROVE OperationInv'
  BY <1>10a DEF WritePart
<1>11. ASSUME NEW c \in Callers, CloseStore(c) PROVE OperationInv'
  BY <1>11 DEF CloseStore
<1>12. ASSUME NEW c \in Callers, SemPost(c) PROVE OperationInv'
  BY <1>12 DEF SemPost
<1>13. ASSUME NEW c \in Callers, Die(c) PROVE OperationInv'
  BY <1>13 DEF Die
<1>14. ASSUME NEW c \in Callers, Restart(c) PROVE OperationInv'
  BY <1>14 DEF Restart
<1>15. CASE Reboot
  BY <1>15 DEF Reboot
<1>16. CASE UNCHANGED vars
  BY <1>16 DEF vars
<1>17. QED
  BY <1>1, <1>2, <1>3, <1>4, <1>5, <1>6, <1>7, <1>8, <1>9, <1>10, <1>10a, <1>11,
     <1>12, <1>13, <1>14, <1>15, <1>16 DEF Next, Progress

LEMMA FreshDictStep ==
  TypeOK /\ LockInv /\ OperationInv /\ FreshDict /\ [Next]_vars => FreshDict'
<1> SUFFICES ASSUME TypeOK, LockInv, OperationInv, FreshDict, [Next]_vars PROVE FreshDict'
  OBVIOUS
<1> USE DEF TypeOK, LockInv, MutualExclusion, PermitInv, OperationInv, FreshDict, Running, Goto, Steps, Critical
<1>1. ASSUME NEW c \in Callers, NEW o \in Operations, Call(c, o) PROVE FreshDict'
  BY <1>1 DEF Call
<1>2. ASSUME NEW c \in Callers, NEW o \in Operations, SemOpenFails(c, o) PROVE FreshDict'
  BY <1>2 DEF SemOpenFails
<1>3. ASSUME NEW c \in Callers, SemWait(c) PROVE FreshDict'
  BY <1>3 DEF SemWait
<1>4. ASSUME NEW c \in Callers, SemWaitFails(c) PROVE FreshDict'
  BY <1>4 DEF SemWaitFails
<1>5. ASSUME NEW c \in Callers, ReadParam(c) PROVE FreshDict'
  BY <1>5 DEF ReadParam
<1>6. ASSUME NEW c \in Callers, NothingToClear(c) PROVE FreshDict'
  BY <1>6 DEF NothingToClear
<1>7. ASSUME NEW c \in Callers, ReadDict(c) PROVE FreshDict'
  BY <1>7 DEF ReadDict
<1>8. ASSUME NEW c \in Callers, OpenStore(c) PROVE FreshDict'
  BY <1>8 DEF OpenStore
<1>9. ASSUME NEW c \in Callers, OpenStoreFails(c) PROVE FreshDict'
  BY <1>9 DEF OpenStoreFails
<1>10. ASSUME NEW c \in Callers, WriteChunk(c) PROVE FreshDict'
  BY <1>10 DEF WriteChunk
<1>10a. ASSUME NEW c \in Callers, WritePart(c) PROVE FreshDict'
  BY <1>10a DEF WritePart
<1>11. ASSUME NEW c \in Callers, CloseStore(c) PROVE FreshDict'
  BY <1>11 DEF CloseStore
<1>12. ASSUME NEW c \in Callers, SemPost(c) PROVE FreshDict'
  BY <1>12 DEF SemPost
<1>13. ASSUME NEW c \in Callers, Die(c) PROVE FreshDict'
  BY <1>13 DEF Die
<1>14. ASSUME NEW c \in Callers, Restart(c) PROVE FreshDict'
  BY <1>14 DEF Restart
<1>15. CASE Reboot
  BY <1>15 DEF Reboot
<1>16. CASE UNCHANGED vars
  BY <1>16 DEF vars
<1>17. QED
  BY <1>1, <1>2, <1>3, <1>4, <1>5, <1>6, <1>7, <1>8, <1>9, <1>10, <1>10a, <1>11,
     <1>12, <1>13, <1>14, <1>15, <1>16 DEF Next, Progress

LEMMA WriteStep ==
  TypeOK /\ LockInv /\ WriteInProgress /\ [Next]_vars => WriteInProgress'
<1> SUFFICES ASSUME TypeOK, LockInv, WriteInProgress, [Next]_vars PROVE WriteInProgress'
  OBVIOUS
<1> USE DEF TypeOK, LockInv, MutualExclusion, PermitInv, WriteInProgress, Running, Goto, Steps, Critical
<1>1. ASSUME NEW c \in Callers, NEW o \in Operations, Call(c, o) PROVE WriteInProgress'
  BY <1>1 DEF Call
<1>2. ASSUME NEW c \in Callers, NEW o \in Operations, SemOpenFails(c, o) PROVE WriteInProgress'
  BY <1>2 DEF SemOpenFails
<1>3. ASSUME NEW c \in Callers, SemWait(c) PROVE WriteInProgress'
  BY <1>3 DEF SemWait
<1>4. ASSUME NEW c \in Callers, SemWaitFails(c) PROVE WriteInProgress'
  BY <1>4 DEF SemWaitFails
<1>5. ASSUME NEW c \in Callers, ReadParam(c) PROVE WriteInProgress'
  BY <1>5 DEF ReadParam
<1>6. ASSUME NEW c \in Callers, NothingToClear(c) PROVE WriteInProgress'
  BY <1>6 DEF NothingToClear
<1>7. ASSUME NEW c \in Callers, ReadDict(c) PROVE WriteInProgress'
  BY <1>7 DEF ReadDict
<1>8. ASSUME NEW c \in Callers, OpenStore(c) PROVE WriteInProgress'
  BY <1>8 DEF OpenStore, EmptyStore, Lines
<1>9. ASSUME NEW c \in Callers, OpenStoreFails(c) PROVE WriteInProgress'
  BY <1>9 DEF OpenStoreFails
<1>10. ASSUME NEW c \in Callers, WriteChunk(c) PROVE WriteInProgress'
  BY <1>10 DEF WriteChunk
<1>10a. ASSUME NEW c \in Callers, WritePart(c) PROVE WriteInProgress'
  BY <1>10a DEF WritePart
<1>11. ASSUME NEW c \in Callers, CloseStore(c) PROVE WriteInProgress'
  BY <1>11 DEF CloseStore
<1>12. ASSUME NEW c \in Callers, SemPost(c) PROVE WriteInProgress'
  BY <1>12 DEF SemPost
<1>13. ASSUME NEW c \in Callers, Die(c) PROVE WriteInProgress'
  BY <1>13 DEF Die
<1>14. ASSUME NEW c \in Callers, Restart(c) PROVE WriteInProgress'
  BY <1>14 DEF Restart
<1>15. CASE Reboot
  BY <1>15 DEF Reboot
<1>16. CASE UNCHANGED vars
  BY <1>16 DEF vars
<1>17. QED
  BY <1>1, <1>2, <1>3, <1>4, <1>5, <1>6, <1>7, <1>8, <1>9, <1>10, <1>10a, <1>11,
     <1>12, <1>13, <1>14, <1>15, <1>16 DEF Next, Progress

\* The conjunction that is inductive: what the critical section protects
\* needs the exclusion, the exclusion needs the count of permits.
THEOREM Invariance == Spec => []StoreInv
<1>1. Init => StoreInv
  BY PlainOutcomes, EmptyStoreType DEF Init, StoreInv, TypeOK, Steps, MutualExclusion, PermitInv,
     OperationInv, FreshDict, WriteInProgress, Running, Critical
<1>2. StoreInv /\ [Next]_vars => StoreInv'
  BY TypeStep, LockStep, OperationStep, FreshDictStep, WriteStep DEF StoreInv, LockInv
<1>3. QED BY <1>1, <1>2, PTL DEF Spec

\* setValue never writes back a dictionary computed from an older file, until
\* a sem_wait fails: no update is lost.
THEOREM NoLostUpdate == Spec => []FreshDict
BY Invariance, PTL DEF StoreInv

(***************************************************************************)
(* The store implements the atomic map.                                    *)
(***************************************************************************)

\* The instance shares the pure operations.
LEMMA SameOperations ==
  /\ Atomic!Operations = Operations
  /\ Atomic!NoOperation = NoOperation
  /\ Atomic!NoResult = NoResult
  /\ Atomic!Stores = Stores
  /\ \A code, value : Atomic!Outcome(code, value) = Outcome(code, value)
  /\ \A ini, c, k : Atomic!LocalValue(ini, c, k) = LocalValue(ini, c, k)
  /\ \A ini, o : Atomic!Updated(ini, o) = Updated(ini, o)
  /\ \A ini : Atomic!Remnants(ini) = Remnants(ini)
<1>1. \A ini, k : Atomic!GetValue(ini, k) = GetValue(ini, k)
  BY DEF Atomic!GetValue, GetValue, Atomic!Outcome, Outcome
<1>2. \A ini, c, k : Atomic!LocalValue(ini, c, k) = LocalValue(ini, c, k)
  BY <1>1 DEF Atomic!LocalValue, LocalValue
<1>3. \A k, t : Atomic!Matches(k, t) = Matches(k, t)
  BY DEF Atomic!Matches, Matches, Atomic!Contains, Contains
<1>4. \A ini, o : Atomic!Updated(ini, o) = Updated(ini, o)
  BY <1>3 DEF Atomic!Updated, Updated, Atomic!Cleared, Cleared
<1>5. Atomic!Stores = Stores
  BY DEF Atomic!Stores, Stores, Atomic!Cells, Cells
<1>6. QED
  BY <1>2, <1>4, <1>5 DEF Atomic!Operations, Operations, Atomic!NoOperation, NoOperation,
     Atomic!NoResult, NoResult, Atomic!Outcome, Outcome, Atomic!Remnants, Remnants,
     Atomic!Cut, Cut

\* While a caller rewrites the file the map is the dictionary of that caller.
WriterOwnsStore ==
  LockInv /\ interrupts = 0 =>
    \A c \in Callers : Running(c, "write") => AbsStore = dict[c]

LEMMA StoreOfWriter == WriterOwnsStore
<1> SUFFICES ASSUME LockInv, interrupts = 0, NEW c \in Callers, Running(c, "write")
             PROVE  AbsStore = dict[c]
  BY DEF WriterOwnsStore
<1>1. \A d \in Writers : d = c
  BY DEF Writers, Running, LockInv, MutualExclusion, Critical
<1>2. c \in Writers
  BY DEF Writers
<1>3. (CHOOSE d \in Writers : TRUE) = c
  BY <1>1, <1>2
<1>4. QED BY <1>2, <1>3 DEF AbsStore

\* While a caller is inside and does not write, the map is the file.
InsideSeesFile ==
  LockInv /\ interrupts = 0 =>
    \A c \in Callers : pc[c] \in Critical /\ pc[c] # "write" => AbsStore = file

LEMMA StoreInside == InsideSeesFile
<1> SUFFICES ASSUME LockInv, interrupts = 0, NEW c \in Callers, pc[c] \in Critical, pc[c] # "write"
             PROVE  AbsStore = file
  BY DEF InsideSeesFile
<1>1. Writers = {}
  BY DEF Writers, Running, LockInv, MutualExclusion, Critical
<1>2. QED BY <1>1 DEF AbsStore

LEMMA StoreOutside == Writers = {} => AbsStore = file
BY DEF AbsStore

\* The same after a step.
LEMMA StoreAfter == WriterOwnsStore' /\ InsideSeesFile'
BY StoreOfWriter, StoreInside, PTL

\* A step of a live caller changes the phase of that caller only.
PhaseOf(step) ==
  IF step = "idle" THEN "idle" ELSE IF step \in {"write", "post"} THEN "done" ELSE "pending"

LEMMA PhaseStep ==
  ASSUME TypeOK, NEW c \in Callers, NEW step \in Steps, alive[c], UNCHANGED alive, Goto(c, step)
  PROVE  AbsPhase[c] = PhaseOf(pc[c]) /\ AbsPhase' = [AbsPhase EXCEPT ![c] = PhaseOf(step)]
<1>1. AbsPhase[c] = PhaseOf(pc[c])
  BY DEF AbsPhase, PhaseOf, TypeOK
<1>2. pc' \in [Callers -> Steps] /\ pc'[c] = step /\ \A d \in Callers \ {c} : pc'[d] = pc[d]
  BY DEF Goto, TypeOK
<1>3. AbsPhase'[c] = PhaseOf(step)
  BY <1>2 DEF AbsPhase, PhaseOf
<1>4. \A d \in Callers \ {c} : AbsPhase'[d] = AbsPhase[d]
  BY <1>2 DEF AbsPhase
<1>5. DOMAIN AbsPhase = Callers /\ DOMAIN AbsPhase' = Callers
      /\ AbsPhase = [d \in Callers |-> AbsPhase[d]] /\ AbsPhase' = [d \in Callers |-> AbsPhase'[d]]
  BY DEF AbsPhase
<1>6. QED BY <1>1, <1>3, <1>4, <1>5

\* Every step of the code is a step of the atomic map or leaves it alone.
LEMMA RefinementStep ==
  ASSUME StoreInv, StoreInv', interrupts = 0, interrupts' = 0, [Next]_vars
  PROVE  [Atomic!Next]_(Atomic!vars)
<1> USE SameOperations DEF StoreInv, TypeOK, LockInv
<1> DEFINE ANext == Atomic!Next \/ UNCHANGED <<AbsStore, AbsPhase, op, AbsResult>>
<1>0. SUFFICES ANext
  BY DEF Atomic!vars
<1>1. ASSUME NEW c \in Callers, NEW o \in Operations, Call(c, o) PROVE ANext
  <2>1. Writers' = Writers
    BY <1>1 DEF Call, Writers, Running, Goto, Steps
  <2>2. AbsStore' = AbsStore
    BY <2>1, <1>1 DEF Call, AbsStore
  <2>3. AbsPhase' = [AbsPhase EXCEPT ![c] = "pending"] /\ AbsPhase[c] = "idle"
    BY <1>1, PhaseStep DEF Call, PhaseOf, Running, Steps
  <2>4. AbsResult' = [AbsResult EXCEPT ![c] = NoResult]
    BY <1>1 DEF Call, AbsResult, Running, Goto, Steps
  <2>5. Atomic!Invoke(c, o)
    BY <1>1, <2>2, <2>3, <2>4 DEF Call, Atomic!Invoke
  <2>6. QED BY <2>5 DEF Atomic!Next
<1>2. ASSUME NEW c \in Callers, NEW o \in Operations, SemOpenFails(c, o) PROVE ANext
  <2>1. Writers' = Writers
    BY <1>2 DEF SemOpenFails, Writers, Running, Goto, Steps
  <2>2. AbsStore' = AbsStore
    BY <2>1, <1>2 DEF SemOpenFails, AbsStore
  <2>3. AbsPhase' = AbsPhase /\ AbsPhase[c] = "idle"
    BY <1>2 DEF SemOpenFails, AbsPhase, Running, Goto, Steps
  <2>4. AbsResult' = [AbsResult EXCEPT ![c] = Outcome("tr181Failure", Absent)]
    BY <1>2 DEF SemOpenFails, AbsResult, Running, Goto, Steps
  <2>5. Atomic!Refuse(c, o)
    BY <1>2, <2>2, <2>3, <2>4 DEF SemOpenFails, Atomic!Refuse
  <2>6. QED BY <2>5 DEF Atomic!Next
<1>3. ASSUME NEW c \in Callers, SemWait(c) PROVE ANext
  <2>1. Writers' = Writers
    BY <1>3 DEF SemWait, Writers, Running, Goto, Steps
  <2>2. AbsStore' = AbsStore
    BY <2>1, <1>3 DEF SemWait, AbsStore
  <2>3. AbsPhase' = AbsPhase
    BY <1>3 DEF SemWait, AbsPhase, Running, Goto, Steps
  <2>4. AbsResult' = AbsResult
    BY <1>3 DEF SemWait, AbsResult, Running, Goto, Steps
  <2>5. QED BY <1>3, <2>2, <2>3, <2>4 DEF SemWait
<1>4. ASSUME NEW c \in Callers, SemWaitFails(c) PROVE ANext
  BY <1>4 DEF SemWaitFails
<1>5. ASSUME NEW c \in Callers, ReadParam(c) PROVE ANext
  <2>1. AbsStore = file
    BY <1>5, StoreInside DEF InsideSeesFile, WriterOwnsStore, ReadParam, Running, Critical
  <2>2. AbsStore' = file'
    BY <1>5, StoreAfter DEF InsideSeesFile, WriterOwnsStore, ReadParam, Running, Critical, Goto, Steps
  <2>3. AbsPhase' = [AbsPhase EXCEPT ![c] = "done"] /\ AbsPhase[c] = "pending"
    BY <1>5, PhaseStep DEF ReadParam, PhaseOf, Running, Steps
  <2>4. AbsResult' = [AbsResult EXCEPT ![c] = LocalValue(file, c, op[c].key)]
    BY <1>5 DEF ReadParam, AbsResult, Running, Goto, Steps
  <2>5. Atomic!Apply(c)
    BY <1>5, <2>1, <2>2, <2>3, <2>4 DEF ReadParam, Atomic!Apply
  <2>6. QED BY <2>5 DEF Atomic!Next
<1>6. ASSUME NEW c \in Callers, NothingToClear(c) PROVE ANext
  <2>1. AbsStore = file
    BY <1>6, StoreInside DEF InsideSeesFile, WriterOwnsStore, NothingToClear, Running, Critical
  <2>2. AbsStore' = file'
    BY <1>6, StoreAfter DEF InsideSeesFile, WriterOwnsStore, NothingToClear, Running, Critical, Goto, Steps
  <2>3. AbsPhase' = [AbsPhase EXCEPT ![c] = "done"] /\ AbsPhase[c] = "pending"
    BY <1>6, PhaseStep DEF NothingToClear, PhaseOf, Running, Steps
  <2>4. AbsResult' = [AbsResult EXCEPT ![c] = Outcome("tr181Success", Absent)]
    BY <1>6 DEF NothingToClear, AbsResult, Running, Goto, Steps
  <2>5. Updated(file, op[c]) = file
    BY <1>6, NothingCleared DEF NothingToClear, OperationInv, Running
  <2>6. Atomic!Apply(c)
    BY <1>6, <2>1, <2>2, <2>3, <2>4, <2>5
       DEF NothingToClear, Atomic!Apply
  <2>7. QED BY <2>6 DEF Atomic!Next
<1>7. ASSUME NEW c \in Callers, ReadDict(c) PROVE ANext
  <2>1. AbsStore = file
    BY <1>7, StoreInside DEF InsideSeesFile, WriterOwnsStore, ReadDict, Running, Critical
  <2>2. AbsStore' = file'
    BY <1>7, StoreAfter DEF InsideSeesFile, WriterOwnsStore, ReadDict, Running, Critical, Goto, Steps
  <2>3. AbsPhase' = AbsPhase
    BY <1>7 DEF ReadDict, AbsPhase, Running, Goto, Steps
  <2>4. AbsResult' = AbsResult
    BY <1>7 DEF ReadDict, AbsResult, Running, Goto, Steps
  <2>5. QED BY <1>7, <2>1, <2>2, <2>3, <2>4 DEF ReadDict
<1>8. ASSUME NEW c \in Callers, OpenStore(c) PROVE ANext
  <2>1. AbsStore = file
    BY <1>8, StoreInside DEF InsideSeesFile, WriterOwnsStore, OpenStore, Running, Critical
  <2>2. AbsStore' = Updated(file, op[c])
    <3>1. Running(c, "write")'
      BY <1>8 DEF OpenStore, Running, Goto
    <3>2. AbsStore' = dict[c]'
      BY <3>1, StoreAfter DEF InsideSeesFile, WriterOwnsStore
    <3>3. QED BY <1>8, <3>2 DEF OpenStore, FreshDict
  <2>3. AbsPhase' = [AbsPhase EXCEPT ![c] = "done"] /\ AbsPhase[c] = "pending"
    BY <1>8, PhaseStep DEF OpenStore, PhaseOf, Running, Steps
  <2>4. AbsResult' = [AbsResult EXCEPT ![c] = Outcome("tr181Success", Absent)]
    BY <1>8 DEF OpenStore, AbsResult, Running, Goto, Steps
  <2>5. op[c].kind # "get" /\ op' = op
    BY <1>8 DEF OpenStore, OperationInv, Running
  <2>6. Atomic!Apply(c)
    BY <2>1, <2>2, <2>3, <2>4, <2>5 DEF Atomic!Apply
  <2>7. QED BY <2>6 DEF Atomic!Next
<1>9. ASSUME NEW c \in Callers, OpenStoreFails(c) PROVE ANext
  <2>1. AbsStore = file
    BY <1>9, StoreInside DEF InsideSeesFile, WriterOwnsStore, OpenStoreFails, Running, Critical
  <2>2. AbsStore' = file'
    BY <1>9, StoreAfter DEF InsideSeesFile, WriterOwnsStore, OpenStoreFails, Running, Critical, Goto, Steps
  <2>3. AbsPhase' = [AbsPhase EXCEPT ![c] = "done"] /\ AbsPhase[c] = "pending"
    BY <1>9, PhaseStep DEF OpenStoreFails, PhaseOf, Running, Steps
  <2>4. AbsResult' = [AbsResult EXCEPT ![c] = Outcome("tr181Failure", Absent)]
    BY <1>9 DEF OpenStoreFails, AbsResult, Running, Goto, Steps
  <2>5. Atomic!Fail(c)
    BY <1>9, <2>1, <2>2, <2>3, <2>4 DEF OpenStoreFails, Atomic!Fail
  <2>6. QED BY <2>5 DEF Atomic!Next
<1>10. ASSUME NEW c \in Callers, WriteChunk(c) PROVE ANext
  <2>1. UNCHANGED <<pc, alive, op, dict, ret>>
    BY <1>10 DEF WriteChunk
  <2>2. AbsStore = dict[c]
    BY <1>10, StoreOfWriter DEF InsideSeesFile, WriterOwnsStore, WriteChunk
  <2>3. AbsStore' = dict[c]'
    <3>1. Running(c, "write")'
      BY <1>10, <2>1 DEF WriteChunk, Running
    <3>2. QED BY <3>1, StoreAfter DEF InsideSeesFile, WriterOwnsStore
  <2>4. AbsPhase' = AbsPhase /\ AbsResult' = AbsResult
    BY <2>1 DEF AbsPhase, AbsResult, Running
  <2>5. QED BY <2>1, <2>2, <2>3, <2>4
<1>10a. ASSUME NEW c \in Callers, WritePart(c) PROVE ANext
  <2>1. UNCHANGED <<pc, alive, op, dict, ret>>
    BY <1>10a DEF WritePart
  <2>2. AbsStore = dict[c]
    BY <1>10a, StoreOfWriter DEF InsideSeesFile, WriterOwnsStore, WritePart
  <2>3. AbsStore' = dict[c]'
    <3>1. Running(c, "write")'
      BY <1>10a, <2>1 DEF WritePart, Running
    <3>2. QED BY <3>1, StoreAfter DEF InsideSeesFile, WriterOwnsStore
  <2>4. AbsPhase' = AbsPhase /\ AbsResult' = AbsResult
    BY <2>1 DEF AbsPhase, AbsResult, Running
  <2>5. QED BY <2>1, <2>2, <2>3, <2>4
<1>11. ASSUME NEW c \in Callers, CloseStore(c) PROVE ANext
  <2>1. AbsStore = dict[c]
    BY <1>11, StoreOfWriter DEF InsideSeesFile, WriterOwnsStore, CloseStore
  <2>2. AbsStore' = file'
    BY <1>11, StoreAfter DEF InsideSeesFile, WriterOwnsStore, CloseStore, Running, Critical, Goto, Steps
  <2>3. dict[c] = file
    BY <1>11 DEF CloseStore, WriteInProgress, Stores
  <2>4. AbsPhase' = AbsPhase
    BY <1>11 DEF CloseStore, AbsPhase, Running, Goto, Steps
  <2>5. AbsResult' = AbsResult
    BY <1>11 DEF CloseStore, AbsResult, Running, Goto, Steps
  <2>6. QED BY <1>11, <2>1, <2>2, <2>3, <2>4, <2>5 DEF CloseStore
<1>12. ASSUME NEW c \in Callers, SemPost(c) PROVE ANext
  <2>1. Writers' = Writers
    BY <1>12 DEF SemPost, Writers, Running, Goto, Steps
  <2>2. AbsStore' = AbsStore
    BY <2>1, <1>12 DEF SemPost, AbsStore
  <2>3. AbsPhase' = [AbsPhase EXCEPT ![c] = "idle"] /\ AbsPhase[c] = "done"
    BY <1>12, PhaseStep DEF SemPost, PhaseOf, Running, Steps
  <2>4. AbsResult' = AbsResult
    BY <1>12 DEF SemPost, AbsResult, Running, Goto, Steps
  <2>5. Atomic!Return(c)
    BY <1>12, <2>2, <2>3, <2>4 DEF SemPost, Atomic!Return
  <2>6. QED BY <2>5 DEF Atomic!Next
<1>13. ASSUME NEW c \in Callers, Die(c) PROVE ANext
  <2>1. AbsPhase' = [d \in Callers |-> IF d \in {c} THEN "idle" ELSE AbsPhase[d]]
    BY <1>13 DEF Die, AbsPhase
  <2>2. op' = [d \in Callers |-> IF d \in {c} THEN NoOperation ELSE op[d]]
    BY <1>13 DEF Die
  <2>3. AbsResult' = [d \in Callers |-> IF d \in {c} THEN NoResult ELSE AbsResult[d]]
    BY <1>13 DEF Die, AbsResult, Running
  <2>4. CASE Running(c, "write")
    <3>1. AbsStore = dict[c]
      BY <2>4, StoreOfWriter DEF InsideSeesFile, WriterOwnsStore
    <3>2. Writers' = {}
      BY <1>13, <2>4 DEF Die, Writers, Running, MutualExclusion, Critical
    <3>3. AbsStore' = file
      BY <1>13, <3>2 DEF Die, AbsStore
    <3>4. file \in Remnants(dict[c])
      BY <2>4 DEF Remnants, WriteInProgress
    <3>5. AbsPhase[c] = "done" /\ op[c].kind # "get"
      BY <2>4 DEF AbsPhase, Running, OperationInv
    <3>6. AbsStore' \in Remnants(AbsStore)
      BY <3>1, <3>3, <3>4
    <3>7. Atomic!Crash({c})
      BY <2>1, <2>2, <2>3, <3>5, <3>6 DEF Atomic!Crash
    <3>8. QED BY <3>7 DEF Atomic!Next
  <2>5. CASE ~Running(c, "write")
    <3>1. Writers' = Writers
      BY <1>13, <2>5 DEF Die, Writers, Running
    <3>2. AbsStore' = AbsStore
      <4>1. \A d \in Writers : dict'[d] = dict[d]
        BY <1>13, <2>5 DEF Die, Writers
      <4>2. Writers # {} => (CHOOSE d \in Writers : TRUE) \in Writers
        OBVIOUS
      <4>3. CASE Writers = {}
        BY <1>13, <3>1, <4>3 DEF Die, AbsStore
      <4>4. CASE Writers # {}
        BY <3>1, <4>1, <4>2, <4>4 DEF AbsStore
      <4>5. QED BY <4>3, <4>4
    <3>3. Atomic!Crash({c})
      BY <2>1, <2>2, <2>3, <3>2 DEF Atomic!Crash
    <3>4. QED BY <3>3 DEF Atomic!Next
  <2>6. QED BY <2>4, <2>5
<1>14. ASSUME NEW c \in Callers, Restart(c) PROVE ANext
  <2>1. Writers' = Writers
    BY <1>14 DEF Restart, Writers, Running, Goto, Steps
  <2>2. AbsStore' = AbsStore
    BY <2>1, <1>14 DEF Restart, AbsStore
  <2>3. AbsPhase' = AbsPhase
    BY <1>14 DEF Restart, AbsPhase, Running, Goto, Steps
  <2>4. AbsResult' = AbsResult
    BY <1>14 DEF Restart, AbsResult, Running, Goto, Steps
  <2>5. QED BY <1>14, <2>2, <2>3, <2>4 DEF Restart
<1>15. CASE Reboot
  <2>1. AbsPhase' = [d \in Callers |-> IF d \in Callers THEN "idle" ELSE AbsPhase[d]]
    BY <1>15 DEF Reboot, AbsPhase
  <2>2. op' = [d \in Callers |-> IF d \in Callers THEN NoOperation ELSE op[d]]
    BY <1>15 DEF Reboot
  <2>3. AbsResult' = [d \in Callers |-> IF d \in Callers THEN NoResult ELSE AbsResult[d]]
    BY <1>15 DEF Reboot, AbsResult, Running
  <2>4. AbsStore' = file
    BY <1>15 DEF Reboot, AbsStore, Writers, Running
  <2>5. \/ AbsStore' = AbsStore
        \/ /\ \E d \in Callers : AbsPhase[d] = "done" /\ op[d].kind # "get"
           /\ AbsStore' \in Remnants(AbsStore)
    <3>1. CASE Writers = {}
      BY <2>4, <3>1, StoreOutside
    <3>2. CASE Writers # {}
      <4>1. PICK d \in Callers : Running(d, "write")
        BY <3>2 DEF Writers
      <4>2. AbsStore = dict[d]
        BY <4>1, StoreOfWriter DEF InsideSeesFile, WriterOwnsStore
      <4>3. file \in Remnants(dict[d])
        BY <4>1 DEF Remnants, WriteInProgress
      <4>4. AbsPhase[d] = "done" /\ op[d].kind # "get"
        BY <4>1 DEF AbsPhase, Running, OperationInv
      <4>5. QED BY <2>4, <4>2, <4>3, <4>4
    <3>3. QED BY <3>1, <3>2
  <2>6. Atomic!Crash(Callers)
    BY <2>1, <2>2, <2>3, <2>5 DEF Atomic!Crash
  <2>7. QED BY <2>6 DEF Atomic!Next
<1>16. CASE UNCHANGED vars
  BY <1>16 DEF vars, AbsStore, AbsPhase, AbsResult, Writers, Running
<1>17. QED
  BY <1>1, <1>2, <1>3, <1>4, <1>5, <1>6, <1>7, <1>8, <1>9, <1>10, <1>10a, <1>11,
     <1>12, <1>13, <1>14, <1>15, <1>16 DEF Next, Progress

\* tr181api.cpp implements an atomic map as long as no sem_wait failed since
\* boot: each call takes effect at one moment, half-written files are never seen.
THEOREM ImplementsAtomicStore == Spec => AtomicStore
<1>1. Init => Atomic!Init
  <2> SUFFICES ASSUME Init PROVE Atomic!Init
    OBVIOUS
  <2>1. AbsStore = file
    BY DEF Init, AbsStore, Writers, Running
  <2>2. AbsPhase = [c \in Callers |-> "idle"]
    BY DEF Init, AbsPhase
  <2>3. AbsResult = [c \in Callers |-> NoResult]
    BY DEF Init, AbsResult, Running
  <2>4. QED BY <2>1, <2>2, <2>3, SameOperations DEF Init, Atomic!Init
<1>2. StoreInv /\ StoreInv' /\ [Next]_vars
        => [interrupts = 0 /\ interrupts' = 0 => [Atomic!Next]_(Atomic!vars)]_vars
  BY RefinementStep
<1>3. QED BY <1>1, <1>2, Invariance, PTL DEF Spec, AtomicStore

\* Where no sem_wait can fail, the code implements the whole specification
\* of the map, across deaths and reboots.
THEOREM ImplementsMap ==
  ASSUME MaxInterrupts = 0
  PROVE  Spec => Atomic!Spec
<1>1. Init => interrupts = 0
  BY DEF Init
<1>2. TypeOK /\ interrupts = 0 /\ [Next]_vars => (interrupts = 0)'
  BY DEF TypeOK, Next, Progress, vars, Call, SemOpenFails, SemWait, SemWaitFails, ReadParam,
     NothingToClear, ReadDict, OpenStore, OpenStoreFails, WriteChunk, WritePart, CloseStore,
     SemPost, Die, Restart, Reboot
<1>3. Spec => [](interrupts = 0)
  BY <1>1, <1>2, TypeCorrect, PTL DEF Spec
<1>4. StoreInv /\ StoreInv' /\ interrupts = 0 /\ (interrupts = 0)' /\ [Next]_vars
        => [Atomic!Next]_(Atomic!vars)
  BY RefinementStep
<1>5. QED BY <1>3, <1>4, ImplementsAtomicStore, Invariance, PTL DEF Spec, AtomicStore, Atomic!Spec
=============================================================================

---------------------------- MODULE RfcApiProofs ----------------------------
(***************************************************************************)
(* librfcapi for any number of processes, parameters and ini files: the    *)
(* merged defaults are complete once nobody builds them, and a lookup that *)
(* meets no builder returns an effective value.                            *)
(***************************************************************************)
EXTENDS RfcApi, WellFoundedInduction, TLAPS

(***************************************************************************)
(* Lookups.                                                                *)
(***************************************************************************)

\* getValue returns a result.
LEMMA GetValueType ==
  ASSUME NEW cell \in Cells
  PROVE  GetValue(cell) \in Results
  BY SentinelsAssumption DEF GetValue, Cells, Results, Codes, Failure, Success

\* The pieces of the merged file are numbers of ini files with lines.
LEMMA MergeableFiles ==
  ASSUME etc \in EtcDirs
  PROVE  /\ Len(etc) \in Nat
         /\ Mergeable \subseteq 1..Len(etc)
         /\ AllFiles \subseteq 1..Len(etc)
         /\ \A i \in Mergeable \cup AllFiles : etc[i] \in IniFiles
         /\ NoneEmpty => Mergeable = AllFiles
<1>1. etc \in Seq(IniFiles \cup {NoLines})
  BY EtcDirsAssumption
<1>2. \A i \in 1..Len(etc) : etc[i] \in IniFiles \cup {NoLines}
  BY <1>1
<1>3. \A i \in Mergeable : i \in 1..Len(etc) /\ etc[i] # NoLines
  BY <1>1 DEF Mergeable
<1>4. \A i \in AllFiles : i \in 1..Len(etc) /\ etc[i] # NoLines
  BY DEF AllFiles
<1>5. ASSUME NoneEmpty PROVE Mergeable = AllFiles
  <2>1. \A i \in 1..Len(etc) : etc[i] # NoLines
    BY <1>5 DEF NoneEmpty, AllFiles
  <2>2. \A i \in 1..Len(etc) : \A j \in 1..i : j \in 1..Len(etc)
    BY <1>1
  <2>3. Mergeable = 1..Len(etc)
    BY <2>1, <2>2 DEF Mergeable
  <2> QED
    BY <1>5, <2>3 DEF NoneEmpty
<1> QED
  BY <1>1, <1>2, <1>3, <1>4, <1>5

\* A set of natural numbers that is not empty has a least element.
LEMMA LeastNatural ==
  ASSUME NEW S \in SUBSET Nat, S # {}
  PROVE  \E i \in S : \A j \in S : i <= j
<1>1. PICK i \in S : \A j \in S : <<j, i>> \notin OpToRel(<, Nat)
  BY NatLessThanWellFounded, WFMin, Zenon
<1>2. \A j \in S : ~(j < i)
  BY <1>1 DEF OpToRel
<1> QED
  BY <1>2

\* A merged file of any of the pieces has at most one first line for a name.
LEMMA DefaultCellType ==
  ASSUME etc \in EtcDirs, NEW pieces \in SUBSET (Mergeable \cup AllFiles), NEW n \in Tr181
  PROVE  DefaultCell(pieces, n) \in Cells
<1>1. \A i \in pieces : PieceValue(pieces, i, n) \in Cells
  BY MergeableFiles, IniFilesAssumption DEF PieceValue, Cells
<1>2. CASE Holding(pieces, n) = {}
  BY <1>2 DEF DefaultCell, Cells
<1>3. CASE Holding(pieces, n) # {}
  <2>1. Holding(pieces, n) \in SUBSET Nat
    BY MergeableFiles DEF Holding
  <2>2. \E i \in Holding(pieces, n) : \A j \in Holding(pieces, n) : i <= j
    BY <1>3, <2>1, LeastNatural
  <2>3. (CHOOSE i \in Holding(pieces, n) : \A j \in Holding(pieces, n) : i <= j) \in pieces
    BY <2>2 DEF Holding
  <2> QED
    BY <1>1, <1>3, <2>3 DEF DefaultCell
<1> QED
  BY <1>2, <1>3

\* What a lookup should return is a result.
LEMMA EffectiveType ==
  ASSUME etc \in EtcDirs, bootstrap \in [Tr181 -> Cells],
         NEW s \in [Tr181 -> Cells], NEW n \in Tr181
  PROVE  /\ FromDefaults(n) \in Results
         /\ FromBootstrap(n) \in Results
         /\ Effective(s, n) \in Results
<1>1. FromDefaults(n) \in Results
  BY DefaultCellType, GetValueType DEF FromDefaults
<1>2. \A v \in Values : Success(v) \in Results
  BY DEF Success, Results, Codes
<1> QED
  BY <1>1, <1>2 DEF FromBootstrap, Effective

(***************************************************************************)
(* Types.                                                                  *)
(***************************************************************************)

\* The part of TypeOK that is about the processes.
CallType ==
  /\ pc \in [Procs -> Steps]
  /\ param \in [Procs -> Names \cup {Absent}]
  /\ \A p \in Procs : pc[p] \in FileSteps => param[p] \in Tr181
  /\ \A p \in Procs : pc[p] \in {"http", "post"} => param[p] \in Names
  /\ arg \in [Procs -> Cells]
  /\ pos \in [Procs -> 1..(Len(etc) + 1)]
  /\ ret \in [Procs -> Results]
  /\ seen \in [Procs -> SUBSET Results]

\* The part that is about the files, tr69hostif and the environment.
WorldType ==
  /\ etc \in EtcDirs
  /\ store \in [Tr181 -> Cells]
  /\ bootstrap \in [Tr181 -> Cells]
  /\ present \in BOOLEAN
  /\ merged \subseteq Mergeable
  /\ server \in {"down", "up", "hung"}
  /\ readyFile \in BOOLEAN
  /\ ready \in [Procs -> BOOLEAN]
  /\ torn \in BOOLEAN
  /\ events \in Nat

\* A failed call is a result.
LEMMA FailureType == Failure \in Results
  BY DEF Failure, Results, Codes

\* A call that returns leaves the process idle.
LEMMA ReturnType ==
  ASSUME CallType, etc \in EtcDirs, NEW p \in Procs, NEW r \in Results, Return(p, r), UNCHANGED etc
  PROVE  CallType'
<1>1. 1 \in 1..(Len(etc) + 1)
  BY MergeableFiles
<1> QED
  BY <1>1 DEF CallType, Return, Goto, Steps, FileSteps, Cells

\* A call that begins has its parameter.
LEMMA BeginType ==
  ASSUME CallType, NEW p \in Procs, NEW step \in {"http", "post", "store"}, NEW n \in Names,
         step = "store" => n \in Tr181, Begin(p, step, n)
  PROVE  /\ pc' \in [Procs -> Steps]
         /\ param' \in [Procs -> Names \cup {Absent}]
         /\ \A q \in Procs : pc'[q] \in FileSteps => param'[q] \in Tr181
         /\ \A q \in Procs : pc'[q] \in {"http", "post"} => param'[q] \in Names
         /\ ret' \in [Procs -> Results]
  BY FailureType DEF CallType, Begin, Goto, Steps, FileSteps

\* Every step keeps the types.
LEMMA TypeStep == TypeOK /\ [Next]_vars => TypeOK'
<1> SUFFICES ASSUME CallType, WorldType, [Next]_vars
             PROVE  CallType' /\ WorldType'
  BY DEF TypeOK, CallType, WorldType
<1> DEFINE Goal == CallType' /\ WorldType'
<1>a. etc \in EtcDirs /\ Mergeable \subseteq 1..Len(etc) /\ Len(etc) \in Nat
  BY MergeableFiles DEF WorldType
<1>b. Tr181 \subseteq Names
  BY DEF Tr181
<1>0. CASE UNCHANGED vars
  BY <1>0 DEF vars, files, hostif, CallType, WorldType, Mergeable
<1>1. ASSUME NEW p \in Procs, NEW r \in Results, Return(p, r),
             UNCHANGED <<files, present, merged, hostif, ready, torn, events>>
      PROVE  Goal
  BY <1>1, ReturnType DEF files, hostif, WorldType, Mergeable
<1>2. ASSUME NEW p \in Procs, NEW n \in Names, GetRFCParameter(p, n) PROVE Goal
  <2>1. CASE GetWildcard(p, n)
    BY <1>1, <2>1, FailureType DEF GetWildcard
  <2>2. CASE GetLegacy(p, n)
    BY <1>1, <2>2, GetValueType DEF GetLegacy
  <2>3. CASE GetFromFiles(p, n)
    <3>1. Effective(store, n) \in Results
      BY <2>3, EffectiveType DEF GetFromFiles, WorldType
    <3>2. WorldType'
      BY <2>3 DEF GetFromFiles, WorldType, files, hostif, Mergeable
    <3>3. n \in Tr181 /\ Begin(p, "store", n) /\ UNCHANGED <<etc, arg, pos>>
      BY <2>3 DEF GetFromFiles, files
    <3>4. seen' \in [Procs -> SUBSET Results]
      BY <2>3, <3>1 DEF GetFromFiles, CallType
    <3> QED
      BY <3>2, <3>3, <3>4, BeginType DEF CallType
  <2>4. CASE GetLive(p, n)
    <3>1. WorldType'
      BY <2>4 DEF GetLive, WorldType, files, hostif, Mergeable
    <3>2. CASE Return(p, Failure)
      BY <2>4, <3>1, <3>2, <1>a, ReturnType, FailureType DEF GetLive, files
    <3>3. CASE Begin(p, "http", n) /\ UNCHANGED <<arg, pos, seen>>
      BY <2>4, <3>1, <3>3, BeginType DEF GetLive, files, CallType
    <3> QED
      BY <2>4, <3>2, <3>3 DEF GetLive
  <2> QED
    BY <1>2, <2>1, <2>2, <2>3, <2>4 DEF GetRFCParameter
<1>3. ASSUME NEW p \in Procs, NEW n \in Tr181, NEW v \in Values \cup {Empty}, SetParameter(p, n, v)
      PROVE  Goal
  <2>1. CASE Return(p, Failure)
    BY <1>1, <1>3, <2>1, FailureType DEF SetParameter
  <2>2. CASE Begin(p, "post", n) /\ arg' = [arg EXCEPT ![p] = v] /\ UNCHANGED <<pos, seen>>
    <3>1. WorldType' /\ UNCHANGED etc
      BY <1>3 DEF SetParameter, WorldType, files, hostif, Mergeable
    <3>2. arg' \in [Procs -> Cells]
      BY <2>2 DEF CallType, Cells
    <3> QED
      BY <1>b, <2>2, <3>1, <3>2, BeginType DEF CallType
  <2> QED
    BY <1>3, <2>1, <2>2 DEF SetParameter
<1>4. ASSUME NEW p \in Procs, Progress(p) PROVE Goal
  <2>1. ASSUME NEW step \in FileSteps, NEW cell \in Cells, NEW next \in FileSteps,
               ReadOverride(p, step, cell, next)
        PROVE  Goal
    <3>1. CASE Return(p, GetValue(cell))
      BY <1>1, <2>1, <3>1, GetValueType DEF ReadOverride
    <3>2. CASE Goto(p, next) /\ UNCHANGED <<param, arg, pos, ret, seen>>
      BY <2>1, <3>2 DEF ReadOverride, Goto, CallType, WorldType, files, hostif, Mergeable, Steps, FileSteps
    <3> QED
      BY <2>1, <3>1, <3>2 DEF ReadOverride
  <2>2. CASE ReadStore(p)
    <3>1. store[param[p]] \in Cells
      BY <2>2 DEF ReadStore, ReadOverride, CallType, WorldType, FileSteps
    <3> QED
      BY <2>1, <2>2, <3>1 DEF ReadStore, FileSteps
  <2>3. CASE ReadBootstrap(p)
    <3>1. bootstrap[param[p]] \in Cells
      BY <2>3 DEF ReadBootstrap, ReadOverride, CallType, WorldType, FileSteps
    <3> QED
      BY <2>1, <2>3, <3>1 DEF ReadBootstrap, FileSteps
  <2>4. CASE OpenDefaults(p)
    BY <2>4 DEF OpenDefaults, Goto, CallType, WorldType, files, hostif, Mergeable, Steps, FileSteps
  <2>5. CASE CreateDefaults(p)
    BY <2>5, <1>a DEF CreateDefaults, Goto, CallType, WorldType, files, hostif, Steps, FileSteps
  <2>6. CASE MergeFile(p)
    <3>1. pos[p] \in 1..Len(etc)
      BY <2>6, <1>a DEF MergeFile
    <3>2. pos' \in [Procs -> 1..(Len(etc) + 1)] /\ UNCHANGED etc
      BY <2>6, <3>1, <1>a DEF MergeFile, CallType, files
    <3>3. merged' \subseteq Mergeable
      BY <2>6 DEF MergeFile, WorldType
    <3> QED
      BY <2>6, <3>2, <3>3 DEF MergeFile, CallType, WorldType, files, hostif, Mergeable
  <2>7. CASE MergeEnds(p)
    BY <2>7 DEF MergeEnds, Goto, CallType, WorldType, files, hostif, Mergeable, Steps, FileSteps
  <2>8. CASE Scan(p)
    <3>1. DefaultCell(merged, param[p]) \in Cells
      BY <2>8, <1>a, DefaultCellType DEF Scan, CallType, WorldType, FileSteps
    <3> QED
      BY <1>1, <2>8, <3>1, GetValueType DEF Scan
  <2>12. CASE NotWritable(p)
    BY <2>12 DEF NotWritable, Goto, CallType, WorldType, files, hostif, Mergeable, Steps, FileSteps
  <2>13. CASE Reopen(p)
    <3>1. CASE Return(p, Failure)
      BY <1>1, <2>13, <3>1, FailureType DEF Reopen
    <3>2. CASE Goto(p, "scan") /\ UNCHANGED <<param, arg, pos, ret, seen>> /\ pc[p] = "reopen"
      BY <2>13, <3>2 DEF Reopen, Goto, CallType, WorldType, files, hostif, Mergeable, Steps, FileSteps
    <3> QED
      BY <2>13, <3>1, <3>2 DEF Reopen
  <2>9. CASE CreateFails(p) \/ HttpFails(p) \/ PostFails(p)
    BY <1>1, <2>9, FailureType DEF CreateFails, HttpFails, PostFails
  <2>10. CASE HttpAnswer(p)
    <3>1. HostifValue(param[p]) \in Results
      BY FailureType DEF HostifValue, WorldType, Success, Results, Codes
    <3> QED
      BY <1>1, <2>10, <3>1 DEF HttpAnswer
  <2>11. CASE PostAnswer(p)
    <3>1. store' \in [Tr181 -> Cells] /\ param[p] \in Tr181
      BY <2>11 DEF PostAnswer, CallType, WorldType
    <3>2. seen' \in [Procs -> SUBSET Results]
      <4>1. \A q \in Procs : pc[q] \in FileSteps => Effective(store', param[q]) \in Results
        BY <3>1, <1>a, EffectiveType DEF CallType, WorldType
      <4> QED
        BY <2>11, <4>1 DEF PostAnswer, CallType
    <3>3. WorldType'
      BY <2>11, <3>1 DEF PostAnswer, WorldType, hostif, Mergeable
    <3>4. Success(Absent) \in Results
      BY DEF Success, Results, Codes
    <3> QED
      BY <2>11, <3>2, <3>3, <3>4 DEF PostAnswer, CallType, Goto, Steps, FileSteps, Cells
  <2> QED
    BY <1>4, <2>2, <2>3, <2>4, <2>5, <2>6, <2>7, <2>8, <2>9, <2>10, <2>11, <2>12, <2>13
       DEF Progress, InitRfcDefaults
<1>5. ASSUME NEW p \in Procs, Die(p) PROVE Goal
  <2>1. CallType'
    BY <1>5, <1>a, ReturnType, FailureType DEF Die, files
  <2> QED
    BY <1>5, <2>1 DEF Die, Event, WorldType, files, hostif, Mergeable
<1>6. CASE HostifStarts \/ HostifStops
  <2>1. readyFile' \in BOOLEAN
    BY <1>6, Zenon DEF HostifStarts, HostifStops
  <2>2. events' \in Nat /\ server' \in {"down", "up", "hung"}
    BY <1>6 DEF HostifStarts, HostifStops, Event, WorldType
  <2>3. UNCHANGED <<files, present, merged, ready, pc, param, arg, pos, ret, seen, torn>>
    BY <1>6 DEF HostifStarts, HostifStops
  <2> QED
    BY <2>1, <2>2, <2>3 DEF CallType, WorldType, files, Mergeable
<1> QED
  BY <1>0, <1>2, <1>3, <1>4, <1>5, <1>6 DEF Next

\* The types hold at boot.
LEMMA TypeInit == Init => TypeOK
<1> SUFFICES ASSUME Init PROVE TypeOK
  OBVIOUS
<1>1. 1 \in 1..(Len(etc) + 1)
  BY MergeableFiles DEF Init
<1>2. ready \in [Procs -> BOOLEAN] /\ present \in BOOLEAN /\ readyFile \in BOOLEAN /\ torn \in BOOLEAN
  BY Zenon DEF Init
<1> QED
  BY <1>1, <1>2, FailureType DEF Init, TypeOK, Steps, FileSteps, Cells

\* Every variable of librfcapi keeps its type, for any number of processes,
\* parameters and ini files.
THEOREM TypeCorrect == Spec => []TypeOK
  BY TypeInit, TypeStep, PTL DEF Spec

(***************************************************************************)
(* The merged defaults.                                                    *)
(***************************************************************************)

\* What the merged file sees of a step that neither begins, continues nor
\* ends the building of it.
Unrelated ==
  /\ UNCHANGED <<etc, present, merged, torn>>
  /\ \A q \in Procs : pc[q] = "merge" => pc'[q] = "merge" /\ pos'[q] = pos[q]
  /\ \A q \in Procs : pc'[q] \in {"merge", "scan"} => present \/ pc[q] \in {"merge", "scan"}

\* Every other step is unrelated.
LEMMA MergeKinds ==
  ASSUME TypeOK, [Next]_vars
  PROVE  \/ Unrelated
         \/ \E p \in Procs : CreateDefaults(p) \/ MergeFile(p) \/ MergeEnds(p) \/ Die(p)
<1> USE DEF TypeOK, Unrelated, Goto
<1>0. CASE UNCHANGED vars \/ HostifStarts \/ HostifStops
  BY <1>0 DEF vars, files, HostifStarts, HostifStops
<1>1. ASSUME NEW p \in Procs, NEW r, pc[p] # "merge", Return(p, r),
             UNCHANGED <<etc, present, merged, torn>>
      PROVE  Unrelated
  BY <1>1 DEF Return
<1>2. ASSUME NEW p \in Procs, NEW step \in {"store", "http", "post"}, NEW n, pc[p] # "merge",
             Begin(p, step, n), UNCHANGED <<etc, present, merged, torn, pos>>
      PROVE  Unrelated
  BY <1>2 DEF Begin
<1>3. ASSUME NEW p \in Procs, NEW n \in Names, GetRFCParameter(p, n) PROVE Unrelated
  BY <1>1, <1>2, <1>3 DEF GetRFCParameter, GetWildcard, GetLegacy, GetFromFiles, GetLive, files
<1>4. ASSUME NEW p \in Procs, NEW n \in Tr181, NEW v \in Values \cup {Empty}, SetParameter(p, n, v)
      PROVE  Unrelated
  BY <1>1, <1>2, <1>4 DEF SetParameter, files
<1>5. ASSUME NEW p \in Procs, ReadStore(p) \/ ReadBootstrap(p) PROVE Unrelated
  <2>1. ASSUME NEW step \in {"store", "bootstrap"}, NEW cell, NEW next \in {"bootstrap", "defaults"},
               ReadOverride(p, step, cell, next)
        PROVE  Unrelated
    <3>1. pc[p] # "merge" /\ UNCHANGED <<etc, present, merged, torn>>
      BY <2>1 DEF ReadOverride, files
    <3>2. CASE Return(p, GetValue(cell))
      BY <1>1, <3>1, <3>2
    <3>3. CASE Goto(p, next) /\ UNCHANGED pos
      BY <3>1, <3>3
    <3> QED
      BY <2>1, <3>2, <3>3 DEF ReadOverride
  <2> QED
    BY <1>5, <2>1 DEF ReadStore, ReadBootstrap
<1>6. ASSUME NEW p \in Procs, OpenDefaults(p) \/ NotWritable(p) PROVE Unrelated
  BY <1>6 DEF OpenDefaults, NotWritable, files
<1>9. ASSUME NEW p \in Procs, Reopen(p) PROVE Unrelated
  BY <1>1, <1>9 DEF Reopen, files
<1>7. ASSUME NEW p \in Procs, Scan(p) \/ HttpAnswer(p) \/ HttpFails(p) \/ PostFails(p) \/ CreateFails(p)
      PROVE  Unrelated
  BY <1>1, <1>7 DEF Scan, HttpAnswer, HttpFails, PostFails, CreateFails, files
<1>8. ASSUME NEW p \in Procs, PostAnswer(p) PROVE Unrelated
  BY <1>8 DEF PostAnswer
<1> QED
  BY <1>0, <1>3, <1>4, <1>5, <1>6, <1>7, <1>8, <1>9 DEF Next, Progress, InitRfcDefaults

\* A missing piece always has a builder that will write it.
LEMMA MergeStep == TypeOK /\ MergeInv /\ [Next]_vars => MergeInv'
<1> SUFFICES ASSUME TypeOK, MergeInv, [Next]_vars PROVE MergeInv'
  OBVIOUS
<1>a. Mergeable \subseteq Nat
  BY MergeableFiles DEF TypeOK
<1> USE DEF TypeOK, MergeInv, Goto
<1>1. CASE Unrelated
  <2>1. UNCHANGED <<present, merged, torn>> /\ Mergeable' = Mergeable
    BY <1>1 DEF Unrelated, Mergeable
  <2>2. ASSUME ~torn, present, NEW i \in Mergeable \ merged
        PROVE  \E q \in Procs : pc'[q] = "merge" /\ pos'[q] <= i
    <3>1. PICK q \in Procs : pc[q] = "merge" /\ pos[q] <= i
      BY <2>2
    <3> QED
      BY <1>1, <3>1 DEF Unrelated
  <2>3. \A q \in Procs : pc'[q] \in {"merge", "scan"} => present
    BY <1>1 DEF Unrelated
  <2> QED
    BY <2>1, <2>2, <2>3
<1>2. ASSUME NEW p \in Procs, CreateDefaults(p) PROVE MergeInv'
  <2>1. Mergeable' = Mergeable
    BY <1>2 DEF CreateDefaults, files, Mergeable
  <2>2. \A i \in Mergeable : pos'[p] <= i
    BY <1>2, MergeableFiles DEF CreateDefaults
  <2>3. pc'[p] = "merge" /\ present'
    BY <1>2 DEF CreateDefaults
  <2> QED
    BY <2>1, <2>2, <2>3
<1>3. ASSUME NEW p \in Procs, MergeFile(p) PROVE MergeInv'
  <2>1. Mergeable' = Mergeable /\ UNCHANGED <<pc, present, torn>>
    BY <1>3 DEF MergeFile, files, Mergeable
  <2>2. merged' = merged \cup {pos[p]} /\ pos' = [pos EXCEPT ![p] = @ + 1]
    BY <1>3 DEF MergeFile
  <2>3. ASSUME ~torn, present, NEW i \in Mergeable \ merged'
        PROVE  \E q \in Procs : pc[q] = "merge" /\ pos'[q] <= i
    <3>1. PICK q \in Procs : pc[q] = "merge" /\ pos[q] <= i
      BY <2>2, <2>3
    <3>2. i \in Nat /\ pos[q] \in Nat /\ pos[p] # i
      BY <1>a, <2>2, <2>3
    <3> QED
      BY <2>2, <3>1, <3>2
  <2> QED
    BY <2>1, <2>3
<1>4. ASSUME NEW p \in Procs, MergeEnds(p) PROVE MergeInv'
  <2>1. /\ Mergeable' = Mergeable /\ UNCHANGED <<present, merged, torn, pos>>
        /\ pc' = [pc EXCEPT ![p] = "scan"] /\ pc[p] = "merge" /\ pos[p] \notin Mergeable
    BY <1>4 DEF MergeEnds, files, Mergeable
  <2>2. \A i \in Mergeable : ~(pos[p] <= i)
    <3> SUFFICES ASSUME NEW i \in Mergeable, pos[p] <= i PROVE FALSE
      OBVIOUS
    <3>1. pos[p] \in 1..Len(etc) /\ pos[p] \in 1..i
      BY MergeableFiles
    <3>2. \A j \in 1..pos[p] : j \in 1..i
      BY <3>1, MergeableFiles
    <3> QED
      BY <2>1, <3>1, <3>2 DEF Mergeable
  <2> QED
    BY <2>1, <2>2
<1>5. ASSUME NEW p \in Procs, Die(p) PROVE MergeInv'
  <2>1. /\ Mergeable' = Mergeable /\ UNCHANGED <<present, merged>>
        /\ pc' = [pc EXCEPT ![p] = "idle"] /\ pos' = [pos EXCEPT ![p] = 1]
    BY <1>5 DEF Die, Return, files, Mergeable
  <2>2. ~torn' => ~torn /\ pc[p] # "merge"
    BY <1>5 DEF Die
  <2> QED
    BY <2>1, <2>2
<1> QED
  BY <1>1, <1>2, <1>3, <1>4, <1>5, MergeKinds

(***************************************************************************)
(* The value a lookup returns.                                             *)
(***************************************************************************)

\* The rest of a lookup depends on files nobody writes, and its beginning on
\* the store.
LEMMA Stable ==
  ASSUME UNCHANGED <<etc, bootstrap>>, NEW q
  PROVE  /\ FromDefaults(param[q])' = FromDefaults(param'[q])
         /\ FromBootstrap(param[q])' = FromBootstrap(param'[q])
         /\ Effective(store, param[q])' = Effective(store', param'[q])
  BY DEF FromDefaults, FromBootstrap, Effective, DefaultCell, Holding, PieceValue, AllFiles

\* What SeenInv says of one process.
SeenOf(p) ==
  /\ pc[p] = "store" => Effective(store, param[p]) \in seen[p]
  /\ pc[p] = "bootstrap" => FromBootstrap(param[p]) \in seen[p]
  /\ pc[p] \in {"defaults", "create", "merge", "reopen", "scan"} => FromDefaults(param[p]) \in seen[p]

\* A process that stays where it is, sees at least what it saw, and sees the
\* new store if it changes.
LEMMA SeenKept ==
  ASSUME NEW q, SeenOf(q), UNCHANGED <<etc, bootstrap, pc[q], param[q]>>, seen[q] \subseteq seen'[q],
         pc[q] = "store" => Effective(store', param[q]) \in seen'[q]
  PROVE  SeenOf(q)'
  BY Stable DEF SeenOf

\* A process outside the lookup through the files.
LEMMA SeenOutside ==
  ASSUME NEW q, pc'[q] \notin FileSteps
  PROVE  SeenOf(q)'
  BY DEF SeenOf, FileSteps

\* A step of process p that leaves the store and everybody else's lookup
\* alone.
Private(p) ==
  /\ UNCHANGED <<etc, bootstrap, store>>
  /\ \A q \in Procs \ {p} : UNCHANGED <<pc[q], param[q], seen[q]>>

\* It keeps SeenInv if it keeps it for p.
LEMMA SeenPrivate ==
  ASSUME SeenInv, NEW p \in Procs, Private(p), SeenOf(p)'
  PROVE  SeenInv'
<1>1. \A q \in Procs : SeenOf(q)
  BY DEF SeenInv, SeenOf
<1>2. ASSUME NEW q \in Procs \ {p} PROVE SeenOf(q)'
  <2>1. pc[q] = "store" => Effective(store', param[q]) \in seen'[q]
    BY <1>1, <1>2 DEF Private, SeenOf
  <2> QED
    BY <1>1, <1>2, <2>1, SeenKept DEF Private
<1>3. \A q \in Procs : SeenOf(q)'
  BY <1>2
<1> QED
  BY <1>3 DEF SeenInv, SeenOf

\* Returning is such a step.
LEMMA SeenReturn ==
  ASSUME TypeOK, SeenInv, NEW p \in Procs, NEW r, Return(p, r), UNCHANGED files
  PROVE  SeenInv'
<1>1. pc'[p] = "idle" /\ Private(p)
  BY DEF TypeOK, Return, Goto, Private, files
<1>2. SeenOf(p)'
  BY <1>1, SeenOutside DEF FileSteps
<1> QED
  BY <1>1, <1>2, SeenPrivate

\* The effective results a lookup collects include what is left of it.
LEMMA SeenStep == TypeOK /\ SeenInv /\ [Next]_vars => SeenInv'
<1> SUFFICES ASSUME TypeOK, SeenInv, [Next]_vars PROVE SeenInv'
  OBVIOUS
<1>a. \A q \in Procs : SeenOf(q)
  BY DEF SeenInv, SeenOf
<1>0. CASE UNCHANGED vars \/ HostifStarts \/ HostifStops
  <2>1. UNCHANGED <<files, pc, param, seen>>
    BY <1>0 DEF vars, HostifStarts, HostifStops
  <2>2. \A q \in Procs : SeenOf(q)'
    <3> SUFFICES ASSUME NEW q \in Procs PROVE SeenOf(q)'
      OBVIOUS
    <3>1. pc[q] = "store" => Effective(store', param[q]) \in seen'[q]
      BY <1>a, <2>1 DEF SeenOf, files
    <3> QED
      BY <1>a, <2>1, <3>1, SeenKept DEF files
  <2> QED
    BY <2>2 DEF SeenInv, SeenOf
<1>1. ASSUME NEW p \in Procs, NEW step \in {"http", "post"}, NEW n, Begin(p, step, n),
             UNCHANGED <<files, seen>>
      PROVE  SeenInv'
  <2>1. pc'[p] \notin FileSteps /\ Private(p)
    BY <1>1 DEF Begin, Goto, TypeOK, FileSteps, Private, files
  <2> QED
    BY <2>1, SeenOutside, SeenPrivate
<1>2. ASSUME NEW p \in Procs, NEW n \in Names, GetRFCParameter(p, n) PROVE SeenInv'
  <2>1. CASE GetFromFiles(p, n)
    <3>1. /\ pc'[p] = "store" /\ param'[p] = n /\ seen'[p] = {Effective(store, n)}
          /\ Private(p)
      BY <2>1 DEF GetFromFiles, Begin, Goto, TypeOK, Private, files
    <3>2. Effective(store, param[p])' = Effective(store, n)
      BY <3>1, Stable DEF Private
    <3>3. SeenOf(p)'
      BY <3>1, <3>2 DEF SeenOf
    <3> QED
      BY <3>1, <3>3, SeenPrivate
  <2>2. CASE GetWildcard(p, n) \/ GetLegacy(p, n)
    BY <2>2, SeenReturn DEF GetWildcard, GetLegacy
  <2>3. CASE GetLive(p, n)
    BY <1>1, <2>3, SeenReturn DEF GetLive
  <2> QED
    BY <1>2, <2>1, <2>2, <2>3 DEF GetRFCParameter
<1>3. ASSUME NEW p \in Procs, NEW n \in Tr181, NEW v \in Values \cup {Empty}, SetParameter(p, n, v)
      PROVE  SeenInv'
  BY <1>1, <1>3, SeenReturn DEF SetParameter
<1>4. ASSUME NEW p \in Procs, NEW step \in FileSteps, Goto(p, step), UNCHANGED <<files, param, seen>>,
             \/ step = "bootstrap" /\ FromBootstrap(param[p]) \in seen[p]
             \/ step \notin {"store", "bootstrap"} /\ FromDefaults(param[p]) \in seen[p]
      PROVE  SeenInv'
  <2>1. pc'[p] = step /\ Private(p)
    BY <1>4 DEF Goto, TypeOK, Private, files
  <2>2. SeenOf(p)'
    BY <1>4, <2>1, Stable DEF SeenOf, files
  <2> QED
    BY <2>1, <2>2, SeenPrivate
<1>5. ASSUME NEW p \in Procs, ReadStore(p) PROVE SeenInv'
  <2>1. Effective(store, param[p]) \in seen[p] /\ UNCHANGED files
    BY <1>5, <1>a DEF ReadStore, ReadOverride, SeenOf
  <2>2. CASE store[param[p]] \notin Values
    <3>1. FromBootstrap(param[p]) \in seen[p]
      BY <2>1, <2>2 DEF Effective
    <3> QED
      BY <1>4, <1>5, <2>2, <3>1 DEF ReadStore, ReadOverride, FileSteps
  <2>3. CASE store[param[p]] \in Values
    BY <1>5, <2>1, <2>3, SeenReturn DEF ReadStore, ReadOverride
  <2> QED
    BY <2>2, <2>3
<1>6. ASSUME NEW p \in Procs, ReadBootstrap(p) PROVE SeenInv'
  <2>1. FromBootstrap(param[p]) \in seen[p] /\ UNCHANGED files
    BY <1>6, <1>a DEF ReadBootstrap, ReadOverride, SeenOf
  <2>2. CASE bootstrap[param[p]] \notin Values
    <3>1. FromDefaults(param[p]) \in seen[p]
      BY <2>1, <2>2 DEF FromBootstrap
    <3> QED
      BY <1>4, <1>6, <2>2, <3>1 DEF ReadBootstrap, ReadOverride, FileSteps
  <2>3. CASE bootstrap[param[p]] \in Values
    BY <1>6, <2>1, <2>3, SeenReturn DEF ReadBootstrap, ReadOverride
  <2> QED
    BY <2>2, <2>3
<1>7. ASSUME NEW p \in Procs, OpenDefaults(p) \/ CreateDefaults(p) \/ NotWritable(p) \/ MergeFile(p) \/ MergeEnds(p)
      PROVE  SeenInv'
  <2>1. pc[p] \in {"defaults", "create", "merge"} /\ UNCHANGED <<files, param, seen>>
    BY <1>7 DEF OpenDefaults, CreateDefaults, NotWritable, MergeFile, MergeEnds
  <2>2. FromDefaults(param[p]) \in seen[p]
    BY <1>a, <2>1 DEF SeenOf
  <2>3. \E step \in {"scan", "create", "merge", "reopen"} : Goto(p, step)
    BY <1>7 DEF OpenDefaults, CreateDefaults, NotWritable, MergeFile, MergeEnds, Goto, TypeOK
  <2> QED
    BY <1>4, <2>1, <2>2, <2>3 DEF FileSteps
<1>8. ASSUME NEW p \in Procs, PostAnswer(p) PROVE SeenInv'
  <2>1. ASSUME NEW q \in Procs PROVE SeenOf(q)'
    <3>1. CASE q = p
      BY <1>8, <3>1, SeenOutside DEF PostAnswer, Goto, TypeOK, FileSteps
    <3>2. CASE q # p /\ pc[q] \in FileSteps
      <4>1. /\ UNCHANGED <<etc, bootstrap, pc[q], param[q]>>
            /\ seen'[q] = seen[q] \cup {Effective(store', param[q])}
        BY <1>8, <3>2 DEF PostAnswer, Goto, TypeOK
      <4> QED
        BY <1>a, <4>1, SeenKept
    <3>3. CASE q # p /\ pc[q] \notin FileSteps
      BY <1>8, <3>3, SeenOutside DEF PostAnswer, Goto, TypeOK
    <3> QED
      BY <3>1, <3>2, <3>3
  <2> QED
    BY <2>1 DEF SeenInv, SeenOf
<1>9. ASSUME NEW p \in Procs,
             \/ Scan(p) \/ HttpAnswer(p) \/ HttpFails(p) \/ PostFails(p) \/ CreateFails(p) \/ Die(p)
      PROVE  SeenInv'
  BY <1>9, SeenReturn DEF Scan, HttpAnswer, HttpFails, PostFails, CreateFails, Die
<1>10. ASSUME NEW p \in Procs, Reopen(p) PROVE SeenInv'
  <2>1. FromDefaults(param[p]) \in seen[p]
    BY <1>10, <1>a DEF Reopen, SeenOf
  <2>2. CASE Return(p, Failure)
    BY <1>10, <2>2, SeenReturn DEF Reopen
  <2>3. CASE Goto(p, "scan") /\ UNCHANGED <<param, arg, pos, ret, seen>>
    BY <1>4, <1>10, <2>1, <2>3 DEF Reopen, FileSteps
  <2> QED
    BY <1>10, <2>2, <2>3 DEF Reopen
<1> QED
  BY <1>0, <1>2, <1>3, <1>5, <1>6, <1>7, <1>8, <1>9, <1>10 DEF Next, Progress, InitRfcDefaults

(***************************************************************************)
(* The theorems.                                                           *)
(***************************************************************************)

\* The invariant of librfcapi.
LEMMA Invariance == Spec => []ApiInv
<1>1. Init => MergeInv /\ SeenInv
  BY DEF Init, MergeInv, SeenInv
<1> QED
  BY <1>1, TypeInit, TypeStep, MergeStep, SeenStep, PTL DEF Spec, ApiInv

\* Any number of builders, started at any time: when none is left and none
\* died, the merged file has every ini file, if none is empty
\* (init_rfcdefaults).
THEOREM MergeCompletes == Spec => []MergedWhenQuiet
<1>1. ApiInv => MergedWhenQuiet
  BY MergeableFiles DEF ApiInv, TypeOK, MergeInv, MergedWhenQuiet, Quiet
<1> QED
  BY <1>1, Invariance, PTL

\* Any number of processes that get and set parameters: a lookup through the
\* files that meets no builder and no empty ini file returns a value that was
\* effective during the
\* call (getRFCParameter).
THEOREM LookupIsEffective == Spec => ReadsEffective
<1> DEFINE A == \A p \in Procs :
      (ReadStore(p) \/ ReadBootstrap(p) \/ (Scan(p) /\ Quiet /\ NoneEmpty)) /\ pc'[p] = "idle"
        => ret'[p] \in seen[p]
<1>1. ApiInv => A
  <2> SUFFICES ASSUME ApiInv, NEW p \in Procs,
                      ReadStore(p) \/ ReadBootstrap(p) \/ (Scan(p) /\ Quiet /\ NoneEmpty), pc'[p] = "idle"
               PROVE  ret'[p] \in seen[p]
    OBVIOUS
  <2> USE DEF ApiInv
  <2>a. pc \in [Procs -> Steps] /\ ret \in [Procs -> Results] /\ SeenInv
    BY DEF TypeOK
  <2>b. \A v \in Values : GetValue(v) = Success(v)
    BY SentinelsAssumption DEF GetValue
  <2>1. CASE ReadStore(p)
    <3>1. store[param[p]] \in Values /\ Return(p, GetValue(store[param[p]])) /\ pc[p] = "store"
      BY <2>1, <2>a DEF ReadStore, ReadOverride, Goto
    <3>2. ret'[p] = Effective(store, param[p])
      BY <3>1, <2>a, <2>b DEF Return, Effective
    <3> QED
      BY <3>1, <3>2, <2>a DEF SeenInv
  <2>2. CASE ReadBootstrap(p)
    <3>1. bootstrap[param[p]] \in Values /\ Return(p, GetValue(bootstrap[param[p]])) /\ pc[p] = "bootstrap"
      BY <2>2, <2>a DEF ReadBootstrap, ReadOverride, Goto
    <3>2. ret'[p] = FromBootstrap(param[p])
      BY <3>1, <2>a, <2>b DEF Return, FromBootstrap
    <3> QED
      BY <3>1, <3>2, <2>a DEF SeenInv
  <2>3. CASE Scan(p) /\ Quiet /\ NoneEmpty
    <3>1. merged = AllFiles
      BY <2>3, MergeableFiles DEF Scan, Quiet, TypeOK, MergeInv
    <3>2. ret'[p] = FromDefaults(param[p]) /\ pc[p] = "scan"
      BY <2>3, <2>a, <3>1 DEF Scan, Return, FromDefaults
    <3> QED
      BY <3>2, <2>a DEF SeenInv
  <2> QED
    BY <2>1, <2>2, <2>3
<1>2. ApiInv /\ [Next]_vars => [A]_vars
  BY <1>1
<1> QED
  BY <1>2, Invariance, PTL DEF Spec, ReadsEffective
=============================================================================

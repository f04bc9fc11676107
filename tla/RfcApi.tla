------------------------------- MODULE RfcApi -------------------------------
(***************************************************************************)
(* librfcapi (rfcapi.cpp, video build): processes that read parameters     *)
(* with getRFCParameter and set them with setRFCParameter.  Until a        *)
(* process has seen the ready file of tr69hostif it reads files, one after *)
(* the other: tr181store.ini, bootstrap.ini, /tmp/rfcdefaults.ini.  The    *)
(* last one does not exist after boot: whoever misses it first builds it   *)
(* from /etc/rfcdefaults, in place and without a lock.  Once the ready     *)
(* file was seen, every call is an HTTP request to tr69hostif.             *)
(*                                                                         *)
(* A piece of the merged file is what one ini file contributes to it.      *)
(* Every builder writes the same pieces to the same offsets, so the file   *)
(* is the set of pieces written since it was last truncated, with holes    *)
(* (NUL bytes) where a piece is missing before another one.                *)
(***************************************************************************)
EXTENDS Integers, Sequences

CONSTANTS
  Procs,      \* processes that use librfcapi
  Names,      \* parameter names
  Legacy,     \* those of the form RFC_xxxx, without a dot
  Wildcards,  \* those that end with a dot
  Values,     \* non-empty parameter values
  Empty,      \* a line "name=" without a value
  Absent,     \* no line for the name
  NoLines,    \* an ini file of length 0, or one that cannot be opened
  IniFiles,   \* other ini files, [first, val]: the name of the first line,
              \* and the first value of every name
  EtcDirs,    \* contents of /etc/rfcdefaults in directory order
  MaxEvents   \* deaths, starts, stops and hangs of tr69hostif

Tr181 == Names \ (Legacy \cup Wildcards)

Cells == Values \cup {Empty, Absent}

ASSUME SentinelsAssumption == Empty \notin Values /\ Absent \notin Values /\ Empty # Absent
ASSUME IniFilesAssumption ==
  /\ NoLines \notin IniFiles
  /\ \A f \in IniFiles : f.val \in [Tr181 -> Cells]
ASSUME EtcDirsAssumption == EtcDirs \subseteq Seq(IniFiles \cup {NoLines})
ASSUME BoundAssumption == MaxEvents \in Nat

VARIABLES
  etc,        \* the ini files of /etc/rfcdefaults, read-only
  store,      \* tr181store.ini, written by tr69hostif
  bootstrap,  \* bootstrap.ini
  present,    \* /tmp/rfcdefaults.ini exists ...
  merged,     \* ... and holds these pieces
  server,     \* tr69hostif: "down", "up", "hung"
  readyFile,  \* /tmp/.tr69hostif_http_server_ready exists
  ready,      \* the static tr69hostif_http_server_ready of each process
  pc,         \* the next step of each process
  param,      \* pcParameterName of the call
  arg,        \* pcParameterValue of a set
  pos,        \* the next ini file a builder copies
  ret,        \* what the last call returned
  seen,       \* history: the effective results since the call began
  torn,       \* history: a builder died
  events

files == <<etc, store, bootstrap>>
hostif == <<server, readyFile>>
vars == <<files, present, merged, hostif, ready, pc, param, arg, pos, ret, seen, torn, events>>

FileSteps == {"store", "bootstrap", "defaults", "create", "merge", "reopen", "scan"}

Steps == {"idle", "http", "post"} \cup FileSteps

Codes == {"WDMP_SUCCESS", "WDMP_FAILURE", "WDMP_ERR_VALUE_IS_EMPTY"}

Results == [code : Codes, value : Values \cup {Absent}]

Failure == [code |-> "WDMP_FAILURE", value |-> Absent]

Success(v) == [code |-> "WDMP_SUCCESS", value |-> v]

(***************************************************************************)
(* Lookups.                                                                *)
(***************************************************************************)

\* getValue: the result of the first line for the name.
GetValue(cell) ==
  IF cell = Absent THEN Failure
  ELSE IF cell = Empty THEN [code |-> "WDMP_ERR_VALUE_IS_EMPTY", value |-> Absent]
  ELSE Success(cell)

\* The pieces init_rfcdefaults writes: an ini file without a character makes
\* operator<< set failbit on the merged stream, and nothing follows it.
Mergeable == {i \in 1..Len(etc) : \A j \in 1..i : etc[j] # NoLines}

\* What piece i says of a name.  After a hole its first line begins with
\* NUL bytes and matches no name.
PieceValue(pieces, i, n) ==
  IF i > 1 /\ i - 1 \notin pieces /\ n = etc[i].first THEN Absent ELSE etc[i].val[n]

\* The pieces with a line for the name.
Holding(pieces, n) == {i \in pieces : PieceValue(pieces, i, n) # Absent}

\* The first line for the name in a merged file of these pieces.
DefaultCell(pieces, n) ==
  IF Holding(pieces, n) = {} THEN Absent
  ELSE PieceValue(pieces, CHOOSE i \in Holding(pieces, n) : \A j \in Holding(pieces, n) : i <= j, n)

\* The ini files of the directory that have something to contribute.
AllFiles == {i \in 1..Len(etc) : etc[i] # NoLines}

\* What a lookup should return, from each of its files on: the first
\* non-empty override, otherwise what all of these say.
FromDefaults(n) == GetValue(DefaultCell(AllFiles, n))
FromBootstrap(n) == IF bootstrap[n] \in Values THEN Success(bootstrap[n]) ELSE FromDefaults(n)
Effective(s, n) == IF s[n] \in Values THEN Success(s[n]) ELSE FromBootstrap(n)

\* Boot: /tmp is empty, tr69hostif is not up yet.
Init ==
  /\ etc \in EtcDirs
  /\ store \in [Tr181 -> Cells]
  /\ bootstrap \in [Tr181 -> Cells]
  /\ present = FALSE
  /\ merged = {}
  /\ server = "down"
  /\ readyFile = FALSE
  /\ ready = [p \in Procs |-> FALSE]
  /\ pc = [p \in Procs |-> "idle"]
  /\ param = [p \in Procs |-> Absent]
  /\ arg = [p \in Procs |-> Absent]
  /\ pos = [p \in Procs |-> 1]
  /\ ret = [p \in Procs |-> Failure]
  /\ seen = [p \in Procs |-> {}]
  /\ torn = FALSE
  /\ events = 0

Goto(p, step) == pc' = [pc EXCEPT ![p] = step]

\* Both calls begin with ret = WDMP_FAILURE.
Begin(p, step, n) ==
  /\ Goto(p, step)
  /\ param' = [param EXCEPT ![p] = n]
  /\ ret' = [ret EXCEPT ![p] = Failure]

Return(p, r) ==
  /\ ret' = [ret EXCEPT ![p] = r]
  /\ Goto(p, "idle")
  /\ param' = [param EXCEPT ![p] = Absent]
  /\ arg' = [arg EXCEPT ![p] = Absent]
  /\ pos' = [pos EXCEPT ![p] = 1]
  /\ seen' = [seen EXCEPT ![p] = {}]

(***************************************************************************)
(* getRFCParameter.                                                        *)
(***************************************************************************)

\* "RFC API doesn't support wildcard parameterName".
GetWildcard(p, n) ==
  /\ pc[p] = "idle"
  /\ n \in Wildcards
  /\ Return(p, Failure)
  /\ UNCHANGED <<files, present, merged, hostif, ready, torn, events>>

\* A legacy name before tr69hostif is ready: rfcVariable.ini, which rfcMgr
\* rewrites at any time, has any line or none.
GetLegacy(p, n) ==
  /\ pc[p] = "idle"
  /\ n \in Legacy
  /\ ~ready[p] /\ ~readyFile
  /\ \E cell \in Cells : Return(p, GetValue(cell))
  /\ UNCHANGED <<files, present, merged, hostif, ready, torn, events>>

\* Any other name before tr69hostif is ready: the files.
GetFromFiles(p, n) ==
  /\ pc[p] = "idle"
  /\ n \in Tr181
  /\ ~ready[p] /\ ~readyFile
  /\ Begin(p, "store", n)
  /\ seen' = [seen EXCEPT ![p] = {Effective(store, n)}]
  /\ UNCHANGED <<files, present, merged, hostif, ready, arg, pos, torn, events>>

\* The ready file is there, or was there once: the process asks tr69hostif,
\* unless curl cannot be set up.
GetLive(p, n) ==
  /\ pc[p] = "idle"
  /\ n \notin Wildcards
  /\ ready[p] \/ readyFile
  /\ ready' = [ready EXCEPT ![p] = TRUE]
  /\ \/ Begin(p, "http", n) /\ UNCHANGED <<arg, pos, seen>>
     \/ Return(p, Failure)
  /\ UNCHANGED <<files, present, merged, hostif, torn, events>>

\* A step of a lookup: the cell it found ends the call if it holds a value,
\* otherwise the lookup goes on with the next file.
ReadOverride(p, step, cell, next) ==
  /\ pc[p] = step
  /\ \/ cell \in Values /\ Return(p, GetValue(cell))
     \/ cell \notin Values /\ Goto(p, next) /\ UNCHANGED <<param, arg, pos, ret, seen>>
  /\ UNCHANGED <<files, present, merged, hostif, ready, torn, events>>

\* Variant of ReadStore: a line without a value ends the call.
ReadStoreTakesEmpty(p) ==
  /\ pc[p] = "store"
  /\ \/ store[param[p]] # Absent /\ Return(p, GetValue(store[param[p]]))
     \/ store[param[p]] = Absent /\ Goto(p, "bootstrap") /\ UNCHANGED <<param, arg, pos, ret, seen>>
  /\ UNCHANGED <<files, present, merged, hostif, ready, torn, events>>

ReadStore(p) == ReadOverride(p, "store", store[param[p]], "bootstrap")

ReadBootstrap(p) == ReadOverride(p, "bootstrap", bootstrap[param[p]], "defaults")

\* getValue opens /tmp/rfcdefaults.ini, or finds that it has to be built.
OpenDefaults(p) ==
  /\ pc[p] = "defaults"
  /\ Goto(p, IF present THEN "scan" ELSE "create")
  /\ UNCHANGED <<files, present, merged, hostif, ready, param, arg, pos, ret, seen, torn, events>>

\* init_rfcdefaults: opendir, and an ofstream that truncates the file, built
\* by somebody else in the meantime or not.
CreateDefaults(p) ==
  /\ pc[p] = "create"
  /\ present' = TRUE
  /\ merged' = {}
  /\ pos' = [pos EXCEPT ![p] = 1]
  /\ Goto(p, "merge")
  /\ UNCHANGED <<files, hostif, ready, param, arg, ret, seen, torn, events>>

\* The directory cannot be opened: init_rfcdefaults fails, and so does the call.
CreateFails(p) ==
  /\ pc[p] = "create"
  /\ Return(p, Failure)
  /\ UNCHANGED <<files, present, merged, hostif, ready, torn, events>>

\* The file cannot be opened for writing: the loop copies nothing, and
\* init_rfcdefaults returns true all the same.
NotWritable(p) ==
  /\ pc[p] = "create"
  /\ Goto(p, "reopen")
  /\ UNCHANGED <<files, present, merged, hostif, ready, param, arg, pos, ret, seen, torn, events>>

\* It is opened for reading: somebody else may have built it.
Reopen(p) ==
  /\ pc[p] = "reopen"
  /\ \/ present /\ Goto(p, "scan") /\ UNCHANGED <<param, arg, pos, ret, seen>>
     \/ ~present /\ Return(p, Failure)
  /\ UNCHANGED <<files, present, merged, hostif, ready, torn, events>>

\* Variant of MergeFile: the loop does not end with the directory.
MergeFilePastEnd(p) ==
  /\ pc[p] = "merge"
  /\ merged' = merged \cup {pos[p]}
  /\ pos' = [pos EXCEPT ![p] = @ + 1]
  /\ UNCHANGED <<files, present, hostif, ready, pc, param, arg, ret, seen, torn, events>>

\* Variant of MergeFile: the file is opened anew, and truncated, for each
\* ini file.
MergeFileTruncates(p) ==
  /\ pc[p] = "merge"
  /\ pos[p] \in Mergeable
  /\ merged' = {pos[p]}
  /\ pos' = [pos EXCEPT ![p] = @ + 1]
  /\ UNCHANGED <<files, present, hostif, ready, pc, param, arg, ret, seen, torn, events>>

\* One turn of the loop over the directory.
MergeFile(p) ==
  /\ pc[p] = "merge"
  /\ pos[p] \in Mergeable
  /\ merged' = merged \cup {pos[p]}
  /\ pos' = [pos EXCEPT ![p] = @ + 1]
  /\ UNCHANGED <<files, present, hostif, ready, pc, param, arg, ret, seen, torn, events>>

\* Nothing more reaches the file; it is closed and opened for reading.
MergeEnds(p) ==
  /\ pc[p] = "merge"
  /\ pos[p] \notin Mergeable
  /\ Goto(p, "scan")
  /\ UNCHANGED <<files, present, merged, hostif, ready, param, arg, pos, ret, seen, torn, events>>

\* getValue reads the merged file as it is now.
Scan(p) ==
  /\ pc[p] = "scan"
  /\ Return(p, GetValue(DefaultCell(merged, param[p])))
  /\ UNCHANGED <<files, present, merged, hostif, ready, torn, events>>

\* What tr69hostif answers: its store, its bootstrap values, or an error.
HostifValue(n) ==
  IF n \notin Tr181 THEN Failure
  ELSE IF store[n] \in Values THEN Success(store[n])
  ELSE IF bootstrap[n] \in Values THEN Success(bootstrap[n])
  ELSE Failure

HttpAnswer(p) ==
  /\ pc[p] = "http"
  /\ server = "up"
  /\ Return(p, HostifValue(param[p]))
  /\ UNCHANGED <<files, present, merged, hostif, ready, torn, events>>

\* Variant of HttpFails: no CURLOPT_TIMEOUT.
HttpFailsWithoutTimeout(p) ==
  /\ pc[p] = "http"
  /\ server # "hung"
  /\ Return(p, Failure)
  /\ UNCHANGED <<files, present, merged, hostif, ready, torn, events>>

\* Connection refused, a timeout, an answer that is not JSON or has no
\* statusCode: the call fails, it does not turn to the files.
HttpFails(p) ==
  /\ pc[p] = "http"
  /\ Return(p, Failure)
  /\ UNCHANGED <<files, present, merged, hostif, ready, torn, events>>

(***************************************************************************)
(* setRFCParameter.                                                        *)
(***************************************************************************)

\* The request is sent whether or not the ready file exists, unless curl
\* cannot be set up.
SetParameter(p, n, v) ==
  /\ pc[p] = "idle"
  /\ \/ /\ Begin(p, "post", n)
        /\ arg' = [arg EXCEPT ![p] = v]
        /\ UNCHANGED <<pos, seen>>
     \/ Return(p, Failure)
  /\ UNCHANGED <<files, present, merged, hostif, ready, torn, events>>

\* tr69hostif stores the value and answers.
PostAnswer(p) ==
  /\ pc[p] = "post"
  /\ server = "up"
  /\ param[p] \in Tr181
  /\ store' = [store EXCEPT ![param[p]] = arg[p]]
  /\ ret' = [ret EXCEPT ![p] = Success(Absent)]
  /\ Goto(p, "idle")
  /\ param' = [param EXCEPT ![p] = Absent]
  /\ arg' = [arg EXCEPT ![p] = Absent]
  /\ seen' = [q \in Procs |->
       IF pc[q] \in FileSteps THEN seen[q] \cup {Effective(store', param[q])} ELSE seen[q]]
  /\ UNCHANGED <<etc, bootstrap, present, merged, hostif, ready, pos, torn, events>>

\* Refused, by tr69hostif or because it is not there.  Without a timeout a
\* request to a server that hangs does not end.
PostFails(p) ==
  /\ pc[p] = "post"
  /\ server # "hung"
  /\ Return(p, Failure)
  /\ UNCHANGED <<files, present, merged, hostif, ready, torn, events>>

(***************************************************************************)
(* The environment.                                                        *)
(***************************************************************************)

Event == events < MaxEvents /\ events' = events + 1

\* A process dies and its successor starts.
Die(p) ==
  /\ pc[p] # "idle"
  /\ Event
  /\ Return(p, Failure)
  /\ ready' = [ready EXCEPT ![p] = FALSE]
  /\ torn' = (torn \/ pc[p] = "merge")
  /\ UNCHANGED <<files, present, merged, hostif>>

\* tr69hostif comes up and creates the ready file.
HostifStarts ==
  /\ server # "up"
  /\ Event
  /\ server' = "up"
  /\ readyFile' = TRUE
  /\ UNCHANGED <<files, present, merged, ready, pc, param, arg, pos, ret, seen, torn>>

\* It stops, or hangs with its socket open; the file stays or is removed.
HostifStops ==
  /\ server = "up"
  /\ Event
  /\ server' \in {"down", "hung"}
  /\ readyFile' \in BOOLEAN
  /\ UNCHANGED <<files, present, merged, ready, pc, param, arg, pos, ret, seen, torn>>

GetRFCParameter(p, n) ==
  GetWildcard(p, n) \/ GetLegacy(p, n) \/ GetFromFiles(p, n) \/ GetLive(p, n)

\* The steps of init_rfcdefaults.
InitRfcDefaults(p) ==
  \/ CreateDefaults(p) \/ CreateFails(p) \/ NotWritable(p)
  \/ MergeFile(p) \/ MergeEnds(p) \/ Reopen(p)

\* The steps of a call that has begun.
Progress(p) ==
  \/ ReadStore(p) \/ ReadBootstrap(p) \/ OpenDefaults(p) \/ InitRfcDefaults(p) \/ Scan(p)
  \/ HttpAnswer(p) \/ HttpFails(p) \/ PostAnswer(p) \/ PostFails(p)

Next ==
  \/ \E p \in Procs : Progress(p) \/ Die(p)
  \/ \E p \in Procs, n \in Names : GetRFCParameter(p, n)
  \/ \E p \in Procs, n \in Tr181, v \in Values \cup {Empty} : SetParameter(p, n, v)
  \/ HostifStarts
  \/ HostifStops

Spec == Init /\ [][Next]_vars

\* A call that can proceed does: the process is scheduled, curl's timeouts
\* expire.  Nothing is assumed of tr69hostif.
FairSpec == Spec /\ \A p \in Procs : WF_vars(Progress(p))

(***************************************************************************)
(* Properties.                                                             *)
(***************************************************************************)

\* Every variable keeps its type; builders stay inside the directory.
TypeOK ==
  /\ etc \in EtcDirs
  /\ store \in [Tr181 -> Cells]
  /\ bootstrap \in [Tr181 -> Cells]
  /\ present \in BOOLEAN
  /\ merged \subseteq Mergeable
  /\ server \in {"down", "up", "hung"}
  /\ readyFile \in BOOLEAN
  /\ ready \in [Procs -> BOOLEAN]
  /\ pc \in [Procs -> Steps]
  /\ param \in [Procs -> Names \cup {Absent}]
  /\ \A p \in Procs : pc[p] \in FileSteps => param[p] \in Tr181
  /\ \A p \in Procs : pc[p] \in {"http", "post"} => param[p] \in Names
  /\ arg \in [Procs -> Cells]
  /\ pos \in [Procs -> 1..(Len(etc) + 1)]
  /\ ret \in [Procs -> Results]
  /\ seen \in [Procs -> SUBSET Results]
  /\ torn \in BOOLEAN
  /\ events \in Nat

\* Nobody is building the merged file and nobody died doing so.
Quiet == ~torn /\ \A p \in Procs : pc[p] # "merge"

\* Every ini file has a character.  An empty one hides those that follow it,
\* where rfc-parameter-runtime-priority.md:171 says that all are merged.
NoneEmpty == AllFiles = 1..Len(etc)

\* However many processes find the merged file missing and truncate and
\* rewrite it at once (init_rfcdefaults), it has every ini file when they are
\* done, if none of these is empty.
MergedWhenQuiet == Quiet /\ NoneEmpty /\ present => merged = AllFiles

\* A lookup through the files that meets no builder, in defaults without an
\* empty ini file, returns what was the effective value at some moment of the
\* call, although it reads the files one by one and tr69hostif may store
\* values in between (getRFCParameter).
ReadsEffective ==
  [][\A p \in Procs :
       (ReadStore(p) \/ ReadBootstrap(p) \/ (Scan(p) /\ Quiet /\ NoneEmpty)) /\ pc'[p] = "idle"
         => ret'[p] \in seen[p]]_vars

\* Every call returns, except a set whose server hangs: a get has timeouts
\* (CONNECTION_TIMEOUT, TRANSFER_TIMEOUT), and no process waits for another.
CallReturns ==
  \A p \in Procs : pc[p] # "idle" ~> pc[p] = "idle" \/ (pc[p] = "post" /\ server = "hung")

(***************************************************************************)
(* The inductive invariant.                                                *)
(***************************************************************************)

\* A piece that is missing will be written by a builder that is not past it.
MergeInv ==
  /\ ~torn /\ present => \A i \in Mergeable \ merged : \E p \in Procs : pc[p] = "merge" /\ pos[p] <= i
  /\ \A p \in Procs : pc[p] \in {"merge", "scan"} => present

\* What the rest of a lookup should return is among the effective results.
SeenInv ==
  \A p \in Procs :
    /\ pc[p] = "store" => Effective(store, param[p]) \in seen[p]
    /\ pc[p] = "bootstrap" => FromBootstrap(param[p]) \in seen[p]
    /\ pc[p] \in {"defaults", "create", "merge", "reopen", "scan"} => FromDefaults(param[p]) \in seen[p]

ApiInv == TypeOK /\ MergeInv /\ SeenInv
=============================================================================

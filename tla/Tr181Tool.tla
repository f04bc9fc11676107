------------------------------ MODULE Tr181Tool ------------------------------
(***************************************************************************)
(* The command line tool tr181 (utils/tr181utils.cpp): it reads its        *)
(* command line word by word and then gets, sets or clears one parameter,  *)
(* in the device-local store or through tr69hostif.  A set through         *)
(* tr69hostif first asks for the type of the parameter.  The device-local  *)
(* store is behind a semaphore, and a set through tr69hostif has no        *)
(* timeout: either may keep the tool waiting.                              *)
(*                                                                         *)
(* What the two stores do with a request is the subject of Tr181LocalStore *)
(* and RfcApi: here a call succeeds or fails, and the writes that take     *)
(* effect are recorded.                                                    *)
(***************************************************************************)
EXTENDS Integers, Sequences, FiniteSetsExt

CONSTANTS
  Texts,         \* the words of a command line that do not begin with "-"
  CommandLines,  \* the command lines, without the name of the program
  Params,        \* the texts tr69hostif knows as parameters ...
  OwnType,       \* ... and the type of each
  None,          \* NULL, or no type
  MaxEvents      \* changes of tr69hostif and losses of the permit

Options == {"-s", "-c", "-t", "-v", "-n", "-d", "-g"}

Types == {"WDMP_STRING", "WDMP_INT", "WDMP_BOOLEAN"}

ASSUME TextsAssumption == Texts \cap Options = {} /\ None \notin Texts \cup Options
ASSUME LinesAssumption == CommandLines \subseteq Seq(Texts \cup Options)
ASSUME ParamsAssumption == Params \subseteq Texts /\ OwnType \in [Params -> Types] /\ None \notin Types
ASSUME BoundAssumption == MaxEvents \in Nat

VARIABLES
  line,    \* argv
  pc,      \* the next step of the tool
  args,    \* parseargs: the index i and what was found so far
  type,    \* paramType of a set
  code,    \* retcode, 0 for success
  up,      \* tr69hostif runs
  ready,   \* its ready file exists
  hangs,   \* it accepts requests and does not answer
  permit,  \* the semaphore of the local store has a permit
  wrote,   \* history: the writes of this invocation that took effect
  events

tool == <<line, pc, args, type, code>>
hostif == <<up, ready, hangs>>
vars == <<tool, hostif, permit, wrote, events>>

NoArgs == [i |-> 1, mode |-> "GET", key |-> None, value |-> None, id |-> None, valueType |-> None]

Words == Texts \cup Options

Stores == {"local", "hostif"}

Writes == [store : Stores, key : Words, value : Words \cup {None}]

\* An invalid type is taken for an integer.
ConvertType(t) ==
  CASE t = "s" -> "WDMP_STRING"
    [] t = "b" -> "WDMP_BOOLEAN"
    [] OTHER   -> "WDMP_INT"

LocalOnly == args.id = "localOnly"

\* main begins, while tr69hostif answers or has not started yet.
Init ==
  /\ line \in CommandLines
  /\ pc = "main"
  /\ args = NoArgs
  /\ type = None
  /\ code = 1
  /\ up \in BOOLEAN
  /\ ready = up
  /\ hangs = FALSE
  /\ permit = TRUE
  /\ wrote = {}
  /\ events = 0

\* legacyRfcEnabled: with that file trsetutil has the command line, and
\* without the macros of its build it does nothing and returns 0.
Begin ==
  /\ pc = "main"
  /\ \/ pc' = "parse" /\ UNCHANGED code
     \/ pc' = "legacy" /\ code' = 0
  /\ UNCHANGED <<line, args, type, hostif, permit, wrote, events>>

(***************************************************************************)
(* parseargs.                                                              *)
(***************************************************************************)

\* The word after the current one; argv[argc] is NULL.
NextWord == IF args.i < Len(line) THEN line[args.i + 1] ELSE None

\* Variant of Parsed: the last -n of a line is treated like -v and -t.
ParsedChecked(w) ==
  CASE w = "-s" -> [args EXCEPT !.mode = "SET", !.i = @ + 1]
    [] w = "-c" -> [args EXCEPT !.mode = "DELETE_ROW", !.i = @ + 1]
    [] w = "-t" /\ NextWord # None -> [args EXCEPT !.valueType = NextWord, !.i = @ + 2]
    [] w = "-v" /\ NextWord # None -> [args EXCEPT !.value = NextWord, !.i = @ + 2]
    [] w = "-n" /\ NextWord # None -> [args EXCEPT !.id = NextWord, !.i = @ + 2]
    [] w \in {"-t", "-v", "-n"} /\ NextWord = None -> args
    [] w \in Texts -> [args EXCEPT !.key = w, !.i = @ + 1]
    [] OTHER -> [args EXCEPT !.i = @ + 1]

\* Variant of Parsed: a value is also looked at as a word of its own.
ParsedByOne(w) ==
  CASE w = "-s" -> [args EXCEPT !.mode = "SET", !.i = @ + 1]
    [] w = "-c" -> [args EXCEPT !.mode = "DELETE_ROW", !.i = @ + 1]
    [] w = "-t" /\ NextWord # None -> [args EXCEPT !.valueType = NextWord, !.i = @ + 2]
    [] w = "-v" /\ NextWord # None -> [args EXCEPT !.value = NextWord, !.i = @ + 1]
    [] w \in {"-t", "-v"} /\ NextWord = None -> args
    [] w \in Texts -> [args EXCEPT !.key = w, !.i = @ + 1]
    [] w = "-n" -> [args EXCEPT !.id = NextWord, !.i = @ + 2]
    [] OTHER -> [args EXCEPT !.i = @ + 1]

\* A turn of the loop.  -t and -v without a word after them leave i where it
\* is; -n takes NULL.  -d and what is not understood are passed over.
Parsed(w) ==
  CASE w = "-s" -> [args EXCEPT !.mode = "SET", !.i = @ + 1]
    [] w = "-c" -> [args EXCEPT !.mode = "DELETE_ROW", !.i = @ + 1]
    [] w = "-t" /\ NextWord # None -> [args EXCEPT !.valueType = NextWord, !.i = @ + 2]
    [] w = "-v" /\ NextWord # None -> [args EXCEPT !.value = NextWord, !.i = @ + 2]
    [] w \in {"-t", "-v"} /\ NextWord = None -> args
    [] w \in Texts -> [args EXCEPT !.key = w, !.i = @ + 1]
    [] w = "-n" -> [args EXCEPT !.id = NextWord, !.i = @ + 2]
    [] OTHER -> [args EXCEPT !.i = @ + 1]

ParseArgs ==
  /\ pc = "parse"
  /\ args.i <= Len(line)
  /\ args' = Parsed(line[args.i])
  /\ UNCHANGED <<line, pc, type, code, hostif, permit, wrote, events>>

Incomplete == args.key = None \/ (args.mode = "SET" /\ args.value = None)

ShowUsage ==
  /\ pc = "parse"
  /\ args.i > Len(line)
  /\ Incomplete
  /\ pc' = "done"
  /\ UNCHANGED <<line, args, type, code, hostif, permit, wrote, events>>

\* main and the first lines of getAttribute, setAttribute, clearAttribute.
Main ==
  /\ pc = "parse"
  /\ args.i > Len(line)
  /\ ~Incomplete
  /\ pc' = CASE args.mode = "GET" -> "get"
             [] args.mode = "DELETE_ROW" -> "clear"
             [] args.mode = "SET" /\ LocalOnly -> "local"
             [] args.mode = "SET" /\ ~LocalOnly -> "type"
  /\ UNCHANGED <<line, args, type, code, hostif, permit, wrote, events>>

(***************************************************************************)
(* The requests.                                                           *)
(***************************************************************************)

Exit(c) == pc' = "done" /\ code' = c

\* getAttribute.  A value is printed for WDMP_ERR_DEFAULT_VALUE too, which
\* is not 0.  getLocalParam waits for the permit.
GetAttribute ==
  /\ pc = "get"
  /\ LocalOnly => permit
  /\ \/ Exit(0)
     \/ Exit(1)
  /\ UNCHANGED <<line, args, type, hostif, permit, wrote, events>>

\* setLocalParam waits for the permit.
SetLocalParam ==
  /\ pc = "local"
  /\ permit
  /\ \/ Exit(0) /\ wrote' = {[store |-> "local", key |-> args.key, value |-> args.value]}
     \/ Exit(1) /\ UNCHANGED wrote
  /\ UNCHANGED <<line, args, type, hostif, permit, events>>

\* tr69hostif is ready and gives the type, whatever the command line says.
GetParamType ==
  /\ pc = "type"
  /\ up /\ ready /\ ~hangs
  /\ args.key \in Params
  /\ type' = OwnType[args.key]
  /\ pc' = "set"
  /\ UNCHANGED <<line, args, code, hostif, permit, wrote, events>>

\* Variant of TypeUnknown: the type stays uninitialized.
TypeUnset ==
  /\ pc = "type"
  /\ type' = args.valueType
  /\ pc' = "set"
  /\ UNCHANGED <<line, args, code, hostif, permit, wrote, events>>

\* The files answered, which know no types, or the request failed or timed
\* out.
TypeUnknown ==
  /\ pc = "type"
  /\ type' = ConvertType(args.valueType)
  /\ pc' = "set"
  /\ UNCHANGED <<line, args, code, hostif, permit, wrote, events>>

\* setRFCParameter: refused or lost, carried out, or carried out and the
\* answer lost.  It waits for as long as tr69hostif hangs.
Post(step, w) ==
  /\ pc = step
  /\ ~hangs
  /\ \/ up /\ Exit(0) /\ wrote' = {w}
     \/ up /\ Exit(1) /\ wrote' = {w}
     \/ Exit(1) /\ UNCHANGED wrote
  /\ UNCHANGED <<line, args, type, hostif, permit, events>>

SetRFCParameter == Post("set", [store |-> "hostif", key |-> args.key, value |-> args.value])

\* clearAttribute asks tr69hostif for a localOnly parameter too.
ClearAttribute == Post("clear", [store |-> "hostif", key |-> args.key, value |-> None])

(***************************************************************************)
(* tr69hostif and the other callers of the local store.                    *)
(***************************************************************************)

Event == events < MaxEvents /\ events' = events + 1

HostifStarts ==
  /\ Event
  /\ ~up
  /\ up' = TRUE
  /\ ready' = TRUE
  /\ UNCHANGED <<tool, hangs, permit, wrote>>

\* The ready file stays; what waits for an answer gets an error.
HostifStops ==
  /\ Event
  /\ up
  /\ up' = FALSE
  /\ hangs' = FALSE
  /\ UNCHANGED <<tool, ready, permit, wrote>>

HostifHangs ==
  /\ Event
  /\ up /\ ~hangs
  /\ hangs' = TRUE
  /\ UNCHANGED <<tool, up, ready, permit, wrote>>

HostifAnswers ==
  /\ hangs
  /\ hangs' = FALSE
  /\ UNCHANGED <<tool, up, ready, permit, wrote, events>>

\* Another caller takes the permit.  It gives it back, or dies with it.
PermitTaken ==
  /\ Event
  /\ permit
  /\ permit' = FALSE
  /\ UNCHANGED <<tool, hostif, wrote>>

PermitReturned ==
  /\ ~permit
  /\ permit' = TRUE
  /\ UNCHANGED <<tool, hostif, wrote, events>>

Step ==
  \/ Begin
  \/ ParseArgs
  \/ ShowUsage
  \/ Main
  \/ GetAttribute
  \/ SetLocalParam
  \/ GetParamType
  \/ TypeUnknown
  \/ SetRFCParameter
  \/ ClearAttribute

Next ==
  \/ Step
  \/ HostifStarts
  \/ HostifStops
  \/ HostifHangs
  \/ HostifAnswers
  \/ PermitTaken
  \/ PermitReturned

Spec == Init /\ [][Next]_vars

\* The tool is scheduled, and a get ends by its timeouts.  A set ends if
\* tr69hostif answers or ends, a local request if the permit is there; nothing
\* promises either.
FairSpec == Spec /\ WF_vars(Step)

(***************************************************************************)
(* What a command line says, without reading it from left to right.        *)
(***************************************************************************)

Takes == {"-t", "-v", "-n"}

\* The words directly before word j that take an argument, n of them.
RunBefore(l, j, n) ==
  /\ \A m \in (j - n)..(j - 1) : l[m] \in Takes
  /\ n = j - 1 \/ l[j - n - 1] \notin Takes

\* In such a run every other word is the argument of the one before it.
Heads(l) == {j \in DOMAIN l : \E n \in 0..(j - 1) : n % 2 = 0 /\ RunBefore(l, j, n)}

HeadsIn(l, ws) == {j \in Heads(l) : l[j] \in ws}

After(l, j) == IF j < Len(l) THEN l[j + 1] ELSE None

SaidKey(l) == IF HeadsIn(l, Texts) = {} THEN None ELSE l[Max(HeadsIn(l, Texts))]

SaidMode(l) == IF HeadsIn(l, {"-s", "-c"}) = {} THEN "-g" ELSE l[Max(HeadsIn(l, {"-s", "-c"}))]

SaidArgument(l, w) == IF HeadsIn(l, {w}) = {} THEN None ELSE After(l, Max(HeadsIn(l, {w})))

SaidStore(l) == IF SaidArgument(l, "-n") = "localOnly" THEN "local" ELSE "hostif"

\* The writes a command line asks for.
Told(l) ==
  IF SaidMode(l) = "-g" \/ SaidKey(l) = None THEN {}
  ELSE IF SaidMode(l) = "-c" THEN {[store |-> SaidStore(l), key |-> SaidKey(l), value |-> None]}
  ELSE IF SaidArgument(l, "-v") = None THEN {}
  ELSE {[store |-> SaidStore(l), key |-> SaidKey(l), value |-> SaidArgument(l, "-v")]}

\* A clear of the device-local store.
ClearsLocal(l) == SaidMode(l) = "-c" /\ SaidStore(l) = "local"

\* The last word is an option that waits for an argument.
Unfinished(l) == Len(l) \in HeadsIn(l, {"-t", "-v"})

(***************************************************************************)
(* Properties.                                                             *)
(***************************************************************************)

\* The types of the variables.
TypeOK ==
  /\ line \in CommandLines
  /\ pc \in {"main", "legacy", "done", "parse", "get", "local", "type", "set", "clear"}
  /\ args \in [i : 1..(Len(line) + 2), mode : {"GET", "SET", "DELETE_ROW"}, key : Texts \cup {None},
               value : Words \cup {None}, id : Words \cup {None}, valueType : Words \cup {None}]
  /\ type \in Types \cup {None}
  /\ code \in {0, 1}
  /\ up \in BOOLEAN /\ ready \in BOOLEAN /\ hangs \in BOOLEAN /\ permit \in BOOLEAN
  /\ wrote \subseteq Writes
  /\ events \in 0..MaxEvents

\* An invocation writes what its command line says and nothing else: the
\* last parameter name, the argument of the last -v, in the store of the last
\* -n, and if the exit status is 0 the write was carried out.  Arguments are
\* never taken for options or names (parseargs, main, setAttribute,
\* clearAttribute).  Nothing is said of -c with -n localOnly, which clears the
\* parameter through tr69hostif and leaves the local store alone.
DoesAsTold ==
  pc = "done" /\ ~ClearsLocal(line) =>
    wrote \subseteq Told(line) /\ (code = 0 => wrote = Told(line))

\* Every invocation ends, with or without tr69hostif, unless tr69hostif hangs
\* or the permit of the local store is lost, time and again, or the last word
\* is a -t or -v that waits for its argument: then parseargs never ends.
InvocationEnds ==
  <>[](~hangs /\ permit) =>
    ((pc \notin {"done", "legacy"} /\ ~Unfinished(line)) ~> (pc \in {"done", "legacy"}))

(***************************************************************************)
(* The inductive invariant.                                                *)
(***************************************************************************)

\* The words ws among those that were read.
ReadSoFar(ws) == {j \in HeadsIn(line, ws) : j < args.i}

Found(ws) == ReadSoFar(ws) # {}

\* parseargs reads heads only, and has what the words before i say.
ParseInv ==
  /\ args.i \in Heads(line) \/ args.i > Len(line)
  /\ args.key = IF Found(Texts) THEN line[Max(ReadSoFar(Texts))] ELSE None
  /\ args.mode = IF ~Found({"-s", "-c"}) THEN "GET"
                 ELSE IF line[Max(ReadSoFar({"-s", "-c"}))] = "-s" THEN "SET" ELSE "DELETE_ROW"
  /\ Found({"-s", "-c"}) => line[Max(ReadSoFar({"-s", "-c"}))] \in {"-s", "-c"}
  /\ args.value = IF Found({"-v"}) THEN After(line, Max(ReadSoFar({"-v"}))) ELSE None
  /\ args.id = IF Found({"-n"}) THEN After(line, Max(ReadSoFar({"-n"}))) ELSE None

\* A request is made with a complete command line, and of the kind it says.
RequestInv ==
  /\ pc \in {"get", "local", "type", "set", "clear"} => args.i > Len(line) /\ ~Incomplete
  /\ pc = "get" => args.mode = "GET"
  /\ pc = "clear" => args.mode = "DELETE_ROW"
  /\ pc = "local" => args.mode = "SET" /\ LocalOnly
  /\ pc \in {"type", "set"} => args.mode = "SET" /\ ~LocalOnly
  /\ pc # "done" => wrote = {} /\ (pc # "legacy" => code = 1)
  /\ pc \notin {"set", "done"} => type = None

ToolInv ==
  /\ TypeOK
  /\ ParseInv
  /\ RequestInv
  /\ DoesAsTold
=============================================================================

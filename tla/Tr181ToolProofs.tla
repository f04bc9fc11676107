--------------------------- MODULE Tr181ToolProofs ---------------------------
(***************************************************************************)
(* The tool tr181 for every command line: reading it word by word finds    *)
(* what it says as a whole, and the tool does that and nothing else.       *)
(***************************************************************************)
EXTENDS Tr181Tool, TLAPS

(***************************************************************************)
(* Command lines.                                                          *)
(***************************************************************************)

\* A command line is a sequence of words.
LEMMA LineType ==
  ASSUME NEW l \in CommandLines
  PROVE  /\ Len(l) \in Nat
         /\ DOMAIN l = 1 .. Len(l)
         /\ \A j \in 1 .. Len(l) : l[j] \in Words /\ l[j] # None
<1>1. l \in Seq(Words)
  BY LinesAssumption DEF Words
<1>2. Len(l) \in Nat /\ DOMAIN l = 1 .. Len(l)
  BY <1>1
<1>3. \A j \in 1 .. Len(l) : l[j] \in Words
  BY <1>1
<1> QED
  BY <1>2, <1>3, TextsAssumption DEF Words

\* Heads, word by word.
LEMMA IsHead ==
  ASSUME NEW l, NEW j
  PROVE  j \in Heads(l) <=>
           j \in DOMAIN l /\ \E n \in 0 .. (j - 1) : n % 2 = 0 /\ RunBefore(l, j, n)
  BY Zenon DEF Heads

\* The run of options that take an argument before a word has one length.
LEMMA RunUnique ==
  ASSUME NEW l, NEW j \in Nat, NEW m \in 0 .. (j - 1), NEW n \in 0 .. (j - 1),
         RunBefore(l, j, m), RunBefore(l, j, n)
  PROVE  m = n
<1>1. ASSUME NEW a \in 0 .. (j - 1), NEW b \in 0 .. (j - 1), a < b,
             RunBefore(l, j, a), RunBefore(l, j, b)
      PROVE  FALSE
  <2>1. j - a - 1 \in (j - b) .. (j - 1)
    BY <1>1
  <2>2. l[j - a - 1] \in Takes
    BY <1>1, <2>1 DEF RunBefore
  <2>3. a # j - 1
    BY <1>1
  <2> QED
    BY <1>1, <2>2, <2>3 DEF RunBefore
<1> QED
  BY <1>1

\* parseargs begins at a head.
LEMMA FirstHead ==
  ASSUME NEW l \in CommandLines, Len(l) >= 1
  PROVE  1 \in Heads(l)
<1>1. 1 \in DOMAIN l
  BY LineType
<1>2. 0 \in 0 .. (1 - 1) /\ 0 % 2 = 0 /\ RunBefore(l, 1, 0)
  BY DEF RunBefore
<1> QED
  BY <1>1, <1>2 DEF Heads

\* The word after one that takes no argument is a head.
LEMMA HeadAfterWord ==
  ASSUME NEW l \in CommandLines, NEW j \in Heads(l), l[j] \notin Takes, j + 1 <= Len(l)
  PROVE  j + 1 \in Heads(l)
<1>1. j \in 1 .. Len(l) /\ j + 1 \in DOMAIN l
  BY LineType DEF Heads
<1>2. 0 \in 0 .. (j + 1 - 1) /\ 0 % 2 = 0 /\ RunBefore(l, j + 1, 0)
  BY <1>1 DEF RunBefore
<1> QED
  BY <1>1, <1>2 DEF Heads

\* The word after an option that takes an argument is none, and the one after
\* that is.
LEMMA HeadAfterArgument ==
  ASSUME NEW l \in CommandLines, NEW j \in Heads(l), l[j] \in Takes
  PROVE  /\ j + 1 \notin Heads(l)
         /\ j + 2 <= Len(l) => j + 2 \in Heads(l)
<1>1. j \in 1 .. Len(l) /\ Len(l) \in Nat
  BY LineType DEF Heads
<1>2. PICK n \in 0 .. (j - 1) : n % 2 = 0 /\ RunBefore(l, j, n)
  BY DEF Heads
<1>3. ASSUME NEW i, i = j + 1 PROVE i \notin Heads(l)
  <2>1. n + 1 \in 0 .. (i - 1)
    BY <1>1, <1>3
  <2>2. RunBefore(l, i, n + 1)
    BY <1>1, <1>2, <1>3 DEF RunBefore
  <2>3. SUFFICES ASSUME NEW m \in 0 .. (i - 1), m % 2 = 0, RunBefore(l, i, m)
                 PROVE  FALSE
    BY IsHead
  <2>4. m = n + 1
    BY <1>1, <1>3, <2>1, <2>2, <2>3, RunUnique
  <2> QED
    BY <1>2, <2>3, <2>4
<1>4. ASSUME NEW i, i = j + 2, i <= Len(l) PROVE i \in Heads(l)
  <2>1. i \in DOMAIN l
    BY <1>1, <1>4, LineType
  <2>2. CASE l[j + 1] \notin Takes
    <3>1. 0 \in 0 .. (i - 1) /\ 0 % 2 = 0 /\ RunBefore(l, i, 0)
      BY <1>1, <1>4, <2>2 DEF RunBefore
    <3> QED
      BY <2>1, <3>1, IsHead
  <2>3. CASE l[j + 1] \in Takes
    <3>1. n + 2 \in 0 .. (i - 1) /\ (n + 2) % 2 = 0
      BY <1>1, <1>2, <1>4
    <3>2. RunBefore(l, i, n + 2)
      BY <1>1, <1>2, <1>4, <2>3 DEF RunBefore
    <3> QED
      BY <2>1, <3>1, <3>2, IsHead
  <2> QED
    BY <2>2, <2>3
<1> QED
  BY <1>1, <1>3, <1>4

\* The last of some earlier words and word i is word i.
LEMMA LastAdded ==
  ASSUME NEW S \in SUBSET Int, NEW i \in Int, \A x \in S : x < i
  PROVE  Max(S \cup {i}) = i
<1>1. \A y \in S \cup {i} : i >= y
  OBVIOUS
<1>2. \A x \in S \cup {i} : (\A y \in S \cup {i} : x >= y) => x = i
  OBVIOUS
<1> QED
  BY <1>1, <1>2 DEF Max

(***************************************************************************)
(* parseargs.                                                              *)
(***************************************************************************)

\* A turn of the loop that goes on passes over one head and its argument.
LEMMA ReadOn ==
  ASSUME TypeOK, args.i \in Heads(line), line' = line,
         \/ line[args.i] \notin Takes /\ args'.i = args.i + 1
         \/ line[args.i] \in Takes /\ args'.i = args.i + 2,
         NEW ws
  PROVE  /\ args'.i \in Heads(line) \/ args'.i > Len(line)
         /\ line[args.i] \notin ws => ReadSoFar(ws)' = ReadSoFar(ws)
         /\ line[args.i] \in ws => Found(ws)' /\ Max(ReadSoFar(ws))' = args.i
<1> DEFINE i == args.i
<1>1. line \in CommandLines
  BY DEF TypeOK
<1>2. Len(line) \in Nat /\ i \in 1 .. Len(line) /\ Heads(line) \subseteq 1 .. Len(line)
  BY <1>1, LineType DEF Heads
<1>3. args'.i \in Heads(line) \/ args'.i > Len(line)
  BY <1>1, <1>2, HeadAfterWord, HeadAfterArgument
<1>4. ASSUME NEW j \in Heads(line) PROVE j < args'.i <=> j < i \/ j = i
  <2>1. CASE line[i] \notin Takes
    BY <1>2, <2>1
  <2>2. CASE line[i] \in Takes
    <3>1. j # i + 1
      BY <1>1, <2>2, HeadAfterArgument
    <3> QED
      BY <1>2, <2>2, <3>1
  <2> QED
    BY <2>1, <2>2
<1>5. ReadSoFar(ws)' = {j \in HeadsIn(line, ws) : j < args'.i}
  BY DEF ReadSoFar
<1>6. ReadSoFar(ws)' = ReadSoFar(ws) \cup (IF line[i] \in ws THEN {i} ELSE {})
  BY <1>4, <1>5 DEF ReadSoFar, HeadsIn
<1>7. ReadSoFar(ws) \in SUBSET Int /\ \A x \in ReadSoFar(ws) : x < i
  BY <1>2 DEF ReadSoFar, HeadsIn
<1>8. Max(ReadSoFar(ws))' = Max(ReadSoFar(ws)') /\ (Found(ws)' <=> ReadSoFar(ws)' # {})
  BY DEF Found
<1>9. Max(ReadSoFar(ws) \cup {i}) = i
  <2>1. i \in Int
    BY <1>2
  <2> HIDE DEF i
  <2> QED
    BY <2>1, <1>7, LastAdded
<1> QED
  BY <1>3, <1>6, <1>8, <1>9

\* A turn of the loop, by the word it reads.
LEMMA Turn ==
  ASSUME TypeOK, NEW w, w = line[args.i], args.i \in 1 .. Len(line), args' = Parsed(w)
  PROVE  \/ w = "-s" /\ args' = [args EXCEPT !.mode = "SET", !.i = @ + 1]
         \/ w = "-c" /\ args' = [args EXCEPT !.mode = "DELETE_ROW", !.i = @ + 1]
         \/ w = "-t" /\ args' = [args EXCEPT !.valueType = After(line, args.i), !.i = @ + 2]
         \/ w = "-v" /\ args' = [args EXCEPT !.value = After(line, args.i), !.i = @ + 2]
         \/ w = "-n" /\ args' = [args EXCEPT !.id = After(line, args.i), !.i = @ + 2]
         \/ w \in {"-t", "-v"} /\ args' = args
         \/ w \in Texts /\ args' = [args EXCEPT !.key = w, !.i = @ + 1]
         \/ w \notin Texts \cup Takes \cup {"-s", "-c"} /\ args' = [args EXCEPT !.i = @ + 1]
<1>1. w \in Texts => w \notin Options
  BY TextsAssumption
<1>2. NextWord = After(line, args.i)
  BY DEF NextWord, After
<1> HIDE DEF NextWord
<1> QED
  BY <1>1, <1>2 DEF Parsed, Takes, Options

\* Every step keeps the types.
LEMMA TypeStep ==
  ASSUME TypeOK, RequestInv, [Next]_vars
  PROVE  TypeOK'
<1>1. CASE ParseArgs
  <2>1. line \in CommandLines /\ args.i \in 1 .. Len(line) /\ Len(line) \in Nat
    BY <1>1, LineType DEF TypeOK, ParseArgs
  <2>2. line[args.i] \in Words /\ After(line, args.i) \in Words \cup {None}
    BY <2>1, LineType DEF After
  <2> DEFINE Args == [i : 1..(Len(line) + 2), mode : {"GET", "SET", "DELETE_ROW"}, key : Texts \cup {None},
                      value : Words \cup {None}, id : Words \cup {None}, valueType : Words \cup {None}]
  <2>3. args \in Args
    BY DEF TypeOK
  <2>4. args' = Parsed(line[args.i])
    BY <1>1 DEF ParseArgs
  <2>5. ASSUME NEW x \in Args, NEW w \in Words, NEW a \in Words \cup {None}, x.i \in 1 .. Len(line)
        PROVE  /\ [x EXCEPT !.mode = "SET", !.i = @ + 1] \in Args
               /\ [x EXCEPT !.mode = "DELETE_ROW", !.i = @ + 1] \in Args
               /\ [x EXCEPT !.valueType = a, !.i = @ + 2] \in Args
               /\ [x EXCEPT !.value = a, !.i = @ + 2] \in Args
               /\ [x EXCEPT !.id = a, !.i = @ + 2] \in Args
               /\ w \in Texts => [x EXCEPT !.key = w, !.i = @ + 1] \in Args
               /\ [x EXCEPT !.i = @ + 1] \in Args
    <3>1. x.i + 1 \in 1 .. (Len(line) + 2) /\ x.i + 2 \in 1 .. (Len(line) + 2)
      BY <2>1, <2>5
    <3>2. /\ [x EXCEPT !.mode = "SET", !.i = @ + 1] \in Args
          /\ [x EXCEPT !.mode = "DELETE_ROW", !.i = @ + 1] \in Args
      BY <3>1
    <3>3. /\ [x EXCEPT !.valueType = a, !.i = @ + 2] \in Args
          /\ [x EXCEPT !.value = a, !.i = @ + 2] \in Args
      BY <3>1
    <3>4. [x EXCEPT !.id = a, !.i = @ + 2] \in Args
      BY <3>1
    <3>5. w \in Texts => [x EXCEPT !.key = w, !.i = @ + 1] \in Args
      BY <3>1
    <3>6. [x EXCEPT !.i = @ + 1] \in Args
      BY <3>1
    <3> QED
      BY <3>2, <3>3, <3>4, <3>5, <3>6
  <2> HIDE DEF Args
  <2>6. args' \in Args
    BY ZenonT(60), <2>1, <2>2, <2>3, <2>4, <2>5, Turn
  <2> QED
    BY <1>1, <2>6 DEF TypeOK, ParseArgs, hostif, Args
<1>2. CASE ShowUsage
  BY <1>2 DEF TypeOK, ShowUsage, hostif
<1>3. CASE Main
  BY <1>3 DEF TypeOK, Main, hostif
<1>4. CASE GetAttribute
  BY <1>4 DEF TypeOK, GetAttribute, Exit, hostif
<1>5. CASE SetLocalParam
  BY <1>5 DEF TypeOK, RequestInv, SetLocalParam, Exit, hostif, Writes, Stores, Words, Incomplete
<1>6. CASE GetParamType
  BY <1>6, ParamsAssumption DEF TypeOK, GetParamType, hostif
<1>7. CASE TypeUnknown
  BY <1>7 DEF TypeOK, TypeUnknown, hostif, ConvertType, Types
<1>8. CASE SetRFCParameter
  BY <1>8 DEF TypeOK, RequestInv, SetRFCParameter, Post, Exit, hostif, Writes, Stores, Words, Incomplete
<1>9. CASE ClearAttribute
  BY <1>9 DEF TypeOK, RequestInv, ClearAttribute, Post, Exit, hostif, Writes, Stores, Words, Incomplete
<1>10. ASSUME Event
       PROVE  events' \in 0 .. MaxEvents
  BY <1>10, BoundAssumption DEF TypeOK, Event
<1>11. CASE HostifStarts
  BY <1>10, <1>11 DEF TypeOK, HostifStarts, tool
<1>12. CASE HostifStops \/ HostifHangs \/ HostifAnswers \/ PermitTaken \/ PermitReturned
  <2>1. up' \in BOOLEAN /\ hangs' \in BOOLEAN /\ permit' \in BOOLEAN
    BY <1>12, Zenon DEF HostifStops, HostifHangs, HostifAnswers, PermitTaken, PermitReturned, TypeOK,
       hostif
  <2>2. UNCHANGED <<tool, ready, wrote>>
    BY <1>12 DEF HostifStops, HostifHangs, HostifAnswers, PermitTaken, PermitReturned, hostif
  <2>3. events' \in 0 .. MaxEvents
    <3>1. Event \/ UNCHANGED events
      BY <1>12, Zenon DEF HostifStops, HostifHangs, HostifAnswers, PermitTaken, PermitReturned
    <3> QED
      BY <1>10, <3>1 DEF TypeOK
  <2> QED
    BY <2>1, <2>2, <2>3 DEF TypeOK, tool
<1>13. CASE Begin
  BY <1>13 DEF TypeOK, Begin, hostif
<1>14. CASE UNCHANGED vars
  BY <1>14 DEF TypeOK, vars, tool, hostif
<1> QED
  BY <1>1, <1>2, <1>3, <1>4, <1>5, <1>6, <1>7, <1>8, <1>9, <1>11, <1>12, <1>13, <1>14
     DEF Next, Step

\* parseargs has read what the words it passed say.
LEMMA ParseStep ==
  ASSUME TypeOK, ParseInv, [Next]_vars
  PROVE  ParseInv'
<1>1. CASE ParseArgs
  <2> DEFINE i == args.i
             w == line[i]
  <2>1. line \in CommandLines /\ i \in 1 .. Len(line) /\ Len(line) \in Nat
    BY <1>1, LineType DEF TypeOK, ParseArgs
  <2>2. i \in Heads(line)
    BY <2>1 DEF ParseInv
  <2>3. line' = line /\ args' = Parsed(w)
    BY <1>1 DEF ParseArgs
  <2>4. CASE args' = args
    BY <2>3, <2>4 DEF ParseInv, ReadSoFar, Found
  <2>5. ASSUME args' # args
        PROVE  \A ws : /\ args'.i \in Heads(line) \/ args'.i > Len(line)
                       /\ w \notin ws => ReadSoFar(ws)' = ReadSoFar(ws)
                       /\ w \in ws => Found(ws)' /\ Max(ReadSoFar(ws))' = i
    <3>1. args' # args => \/ w \notin Takes /\ args'.i = i + 1
                          \/ w \in Takes /\ args'.i = i + 2
      BY <2>1, <2>3, Turn, TextsAssumption DEF TypeOK, Takes, Options
    <3> QED
      BY <2>2, <2>3, <2>5, <3>1, ReadOn
  <2>6. CASE args' # args
    <3> HIDE DEF w
    <3>1. /\ args'.key = IF w \in Texts THEN w ELSE args.key
          /\ args'.mode = IF w = "-s" THEN "SET" ELSE IF w = "-c" THEN "DELETE_ROW" ELSE args.mode
          /\ args'.value = IF w = "-v" THEN After(line, i) ELSE args.value
          /\ args'.id = IF w = "-n" THEN After(line, i) ELSE args.id
      <4> DEFINE A == [i : 1..(Len(line) + 2), mode : {"GET", "SET", "DELETE_ROW"}, key : Texts \cup {None},
                       value : Words \cup {None}, id : Words \cup {None}, valueType : Words \cup {None}]
      <4>1. args \in A /\ (w \in Texts => w \notin Options)
        BY TextsAssumption DEF TypeOK
      <4>2. \/ w = "-s" /\ args' = [args EXCEPT !.mode = "SET", !.i = @ + 1]
            \/ w = "-c" /\ args' = [args EXCEPT !.mode = "DELETE_ROW", !.i = @ + 1]
            \/ w = "-t" /\ args' = [args EXCEPT !.valueType = After(line, i), !.i = @ + 2]
            \/ w = "-v" /\ args' = [args EXCEPT !.value = After(line, i), !.i = @ + 2]
            \/ w = "-n" /\ args' = [args EXCEPT !.id = After(line, i), !.i = @ + 2]
            \/ w \in Texts /\ args' = [args EXCEPT !.key = w, !.i = @ + 1]
            \/ w \notin Texts \cup Takes \cup {"-s", "-c"} /\ args' = [args EXCEPT !.i = @ + 1]
        BY <2>1, <2>3, <2>6, Turn DEF w
      <4>3. args'.key = IF w \in Texts THEN w ELSE args.key
        BY <4>1, <4>2 DEF Options
      <4>4. args'.mode = IF w = "-s" THEN "SET" ELSE IF w = "-c" THEN "DELETE_ROW" ELSE args.mode
        BY <4>1, <4>2 DEF Options
      <4>5. args'.value = IF w = "-v" THEN After(line, i) ELSE args.value
        BY <4>1, <4>2 DEF Options, Takes
      <4>6. args'.id = IF w = "-n" THEN After(line, i) ELSE args.id
        BY <4>1, <4>2 DEF Options, Takes
      <4> QED
        BY <4>3, <4>4, <4>5, <4>6
    <3>2. args'.key = IF Found(Texts)' THEN line[Max(ReadSoFar(Texts))'] ELSE None
      BY <2>5, <2>6, <3>1 DEF w, ParseInv, Found
    <3>3. /\ args'.mode = IF ~Found({"-s", "-c"})' THEN "GET"
                          ELSE IF line[Max(ReadSoFar({"-s", "-c"}))'] = "-s" THEN "SET" ELSE "DELETE_ROW"
          /\ Found({"-s", "-c"})' => line[Max(ReadSoFar({"-s", "-c"}))'] \in {"-s", "-c"}
      <4>1. CASE w \in {"-s", "-c"}
        BY <2>5, <2>6, <3>1, <4>1 DEF w
      <4>2. CASE w \notin {"-s", "-c"}
        BY <2>5, <2>6, <3>1, <4>2 DEF ParseInv, Found
      <4> QED
        BY <4>1, <4>2
    <3>4. args'.value = IF Found({"-v"})' THEN After(line, Max(ReadSoFar({"-v"}))') ELSE None
      BY <2>5, <2>6, <3>1 DEF ParseInv, Found
    <3>5. args'.id = IF Found({"-n"})' THEN After(line, Max(ReadSoFar({"-n"}))') ELSE None
      BY <2>5, <2>6, <3>1 DEF ParseInv, Found
    <3>6. args'.i \in Heads(line) \/ args'.i > Len(line)
      BY <2>5, <2>6
    <3> QED
      BY <2>3, <3>2, <3>3, <3>4, <3>5, <3>6 DEF ParseInv
  <2> QED
    BY <2>4, <2>6
<1>2. CASE UNCHANGED <<line, args>>
  BY <1>2 DEF ParseInv, ReadSoFar, Found
<1> QED
  BY <1>1, <1>2 DEF Next, Step, Begin, ShowUsage, Main, GetAttribute, SetLocalParam, GetParamType,
     TypeUnknown, SetRFCParameter, ClearAttribute, Post, HostifStarts, HostifStops, HostifHangs, HostifAnswers,
     PermitTaken, PermitReturned, tool, vars

\* After parseargs: what the tool has is what the command line says.
LEMMA SaidEverything ==
  ASSUME TypeOK, ParseInv, args.i > Len(line)
  PROVE  /\ args.key = SaidKey(line)
         /\ args.mode = CASE SaidMode(line) = "-g" -> "GET"
                          [] SaidMode(line) = "-s" -> "SET"
                          [] SaidMode(line) = "-c" -> "DELETE_ROW"
         /\ SaidMode(line) \in {"-g", "-s", "-c"}
         /\ args.value = SaidArgument(line, "-v")
         /\ args.id = SaidArgument(line, "-n")
<1>1. Len(line) \in Nat /\ Heads(line) \subseteq 1 .. Len(line)
  BY LineType DEF TypeOK, Heads
<1>2. \A ws : ReadSoFar(ws) = HeadsIn(line, ws)
  BY <1>1 DEF ReadSoFar, HeadsIn, TypeOK
<1>3. args.key = SaidKey(line) /\ args.value = SaidArgument(line, "-v") /\ args.id = SaidArgument(line, "-n")
  BY <1>2 DEF ParseInv, Found, SaidKey, SaidArgument
<1>4. SaidMode(line) = IF Found({"-s", "-c"}) THEN line[Max(ReadSoFar({"-s", "-c"}))] ELSE "-g"
  BY <1>2 DEF Found, SaidMode
<1> QED
  BY <1>3, <1>4 DEF ParseInv

\* A request is of the kind the command line says, and only its end writes.
LEMMA RequestStep ==
  ASSUME TypeOK, RequestInv, [Next]_vars
  PROVE  RequestInv'
<1> USE DEF RequestInv, Incomplete, LocalOnly
<1>1. CASE ParseArgs
  BY <1>1 DEF ParseArgs
<1>2. CASE ShowUsage
  BY <1>2 DEF ShowUsage
<1>3. CASE Main
  BY <1>3 DEF Main, TypeOK
<1>4. CASE GetAttribute
  BY <1>4 DEF GetAttribute, Exit
<1>5. CASE SetLocalParam
  BY <1>5 DEF SetLocalParam, Exit
<1>6. CASE GetParamType
  BY <1>6 DEF GetParamType
<1>7. CASE TypeUnknown
  BY <1>7 DEF TypeUnknown
<1>8. CASE SetRFCParameter
  BY <1>8 DEF SetRFCParameter, Post, Exit
<1>9. CASE ClearAttribute
  BY <1>9 DEF ClearAttribute, Post, Exit
<1>10. CASE Begin
  BY <1>10 DEF Begin
<1>11. CASE UNCHANGED <<tool, wrote>>
  BY <1>11 DEF tool
<1> QED
  BY <1>1, <1>2, <1>3, <1>4, <1>5, <1>6, <1>7, <1>8, <1>9, <1>10, <1>11
     DEF Next, Step, HostifStarts, HostifStops, HostifHangs, HostifAnswers, PermitTaken,
         PermitReturned, vars

\* The write that ends an invocation is the one its command line asks for.
LEMMA ToldStep ==
  ASSUME TypeOK, ParseInv, RequestInv, DoesAsTold, [Next]_vars
  PROVE  DoesAsTold'
<1>0. line' = line
  BY DEF Next, Step, Begin, ParseArgs, ShowUsage, Main, GetAttribute, SetLocalParam, GetParamType,
     TypeUnknown, SetRFCParameter, ClearAttribute, Post, HostifStarts, HostifStops, HostifHangs,
     HostifAnswers, PermitTaken, PermitReturned, tool, vars
<1> SUFFICES ASSUME pc # "done", pc' = "done", ~ClearsLocal(line)
             PROVE  wrote' \subseteq Told(line) /\ (code' = 0 => wrote' = Told(line))
  <2>1. CASE pc = "done"
    <3>1. UNCHANGED <<pc, wrote, code>>
      BY <2>1 DEF Next, Step, Begin, ParseArgs, ShowUsage, Main, GetAttribute, SetLocalParam,
         GetParamType, TypeUnknown, SetRFCParameter, ClearAttribute, Post, HostifStarts,
         HostifStops, HostifHangs, HostifAnswers, PermitTaken, PermitReturned, tool, vars
    <3> QED
      BY <1>0, <3>1 DEF DoesAsTold
  <2> QED
    BY <1>0, <2>1 DEF DoesAsTold
<1>1. wrote = {} /\ code = 1
  <2>1. pc # "legacy"
    BY DEF Next, Step, Begin, ParseArgs, ShowUsage, Main, GetAttribute, SetLocalParam,
       GetParamType, TypeUnknown, SetRFCParameter, ClearAttribute, Post, HostifStarts,
       HostifStops, HostifHangs, HostifAnswers, PermitTaken, PermitReturned, tool, vars
  <2> QED
    BY <2>1 DEF RequestInv
<1>2. CASE ShowUsage
  BY <1>1, <1>2 DEF ShowUsage
<1>3. ASSUME args.i > Len(line), ~Incomplete
      PROVE  Told(line) = CASE args.mode = "GET" -> {}
                            [] args.mode = "DELETE_ROW" -> {[store |-> "hostif", key |-> args.key, value |-> None]}
                            [] args.mode = "SET" -> {[store |-> IF LocalOnly THEN "local" ELSE "hostif",
                                                      key |-> args.key, value |-> args.value]}
  BY <1>3, SaidEverything DEF Told, ClearsLocal, SaidStore, Incomplete, LocalOnly
<1>4. CASE GetAttribute
  BY <1>1, <1>3, <1>4 DEF GetAttribute, RequestInv
<1>5. CASE SetLocalParam
  <2>1. args.i > Len(line) /\ ~Incomplete /\ args.mode = "SET" /\ LocalOnly
    BY <1>5 DEF SetLocalParam, RequestInv
  <2>2. Told(line) = {[store |-> "local", key |-> args.key, value |-> args.value]}
    BY <1>3, <2>1
  <2> QED
    BY <1>1, <1>5, <2>2 DEF SetLocalParam, Exit
<1>6. CASE SetRFCParameter
  <2>1. args.i > Len(line) /\ ~Incomplete /\ args.mode = "SET" /\ ~LocalOnly
    BY <1>6 DEF SetRFCParameter, Post, RequestInv
  <2>2. Told(line) = {[store |-> "hostif", key |-> args.key, value |-> args.value]}
    BY <1>3, <2>1
  <2> QED
    BY <1>1, <1>6, <2>2 DEF SetRFCParameter, Post, Exit
<1>7. CASE ClearAttribute
  <2>1. args.i > Len(line) /\ ~Incomplete /\ args.mode = "DELETE_ROW"
    BY <1>7 DEF ClearAttribute, Post, RequestInv
  <2>2. Told(line) = {[store |-> "hostif", key |-> args.key, value |-> None]}
    BY <1>3, <2>1
  <2> QED
    BY <1>1, <1>7, <2>2 DEF ClearAttribute, Post, Exit
<1> QED
  BY <1>2, <1>4, <1>5, <1>6, <1>7 DEF Next, Step, Begin, ParseArgs, Main, GetParamType, TypeUnknown,
     HostifStarts, HostifStops, HostifHangs, HostifAnswers, PermitTaken, PermitReturned, tool, vars,
     TypeOK

(***************************************************************************)
(* The theorems.                                                           *)
(***************************************************************************)

\* ToolInv holds at all times.
THEOREM ToolInvariant == Spec => []ToolInv
<1>1. Init => ToolInv
  <2> SUFFICES ASSUME Init PROVE ToolInv
    OBVIOUS
  <2>1. line \in CommandLines /\ Len(line) \in Nat /\ Heads(line) \subseteq 1 .. Len(line)
    BY LineType DEF Init, Heads
  <2>2. TypeOK
    <3>1. up \in BOOLEAN /\ ready \in BOOLEAN /\ hangs \in BOOLEAN /\ permit \in BOOLEAN
      BY Zenon DEF Init
    <3> QED
      BY <2>1, <3>1, BoundAssumption DEF Init, NoArgs, TypeOK
  <2>3. \A ws : ReadSoFar(ws) = {}
    BY <2>1 DEF Init, NoArgs, ReadSoFar, HeadsIn
  <2>4. 1 \in Heads(line) \/ 1 > Len(line)
    BY <2>1, FirstHead
  <2>5. ParseInv
    BY <2>3, <2>4 DEF Init, NoArgs, ParseInv, Found
  <2>6. RequestInv /\ DoesAsTold
    BY DEF Init, RequestInv, DoesAsTold
  <2> QED
    BY <2>2, <2>5, <2>6 DEF ToolInv
<1>2. ToolInv /\ [Next]_vars => ToolInv'
  BY TypeStep, ParseStep, RequestStep, ToldStep DEF ToolInv
<1> QED
  BY <1>1, <1>2, PTL DEF Spec

\* Every variable keeps its type: parseargs reads at most one word beyond the
\* end of the command line.
THEOREM TypeCorrect == Spec => []TypeOK
<1>1. ToolInv => TypeOK
  BY DEF ToolInv
<1> QED
  BY <1>1, ToolInvariant, PTL

\* An invocation writes what its command line says, in the store it names,
\* and success means that it was written (parseargs, main, setAttribute,
\* clearAttribute), but for a clear of the local store.
THEOREM WritesAsTold == Spec => []DoesAsTold
<1>1. ToolInv => DoesAsTold
  BY DEF ToolInv
<1> QED
  BY <1>1, ToolInvariant, PTL
=============================================================================

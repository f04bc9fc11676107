--------------------------- MODULE GatewayRunProofs ---------------------------
(***************************************************************************)
(* The run on a gateway for any parameters, types and configurations: the  *)
(* inductive invariant GatewayInv of GatewayRun, step by step.             *)
(***************************************************************************)
EXTENDS GatewayRun, WellFoundedInduction, TLAPS

(***************************************************************************)
(* Values and configurations.                                              *)
(***************************************************************************)

\* A bounded set of natural numbers that is not empty has a greatest element.
LEMMA GreatestNatural ==
  ASSUME NEW n \in Nat, NEW I \in SUBSET (1 .. n), I # {}
  PROVE  \E i \in I : \A j \in I : j <= i
<1> DEFINE S == {x \in Nat : \E i \in I : x = n - i}
<1>1. S \in SUBSET Nat /\ S # {}
  <2>1. PICK i \in I : TRUE
    OBVIOUS
  <2>2. n - i \in S
    OBVIOUS
  <2> QED
    BY <2>2
<1>2. PICK x \in S : \A y \in S : <<y, x>> \notin OpToRel(<, Nat)
  BY <1>1, NatLessThanWellFounded, WFMin, Zenon
<1>3. \A y \in S : ~(y < x)
  BY <1>2 DEF OpToRel
<1>4. PICK i \in I : x = n - i
  OBVIOUS
<1>5. \A j \in I : n - j \in S
  OBVIOUS
<1> HIDE DEF S
<1>6. ASSUME NEW j \in I PROVE j <= i
  <2>1. ~(n - j < n - i)
    BY <1>3, <1>4, <1>5
  <2> QED
    BY <2>1
<1> QED
  BY <1>6

\* What rbus makes of a text is a text that it leaves alone, or nothing.
LEMMA CanonicalText ==
  ASSUME NEW k \in Keys, NEW v \in Texts
  PROVE  /\ Canonical(k, v) \in Texts \cup {None}
         /\ Canonical(k, v) # None => Canonical(k, Canonical(k, v)) = Canonical(k, v)
<1>1. Kind[k] \in {"string", "boolean", "number", "long"}
  BY GatewayAssumption
<1>2. CASE Kind[k] = "string"
  BY <1>2 DEF Canonical
<1>3. CASE Kind[k] = "boolean"
  BY <1>3, GatewayAssumption DEF Canonical, True
<1>4. CASE Kind[k] \in {"number", "long"}
  <2>1. \A x : Canonical(k, x) = Numeral[x]
    BY <1>4 DEF Canonical
  <2> QED
    BY <2>1, GatewayAssumption
<1> QED
  BY <1>1, <1>2, <1>3, <1>4

\* The features of a response.
LEMMA ContentType ==
  ASSUME NEW c \in Configs
  PROVE  /\ Len(Content[c]) \in Nat
         /\ DOMAIN Content[c] = 1 .. Len(Content[c])
         /\ DOMAIN DataOf(c) = 1 .. Len(Content[c])
         /\ \A i \in 1 .. Len(Content[c]) :
              /\ Content[c][i] \in Feature
              /\ DataOf(c)[i] = Content[c][i].data
<1>1. Content[c] \in Seq(Feature)
  BY GatewayAssumption
<1>2. Len(Content[c]) \in Nat /\ DOMAIN Content[c] = 1 .. Len(Content[c])
  BY <1>1
<1>3. \A i \in 1 .. Len(Content[c]) : Content[c][i] \in Feature
  BY <1>1
<1> QED
  BY <1>2, <1>3 DEF DataOf

\* The features that name a parameter, and the ones the first pass looks at.
LEMMA NamingType ==
  ASSUME NEW c \in Configs, NEW k \in Keys
  PROVE  /\ \A i : i \in Naming(c, k) <=>
                    /\ i \in 1 .. Len(Content[c])
                    /\ Content[c][i].data # NoData /\ Content[c][i].data[k] # None
         /\ \A i \in Naming(c, k) : Content[c][i].data[k] \in Texts
         /\ \A i : i \in FirstPass(c) <=>
                    /\ i \in 1 .. Len(Content[c])
                    /\ Content[c][i].data # NoData /\ Content[c][i].valid
<1>1. \A i : i \in WithData(DataOf(c)) <=> i \in 1 .. Len(Content[c]) /\ Content[c][i].data # NoData
  BY ContentType DEF WithData
<1>2. \A i : i \in Naming(c, k) <=> i \in WithData(DataOf(c)) /\ DataOf(c)[i][k] # None
  BY DEF Naming, Namings
<1>3. \A i : i \in FirstPass(c) <=> i \in WithData(DataOf(c)) /\ Content[c][i].valid
  BY DEF FirstPass
<1>4. \A i : i \in Naming(c, k) <=>
               /\ i \in 1 .. Len(Content[c])
               /\ Content[c][i].data # NoData /\ Content[c][i].data[k] # None
  BY <1>1, <1>2, ContentType
<1>5. ASSUME NEW i \in Naming(c, k) PROVE Content[c][i].data[k] \in Texts
  BY <1>4, ContentType DEF Feature
<1> QED
  BY <1>1, <1>3, <1>4, <1>5

\* A map takes the value of a key from the last feature that has one.
LEMMA MapOfValue ==
  ASSUME NEW c \in Configs, NEW I \in SUBSET WithData(DataOf(c)), NEW k \in Keys,
         MapOf(DataOf(c), I)[k] # None
  PROVE  \E i \in I : /\ i \in Naming(c, k)
                      /\ \A j \in I : j \in Naming(c, k) => j <= i
                      /\ MapOf(DataOf(c), I)[k] = Content[c][i].data[k]
<1> DEFINE J == {i \in I : DataOf(c)[i][k] # None}
<1>1. MapOf(DataOf(c), I)[k] = IF J = {} THEN None
                               ELSE DataOf(c)[CHOOSE i \in J : \A j \in J : j <= i][k]
  BY DEF MapOf
<1>2. J # {}
  BY <1>1
<1>3. WithData(DataOf(c)) \subseteq 1 .. Len(Content[c])
  BY ContentType DEF WithData
<1>4. J \in SUBSET (1 .. Len(Content[c])) /\ Len(Content[c]) \in Nat
  BY <1>3, ContentType
<1>5. \A i \in I : i \in Naming(c, k) <=> i \in J
  BY DEF Naming, Namings
<1> HIDE DEF J
<1>6. \E i \in J : \A j \in J : j <= i
  BY <1>2, <1>4, GreatestNatural
<1> DEFINE m == CHOOSE i \in J : \A j \in J : j <= i
<1>7. m \in J /\ \A j \in J : j <= m
  BY <1>6
<1>8. MapOf(DataOf(c), I)[k] = DataOf(c)[m][k]
  BY <1>1, <1>2
<1> HIDE DEF m
<1>9. m \in I /\ DataOf(c)[m] = Content[c][m].data
  BY <1>4, <1>7, ContentType DEF J
<1> QED
  BY <1>5, <1>7, <1>8, <1>9

\* What the second pass sets is a text of a feature that names the key.
LEMMA SecondMapValue ==
  ASSUME NEW c \in Configs, NEW k \in Keys, SecondMaps[c][k] # None
  PROVE  \E i \in Naming(c, k) : SecondMaps[c][k] = Content[c][i].data[k]
<1>1. SecondMaps[c] = MapOf(DataOf(c), Parsed(DataOf(c)))
  BY DEF SecondMaps, ConfigMap
<1>2. Parsed(DataOf(c)) \in SUBSET WithData(DataOf(c))
  <2> SUFFICES ASSUME NEW i \in Parsed(DataOf(c)) PROVE i \in WithData(DataOf(c))
    OBVIOUS
  <2>1. i \in 1 .. Len(Content[c]) /\ i \in DOMAIN DataOf(c)
    BY ContentType DEF Parsed
  <2>2. i \in 1 .. i
    BY <2>1, ContentType
  <2> QED
    BY <2>1, <2>2 DEF Parsed, WithData
<1> QED
  BY <1>1, <1>2, MapOfValue

\* What the first pass finds is the text of the last feature it looks at.
LEMMA FirstMapValue ==
  ASSUME NEW c \in Configs, NEW k \in Keys, FirstMaps[c][k] # None
  PROVE  \E i \in FirstPass(c) : /\ i \in Naming(c, k)
                                 /\ \A j \in FirstPass(c) : j \in Naming(c, k) => j <= i
                                 /\ FirstMaps[c][k] = Content[c][i].data[k]
<1>1. FirstMaps[c] = MapOf(DataOf(c), FirstPass(c))
  BY DEF FirstMaps
<1>2. FirstPass(c) \in SUBSET WithData(DataOf(c))
  BY DEF FirstPass
<1> QED
  BY <1>1, <1>2, MapOfValue

(***************************************************************************)
(* Entries.                                                                *)
(***************************************************************************)

\* An entry of the first pass has a text, and the feature names its key.
LEMMA EntryType ==
  ASSUME TypeOK, ControlInv, pc = "first", NEW k \in rest
  PROVE  /\ k \in Keys
         /\ FirstValue(k) = Datum(index, k)
         /\ FirstValue(k) \in Texts
         /\ index \in Entries(k) /\ index \in Naming(conf, k)
         /\ ~Done(k, index)
<1>1. conf \in Configs /\ k \in Keys /\ index \in FirstPass(conf) /\ k \in Named(Features[index].data)
  BY DEF TypeOK, ControlInv
<1>2. FirstValue(k) = Datum(index, k) /\ Datum(index, k) # None
  BY <1>1 DEF FirstValue, Datum, Features, Named
<1>3. index \in Naming(conf, k)
  BY <1>1, <1>2, NamingType DEF Datum
<1>4. Datum(index, k) \in Texts
  BY <1>1, <1>3, NamingType DEF Datum
<1>5. ~Done(k, index)
  BY DEF Done, Applying, TypeOK
<1> QED
  BY <1>1, <1>2, <1>3, <1>4, <1>5 DEF Entries

\* An entry of the second pass has the text of a feature that names its key.
LEMMA MapEntryType ==
  ASSUME TypeOK, NEW k \in Named(SecondMap)
  PROVE  /\ k \in Keys
         /\ SecondValue(k) = SecondMap[k]
         /\ SecondMap[k] \in Texts
         /\ \E i \in Naming(conf, k) : SecondMap[k] = Datum(i, k)
<1>1. conf \in Configs /\ k \in Keys /\ SecondMaps[conf][k] # None
  BY DEF TypeOK, Named, SecondMap
<1>2. PICK i \in Naming(conf, k) : SecondMaps[conf][k] = Content[conf][i].data[k]
  BY <1>1, SecondMapValue
<1>3. SecondMaps[conf][k] \in Texts
  BY <1>1, <1>2, NamingType
<1> QED
  BY <1>1, <1>2, <1>3 DEF SecondMap, SecondValue, Datum

\* Every mode allows interfaces or not.
LEMMA SelectionType ==
  ASSUME NEW mode
  PROVE  /\ SelectionOf(mode) \in Selections
         /\ \A s \in Selectors : SelectionOf(mode)[s] \in BOOLEAN
BY DEF SelectionOf, Selections

\* A process that is gone leaves nothing but types.
LEMMA GoneType ==
  ASSUME Gone
  PROVE  /\ pc' \in Steps /\ retry' \in 0 .. WaitRetries + 1 /\ conf' \in Configs /\ index' \in Nat
         /\ rest' \subseteq Keys /\ rfcRebootCronNeeded' \in BOOLEAN /\ scheduled' \in BOOLEAN
         /\ writes' \subseteq Selectors /\ before' \in [Keys -> Texts]
<1>1. Bad \in Configs /\ Default \in [Keys -> Texts]
  BY GatewayAssumption
<1>2. conf' \in Configs /\ before' \in [Keys -> Texts]
  BY <1>1 DEF Gone
<1>3. rfcRebootCronNeeded' \in BOOLEAN /\ scheduled' \in BOOLEAN
  BY DEF Gone
<1>4. retry' \in 0 .. WaitRetries + 1 /\ index' \in Nat
  BY DEF Gone, WaitRetries
<1>5. pc' \in Steps /\ rest' \subseteq Keys /\ writes' \subseteq Selectors
  BY DEF Gone, Steps
<1> QED
  BY <1>2, <1>3, <1>4, <1>5

\* A configuration that stays stays the same.
LEMMA SameConf ==
  ASSUME conf' = conf
  PROVE  /\ SecondMap' = SecondMap /\ Features' = Features
         /\ \A k : Entries(k)' = Entries(k) /\ \A i : Datum(i, k)' = Datum(i, k)
  BY DEF SecondMap, Features, Entries, Datum

\* Entries are numbers of features.
LEMMA EntriesType ==
  ASSUME TypeOK, NEW k \in Keys
  PROVE  /\ Entries(k) \subseteq FirstPass(conf) /\ Entries(k) \subseteq Naming(conf, k)
         /\ Len(Features) \in Nat
         /\ FirstPass(conf) \subseteq 1 .. Len(Features)
<1>1. conf \in Configs
  BY DEF TypeOK
<1>2. Len(Features) \in Nat
  BY <1>1, ContentType DEF Features
<1>3. FirstPass(conf) \subseteq 1 .. Len(Features)
  BY <1>1, NamingType DEF Features
<1> QED
  BY <1>2, <1>3 DEF Entries

(***************************************************************************)
(* One lemma for each part of the invariant.                               *)
(***************************************************************************)

\* Every step keeps the types.
LEMMA TypeStep ==
  ASSUME TypeOK, ControlInv, [Next]_vars
  PROVE  TypeOK'
<1>1. ASSUME NEW k \in rest, ParamSkipped(k) PROVE TypeOK'
  BY <1>1 DEF ParamSkipped, Entry, TypeOK
<1>2. ASSUME NEW k \in rest, ParamFails(k) PROVE TypeOK'
  BY <1>2 DEF ParamFails, Entry, Events, TypeOK
<1>3. ASSUME NEW k \in rest, ModeDiverted(k) PROVE TypeOK'
  BY <1>3 DEF ModeDiverted, Entry, TypeOK
<1>4. ASSUME NEW k \in rest, NEW ok \in BOOLEAN, ParamSet(k, ok) PROVE TypeOK'
  <2>1. Canonical(k, FirstValue(k)) \in Texts
    BY <1>4, EntryType, CanonicalText DEF ParamSet, Entry, Convertible
  <2> QED
    BY <1>4, <2>1 DEF ParamSet, Entry, Events, Cost, Put, TypeOK
<1>5. ASSUME NEW k \in rest, SecondSkipped(k) PROVE TypeOK'
  BY <1>5 DEF SecondSkipped, MapEntry, NextEntry, TypeOK
<1>6. ASSUME NEW k \in rest, NEW ok \in BOOLEAN, SecondSet(k, ok) PROVE TypeOK'
  <2>1. Canonical(k, SecondValue(k)) \in Texts
    BY <1>6, MapEntryType, CanonicalText DEF SecondSet, MapEntry, ControlInv
  <2>2. live' \in [Keys -> Texts] /\ touched' \subseteq Keys
    BY <1>6, <2>1 DEF SecondSet, Put, TypeOK
  <2>3. events' \in 0 .. MaxEvents
    BY <1>6 DEF SecondSet, Events, Cost, TypeOK
  <2> QED
    BY <1>6, <2>2, <2>3 DEF SecondSet, MapEntry, NextEntry, TypeOK
<1>7. ASSUME NEW k \in rest, SecondAborts(k) PROVE TypeOK'
  BY <1>7, GoneType DEF SecondAborts, MapEntry, TypeOK
<1>8. CASE NextFeature
  BY <1>8 DEF NextFeature, TypeOK, Steps, Named
<1>9. CASE SecondEnds
  BY <1>9 DEF SecondEnds, TypeOK, Steps
<1>10. CASE Start
  BY <1>10 DEF Start, TypeOK, Steps, WaitRetries
<1>11. CASE Wait
  BY <1>11 DEF Wait, TypeOK, Steps, WaitRetries
<1>12. CASE NotModified
  BY <1>12 DEF NotModified, TypeOK, Steps
<1>13. CASE Response
  BY <1>13 DEF Response, TypeOK, Steps
<1>14. CASE RequestFails
  BY <1>14 DEF RequestFails, Events, TypeOK, Steps, ControlInv, RETRY_COUNT, WaitRetries
<1>15. CASE OpenFails
  BY <1>15 DEF OpenFails, Events, Failure, TypeOK, Steps
<1>16. ASSUME NEW ipv6 \in BOOLEAN, NEW ipv4 \in BOOLEAN, CheckIPConnectivity(ipv6, ipv4) PROVE TypeOK'
  <2>1. events' \in 0 .. MaxEvents
    BY <1>16 DEF CheckIPConnectivity, Events, Cost, TypeOK
  <2>2. CASE ipv6 \/ ipv4
    BY <1>16, <2>1, <2>2 DEF CheckIPConnectivity, TypeOK, Steps, WaitRetries
  <2>3. CASE ~(ipv6 \/ ipv4)
    BY <1>16, <2>1, <2>3, GoneType DEF CheckIPConnectivity, TypeOK
  <2> QED
    BY <2>2, <2>3
<1>17. ASSUME NEW off \in BOOLEAN, NEW ok \in BOOLEAN, ClearDB(off, ok) PROVE TypeOK'
  BY <1>17, GatewayAssumption DEF ClearDB, Events, Cost, Failure, TypeOK, Steps
<1>18. ASSUME NEW ok \in BOOLEAN, ClearDBEnd(ok) PROVE TypeOK'
  <2>1. Named(SecondMap) \subseteq Keys
    BY DEF Named
  <2>2. live' \in [Keys -> Texts] /\ touched' \subseteq Keys
    <3>1. Default \in [Keys -> Texts]
      BY GatewayAssumption
    <3>2. CASE ok
      BY <1>18, <3>1, <3>2 DEF ClearDBEnd, TypeOK
    <3>3. CASE ~ok
      BY <1>18, <3>3 DEF ClearDBEnd, TypeOK
    <3> QED
      BY <3>2, <3>3
  <2>3. events' \in 0 .. MaxEvents
    BY <1>18 DEF ClearDBEnd, Events, Cost, TypeOK
  <2> QED
    BY <1>18, <2>1, <2>2, <2>3, GatewayAssumption DEF ClearDBEnd, TypeOK, Steps
<1>19. ASSUME NEW ok \in BOOLEAN, Finish(ok) PROVE TypeOK'
  BY <1>19, GoneType DEF Finish, TypeOK, Steps
<1>20. ASSUME NEW ok \in BOOLEAN, UpdateHashAndTimeInDB(ok) PROVE TypeOK'
  BY <1>20 DEF UpdateHashAndTimeInDB, Events, Cost, TypeOK, Steps
<1>21. CASE Exit
  BY <1>21, GoneType DEF Exit, TypeOK
<1>22. CASE BlobCompleted
  BY <1>22 DEF BlobCompleted, TypeOK
<1>23. ASSUME NEW c \in Configs, ServerChanges(c) PROVE TypeOK'
  BY <1>23 DEF ServerChanges, Events, TypeOK
<1>24. ASSUME NEW k \in Keys, NEW v \in Foreign, OtherSets(k, v) PROVE TypeOK'
  BY <1>24, GatewayAssumption DEF OtherSets, Events, Put, TypeOK
<1>25. CASE Die
  BY <1>25, GoneType DEF Die, Events, TypeOK
<1>26. CASE Reboot
  BY <1>26, GoneType DEF Reboot, Events, TypeOK
<1>27. CASE UNCHANGED vars
  BY <1>27 DEF vars, TypeOK
<1>28. ASSUME NEW s \in writes, NEW ok \in BOOLEAN, SelectionSet(s, ok) PROVE TypeOK'
  <2>1. wan' \in Selections
    BY <1>28, SelectionType DEF SelectionSet, TypeOK, Selections
  <2>2. events' \in 0 .. MaxEvents
    BY <1>28 DEF SelectionSet, Events, Cost, TypeOK
  <2>3. dropped' \subseteq Keys
    BY <1>28, GatewayAssumption DEF SelectionSet, TypeOK
  <2> QED
    BY <1>28, <2>1, <2>2, <2>3 DEF SelectionSet, NextWrite, TypeOK
<1> QED
  BY <1>1, <1>2, <1>3, <1>4, <1>5, <1>6, <1>7, <1>8, <1>9, <1>10, <1>11, <1>12, <1>13,
     <1>14, <1>15, <1>16, <1>17, <1>18, <1>19, <1>20, <1>21, <1>22, <1>23, <1>24, <1>25,
     <1>26, <1>27, <1>28 DEF Next, Step, EntryStep

\* The entries still to come are entries of the configuration, and a run
\* begins without a wish for a reboot.
LEMMA ControlStep ==
  ASSUME TypeOK, ControlInv, [Next]_vars
  PROVE  ControlInv'
<1>1. ASSUME NEW k \in rest, ParamSkipped(k) PROVE ControlInv'
  BY <1>1, SameConf DEF ParamSkipped, Entry, ControlInv
<1>2. ASSUME NEW k \in rest, ParamFails(k) PROVE ControlInv'
  BY <1>2, SameConf DEF ParamFails, Entry, ControlInv
<1>3. ASSUME NEW k \in rest, ModeDiverted(k) PROVE ControlInv'
  <2>1. index \in FirstPass(conf) \cap Naming(conf, ModeKey) /\ pc' = "first"
    BY <1>3, EntryType DEF ModeDiverted, Diverted, Entry, Entries
  <2> QED
    BY <1>3, <2>1, SameConf DEF ModeDiverted, Entry, ControlInv
<1>4. ASSUME NEW k \in rest, NEW ok \in BOOLEAN, ParamSet(k, ok) PROVE ControlInv'
  BY <1>4, SameConf DEF ParamSet, Entry, ControlInv
<1>5. ASSUME NEW k \in rest, SecondSkipped(k) PROVE ControlInv'
  BY <1>5, SameConf DEF SecondSkipped, NextEntry, ControlInv
<1>6. ASSUME NEW k \in rest, NEW ok \in BOOLEAN, SecondSet(k, ok) PROVE ControlInv'
  BY <1>6, SameConf DEF SecondSet, NextEntry, ControlInv
<1>7. ASSUME NEW k \in rest, SecondAborts(k) PROVE ControlInv'
  BY <1>7 DEF SecondAborts, Gone, ControlInv
<1>8. CASE NextFeature
  <2>1. CASE index < Len(Features)
    <3>1. index + 1 \in 1 .. Len(Features) /\ conf \in Configs
      BY <2>1 DEF TypeOK
    <3>2. pc' = "first" /\ index' = index + 1 /\ conf' = conf
      BY <1>8, <2>1 DEF NextFeature
    <3>3. rest' # {} => /\ Features[index'].valid /\ Features[index'].data # NoData
                        /\ rest' = Named(Features[index'].data)
      BY <1>8, <2>1 DEF NextFeature
    <3>4. rest' # {} => index' \in FirstPass(conf)
      <4> SUFFICES ASSUME rest' # {} PROVE index' \in FirstPass(conf)
        OBVIOUS
      <4>1. PICK k \in Keys : TRUE
        BY <3>3 DEF Named
      <4> QED
        BY <3>1, <3>2, <3>3, NamingType DEF Features
    <3>5. index' <= Len(Features)
      BY <3>1, <3>2
    <3>6. writes' = {} /\ UNCHANGED <<retry, rfcRebootCronNeeded, scheduled>>
      BY <1>8 DEF NextFeature
    <3> QED
      BY <3>2, <3>3, <3>4, <3>5, <3>6, SameConf DEF ControlInv
  <2>2. CASE ~(index < Len(Features))
    BY <1>8, <2>2 DEF NextFeature, ControlInv
  <2> QED
    BY <2>1, <2>2
<1>9. CASE SecondEnds
  BY <1>9 DEF SecondEnds, ControlInv
<1>10. CASE Start
  BY <1>10 DEF Start, ControlInv
<1>11. CASE Wait
  BY <1>11 DEF Wait, ControlInv
<1>12. CASE NotModified
  BY <1>12 DEF NotModified, ControlInv
<1>13. CASE Response
  BY <1>13 DEF Response, ControlInv
<1>14. CASE RequestFails
  BY <1>14 DEF RequestFails, ControlInv
<1>15. CASE OpenFails
  BY <1>15 DEF OpenFails, Failure, ControlInv
<1>16. ASSUME NEW ipv6 \in BOOLEAN, NEW ipv4 \in BOOLEAN, CheckIPConnectivity(ipv6, ipv4) PROVE ControlInv'
  <2>1. CASE ipv6 \/ ipv4
    BY <1>16, <2>1 DEF CheckIPConnectivity, ControlInv, RETRY_COUNT
  <2>2. CASE ~(ipv6 \/ ipv4)
    BY <1>16, <2>2 DEF CheckIPConnectivity, Gone, ControlInv
  <2> QED
    BY <2>1, <2>2
<1>17. ASSUME NEW off \in BOOLEAN, NEW ok \in BOOLEAN, ClearDB(off, ok) PROVE ControlInv'
  BY <1>17 DEF ClearDB, Failure, ControlInv
<1>18. ASSUME NEW ok \in BOOLEAN, ClearDBEnd(ok) PROVE ControlInv'
  BY <1>18, SameConf DEF ClearDBEnd, ControlInv
<1>19. ASSUME NEW ok \in BOOLEAN, Finish(ok) PROVE ControlInv'
  BY <1>19 DEF Finish, Gone, ControlInv
<1>20. ASSUME NEW ok \in BOOLEAN, UpdateHashAndTimeInDB(ok) PROVE ControlInv'
  BY <1>20 DEF UpdateHashAndTimeInDB, ControlInv
<1>21. CASE Exit
  BY <1>21 DEF Exit, Gone, ControlInv
<1>22. CASE BlobCompleted
  BY <1>22, SameConf DEF BlobCompleted, ControlInv
<1>23. ASSUME NEW c \in Configs, ServerChanges(c) PROVE ControlInv'
  BY <1>23, SameConf DEF ServerChanges, ControlInv
<1>24. ASSUME NEW k \in Keys, NEW v \in Foreign, OtherSets(k, v) PROVE ControlInv'
  BY <1>24, SameConf DEF OtherSets, ControlInv
<1>25. CASE Die
  BY <1>25 DEF Die, Gone, ControlInv
<1>26. CASE Reboot
  BY <1>26 DEF Reboot, Gone, ControlInv
<1>27. CASE UNCHANGED vars
  BY <1>27, SameConf DEF vars, ControlInv
<1>28. ASSUME NEW s \in writes, NEW ok \in BOOLEAN, SelectionSet(s, ok) PROVE ControlInv'
  BY <1>28, SameConf DEF SelectionSet, NextWrite, ControlInv
<1> QED
  BY <1>1, <1>2, <1>3, <1>4, <1>5, <1>6, <1>7, <1>8, <1>9, <1>10, <1>11, <1>12, <1>13,
     <1>14, <1>15, <1>16, <1>17, <1>18, <1>19, <1>20, <1>21, <1>22, <1>23, <1>24, <1>25,
     <1>26, <1>27, <1>28 DEF Next, Step, EntryStep

\* Every value is spelled as rbus spells it.
LEMMA CanonicalStep ==
  ASSUME TypeOK, ControlInv, CanonicalInv, [Next]_vars
  PROVE  CanonicalInv'
<1>1. ASSUME NEW k \in rest, ParamSkipped(k) PROVE CanonicalInv'
  BY <1>1 DEF ParamSkipped, CanonicalInv
<1>2. ASSUME NEW k \in rest, ParamFails(k) PROVE CanonicalInv'
  BY <1>2 DEF ParamFails, CanonicalInv
<1>3. ASSUME NEW k \in rest, ModeDiverted(k) PROVE CanonicalInv'
  BY <1>3 DEF ModeDiverted, CanonicalInv
<1>4. ASSUME NEW k \in rest, NEW ok \in BOOLEAN, ParamSet(k, ok) PROVE CanonicalInv'
  <2>1. Canonical(k, Canonical(k, FirstValue(k))) = Canonical(k, FirstValue(k))
    BY <1>4, EntryType, CanonicalText DEF ParamSet, Entry, Convertible
  <2> QED
    BY <1>4, <2>1 DEF ParamSet, Put, CanonicalInv
<1>5. ASSUME NEW k \in rest, SecondSkipped(k) PROVE CanonicalInv'
  BY <1>5 DEF SecondSkipped, CanonicalInv
<1>6. ASSUME NEW k \in rest, NEW ok \in BOOLEAN, SecondSet(k, ok) PROVE CanonicalInv'
  <2>1. Canonical(k, Canonical(k, SecondValue(k))) = Canonical(k, SecondValue(k))
    BY <1>6, MapEntryType, CanonicalText DEF SecondSet, MapEntry, ControlInv
  <2> QED
    BY <1>6, <2>1 DEF SecondSet, Put, CanonicalInv, TypeOK
<1>7. ASSUME NEW k \in rest, SecondAborts(k) PROVE CanonicalInv'
  BY <1>7 DEF SecondAborts, CanonicalInv
<1>8. CASE NextFeature
  BY <1>8 DEF NextFeature, CanonicalInv
<1>9. CASE SecondEnds
  BY <1>9 DEF SecondEnds, CanonicalInv
<1>10. CASE Start
  BY <1>10 DEF Start, CanonicalInv
<1>11. CASE Wait
  BY <1>11 DEF Wait, CanonicalInv
<1>12. CASE NotModified
  BY <1>12 DEF NotModified, CanonicalInv
<1>13. CASE Response
  BY <1>13 DEF Response, CanonicalInv
<1>14. CASE RequestFails
  BY <1>14 DEF RequestFails, CanonicalInv
<1>15. CASE OpenFails
  BY <1>15 DEF OpenFails, CanonicalInv
<1>16. ASSUME NEW ipv6 \in BOOLEAN, NEW ipv4 \in BOOLEAN, CheckIPConnectivity(ipv6, ipv4) PROVE CanonicalInv'
  BY <1>16 DEF CheckIPConnectivity, CanonicalInv
<1>17. ASSUME NEW off \in BOOLEAN, NEW ok \in BOOLEAN, ClearDB(off, ok) PROVE CanonicalInv'
  <2>1. \A j \in SupportKeys : Canonical(j, "false") = "false"
    BY GatewayAssumption DEF Canonical
  <2> QED
    BY <1>17, <2>1 DEF ClearDB, CanonicalInv
<1>18. ASSUME NEW ok \in BOOLEAN, ClearDBEnd(ok) PROVE CanonicalInv'
  BY <1>18, DefaultAssumption DEF ClearDBEnd, CanonicalInv
<1>19. ASSUME NEW ok \in BOOLEAN, Finish(ok) PROVE CanonicalInv'
  BY <1>19 DEF Finish, CanonicalInv
<1>20. ASSUME NEW ok \in BOOLEAN, UpdateHashAndTimeInDB(ok) PROVE CanonicalInv'
  BY <1>20 DEF UpdateHashAndTimeInDB, CanonicalInv
<1>21. CASE Exit
  BY <1>21 DEF Exit, CanonicalInv
<1>22. CASE BlobCompleted
  BY <1>22 DEF BlobCompleted, CanonicalInv
<1>23. ASSUME NEW c \in Configs, ServerChanges(c) PROVE CanonicalInv'
  BY <1>23 DEF ServerChanges, CanonicalInv
<1>24. ASSUME NEW k \in Keys, NEW v \in Foreign, OtherSets(k, v) PROVE CanonicalInv'
  BY <1>24 DEF OtherSets, Put, CanonicalInv
<1>25. CASE Die
  BY <1>25 DEF Die, CanonicalInv
<1>26. CASE Reboot
  BY <1>26 DEF Reboot, CanonicalInv
<1>27. CASE UNCHANGED vars
  BY <1>27 DEF vars, CanonicalInv
<1>28. ASSUME NEW s \in writes, NEW ok \in BOOLEAN, SelectionSet(s, ok) PROVE CanonicalInv'
  BY <1>28 DEF SelectionSet, NextWrite, CanonicalInv
<1> QED
  BY <1>1, <1>2, <1>3, <1>4, <1>5, <1>6, <1>7, <1>8, <1>9, <1>10, <1>11, <1>12, <1>13,
     <1>14, <1>15, <1>16, <1>17, <1>18, <1>19, <1>20, <1>21, <1>22, <1>23, <1>24, <1>25,
     <1>26, <1>27, <1>28 DEF Next, Step, EntryStep

(***************************************************************************)
(* The steps of a process between ClearDB and the new hash.                *)
(***************************************************************************)

\* A step that such a process does not notice.
Quiet ==
  /\ pc \in Applying
  /\ UNCHANGED <<live, touched, wan, writes, pc, conf, index, rest,
                 rfcRebootCronNeeded, scheduled, before, dropped>>

\* A step of an entry of the first pass.
FirstEntry(k) ==
  \/ ParamSkipped(k) \/ ParamFails(k)
  \/ ModeDiverted(k)
  \/ \E ok \in BOOLEAN : ParamSet(k, ok)

\* Every other step ends the process or finds none that applies a
\* configuration.
LEMMA ApplyingStep ==
  ASSUME TypeOK, [Next]_vars, pc' \in Applying
  PROVE  \/ \E k \in rest : FirstEntry(k)
         \/ \E s \in writes, ok \in BOOLEAN : SelectionSet(s, ok)
         \/ \E k \in rest : SecondSkipped(k) \/ \E ok \in BOOLEAN : SecondSet(k, ok)
         \/ NextFeature \/ SecondEnds \/ Finish(TRUE)
         \/ \E ok \in BOOLEAN : ClearDBEnd(ok)
         \/ \E k \in Keys, v \in Foreign : pc \in Applying /\ OtherSets(k, v)
         \/ Quiet
         \/ \E off \in BOOLEAN, ok \in BOOLEAN : ClearDB(off, ok)
<1> DEFINE Goal ==
         \/ \E k \in rest : FirstEntry(k)
         \/ \E s \in writes, ok \in BOOLEAN : SelectionSet(s, ok)
         \/ \E k \in rest : SecondSkipped(k) \/ \E ok \in BOOLEAN : SecondSet(k, ok)
         \/ NextFeature \/ SecondEnds \/ Finish(TRUE)
         \/ \E ok \in BOOLEAN : ClearDBEnd(ok)
         \/ \E k \in Keys, v \in Foreign : pc \in Applying /\ OtherSets(k, v)
         \/ Quiet
         \/ \E off \in BOOLEAN, ok \in BOOLEAN : ClearDB(off, ok)
<1>1. ASSUME Gone PROVE FALSE
  BY <1>1 DEF Gone, Applying
<1>2. ASSUME NEW k \in rest, EntryStep(k) PROVE Goal
  BY <1>1, <1>2 DEF EntryStep, FirstEntry, SecondAborts
<1>3. CASE Start \/ Wait \/ NotModified \/ Response \/ RequestFails \/ OpenFails
  BY <1>3 DEF Start, Wait, NotModified, Response, RequestFails, OpenFails, Failure, Applying
<1>4. ASSUME NEW ipv6 \in BOOLEAN, NEW ipv4 \in BOOLEAN, CheckIPConnectivity(ipv6, ipv4)
      PROVE Goal
  BY <1>1, <1>4 DEF CheckIPConnectivity, Applying
<1>5. ASSUME NEW ok \in BOOLEAN, Finish(ok) PROVE Goal
  <2>1. ok = TRUE
    BY <1>1, <1>5 DEF Finish
  <2> QED
    BY <1>5, <2>1
<1>6. ASSUME NEW ok \in BOOLEAN, UpdateHashAndTimeInDB(ok) PROVE Goal
  BY <1>6 DEF UpdateHashAndTimeInDB, Applying
<1>7. CASE Step
  BY <1>1, <1>2, <1>3, <1>4, <1>5, <1>6, <1>7 DEF Step, Exit
<1>8. CASE BlobCompleted \/ UNCHANGED vars
  <2>1. Quiet
    BY <1>8 DEF BlobCompleted, vars, Quiet
  <2> QED
    BY <2>1
<1>9. ASSUME NEW c \in Configs, ServerChanges(c) PROVE Goal
  <2>1. Quiet
    BY <1>9 DEF ServerChanges, Quiet
  <2> QED
    BY <2>1
<1>10. ASSUME NEW k \in Keys, NEW v \in Foreign, OtherSets(k, v) PROVE Goal
  <2>1. pc \in Applying
    BY <1>10 DEF OtherSets
  <2> QED
    BY <1>10, <2>1
<1>11. CASE Die \/ Reboot
  BY <1>1, <1>11 DEF Die, Reboot
<1> QED
  BY <1>7, <1>8, <1>9, <1>10, <1>11 DEF Next

\* A step into the application of a configuration begins it or is part of it.
LEMMA SameRun ==
  ASSUME TypeOK, [Next]_vars, pc' \in Applying
  PROVE  \/ \E off \in BOOLEAN, ok \in BOOLEAN : ClearDB(off, ok)
         \/ /\ pc \in Applying
            /\ conf' = conf /\ before' = before /\ dropped \subseteq dropped'
            /\ rfcRebootCronNeeded => rfcRebootCronNeeded'
            /\ pc' = "first" => pc = "first"
<1> DEFINE Same ==
            /\ pc \in Applying
            /\ conf' = conf /\ before' = before /\ dropped \subseteq dropped'
            /\ rfcRebootCronNeeded => rfcRebootCronNeeded'
            /\ pc' = "first" => pc = "first"
<1>1. ASSUME NEW k \in rest, FirstEntry(k) PROVE Same
  <2>1. /\ pc = "first" /\ conf' = conf /\ before' = before
    BY <1>1 DEF FirstEntry, ParamSkipped, ParamFails, ModeDiverted, ParamSet, Entry
  <2>2. dropped \subseteq dropped'
    BY <1>1 DEF FirstEntry, ParamSkipped, ParamFails, ModeDiverted, ParamSet
  <2>3. rfcRebootCronNeeded => rfcRebootCronNeeded'
    BY <1>1, Zenon DEF FirstEntry, ParamSkipped, ParamFails, ModeDiverted, ParamSet
  <2> QED
    BY <2>1, <2>2, <2>3 DEF Applying
<1>2. ASSUME NEW k \in rest, SecondSkipped(k) PROVE Same
  BY <1>2 DEF SecondSkipped, MapEntry, NextEntry, Applying
<1>3. ASSUME NEW k \in rest, NEW ok \in BOOLEAN, SecondSet(k, ok) PROVE Same
  BY <1>3 DEF SecondSet, MapEntry, NextEntry, Applying
<1>4. CASE NextFeature \/ SecondEnds
  BY <1>4 DEF NextFeature, SecondEnds, Applying
<1>5. CASE Finish(TRUE)
  BY <1>5 DEF Finish, Applying
<1>6. ASSUME NEW ok \in BOOLEAN, ClearDBEnd(ok) PROVE Same
  BY <1>6 DEF ClearDBEnd, Applying
<1>7. ASSUME NEW k \in Keys, NEW v \in Foreign, pc \in Applying, OtherSets(k, v) PROVE Same
  BY <1>7 DEF OtherSets
<1>8. CASE Quiet
  BY <1>8 DEF Quiet
<1>9. ASSUME NEW s \in writes, NEW ok \in BOOLEAN, SelectionSet(s, ok) PROVE Same
  BY <1>9 DEF SelectionSet, NextWrite, Applying
<1> QED
  BY <1>1, <1>2, <1>3, <1>4, <1>5, <1>6, <1>7, <1>8, <1>9, ApplyingStep

\* Which entries of the first pass a step does: the one it takes from rest.
LEMMA DoneStep ==
  ASSUME TypeOK, ControlInv, [Next]_vars, pc \in Applying, pc' \in Applying,
         NEW j \in Keys, NEW i \in Entries(j)
  PROVE  Done(j, i)' <=> Done(j, i) \/ (pc = "first" /\ j \in rest /\ j \notin rest' /\ i = index)
<1>0. i \in 1 .. Len(Features) /\ Len(Features) \in Nat /\ index \in Nat
  BY EntriesType DEF TypeOK
<1>1. ASSUME NEW k \in rest, FirstEntry(k)
      PROVE  Done(j, i)' <=> Done(j, i) \/ (pc = "first" /\ j \in rest /\ j \notin rest' /\ i = index)
  <2>1. pc = "first" /\ pc' = "first" /\ index' = index /\ rest' = rest \ {k}
    BY <1>1 DEF FirstEntry, ParamSkipped, ParamFails, ModeDiverted, ParamSet, Entry
  <2> QED
    BY <2>1, <1>0 DEF Done, Applying
<1>2. CASE NextFeature
  <2>1. pc = "first" /\ rest = {}
    BY <1>2 DEF NextFeature
  <2>2. CASE index < Len(Features)
    <3>1. pc' = "first" /\ index' = index + 1
      BY <1>2, <2>2 DEF NextFeature
    <3>2. i = index + 1 => j \in rest'
      <4> SUFFICES ASSUME i = index + 1 PROVE j \in rest'
        OBVIOUS
      <4>1. conf \in Configs /\ i \in FirstPass(conf) /\ i \in Naming(conf, j)
        BY DEF TypeOK, Entries
      <4>2. Features[i].valid /\ Features[i].data # NoData /\ Features[i].data[j] # None
        BY <4>1, NamingType DEF Features
      <4>3. rest' = Named(Features[i].data)
        BY <1>2, <2>2, <3>1, <4>2 DEF NextFeature
      <4> QED
        BY <4>2, <4>3 DEF Named
    <3> QED
      BY <1>0, <2>1, <3>1, <3>2 DEF Done, Applying
  <2>3. CASE ~(index < Len(Features))
    <3>1. pc' = "end"
      BY <1>2, <2>3 DEF NextFeature
    <3>2. i < index \/ i = index
      BY <1>0, <2>3
    <3> QED
      BY <2>1, <3>1, <3>2 DEF Done, Applying
  <2> QED
    BY <2>2, <2>3
<1>3. ASSUME pc # "first", pc' # "first"
      PROVE  Done(j, i)' <=> Done(j, i) \/ (pc = "first" /\ j \in rest /\ j \notin rest' /\ i = index)
  BY <1>3 DEF Done
<1>4. ASSUME NEW k \in rest, SecondSkipped(k) \/ \E ok \in BOOLEAN : SecondSet(k, ok)
      PROVE  pc # "first" /\ pc' # "first"
  BY <1>4 DEF SecondSkipped, SecondSet, MapEntry, NextEntry
<1>5. ASSUME SecondEnds \/ Finish(TRUE) \/ \E ok \in BOOLEAN : ClearDBEnd(ok)
      PROVE  pc # "first" /\ pc' # "first"
  BY <1>5 DEF SecondEnds, Finish, ClearDBEnd
<1>6. ASSUME UNCHANGED <<pc, index, rest>>
      PROVE  Done(j, i)' <=> Done(j, i) \/ (pc = "first" /\ j \in rest /\ j \notin rest' /\ i = index)
  BY <1>6 DEF Done
<1>7. ASSUME \/ Quiet \/ \E k \in Keys, v \in Foreign : OtherSets(k, v)
             \/ \E s \in writes, ok \in BOOLEAN : SelectionSet(s, ok)
      PROVE  UNCHANGED <<pc, index, rest>>
  BY <1>7 DEF Quiet, OtherSets, SelectionSet, NextWrite
<1>8. ASSUME NEW off \in BOOLEAN, NEW ok \in BOOLEAN, ClearDB(off, ok) PROVE FALSE
  BY <1>8 DEF ClearDB, Applying
<1> QED
  BY <1>1, <1>2, <1>3, <1>4, <1>5, <1>6, <1>7, <1>8, ApplyingStep

\* The step neither takes an entry for j nor changes its value.
Still(j) ==
  /\ live'[j] = live[j]
  /\ j \in touched' <=> j \in touched
  /\ pc' = pc \/ <<pc, pc'>> \in {<<"first", "end">>, <<"second", "finish">>, <<"finish", "store">>}
  /\ pc = "second" /\ j \in rest => pc' = "second" /\ j \in rest'
  /\ pc = "first" /\ j \in rest => j \in rest'

\* What a step does to one parameter, if nothing fails.
LEMMA ParameterStep ==
  ASSUME TypeOK, ControlInv, [Next]_vars, pc \in Applying, pc' \in Applying,
         NEW j \in Keys \ dropped'
  PROVE  \/ j \in rest /\ (ParamSkipped(j) \/ ModeDiverted(j) \/ ParamSet(j, TRUE))
         \/ j \in rest /\ (SecondSkipped(j) \/ SecondSet(j, TRUE))
         \/ \E ok \in BOOLEAN : ClearDBEnd(ok) /\ (ok \/ j \notin RfcKeys)
         \/ Still(j)
<1> DEFINE Goal ==
         \/ j \in rest /\ (ParamSkipped(j) \/ ModeDiverted(j) \/ ParamSet(j, TRUE))
         \/ j \in rest /\ (SecondSkipped(j) \/ SecondSet(j, TRUE))
         \/ \E ok \in BOOLEAN : ClearDBEnd(ok) /\ (ok \/ j \notin RfcKeys)
         \/ Still(j)
<1>1. ASSUME NEW k \in rest, FirstEntry(k) PROVE Goal
  <2>1. CASE k = j
    <3>1. ~ParamFails(j) /\ ~ParamSet(j, FALSE)
      BY DEF ParamFails, ParamSet
    <3> QED
      BY <1>1, <2>1, <3>1 DEF FirstEntry
  <2>2. CASE k # j
    <3>1. pc = "first" /\ pc' = pc /\ rest' = rest \ {k}
      BY <1>1 DEF FirstEntry, ParamSkipped, ParamFails, ModeDiverted, ParamSet, Entry
    <3>2. live'[j] = live[j] /\ (j \in touched' <=> j \in touched)
      BY <1>1, <2>2 DEF FirstEntry, ParamSkipped, ParamFails, ModeDiverted, ParamSet, Put, TypeOK
    <3> QED
      BY <2>2, <3>1, <3>2 DEF Still
  <2> QED
    BY <2>1, <2>2
<1>2. ASSUME NEW k \in rest, SecondSkipped(k) \/ \E ok \in BOOLEAN : SecondSet(k, ok) PROVE Goal
  <2>1. CASE k = j
    <3>1. ~SecondSet(j, FALSE)
      BY DEF SecondSet
    <3> QED
      BY <1>2, <2>1, <3>1
  <2>2. CASE k # j
    <3>1. pc = "second" /\ pc' = pc /\ rest' = rest \ {k}
      BY <1>2 DEF SecondSkipped, SecondSet, MapEntry, NextEntry
    <3>2. live'[j] = live[j] /\ (j \in touched' <=> j \in touched)
      BY <1>2, <2>2 DEF SecondSkipped, SecondSet, Put, TypeOK
    <3> QED
      BY <2>2, <3>1, <3>2 DEF Still
  <2> QED
    BY <2>1, <2>2
<1>3. CASE NextFeature
  <2>1. Still(j)
    BY <1>3 DEF NextFeature, Still
  <2> QED
    BY <2>1
<1>4. CASE SecondEnds \/ Finish(TRUE)
  <2>1. Still(j)
    BY <1>4 DEF SecondEnds, Finish, Still
  <2> QED
    BY <2>1
<1>5. ASSUME NEW ok \in BOOLEAN, ClearDBEnd(ok) PROVE Goal
  <2>1. ok \/ j \notin RfcKeys
    BY <1>5 DEF ClearDBEnd
  <2> QED
    BY <1>5, <2>1
<1>6. ASSUME NEW k \in Keys, NEW v \in Foreign, OtherSets(k, v) PROVE Goal
  <2>1. k # j /\ UNCHANGED <<pc, rest>>
    BY <1>6 DEF OtherSets
  <2>2. live'[j] = live[j] /\ (j \in touched' <=> j \in touched)
    BY <1>6, <2>1 DEF OtherSets, Put, TypeOK
  <2>3. Still(j)
    BY <2>1, <2>2 DEF Still
  <2> QED
    BY <2>3
<1>7. CASE Quiet
  <2>1. Still(j)
    BY <1>7 DEF Quiet, Still
  <2> QED
    BY <2>1
<1>8. ASSUME NEW off \in BOOLEAN, NEW ok \in BOOLEAN, ClearDB(off, ok) PROVE FALSE
  BY <1>8 DEF ClearDB, Applying
<1>9. ASSUME NEW s \in writes, NEW ok \in BOOLEAN, SelectionSet(s, ok) PROVE Goal
  <2>1. Still(j)
    BY <1>9 DEF SelectionSet, NextWrite, Still
  <2> QED
    BY <2>1
<1> QED
  BY <1>1, <1>2, <1>3, <1>4, <1>5, <1>6, <1>7, <1>8, <1>9, ApplyingStep

(***************************************************************************)
(* The parts of the invariant that say what has been applied.              *)
(***************************************************************************)

\* What is said of the application of a configuration holds when it begins.
LEMMA Begins ==
  ASSUME TypeOK, ControlInv, NEW off \in BOOLEAN, NEW ok \in BOOLEAN, ClearDB(off, ok),
         pc' = "first"
  PROVE  /\ UntouchedInv' /\ FirstInv' /\ FallbackInv' /\ SecondInv'
         /\ AskedInv' /\ ReasonInv' /\ WanInv'
<1>1. /\ conf' = conf /\ before' = live /\ index' = 0 /\ rest' = {}
      /\ touched' = (IF ok THEN {} ELSE touched)
      /\ dropped' = (IF ok THEN {} ELSE RfcKeys)
      /\ \A k \in Keys \ SupportKeys : live'[k] = live[k]
  BY DEF ClearDB, Failure
<1>2. ~rfcRebootCronNeeded'
  BY DEF ClearDB, ControlInv
<1>3. \A k \in Keys : \A i \in Entries(k)' : ~Done(k, i)'
  <2> SUFFICES ASSUME NEW k \in Keys, NEW i \in Entries(k)' PROVE ~Done(k, i)'
    OBVIOUS
  <2>1. i \in 1 .. Len(Features)
    BY <1>1, SameConf, EntriesType
  <2> QED
    BY <1>1, <2>1 DEF Done, Applying
<1>4. UntouchedInv'
  BY <1>1 DEF UntouchedInv
<1>5. FirstInv'
  BY <1>3 DEF FirstInv
<1>6. FallbackInv' /\ SecondInv'
  BY <1>1 DEF FallbackInv, SecondInv
<1>7. ASSUME NEW k \in Keys, NEW i \in FirstPass(conf'), Naming(conf', k) = {i} PROVE ~Done(k, i)'
  BY <1>3, <1>7 DEF Entries
<1>8. AskedInv'
  BY <1>7 DEF AskedInv
<1>9. ReasonInv'
  BY <1>2 DEF ReasonInv
<1>10. UnifyKey \in Keys \ SupportKeys /\ ModeKey \in Keys
  BY GatewayAssumption
<1>11. WanInv'
  BY <1>1, <1>7, <1>10 DEF WanInv
<1> QED
  BY <1>4, <1>5, <1>6, <1>8, <1>9, <1>11

\* The step of an entry takes it.
LEMMA EntryTaken ==
  ASSUME TypeOK, ControlInv, NEW k \in rest,
         ParamSkipped(k) \/ ModeDiverted(k) \/ ParamSet(k, TRUE)
  PROVE  /\ pc = "first" /\ pc' = "first" /\ conf' = conf /\ index' = index
         /\ k \in Keys /\ k \notin rest'
         /\ FirstValue(k) = Datum(index, k) /\ Datum(index, k) \in Texts
         /\ index \in Entries(k) /\ index \in Naming(conf, k)
         /\ ~Done(k, index) /\ Done(k, index)'
         /\ \A i \in Entries(k) : Done(k, i) => i < index
<1>1. pc = "first" /\ pc' = "first" /\ conf' = conf /\ index' = index /\ rest' = rest \ {k}
  BY DEF ParamSkipped, ModeDiverted, ParamSet, Entry
<1>2. /\ k \in Keys
      /\ FirstValue(k) = Datum(index, k) /\ Datum(index, k) \in Texts
      /\ index \in Entries(k) /\ index \in Naming(conf, k)
      /\ ~Done(k, index)
  BY <1>1, EntryType
<1>3. Done(k, index)'
  BY <1>1 DEF Done
<1>4. \A i \in Entries(k) : Done(k, i) => i < index
  BY <1>1, <1>2 DEF Done, Applying
<1> QED
  BY <1>1, <1>2, <1>3, <1>4

\* The step of an entry of the second pass.
LEMMA MapEntryTaken ==
  ASSUME TypeOK, ControlInv, CanonicalInv, NEW k \in rest,
         SecondSkipped(k) \/ SecondSet(k, TRUE)
  PROVE  /\ pc = "second" /\ pc' = "second" /\ conf' = conf
         /\ k \in Named(SecondMap)
         /\ live'[k] = Canonical(k, SecondMap[k])
<1>1. pc = "second" /\ pc' = "second" /\ conf' = conf
  BY DEF SecondSkipped, SecondSet, MapEntry, NextEntry
<1>2. k \in Named(SecondMap)
  BY <1>1 DEF ControlInv
<1>3. k \in Keys /\ SecondValue(k) = SecondMap[k]
  BY <1>2, MapEntryType
<1>4. CASE SecondSkipped(k)
  <2>1. live' = live /\ SecondMap[k] = live[k]
    BY <1>3, <1>4 DEF SecondSkipped, ConfigValueChange
  <2> QED
    BY <1>1, <1>2, <1>3, <2>1 DEF CanonicalInv
<1>5. CASE SecondSet(k, TRUE)
  BY <1>1, <1>2, <1>3, <1>5 DEF SecondSet, Put, TypeOK
<1> QED
  BY <1>4, <1>5

\* Before its first entry a parameter has the value it had before the run.
LEMMA UntouchedStep ==
  ASSUME TypeOK, ControlInv, UntouchedInv, [Next]_vars
  PROVE  UntouchedInv'
<1> SUFFICES ASSUME pc' = "first", NEW k \in Keys \ (dropped' \cup SupportKeys),
                    \A i \in Entries(k)' : ~Done(k, i)'
             PROVE  live'[k] = before'[k]
  BY DEF UntouchedInv
<1>1. CASE \E off \in BOOLEAN, ok \in BOOLEAN : ClearDB(off, ok)
  <2>1. UntouchedInv'
    BY <1>1, Begins
  <2> QED
    BY <2>1 DEF UntouchedInv
<1>2. CASE ~\E off \in BOOLEAN, ok \in BOOLEAN : ClearDB(off, ok)
  <2>1. /\ pc \in Applying /\ pc' \in Applying /\ pc = "first"
        /\ conf' = conf /\ before' = before /\ k \notin dropped
    BY <1>2, SameRun DEF Applying
  <2>2. Entries(k)' = Entries(k)
    BY <2>1, SameConf
  <2>3. \A i \in Entries(k) : ~Done(k, i)
    BY <2>1, <2>2, DoneStep
  <2>4. live[k] = before[k]
    BY <2>1, <2>3 DEF UntouchedInv
  <2>5. ~(k \in rest /\ (ParamSkipped(k) \/ ModeDiverted(k) \/ ParamSet(k, TRUE)))
    BY <2>2, EntryTaken
  <2>6. ~SecondSkipped(k) /\ ~SecondSet(k, TRUE) /\ ~\E ok \in BOOLEAN : ClearDBEnd(ok)
    BY <2>1 DEF SecondSkipped, SecondSet, MapEntry, ClearDBEnd
  <2>7. Still(k)
    BY <2>1, <2>5, <2>6, ParameterStep
  <2> QED
    BY <2>1, <2>4, <2>7 DEF Still
<1> QED
  BY <1>1, <1>2

\* After the last of its entries a parameter has the value of that one.
LEMMA FirstStep ==
  ASSUME TypeOK, ControlInv, CanonicalInv, FirstInv, [Next]_vars
  PROVE  FirstInv'
<1> SUFFICES ASSUME pc' \in Applying,
                    NEW k \in Keys \ (dropped' \cup {UpnpKey, ModeKey}), NEW i \in Entries(k)',
                    Done(k, i)', \A j \in Entries(k)' : j <= i, Convertible(k, Datum(i, k)'),
                    pc' \in {"first", "end"} \/ (SecondMap[k] = None)'
             PROVE  /\ live'[k] = Canonical(k, Datum(i, k)')
                    /\ pc' \in {"first", "end"} /\ k \in RfcKeys => k \in touched'
  BY DEF FirstInv, Convertible, Canonical
<1>1. CASE \E off \in BOOLEAN, ok \in BOOLEAN : ClearDB(off, ok)
  <2>1. pc' = "first"
    BY <1>1 DEF ClearDB, Failure, Applying
  <2>2. FirstInv'
    BY <1>1, <2>1, Begins
  <2> QED
    BY <2>2 DEF FirstInv, Convertible, Canonical
<1>2. CASE ~\E off \in BOOLEAN, ok \in BOOLEAN : ClearDB(off, ok)
  <2>1. pc \in Applying /\ conf' = conf /\ k \in Keys \ (dropped \cup {UpnpKey, ModeKey})
    BY <1>2, SameRun
  <2>2. /\ Entries(k)' = Entries(k) /\ Datum(i, k)' = Datum(i, k)
        /\ SecondMap' = SecondMap /\ (SecondMap[k])' = SecondMap[k]
    BY <2>1, SameConf
  <2>3. CASE k \in rest /\ (ParamSkipped(k) \/ ModeDiverted(k) \/ ParamSet(k, TRUE))
    <3>1. i = index /\ FirstValue(k) = Datum(i, k) /\ k \in rest
      <4>1. index \in Entries(k) /\ FirstValue(k) = Datum(index, k) /\ (Done(k, i) => i < index)
        BY <2>2, <2>3, EntryTaken
      <4>2. index <= i
        BY <2>2, <4>1
      <4>3. i \in Nat /\ index \in Nat
        BY <2>2, EntriesType DEF TypeOK
      <4>4. i = index
        BY <2>1, <2>2, <4>1, <4>2, <4>3, DoneStep
      <4> QED
        BY <2>3, <4>1, <4>4
    <3>2. CASE ParamSkipped(k)
      <4>1. live' = live /\ k \notin RfcKeys /\ Datum(i, k) = live[k]
        BY <2>1, <2>2, <3>1, <3>2 DEF ParamSkipped, NotApplied
      <4> QED
        BY <2>2, <4>1 DEF CanonicalInv
    <3>3. CASE ParamSet(k, TRUE)
      BY <2>2, <3>1, <3>3 DEF ParamSet, Put, TypeOK
    <3>4. CASE ModeDiverted(k)
      BY <2>1, <3>4 DEF ModeDiverted, Diverted
    <3> QED
      BY <2>3, <3>2, <3>3, <3>4
  <2>4. ASSUME pc = "end" \/ ~(k \in rest /\ (ParamSkipped(k) \/ ModeDiverted(k) \/ ParamSet(k, TRUE))),
               pc \in {"first", "end"} \/ SecondMap[k] = None
        PROVE  /\ live[k] = Canonical(k, Datum(i, k))
               /\ pc \in {"first", "end"} /\ k \in RfcKeys => k \in touched
    <3>1. Done(k, i)
      <4>1. ASSUME ~Done(k, i) PROVE FALSE
        <5>1. pc = "first" /\ k \in rest /\ k \notin rest'
          BY <2>1, <2>2, <4>1, DoneStep
        <5>2. ~Still(k) /\ ~SecondSkipped(k) /\ ~SecondSet(k, TRUE) /\ ~\E ok \in BOOLEAN : ClearDBEnd(ok)
          BY <5>1 DEF Still, SecondSkipped, SecondSet, MapEntry, ClearDBEnd
        <5> QED
          BY <2>1, <2>4, <5>1, <5>2, ParameterStep
      <4> QED
        BY <4>1
    <3> QED
      BY <2>1, <2>2, <2>4, <3>1 DEF FirstInv
  <2>5. CASE k \in rest /\ (SecondSkipped(k) \/ SecondSet(k, TRUE))
    <3>1. pc' = "second" /\ k \in Named(SecondMap)
      BY <2>5, MapEntryTaken
    <3> QED
      BY <2>2, <3>1 DEF Named
  <2>6. CASE \E ok \in BOOLEAN : ClearDBEnd(ok)
    <3>1. PICK ok \in BOOLEAN : ClearDBEnd(ok)
      BY <2>6
    <3>2. pc = "end" /\ pc' = "second"
      BY <3>1 DEF ClearDBEnd
    <3>3. live[k] = Canonical(k, Datum(i, k)) /\ (k \in RfcKeys => k \in touched)
      BY <2>4, <3>2
    <3>4. live'[k] = live[k]
      BY <3>1, <3>3 DEF ClearDBEnd
    <3> QED
      BY <2>2, <3>2, <3>3, <3>4
  <2>7. CASE /\ Still(k)
             /\ ~(k \in rest /\ (ParamSkipped(k) \/ ModeDiverted(k) \/ ParamSet(k, TRUE)))
    <3>1. /\ live'[k] = live[k] /\ (k \in touched' <=> k \in touched)
          /\ pc' \in {"first", "end"} => pc \in {"first", "end"}
      BY <2>7 DEF Still
    <3>2. pc \in {"first", "end"} \/ SecondMap[k] = None
      BY <2>2, <3>1
    <3> QED
      BY <2>2, <2>4, <2>7, <3>1, <3>2
  <2> QED
    BY <2>1, <2>3, <2>5, <2>6, <2>7, ParameterStep
<1> QED
  BY <1>1, <1>2

\* RFC parameters that the configuration does not name fall back.
LEMMA FallbackStep ==
  ASSUME TypeOK, ControlInv, CanonicalInv, FallbackInv, [Next]_vars
  PROVE  FallbackInv'
<1> SUFFICES ASSUME pc' \in Applying, NEW k \in RfcKeys \ dropped', Naming(conf', k) = {}
             PROVE  IF pc' \in {"first", "end"} THEN k \notin touched' ELSE live'[k] = Default[k]
  BY DEF FallbackInv
<1>1. CASE \E off \in BOOLEAN, ok \in BOOLEAN : ClearDB(off, ok)
  <2>1. pc' = "first"
    BY <1>1 DEF ClearDB, Failure, Applying
  <2>2. FallbackInv'
    BY <1>1, <2>1, Begins
  <2> QED
    BY <2>2 DEF FallbackInv
<1>2. CASE ~\E off \in BOOLEAN, ok \in BOOLEAN : ClearDB(off, ok)
  <2>1. pc \in Applying /\ conf' = conf /\ k \in RfcKeys \ dropped /\ k \in Keys
    BY <1>2, SameRun, GatewayAssumption
  <2>2. IF pc \in {"first", "end"} THEN k \notin touched ELSE live[k] = Default[k]
    BY <2>1 DEF FallbackInv
  <2>3. ~(k \in rest /\ (ParamSkipped(k) \/ ModeDiverted(k) \/ ParamSet(k, TRUE)))
    BY <2>1, EntryTaken
  <2>4. ~(k \in rest /\ (SecondSkipped(k) \/ SecondSet(k, TRUE)))
    BY <2>1, MapEntryTaken, MapEntryType
  <2>5. CASE \E ok \in BOOLEAN : ClearDBEnd(ok) /\ (ok \/ k \notin RfcKeys)
    BY <2>1, <2>2, <2>5 DEF ClearDBEnd
  <2>6. CASE Still(k)
    BY <2>2, <2>6 DEF Still, Applying
  <2> QED
    BY <2>1, <2>3, <2>4, <2>5, <2>6, ParameterStep
<1> QED
  BY <1>1, <1>2

\* The second pass sets what it finds.
LEMMA SecondStep ==
  ASSUME TypeOK, ControlInv, CanonicalInv, SecondInv, [Next]_vars
  PROVE  SecondInv'
<1> SUFFICES ASSUME pc' \in {"second", "finish", "store"}, NEW k \in Named(SecondMap') \ dropped',
                    pc' = "second" => k \notin rest'
             PROVE  live'[k] = Canonical(k, SecondMap'[k])
  BY DEF SecondInv, Canonical
<1>1. ~\E off \in BOOLEAN, ok \in BOOLEAN : ClearDB(off, ok)
  BY DEF ClearDB, Failure
<1>2. pc' \in Applying
  BY DEF Applying
<1>3. pc \in Applying /\ conf' = conf /\ dropped \subseteq dropped'
  BY <1>1, <1>2, SameRun
<1>4. SecondMap' = SecondMap
  BY <1>3, SameConf
<1>5. k \in Keys /\ k \in Named(SecondMap) \ dropped /\ k \in Keys \ dropped'
  BY <1>3, <1>4 DEF Named
<1>6. ~(k \in rest /\ (ParamSkipped(k) \/ ModeDiverted(k) \/ ParamSet(k, TRUE)))
  BY EntryTaken
<1>7. CASE k \in rest /\ (SecondSkipped(k) \/ SecondSet(k, TRUE))
  BY <1>4, <1>7, MapEntryTaken
<1>8. CASE \E ok \in BOOLEAN : ClearDBEnd(ok)
  <2>1. pc' = "second" /\ rest' = Named(SecondMap)
    BY <1>8 DEF ClearDBEnd
  <2> QED
    BY <1>5, <2>1
<1>9. CASE Still(k)
  <2>1. live'[k] = live[k] /\ pc \in {"second", "finish", "store"} /\ (pc = "second" => k \notin rest)
    BY <1>9 DEF Still
  <2> QED
    BY <1>4, <1>5, <2>1 DEF SecondInv
<1> QED
  BY <1>2, <1>3, <1>5, <1>6, <1>7, <1>8, <1>9, ParameterStep

\* An entry that must ask for a reboot asks for it.
LEMMA AskedStep ==
  ASSUME TypeOK, ControlInv, CanonicalInv, UntouchedInv, AskedInv, [Next]_vars
  PROVE  AskedInv'
<1> SUFFICES ASSUME pc' \in Applying,
                    NEW k \in Keys \ (dropped' \cup SupportKeys \cup {UpnpKey, ModeKey}),
                    NEW i \in FirstPass(conf'),
                    Naming(conf', k) = {i}, Content[conf'][i].immediate,
                    Convertible(k, Datum(i, k)'), Canonical(k, Datum(i, k)') # before'[k],
                    Done(k, i)'
             PROVE  rfcRebootCronNeeded'
  BY DEF AskedInv, Convertible, Canonical
<1>1. CASE \E off \in BOOLEAN, ok \in BOOLEAN : ClearDB(off, ok)
  <2>1. pc' = "first"
    BY <1>1 DEF ClearDB, Failure, Applying
  <2>2. AskedInv'
    BY <1>1, <2>1, Begins
  <2> QED
    BY <2>2 DEF AskedInv, Convertible, Canonical
<1>2. CASE ~\E off \in BOOLEAN, ok \in BOOLEAN : ClearDB(off, ok)
  <2>1. /\ pc \in Applying /\ conf' = conf /\ before' = before
        /\ k \in Keys \ (dropped \cup SupportKeys \cup {UpnpKey, ModeKey})
        /\ rfcRebootCronNeeded => rfcRebootCronNeeded'
    BY <1>2, SameRun
  <2>2. Datum(i, k)' = Datum(i, k) /\ Entries(k) = {i}
    BY <2>1, SameConf DEF Entries
  <2>3. CASE Done(k, i)
    BY <2>1, <2>2, <2>3 DEF AskedInv, Canonical, Convertible
  <2>4. CASE ~Done(k, i)
    <3>1. pc = "first" /\ k \in rest /\ k \notin rest' /\ i = index
      BY <2>1, <2>2, <2>4, DoneStep
    <3>2. live[k] = before[k]
      BY <2>1, <2>2, <2>4, <3>1 DEF UntouchedInv
    <3>3. ~Still(k) /\ ~SecondSkipped(k) /\ ~SecondSet(k, TRUE) /\ ~\E ok \in BOOLEAN : ClearDBEnd(ok)
      BY <3>1 DEF Still, SecondSkipped, SecondSet, MapEntry, ClearDBEnd
    <3>4. ParamSkipped(k) \/ ModeDiverted(k) \/ ParamSet(k, TRUE)
      BY <2>1, <3>3, ParameterStep
    <3>5. FirstValue(k) = Datum(i, k)
      BY <3>1, <3>4, EntryTaken
    <3>6. ~ModeDiverted(k)
      BY <2>1 DEF ModeDiverted, Diverted
    <3>9. FirstValue(k) # live[k]
      <4>1. Canonical(k, live[k]) = live[k] /\ Canonical(k, Datum(i, k)) # live[k]
        BY <2>1, <2>2, <3>2 DEF CanonicalInv
      <4> QED
        BY <3>5, <4>1
    <3>7. ~ParamSkipped(k)
      BY <2>1, <2>2, <3>9, <3>5 DEF ParamSkipped, NotApplied
    <3>8. Reboots(k, FirstValue(k))
      BY <2>1, <2>2, <3>1, <3>9, <3>5 DEF Reboots, Features
    <3> QED
      BY <3>4, <3>6, <3>7, <3>8, Zenon DEF ParamSet
  <2> QED
    BY <2>3, <2>4
<1> QED
  BY <1>1, <1>2

\* A reason for a reboot lasts until the run is over.
LEMMA ReasonLasts ==
  ASSUME TypeOK, ControlInv, CanonicalInv, [Next]_vars, pc \in Applying, pc' \in Applying,
         conf' = conf, before' = before,
         NEW k \in Keys \ dropped', NEW i \in Naming(conf, k), ChangedBy(k, i)
  PROVE  ChangedBy(k, i)'
<1>1. /\ Naming(conf, k) = {i}
      /\ live[k] = Datum(i, k) /\ Canonical(k, Datum(i, k)) = Datum(i, k) /\ live[k] # before[k]
      /\ pc \in {"first", "end"} /\ k \in RfcKeys => k \in touched
  BY DEF ChangedBy
<1>2. Datum(i, k)' = Datum(i, k) /\ Naming(conf, k)' = Naming(conf, k)
  BY SameConf
<1>3. SUFFICES /\ live'[k] = live[k]
               /\ pc' \in {"first", "end"} /\ k \in RfcKeys => k \in touched'
  BY <1>1, <1>2 DEF ChangedBy, Canonical
<1>4. CASE k \in rest /\ (ParamSkipped(k) \/ ModeDiverted(k) \/ ParamSet(k, TRUE))
  <2>1. pc = "first" /\ FirstValue(k) = Datum(i, k)
    BY <1>1, <1>4, EntryTaken
  <2> QED
    BY <1>1, <1>4, <2>1 DEF ParamSkipped, ModeDiverted, ParamSet, Put, TypeOK
<1>5. CASE k \in rest /\ (SecondSkipped(k) \/ SecondSet(k, TRUE))
  <2>1. pc' = "second" /\ live'[k] = Canonical(k, SecondMap[k]) /\ k \in Named(SecondMap)
    BY <1>5, MapEntryTaken
  <2>2. SecondMap[k] = Datum(i, k)
    BY <1>1, <2>1, MapEntryType
  <2> QED
    BY <1>1, <2>1, <2>2
<1>6. CASE \E ok \in BOOLEAN : ClearDBEnd(ok)
  BY <1>1, <1>6 DEF ClearDBEnd
<1>7. CASE Still(k)
  BY <1>1, <1>7 DEF Still
<1> QED
  BY <1>4, <1>5, <1>6, <1>7, ParameterStep

\* The reasons one parameter may give.
Reason(k) ==
  \/ k \in dropped
  \/ k \in SupportKeys /\ Naming(conf, k) # {}
  \/ \E i, j \in Naming(conf, k) : i # j
  \/ \E i \in Naming(conf, k) : Datum(i, k) # Canonical(k, Datum(i, k))
  \/ \E i \in Naming(conf, k) : ChangedBy(k, i)

\* Who asks for a reboot has a reason.
LEMMA ReasonStep ==
  ASSUME TypeOK, ControlInv, CanonicalInv, UntouchedInv, ReasonInv, [Next]_vars
  PROVE  ReasonInv'
<1> SUFFICES ASSUME pc' \in Applying, rfcRebootCronNeeded'
             PROVE  \E k \in Keys : Reason(k)'
  BY DEF ReasonInv, Reason
<1>1. CASE \E off \in BOOLEAN, ok \in BOOLEAN : ClearDB(off, ok)
  BY <1>1 DEF ClearDB, ControlInv
<1>2. CASE ~\E off \in BOOLEAN, ok \in BOOLEAN : ClearDB(off, ok)
  <2>1. pc \in Applying /\ conf' = conf /\ before' = before /\ dropped \subseteq dropped'
    BY <1>2, SameRun
  <2>2. \A k : Naming(conf, k)' = Naming(conf, k) /\ \A i : Datum(i, k)' = Datum(i, k)
    BY <2>1, SameConf
  <2>3. CASE rfcRebootCronNeeded
    <3>1. PICK k \in Keys : Reason(k)
      BY <2>1, <2>3 DEF ReasonInv, Reason
    <3>2. CASE k \in dropped'
      BY <3>2 DEF Reason
    <3>3. CASE k \notin dropped'
      <4>1. CASE \E i \in Naming(conf, k) : ChangedBy(k, i)
        BY <2>1, <2>2, <3>3, <4>1, ReasonLasts DEF Reason
      <4>2. CASE ~\E i \in Naming(conf, k) : ChangedBy(k, i)
        BY <2>1, <2>2, <3>1, <3>3, <4>2 DEF Reason, Canonical
      <4> QED
        BY <4>1, <4>2
    <3> QED
      BY <3>2, <3>3
  <2>4. CASE ~rfcRebootCronNeeded
    <3>1. PICK k \in rest, ok \in BOOLEAN : ParamSet(k, ok)
      <4>1. ASSUME NEW k \in rest, FirstEntry(k) PROVE \E ok \in BOOLEAN : ParamSet(k, ok)
        BY <2>4, <4>1, Zenon DEF FirstEntry, ParamSkipped, ParamFails, ModeDiverted
      <4>2. \E k \in rest : FirstEntry(k)
        BY <1>2, <2>4, ApplyingStep, Zenon
           DEF SecondSkipped, SecondSet, NextEntry, NextFeature, SecondEnds, Finish, ClearDBEnd,
               OtherSets, Quiet, SelectionSet, NextWrite
      <4> QED
        BY <4>1, <4>2
    <3>2. /\ Reboots(k, FirstValue(k)) /\ pc = "first" /\ k \in Keys
      BY <2>4, <3>1, Zenon DEF ParamSet, Entry, TypeOK
    <3>3. CASE ~ok \/ k \in dropped
      BY <2>1, <3>1, <3>2, <3>3 DEF ParamSet, Reason
    <3>4. CASE ok /\ k \notin dropped
      <4>1. ParamSet(k, TRUE) /\ dropped' = dropped /\ index' = index
        BY <3>1, <3>4 DEF ParamSet, Entry
      <4>2. /\ FirstValue(k) = Datum(index, k) /\ Datum(index, k) \in Texts
            /\ index \in Entries(k) /\ index \in Naming(conf, k) /\ ~Done(k, index)
        BY <3>1, <4>1, EntryTaken
      <4>3. ASSUME k \notin SupportKeys, Naming(conf, k) = {index},
                   Canonical(k, Datum(index, k)) = Datum(index, k)
            PROVE  ChangedBy(k, index)'
        <5>1. Entries(k) = {index}
          BY <4>2, <4>3 DEF Entries
        <5>2. live[k] = before[k]
          BY <3>2, <3>4, <4>2, <4>3, <5>1 DEF UntouchedInv
        <5>3. live'[k] = Datum(index, k) /\ k \in touched' /\ Datum(index, k) # live[k]
          BY <3>2, <4>1, <4>2, <4>3 DEF ParamSet, Put, TypeOK, Reboots
        <5> QED
          BY <2>1, <2>2, <4>1, <4>3, <5>2, <5>3 DEF ChangedBy, Canonical
      <4>4. CASE \E i, j \in Naming(conf, k) : i # j
        BY <2>2, <3>2, <4>4 DEF Reason
      <4>5. CASE ~\E i, j \in Naming(conf, k) : i # j
        <5>1. Naming(conf, k) = {index}
          BY <4>2, <4>5
        <5>2. CASE k \in SupportKeys
          BY <2>2, <3>2, <5>1, <5>2 DEF Reason
        <5>3. CASE Canonical(k, Datum(index, k)) # Datum(index, k)
          BY <2>2, <3>2, <4>2, <5>3 DEF Reason, Canonical
        <5>4. CASE k \notin SupportKeys /\ Canonical(k, Datum(index, k)) = Datum(index, k)
          BY <2>2, <3>2, <4>1, <4>2, <4>3, <5>1, <5>4 DEF Reason
        <5> QED
          BY <5>2, <5>3, <5>4
      <4> QED
        BY <4>4, <4>5
    <3> QED
      BY <3>3, <3>4
  <2> QED
    BY <2>3, <2>4
<1> QED
  BY <1>1, <1>2

\* The mode goes to the WanManager.
LEMMA WanStep ==
  ASSUME TypeOK, ControlInv, WanInv, [Next]_vars
  PROVE  WanInv'
<1>1. UnifyKey \in Keys /\ ModeKey \in Keys /\ Kind[UnifyKey] = "boolean"
  BY GatewayAssumption
<1> SUFFICES ASSUME pc' \in Applying, before'[UnifyKey] = True, UnifyKey \notin dropped',
                    \A j \in Naming(conf', UnifyKey) : Datum(j, UnifyKey)' = True
             PROVE  /\ pc' = "first" => live'[UnifyKey] = True
                    /\ \A i \in FirstPass(conf') :
                         Naming(conf', ModeKey) = {i} /\ ModeKey \notin dropped' /\ Done(ModeKey, i)'
                         => \A s \in Selectors \ writes' :
                              wan'[s] = SelectionOf(Datum(i, ModeKey)')[s]
  BY DEF WanInv, SelectionOf
<1>2. CASE \E off \in BOOLEAN, ok \in BOOLEAN : ClearDB(off, ok)
  <2>1. pc' = "first"
    BY <1>2 DEF ClearDB, Failure, Applying
  <2>2. WanInv'
    BY <1>2, <2>1, Begins
  <2> QED
    BY <2>2 DEF WanInv, SelectionOf
<1>3. CASE ~\E off \in BOOLEAN, ok \in BOOLEAN : ClearDB(off, ok)
  <2>1. /\ pc \in Applying /\ conf' = conf /\ before' = before /\ dropped \subseteq dropped'
        /\ pc' = "first" => pc = "first"
    BY <1>3, SameRun
  <2>2. \A k : Naming(conf, k)' = Naming(conf, k) /\ \A i : Datum(i, k)' = Datum(i, k)
    BY <2>1, SameConf
  <2>3. /\ pc = "first" => live[UnifyKey] = True
        /\ \A i \in FirstPass(conf) :
             Naming(conf, ModeKey) = {i} /\ ModeKey \notin dropped /\ Done(ModeKey, i)
             => \A s \in Selectors \ writes : wan[s] = SelectionOf(Datum(i, ModeKey))[s]
    BY <2>1, <2>2 DEF WanInv
  <2>4. ASSUME pc' = "first" PROVE live'[UnifyKey] = True
    <3>1. pc = "first" /\ live[UnifyKey] = True
      BY <2>1, <2>3, <2>4
    <3>2. CASE UnifyKey \in rest /\ (ParamSkipped(UnifyKey) \/ ModeDiverted(UnifyKey) \/ ParamSet(UnifyKey, TRUE))
      <4>1. FirstValue(UnifyKey) = True
        BY <2>1, <2>2, <3>2, EntryTaken
      <4>2. Canonical(UnifyKey, True) = True
        BY <1>1 DEF Canonical
      <4> QED
        BY <1>1, <3>1, <3>2, <4>1, <4>2 DEF ParamSkipped, ModeDiverted, ParamSet, Put, TypeOK
    <3>3. ~SecondSkipped(UnifyKey) /\ ~SecondSet(UnifyKey, TRUE) /\ ~\E ok \in BOOLEAN : ClearDBEnd(ok)
      BY <3>1 DEF SecondSkipped, SecondSet, MapEntry, ClearDBEnd
    <3>4. CASE Still(UnifyKey)
      BY <3>1, <3>4 DEF Still
    <3> QED
      BY <1>1, <2>1, <3>2, <3>3, <3>4, ParameterStep
  <2>5. ASSUME NEW i \in FirstPass(conf), Naming(conf, ModeKey) = {i}, ModeKey \notin dropped',
               Done(ModeKey, i)'
        PROVE  \A s \in Selectors \ writes' : wan'[s] = SelectionOf(Datum(i, ModeKey))[s]
    <3>1. i \in Entries(ModeKey)
      BY <2>5 DEF Entries
    <3>2. CASE \E k \in rest : ModeDiverted(k)
      BY <3>2 DEF ModeDiverted
    <3>3. ASSUME NEW t \in writes, NEW ok \in BOOLEAN, SelectionSet(t, ok)
          PROVE  \A s \in Selectors \ writes' : wan'[s] = SelectionOf(Datum(i, ModeKey))[s]
      <4>1. ok = TRUE /\ writes' = writes \ {t} /\ rest' = rest
        BY <2>5, <3>3 DEF SelectionSet, NextWrite
      <4>2. index = i
        BY <2>5, <3>3 DEF ControlInv
      <4>3. FirstValue(ModeKey) = Datum(i, ModeKey)
        BY <4>2 DEF FirstValue, Datum, Features
      <4>4. Done(ModeKey, i)
        BY <1>1, <2>1, <2>5, <3>1, <4>1, DoneStep
      <4>5. wan' = [wan EXCEPT ![t] = SelectionOf(Datum(i, ModeKey))[t]]
        BY <3>3, <4>1, <4>3 DEF SelectionSet
      <4>6. \A s \in Selectors \ writes : wan[s] = SelectionOf(Datum(i, ModeKey))[s]
        BY <2>1, <2>3, <2>5, <4>4
      <4>7. DOMAIN wan = Selectors
        BY DEF TypeOK, Selections
      <4> HIDE DEF SelectionOf
      <4> QED
        BY <4>1, <4>5, <4>6, <4>7
    <3>4. CASE /\ ~\E k \in rest : ModeDiverted(k)
               /\ ~\E s \in writes, ok \in BOOLEAN : SelectionSet(s, ok)
      <4>1. wan' = wan /\ writes' = writes
        <5>1. ASSUME NEW k \in rest, FirstEntry(k) PROVE wan' = wan /\ writes' = writes
          BY <3>4, <5>1 DEF FirstEntry, ParamSkipped, ParamFails, ParamSet
        <5> QED
          BY <1>3, <3>4, <5>1, ApplyingStep
             DEF SecondSkipped, SecondSet, MapEntry, NextEntry, NextFeature, SecondEnds, Finish,
                 ClearDBEnd, OtherSets, Quiet
      <4>2. Done(ModeKey, i)
        <5> SUFFICES ASSUME ~Done(ModeKey, i) PROVE FALSE
          OBVIOUS
        <5>1. pc = "first" /\ ModeKey \in rest /\ ModeKey \notin rest'
          BY <1>1, <2>1, <2>5, <3>1, DoneStep
        <5>2. live[UnifyKey] = True
          BY <2>3, <5>1
        <5>3. ~ParamSkipped(ModeKey) /\ ~ParamSet(ModeKey, TRUE)
          BY <5>2 DEF ParamSkipped, ParamSet, Diverted
        <5>4. /\ ~Still(ModeKey) /\ ~SecondSkipped(ModeKey) /\ ~SecondSet(ModeKey, TRUE)
              /\ ~\E ok \in BOOLEAN : ClearDBEnd(ok)
          BY <5>1 DEF Still, SecondSkipped, SecondSet, MapEntry, ClearDBEnd
        <5> QED
          BY <1>1, <2>1, <2>5, <3>4, <5>3, <5>4, ParameterStep
      <4> QED
        BY <2>1, <2>3, <2>5, <4>1, <4>2
    <3> QED
      BY <3>2, <3>3, <3>4
  <2> QED
    BY <2>1, <2>2, <2>4, <2>5
<1> QED
  BY <1>2, <1>3

\* At the end of a run every parameter has what its configuration says.
LEMMA AppliedAtStore ==
  ASSUME TypeOK, FirstInv, FallbackInv, SecondInv, pc = "store", NEW k \in Keys \ dropped
  PROVE  /\ SecondMaps[conf][k] # None => live[k] = Canonical(k, SecondMaps[conf][k])
         /\ SecondMaps[conf][k] = None /\ FirstMaps[conf][k] # None
               /\ k \notin {UpnpKey, ModeKey} /\ Convertible(k, FirstMaps[conf][k])
            => live[k] = Canonical(k, FirstMaps[conf][k])
         /\ k \in RfcKeys /\ Naming(conf, k) = {} => live[k] = Default[k]
<1>1. conf \in Configs
  BY DEF TypeOK
<1>2. SecondMaps[conf][k] # None => live[k] = Canonical(k, SecondMaps[conf][k])
  BY DEF SecondInv, SecondMap, Named
<1>3. ASSUME SecondMaps[conf][k] = None, FirstMaps[conf][k] # None, k \notin {UpnpKey, ModeKey},
             Convertible(k, FirstMaps[conf][k])
      PROVE  live[k] = Canonical(k, FirstMaps[conf][k])
  <2>1. PICK i \in FirstPass(conf) :
          /\ i \in Naming(conf, k)
          /\ \A j \in FirstPass(conf) : j \in Naming(conf, k) => j <= i
          /\ FirstMaps[conf][k] = Content[conf][i].data[k]
    BY <1>1, <1>3, FirstMapValue
  <2>2. i \in Entries(k) /\ (\A j \in Entries(k) : j <= i) /\ Datum(i, k) = FirstMaps[conf][k]
    BY <2>1 DEF Entries, Datum
  <2>3. Done(k, i) /\ pc \in Applying
    BY DEF Done, Applying
  <2> QED
    BY <1>3, <2>2, <2>3 DEF FirstInv, SecondMap
<1>4. k \in RfcKeys /\ Naming(conf, k) = {} => live[k] = Default[k]
  BY DEF FallbackInv, Applying
<1> QED
  BY <1>2, <1>3, <1>4

\* The hash stands for the parameters, as long as it and they stay.
LEMMA HashKept ==
  ASSUME TypeOK, HashMeansApplied, pc \notin Applying, hash' = hash, dropped \subseteq dropped',
         \A k \in Keys \ dropped' : live'[k] = live[k]
  PROVE  HashMeansApplied'
  BY DEF HashMeansApplied, Applied, Canonical, Convertible

\* Whatever the step, the hash in RAM stands for the parameters.
LEMMA HashStep ==
  ASSUME TypeOK, FirstInv, FallbackInv, SecondInv, HashMeansApplied, [Next]_vars
  PROVE  HashMeansApplied'
<1> SUFFICES ASSUME pc' \notin Applying, hash' \in Configs, dropped' # Keys
             PROVE  HashMeansApplied'
  BY DEF HashMeansApplied, Applied, TypeOK
<1>1. ASSUME NEW k \in rest, EntryStep(k) PROVE HashMeansApplied'
  <2>1. pc' \in Applying \/ dropped' = Keys
    BY <1>1 DEF EntryStep, ParamSkipped, ParamFails, ModeDiverted, ParamSet, Entry, SecondSkipped,
                SecondSet, SecondAborts, MapEntry, NextEntry, Applying
  <2> QED
    BY <2>1
<1>2. ASSUME NEW found \in BOOLEAN, UpdateHashAndTimeInDB(found) PROVE HashMeansApplied'
  <2>1. pc = "store" /\ hash' = conf /\ UNCHANGED <<live, dropped>>
    BY <1>2 DEF UpdateHashAndTimeInDB
  <2> QED
    BY ZenonT(60), <2>1, AppliedAtStore DEF HashMeansApplied, Applied, Canonical, Convertible
<1>3. CASE NextFeature \/ SecondEnds \/ \E ok \in BOOLEAN : ClearDBEnd(ok)
  BY <1>3 DEF NextFeature, SecondEnds, ClearDBEnd, Applying
<1>4. ASSUME NEW ok \in BOOLEAN, Finish(ok) PROVE HashMeansApplied'
  BY <1>4 DEF Finish, Applying
<1>5. CASE OpenFails \/ Reboot
  BY <1>5, GatewayAssumption DEF OpenFails, Failure, Reboot
<1>13. ASSUME NEW s \in writes, NEW ok \in BOOLEAN, SelectionSet(s, ok) PROVE HashMeansApplied'
  BY <1>13 DEF SelectionSet, NextWrite, Applying
<1>6. ASSUME NEW off \in BOOLEAN, NEW ok \in BOOLEAN, ClearDB(off, ok) PROVE HashMeansApplied'
  BY <1>6, GatewayAssumption DEF ClearDB, Failure, Applying
<1>7. CASE Start \/ Wait \/ NotModified \/ Response \/ RequestFails
  <2>1. pc \notin Applying /\ hash' = hash /\ dropped' = dropped /\ live' = live
    BY <1>7 DEF Start, Wait, NotModified, Response, RequestFails, Applying
  <2> QED
    BY <2>1, HashKept
<1>8. ASSUME NEW ipv6 \in BOOLEAN, NEW ipv4 \in BOOLEAN, CheckIPConnectivity(ipv6, ipv4)
      PROVE  HashMeansApplied'
  <2>1. pc \notin Applying /\ hash' = hash /\ dropped' = dropped /\ live' = live
    BY <1>8 DEF CheckIPConnectivity, Applying
  <2> QED
    BY <2>1, HashKept
<1>9. CASE Exit \/ Die
  <2>1. pc \notin Applying /\ hash' = hash /\ dropped' = dropped /\ live' = live
    BY <1>9 DEF Exit, Die, Applying
  <2> QED
    BY <2>1, HashKept
<1>10. ASSUME NEW k \in Keys, NEW v \in Foreign, OtherSets(k, v) PROVE HashMeansApplied'
  <2>1. pc \notin Applying /\ hash' = hash /\ dropped' = dropped \cup {k}
    BY <1>10 DEF OtherSets
  <2>2. \A j \in Keys \ dropped' : live'[j] = live[j]
    BY <1>10, <2>1 DEF OtherSets, Put, TypeOK
  <2> QED
    BY <2>1, <2>2, HashKept
<1>11. ASSUME UNCHANGED <<hash, live, pc, dropped>> PROVE HashMeansApplied'
  BY <1>11, HashKept
<1>12. CASE BlobCompleted \/ (\E c \in Configs : ServerChanges(c)) \/ UNCHANGED vars
  BY <1>11, <1>12 DEF BlobCompleted, ServerChanges, vars
<1> QED
  BY <1>1, <1>2, <1>3, <1>4, <1>5, <1>6, <1>7, <1>8, <1>9, <1>10, <1>12,
     <1>13 DEF Next, Step

(***************************************************************************)
(* The theorems.                                                           *)
(***************************************************************************)

\* GatewayInv holds at the start, and every step keeps it.
THEOREM GatewayInvariant == Spec => []GatewayInv
<1>1. Init => GatewayInv
  <2> SUFFICES ASSUME Init PROVE GatewayInv
    OBVIOUS
  <2>1. pc = "off" /\ "off" \notin Applying
    BY DEF Init, Applying
  <2>2. TypeOK
    <3>1. wan \in Selections
      BY SelectionType DEF Init
    <3>2. conf \in Configs /\ live \in [Keys -> Texts] /\ before \in [Keys -> Texts] /\ events \in 0 .. MaxEvents
      BY GatewayAssumption DEF Init
    <3>3. retry \in 0 .. WaitRetries + 1
      BY DEF Init, WaitRetries
    <3>4. rfcRebootCronNeeded \in BOOLEAN /\ scheduled \in BOOLEAN
      BY DEF Init
    <3> QED
      BY <3>1, <3>2, <3>3, <3>4 DEF Init, TypeOK, Steps
  <2>3. ControlInv
    BY DEF Init, ControlInv
  <2>4. CanonicalInv
    BY DefaultAssumption DEF Init, CanonicalInv
  <2>5. HashMeansApplied
    BY GatewayAssumption DEF Init, HashMeansApplied
  <2> QED
    BY <2>1, <2>2, <2>3, <2>4, <2>5
       DEF GatewayInv, UntouchedInv, FirstInv, FallbackInv, SecondInv, AskedInv, ReasonInv, WanInv
<1>2. GatewayInv /\ [Next]_vars => GatewayInv'
  BY TypeStep, ControlStep, CanonicalStep, UntouchedStep, FirstStep, FallbackStep, SecondStep,
     AskedStep, ReasonStep, WanStep, HashStep DEF GatewayInv
<1> QED
  BY <1>1, <1>2, PTL DEF Spec

\* Every variable keeps its type, whatever fails, dies or reboots.
THEOREM TypeCorrect == Spec => []TypeOK
<1>1. GatewayInv => TypeOK
  BY DEF GatewayInv
<1> QED
  BY <1>1, GatewayInvariant, PTL

\* A hash in RAM stands for the values of its configuration, for any
\* configurations, types and features: a 304 is right to change nothing.
THEOREM HashSound == Spec => []HashMeansApplied
<1>1. GatewayInv => HashMeansApplied
  BY DEF GatewayInv
<1> QED
  BY <1>1, GatewayInvariant, PTL

\* When a run reaches the new hash, the reboot script has been called if a
\* value that takes effect immediately has changed, and otherwise only for a
\* key that is named twice, a support key or a value in another spelling.
THEOREM RebootJustified == Spec => []RebootExactly
<1>1. GatewayInv => RebootExactly
  <2> SUFFICES ASSUME GatewayInv, pc = "store" PROVE RebootExactly
    BY DEF RebootExactly
  <2>1. AskedInv /\ ReasonInv /\ pc \in Applying /\ scheduled = rfcRebootCronNeeded
    BY DEF GatewayInv, ControlInv, Applying
  <2>2. \A k, i : Done(k, i)
    BY DEF Done, Applying
  <2>3. ASSUME NEW k \in Keys \ (dropped \cup SupportKeys \cup {UpnpKey, ModeKey}),
               NEW i \in FirstPass(conf),
               Naming(conf, k) = {i}, Content[conf][i].immediate,
               Convertible(k, Datum(i, k)), Canonical(k, Datum(i, k)) # before[k]
        PROVE  scheduled
    <3>1. rfcRebootCronNeeded
      BY <2>1, <2>2, <2>3 DEF AskedInv
    <3> QED
      BY <2>1, <3>1, Zenon
  <2>4. ASSUME scheduled
        PROVE  \E k \in Keys :
                 \/ k \in dropped \/ live[k] # before[k]
                 \/ k \in SupportKeys /\ Naming(conf, k) # {}
                 \/ \E i, j \in Naming(conf, k) : i # j
                 \/ \E i \in Naming(conf, k) : Datum(i, k) # Canonical(k, Datum(i, k))
    <3>1. rfcRebootCronNeeded
      BY <2>1, <2>4, Zenon
    <3> QED
      BY <2>1, <3>1 DEF ReasonInv, ChangedBy
  <2> QED
    BY <2>3, <2>4 DEF RebootExactly, Datum
<1> QED
  BY <1>1, GatewayInvariant, PTL

\* With WAN unification on, the mode of the configuration is what the
\* WanManager got by the time the hash is stored.
THEOREM ModeReachesWan == Spec => []WanFollowsMode
<1>1. GatewayInv => WanFollowsMode
  <2> SUFFICES ASSUME GatewayInv, pc = "store" PROVE WanFollowsMode
    BY DEF WanFollowsMode
  <2>1. WanInv /\ pc \in Applying
    BY DEF GatewayInv, Applying
  <2>2. \A k, i : Done(k, i)
    BY DEF Done, Applying
  <2>3. writes = {}
    BY DEF GatewayInv, ControlInv
  <2>4. ASSUME NEW mode, \A s \in Selectors : wan[s] = SelectionOf(mode)[s]
        PROVE  wan = SelectionOf(mode)
    <3>1. wan \in Selections /\ SelectionOf(mode) \in Selections
      BY SelectionType DEF GatewayInv, TypeOK
    <3> QED
      BY <2>4, <3>1 DEF Selections
  <2> QED
    BY <2>1, <2>2, <2>3, <2>4 DEF WanInv, WanFollowsMode, Datum
<1> QED
  BY <1>1, GatewayInvariant, PTL

=============================================================================

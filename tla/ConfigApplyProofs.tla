-------------------------- MODULE ConfigApplyProofs --------------------------
(***************************************************************************)
(* The application of a configuration for any keys, values and responses:  *)
(* the inductive invariant ConfigInv of ConfigApply, step by step.         *)
(***************************************************************************)
EXTENDS ConfigApply, WellFoundedInduction, TLAPS

(***************************************************************************)
(* The map of a response.                                                  *)
(***************************************************************************)

\* A set of natural numbers that is bounded and not empty has a greatest
\* element.
LEMMA GreatestNatural ==
  ASSUME NEW n \in Nat, NEW I \in SUBSET (1 .. n), I # {}
  PROVE  \E i \in I : \A j \in I : j <= i
<1> DEFINE S == {x \in Nat : \E i \in I : x = n - i}
<1>1. S \in SUBSET Nat /\ S # {}
  <2>1. PICK i \in I : TRUE
    OBVIOUS
  <2>2. n - i \in S
    OBVIOUS
  <2> QED
    BY <2>2
<1>2. PICK x \in S : \A y \in S : <<y, x>> \notin OpToRel(<, Nat)
  BY <1>1, NatLessThanWellFounded, WFMin, Zenon
<1>3. \A y \in S : ~(y < x)
  BY <1>2 DEF OpToRel
<1>4. PICK i \in I : x = n - i
  OBVIOUS
<1>5. \A j \in I : n - j \in S
  OBVIOUS
<1> HIDE DEF S
<1>6. ASSUME NEW j \in I PROVE j <= i
  <2>1. ~(n - j < n - i)
    BY <1>3, <1>4, <1>5
  <2> QED
    BY <2>1
<1> QED
  BY <1>6

\* CreateConfigDataValueMap finds a value or none for every key.
LEMMA ConfigMapType ==
  ASSUME NEW fs \in Responses
  PROVE  ConfigMap(fs) \in [Keys -> Optional]
<1>1. fs \in Seq([Keys -> Optional] \cup {NoData})
  BY ConfigAssumption
<1>2. Len(fs) \in Nat /\ DOMAIN fs = 1 .. Len(fs)
  BY <1>1
<1>3. \A i \in Parsed(fs) : i \in 1 .. Len(fs) /\ fs[i] \in [Keys -> Optional]
  <2> TAKE i \in Parsed(fs)
  <2>1. i \in 1 .. Len(fs) /\ fs[i] # NoData
    BY <1>2 DEF Parsed
  <2> QED
    BY <1>1, <2>1
<1>4. ASSUME NEW k \in Keys
      PROVE  LET I == {i \in Parsed(fs) : fs[i][k] # None}
             IN  (IF I = {} THEN None ELSE fs[CHOOSE i \in I : \A j \in I : j <= i][k]) \in Optional
  <2> DEFINE I == {i \in Parsed(fs) : fs[i][k] # None}
  <2>1. CASE I = {}
    BY <2>1 DEF Optional
  <2>2. CASE I # {}
    <3>1. I \in SUBSET (1 .. Len(fs))
      BY <1>3
    <3>2. \E i \in I : \A j \in I : j <= i
      BY <1>2, <2>2, <3>1, GreatestNatural
    <3>3. (CHOOSE i \in I : \A j \in I : j <= i) \in I
      BY <3>2
    <3> QED
      BY <1>3, <2>2, <3>3
  <2> QED
    BY <2>1, <2>2
<1> QED
  BY <1>4 DEF ConfigMap, MapOf

\* ... and those of the keys it names are values.
LEMMA MapType ==
  ASSUME TypeOK
  PROVE  /\ Map \in [Keys -> Optional]
         /\ Map = ConfigMap(features)
         /\ \A k \in Named(Map) : Map[k] \in Values
  BY ConfigMapType DEF TypeOK, Map, Named, Optional

(***************************************************************************)
(* One lemma for each part of the invariant.                               *)
(***************************************************************************)

\* Every step keeps the types.
LEMMA TypeStep ==
  ASSUME TypeOK, RestInv, [Next]_vars
  PROVE  TypeOK'
<1>1. CASE CreateConfigDataValueMap
  BY <1>1 DEF CreateConfigDataValueMap, env, TypeOK, Steps, Named
<1>2. ASSUME NEW ok \in BOOLEAN, ClearDB(ok) PROVE TypeOK'
  BY <1>2, ConfigAssumption DEF ClearDB, env, Cleared, Events, TypeOK, Steps, Optional
<1>3. ASSUME NEW ok \in BOOLEAN, RestoreAccount(ok) PROVE TypeOK'
  BY <1>3, ConfigAssumption DEF RestoreAccount, env, Events, TypeOK, Steps
<1>4. ASSUME NEW k \in Keys, SkipKey(k) PROVE TypeOK'
  BY <1>4, ConfigAssumption DEF SkipKey, env, Answer, Changed, TypeOK, Reads, Optional
<1>5. ASSUME NEW k \in Keys, NEW valid \in BOOLEAN, ReadKey(k, valid) PROVE TypeOK'
  BY <1>5, ConfigAssumption, MapType
     DEF ReadKey, env, Answer, Accept, TypeOK, Steps, RestInv, Reads, Optional
<1>6. ASSUME NEW k \in Keys, NEW valid \in BOOLEAN, ReadFails(k, valid) PROVE TypeOK'
  BY <1>6, MapType DEF ReadFails, env, Accept, Events, TypeOK, Steps, RestInv
<1>7. ASSUME NEW got \in BOOLEAN, NEW set \in BOOLEAN, SetRFCProperty(got, set) PROVE TypeOK'
  BY <1>7 DEF SetRFCProperty, env, Put, Events, TypeOK, Steps, Optional
<1>8. CASE SetSkipped
  BY <1>8 DEF SetSkipped, env, TypeOK, Steps, Optional
<1>9. CASE LoopEnds
  BY <1>9 DEF LoopEnds, env, TypeOK, Steps
<1>10. ASSUME NEW ok \in BOOLEAN, ClearDBEnd(ok) PROVE TypeOK'
  BY <1>10 DEF ClearDBEnd, env, Events, TypeOK, Steps
<1>11. ASSUME NEW k \in Keys, NEW v \in Foreign, OtherSets(k, v) PROVE TypeOK'
  BY <1>11, ConfigAssumption DEF OtherSets, env, Events, TypeOK, Optional
<1>12. ASSUME NEW fs \in Responses, NEW r \in BOOLEAN, NextRun(fs, r) PROVE TypeOK'
  BY <1>12, ConfigAssumption DEF NextRun, TypeOK, Steps, Optional
<1>13. CASE UNCHANGED vars
  BY <1>13 DEF vars, TypeOK
<1>14. CASE HostifReady
  BY <1>14 DEF HostifReady, Events, TypeOK
<1> QED
  BY <1>1, <1>2, <1>3, <1>4, <1>5, <1>6, <1>7,
     <1>8, <1>9, <1>10, <1>11, <1>12, <1>13, <1>14 DEF Next

\* The loop takes every key of the response once.
LEMMA RestStep ==
  ASSUME TypeOK, RestInv, [Next]_vars
  PROVE  RestInv'
<1>1. CASE CreateConfigDataValueMap
  BY <1>1 DEF CreateConfigDataValueMap, env, RestInv, Map
<1>2. ASSUME NEW ok \in BOOLEAN, ClearDB(ok) PROVE RestInv'
  BY <1>2 DEF ClearDB, env, RestInv, Map
<1>3. ASSUME NEW ok \in BOOLEAN, RestoreAccount(ok) PROVE RestInv'
  BY <1>3 DEF RestoreAccount, env, RestInv, Map
<1>4. ASSUME NEW k \in Keys, SkipKey(k) PROVE RestInv'
  BY <1>4 DEF SkipKey, env, RestInv, Map
<1>5. ASSUME NEW k \in Keys, NEW valid \in BOOLEAN, ReadKey(k, valid) PROVE RestInv'
  BY <1>5 DEF ReadKey, env, Accept, RestInv, Map
<1>6. ASSUME NEW k \in Keys, NEW valid \in BOOLEAN, ReadFails(k, valid) PROVE RestInv'
  BY <1>6 DEF ReadFails, env, Accept, RestInv, Map
<1>7. ASSUME NEW got \in BOOLEAN, NEW set \in BOOLEAN, SetRFCProperty(got, set) PROVE RestInv'
  BY <1>7 DEF SetRFCProperty, env, RestInv, Map
<1>8. CASE SetSkipped
  BY <1>8 DEF SetSkipped, env, RestInv, Map
<1>9. CASE LoopEnds
  BY <1>9 DEF LoopEnds, RestInv
<1>10. ASSUME NEW ok \in BOOLEAN, ClearDBEnd(ok) PROVE RestInv'
  BY <1>10 DEF ClearDBEnd, RestInv
<1>11. ASSUME NEW k \in Keys, NEW v \in Foreign, OtherSets(k, v) PROVE RestInv'
  BY <1>11 DEF OtherSets, env, RestInv, Map
<1>12. ASSUME NEW fs \in Responses, NEW r \in BOOLEAN, NextRun(fs, r) PROVE RestInv'
  BY <1>12 DEF NextRun, RestInv
<1>13. CASE UNCHANGED vars
  BY <1>13 DEF vars, RestInv, Map
<1>14. CASE HostifReady
  BY <1>14 DEF HostifReady, RestInv, Map
<1> QED
  BY <1>1, <1>2, <1>3, <1>4, <1>5, <1>6, <1>7,
     <1>8, <1>9, <1>10, <1>11, <1>12, <1>13, <1>14 DEF Next

\* Outside the RFC namespace a value is live when it is stored.
LEMMA StoreStep ==
  ASSUME TypeOK, StoreInv, [Next]_vars
  PROVE  StoreInv'
<1>1. CASE CreateConfigDataValueMap
  BY <1>1 DEF CreateConfigDataValueMap, env, StoreInv
<1>2. ASSUME NEW ok \in BOOLEAN, ClearDB(ok) PROVE StoreInv'
  BY <1>2 DEF ClearDB, env, Cleared, StoreInv
<1>3. ASSUME NEW ok \in BOOLEAN, RestoreAccount(ok) PROVE StoreInv'
  BY <1>3, ConfigAssumption DEF RestoreAccount, env, StoreInv
<1>4. ASSUME NEW k \in Keys, SkipKey(k) PROVE StoreInv'
  BY <1>4 DEF SkipKey, env, StoreInv
<1>5. ASSUME NEW k \in Keys, NEW valid \in BOOLEAN, ReadKey(k, valid) PROVE StoreInv'
  BY <1>5 DEF ReadKey, env, StoreInv
<1>6. ASSUME NEW k \in Keys, NEW valid \in BOOLEAN, ReadFails(k, valid) PROVE StoreInv'
  BY <1>6 DEF ReadFails, env, StoreInv
<1>7. ASSUME NEW got \in BOOLEAN, NEW set \in BOOLEAN, SetRFCProperty(got, set) PROVE StoreInv'
  BY <1>7 DEF SetRFCProperty, env, Put, TypeOK, StoreInv
<1>8. CASE SetSkipped
  BY <1>8 DEF SetSkipped, StoreInv
<1>9. CASE LoopEnds
  BY <1>9 DEF LoopEnds, env, StoreInv
<1>10. ASSUME NEW ok \in BOOLEAN, ClearDBEnd(ok) PROVE StoreInv'
  BY <1>10 DEF ClearDBEnd, env, StoreInv
<1>11. ASSUME NEW k \in Keys, NEW v \in Foreign, OtherSets(k, v) PROVE StoreInv'
  BY <1>11 DEF OtherSets, env, TypeOK, StoreInv
<1>12. ASSUME NEW fs \in Responses, NEW r \in BOOLEAN, NextRun(fs, r) PROVE StoreInv'
  BY <1>12 DEF NextRun, StoreInv
<1>13. CASE UNCHANGED vars
  BY <1>13 DEF vars, StoreInv
<1>14. CASE HostifReady
  BY <1>14 DEF HostifReady, StoreInv
<1> QED
  BY <1>1, <1>2, <1>3, <1>4, <1>5, <1>6, <1>7,
     <1>8, <1>9, <1>10, <1>11, <1>12, <1>13, <1>14 DEF Next

\* Until a key is set, the run reads what it had before.
LEMMA LiveStep ==
  ASSUME TypeOK, RestInv, LiveInv, [Next]_vars
  PROVE  LiveInv'
<1>1. CASE CreateConfigDataValueMap
  BY <1>1 DEF CreateConfigDataValueMap, env, LiveInv
<1>2. ASSUME NEW ok \in BOOLEAN, ClearDB(ok) PROVE LiveInv'
  BY <1>2 DEF ClearDB, env, Cleared, TypeOK, LiveInv, Looping, Map
<1>3. ASSUME NEW ok \in BOOLEAN, RestoreAccount(ok) PROVE LiveInv'
  BY <1>3 DEF RestoreAccount, env, LiveInv
<1>4. ASSUME NEW k \in Keys, SkipKey(k) PROVE LiveInv'
  BY <1>4 DEF SkipKey, env, LiveInv, Map
<1>5. ASSUME NEW k \in Keys, NEW valid \in BOOLEAN, ReadKey(k, valid) PROVE LiveInv'
  BY <1>5 DEF ReadKey, env, Accept, LiveInv, Looping, Map
<1>6. ASSUME NEW k \in Keys, NEW valid \in BOOLEAN, ReadFails(k, valid) PROVE LiveInv'
  BY <1>6 DEF ReadFails, env, Accept, LiveInv, Looping, Map
<1>7. ASSUME NEW got \in BOOLEAN, NEW set \in BOOLEAN, SetRFCProperty(got, set) PROVE LiveInv'
  BY <1>7 DEF SetRFCProperty, env, Put, TypeOK, RestInv, LiveInv, Looping, Map, Named
<1>8. CASE SetSkipped
  BY <1>8 DEF SetSkipped, env, RestInv, LiveInv, Looping, Map, Named
<1>9. CASE LoopEnds
  BY <1>9 DEF LoopEnds, env, LiveInv, Looping, Map
<1>10. ASSUME NEW ok \in BOOLEAN, ClearDBEnd(ok) PROVE LiveInv'
  BY <1>10 DEF ClearDBEnd, LiveInv, Looping
<1>11. ASSUME NEW k \in Keys, NEW v \in Foreign, OtherSets(k, v) PROVE LiveInv'
  BY <1>11 DEF OtherSets, env, LiveInv, Map
<1>12. ASSUME NEW fs \in Responses, NEW r \in BOOLEAN, NextRun(fs, r) PROVE LiveInv'
  BY <1>12 DEF NextRun, LiveInv
<1>13. CASE UNCHANGED vars
  BY <1>13 DEF vars, LiveInv, Map
<1>14. CASE HostifReady
  BY <1>14 DEF HostifReady, LiveInv, Map
<1> QED
  BY <1>1, <1>2, <1>3, <1>4, <1>5, <1>6, <1>7,
     <1>8, <1>9, <1>10, <1>11, <1>12, <1>13, <1>14 DEF Next

\* A step that leaves the response and the past alone leaves alone what the
\* run should do.
LEMMA SameGoal ==
  ASSUME UNCHANGED env
  PROVE  /\ Map' = Map
         /\ before' = before
         /\ Stashed' = Stashed
         /\ \A k \in Keys : Wanted(k)' = Wanted(k) /\ Differs(k)' = Differs(k)
  BY DEF env, Map, Wanted, Differs, Stashed

\* The store gets what the configuration says, one key at a time.
LEMMA SettledStep ==
  ASSUME TypeOK, RestInv, StoreInv, LiveInv /\ SettledInv /\ CompareInv, [Next]_vars
  PROVE  SettledInv'
<1>1. CASE CreateConfigDataValueMap
  BY <1>1, MapType, SameGoal DEF CreateConfigDataValueMap, SettledInv, Looping
<1>2. ASSUME NEW ok \in BOOLEAN, ClearDB(ok) PROVE SettledInv'
  BY <1>2 DEF ClearDB, Cleared, SettledInv, Looping
<1>3. ASSUME NEW ok \in BOOLEAN, RestoreAccount(ok) PROVE SettledInv'
  BY <1>3, ConfigAssumption, SameGoal
     DEF RestoreAccount, env, TypeOK, RestInv, StoreInv, LiveInv, SettledInv, Settled, Stashed,
         Wanted, Named
<1>4. ASSUME NEW k \in Keys, SkipKey(k) PROVE SettledInv'
  BY <1>4, ConfigAssumption, MapType, SameGoal
     DEF SkipKey, env, Answer, Changed, StoreInv, LiveInv, SettledInv, Settled, Stashed, Wanted,
         Reads
<1>5. ASSUME NEW k \in Keys, NEW valid \in BOOLEAN, ReadKey(k, valid) PROVE SettledInv'
  BY <1>5, SameGoal DEF ReadKey, Accept, SettledInv, Looping, Settled
<1>6. ASSUME NEW k \in Keys, NEW valid \in BOOLEAN, ReadFails(k, valid) PROVE SettledInv'
  BY <1>6, SameGoal DEF ReadFails, Accept, SettledInv, Looping, Settled
<1>7. ASSUME NEW got \in BOOLEAN, NEW set \in BOOLEAN, SetRFCProperty(got, set) PROVE SettledInv'
  BY <1>7, SameGoal
     DEF SetRFCProperty, Put, TypeOK, RestInv, CompareInv, SettledInv, Looping, Settled, Wanted,
         Named
<1>8. CASE SetSkipped
  BY <1>8, SameGoal DEF SetSkipped, RestInv, SettledInv, Looping, Settled
<1>9. CASE LoopEnds
  BY <1>9, SameGoal DEF LoopEnds, SettledInv, Looping, Settled
<1>10. ASSUME NEW ok \in BOOLEAN, ClearDBEnd(ok) PROVE SettledInv'
  BY <1>10, SameGoal DEF ClearDBEnd, RestInv, StoreInv, SettledInv, Looping, Settled
<1>11. ASSUME NEW k \in Keys, NEW v \in Foreign, OtherSets(k, v) PROVE SettledInv'
  BY <1>11, SameGoal DEF OtherSets, SettledInv, Settled
<1>12. ASSUME NEW fs \in Responses, NEW r \in BOOLEAN, NextRun(fs, r) PROVE SettledInv'
  BY <1>12 DEF NextRun, SettledInv, Looping
<1>13. CASE UNCHANGED vars
  BY <1>13, SameGoal DEF vars, env, SettledInv, Settled
<1>14. CASE HostifReady
  BY <1>14 DEF HostifReady, SettledInv, Settled, Stashed, Wanted, Map
<1> QED
  BY <1>1, <1>2, <1>3, <1>4, <1>5, <1>6, <1>7,
     <1>8, <1>9, <1>10, <1>11, <1>12, <1>13, <1>14 DEF Next

\* What is listed is what is stored.
LEMMA ListStep ==
  ASSUME TypeOK, RestInv, StoreInv, LiveInv /\ SettledInv /\ ListInv, [Next]_vars
  PROVE  ListInv'
<1>1. CASE CreateConfigDataValueMap
  BY <1>1, MapType, SameGoal DEF CreateConfigDataValueMap, ListInv
<1>2. ASSUME NEW ok \in BOOLEAN, ClearDB(ok) PROVE ListInv'
  BY <1>2 DEF ClearDB, ListInv, Looping
<1>3. ASSUME NEW ok \in BOOLEAN, RestoreAccount(ok) PROVE ListInv'
  BY <1>3, SameGoal DEF RestoreAccount, RestInv, ListInv
<1>4. ASSUME NEW k \in Keys, SkipKey(k) PROVE ListInv'
  BY <1>4, SameGoal
     DEF SkipKey, env, Answer, Changed, TypeOK, StoreInv, LiveInv, SettledInv, ListInv, Stashed
<1>5. ASSUME NEW k \in Keys, NEW valid \in BOOLEAN, ReadKey(k, valid) PROVE ListInv'
  BY <1>5, SameGoal DEF ReadKey, Accept, ListInv, Looping
<1>6. ASSUME NEW k \in Keys, NEW valid \in BOOLEAN, ReadFails(k, valid) PROVE ListInv'
  BY <1>6, SameGoal DEF ReadFails, Accept, ListInv, Looping
<1>7. ASSUME NEW got \in BOOLEAN, NEW set \in BOOLEAN, SetRFCProperty(got, set) PROVE ListInv'
  BY <1>7, SameGoal DEF SetRFCProperty, Put, TypeOK, RestInv, ListInv, Looping, Reads, Named
<1>8. CASE SetSkipped
  BY <1>8, SameGoal DEF SetSkipped, TypeOK, RestInv, ListInv, Looping
<1>9. CASE LoopEnds
  BY <1>9, SameGoal DEF LoopEnds, ListInv, Looping
<1>10. ASSUME NEW ok \in BOOLEAN, ClearDBEnd(ok) PROVE ListInv'
  BY <1>10, SameGoal DEF ClearDBEnd, TypeOK, ListInv, Looping
<1>11. ASSUME NEW k \in Keys, NEW v \in Foreign, OtherSets(k, v) PROVE ListInv'
  BY <1>11, SameGoal DEF OtherSets, ListInv
<1>12. ASSUME NEW fs \in Responses, NEW r \in BOOLEAN, NextRun(fs, r) PROVE ListInv'
  BY <1>12 DEF NextRun, ListInv, Looping
<1>13. CASE UNCHANGED vars
  BY <1>13, SameGoal DEF vars, env, ListInv
<1>14. CASE HostifReady
  BY <1>14 DEF HostifReady, ListInv, Map
<1> QED
  BY <1>1, <1>2, <1>3, <1>4, <1>5, <1>6, <1>7,
     <1>8, <1>9, <1>10, <1>11, <1>12, <1>13, <1>14 DEF Next

\* set_RFCProperty has the old value of its own key.
LEMMA CompareStep ==
  ASSUME TypeOK, RestInv, LiveInv /\ CompareInv, [Next]_vars
  PROVE  CompareInv'
<1>1. CASE CreateConfigDataValueMap
  BY <1>1 DEF CreateConfigDataValueMap, CompareInv
<1>2. ASSUME NEW ok \in BOOLEAN, ClearDB(ok) PROVE CompareInv'
  BY <1>2 DEF ClearDB, CompareInv
<1>3. ASSUME NEW ok \in BOOLEAN, RestoreAccount(ok) PROVE CompareInv'
  BY <1>3 DEF RestoreAccount, CompareInv
<1>4. ASSUME NEW k \in Keys, SkipKey(k) PROVE CompareInv'
  BY <1>4 DEF SkipKey, CompareInv
<1>5. ASSUME NEW k \in Keys, NEW valid \in BOOLEAN, ReadKey(k, valid) PROVE CompareInv'
  BY <1>5, ConfigAssumption
     DEF ReadKey, env, Answer, Changed, Accept, LiveInv, CompareInv, Looping, Reads
<1>6. ASSUME NEW k \in Keys, NEW valid \in BOOLEAN, ReadFails(k, valid) PROVE CompareInv'
  BY <1>6 DEF ReadFails, env, Answer, Accept, LiveInv, CompareInv, Looping, Reads
<1>7. ASSUME NEW got \in BOOLEAN, NEW set \in BOOLEAN, SetRFCProperty(got, set) PROVE CompareInv'
  BY <1>7 DEF SetRFCProperty, CompareInv
<1>8. CASE SetSkipped
  BY <1>8 DEF SetSkipped, CompareInv
<1>9. CASE LoopEnds
  BY <1>9 DEF LoopEnds, CompareInv
<1>10. ASSUME NEW ok \in BOOLEAN, ClearDBEnd(ok) PROVE CompareInv'
  BY <1>10 DEF ClearDBEnd, CompareInv
<1>11. ASSUME NEW k \in Keys, NEW v \in Foreign, OtherSets(k, v) PROVE CompareInv'
  BY <1>11 DEF OtherSets, env, CompareInv
<1>12. ASSUME NEW fs \in Responses, NEW r \in BOOLEAN, NextRun(fs, r) PROVE CompareInv'
  BY <1>12 DEF NextRun, CompareInv
<1>13. CASE UNCHANGED vars
  BY <1>13 DEF vars, CompareInv
<1>14. CASE HostifReady
  BY <1>14 DEF HostifReady, CompareInv
<1> QED
  BY <1>1, <1>2, <1>3, <1>4, <1>5, <1>6, <1>7,
     <1>8, <1>9, <1>10, <1>11, <1>12, <1>13, <1>14 DEF Next

\* The reboot flag follows the values that differ.
LEMMA RebootStep ==
  ASSUME TypeOK, RestInv, LiveInv /\ CompareInv /\ RebootInv, [Next]_vars
  PROVE  RebootInv'
<1>1. CASE CreateConfigDataValueMap
  BY <1>1, MapType, SameGoal DEF CreateConfigDataValueMap, RebootInv, Differs, Named
<1>2. ASSUME NEW ok \in BOOLEAN, ClearDB(ok) PROVE RebootInv'
  BY <1>2, SameGoal DEF ClearDB, RebootInv, Looping
<1>3. ASSUME NEW ok \in BOOLEAN, RestoreAccount(ok) PROVE RebootInv'
  BY <1>3, SameGoal DEF RestoreAccount, RestInv, RebootInv, Differs, Named
<1>4. ASSUME NEW k \in Keys, SkipKey(k) PROVE RebootInv'
  BY <1>4, MapType, SameGoal DEF SkipKey, Answer, Changed, LiveInv, RebootInv, Differs, Reads
<1>5. ASSUME NEW k \in Keys, NEW valid \in BOOLEAN, ReadKey(k, valid) PROVE RebootInv'
  BY <1>5, SameGoal DEF ReadKey, Accept, RebootInv, Looping
<1>6. ASSUME NEW k \in Keys, NEW valid \in BOOLEAN, ReadFails(k, valid) PROVE RebootInv'
  BY <1>6, SameGoal DEF ReadFails, Accept, RebootInv, Looping
<1>7. ASSUME NEW got \in BOOLEAN, NEW set \in BOOLEAN, SetRFCProperty(got, set) PROVE RebootInv'
  BY <1>7, SameGoal DEF SetRFCProperty, RestInv, LiveInv, CompareInv, RebootInv, Looping, Differs, Named
<1>8. CASE SetSkipped
  BY <1>8, SameGoal DEF SetSkipped, RestInv, RebootInv, Looping, Named
<1>9. CASE LoopEnds
  BY <1>9, SameGoal DEF LoopEnds, RebootInv, Looping
<1>10. ASSUME NEW ok \in BOOLEAN, ClearDBEnd(ok) PROVE RebootInv'
  BY <1>10, SameGoal DEF ClearDBEnd, RebootInv, Looping
<1>11. ASSUME NEW k \in Keys, NEW v \in Foreign, OtherSets(k, v) PROVE RebootInv'
  BY <1>11, SameGoal DEF OtherSets, RebootInv
<1>12. ASSUME NEW fs \in Responses, NEW r \in BOOLEAN, NextRun(fs, r) PROVE RebootInv'
  BY <1>12 DEF NextRun, RebootInv, Looping
<1>13. CASE UNCHANGED vars
  BY <1>13, SameGoal DEF vars, env, RebootInv
<1>14. CASE HostifReady
  BY <1>14 DEF HostifReady, RebootInv, Differs, Map
<1> QED
  BY <1>1, <1>2, <1>3, <1>4, <1>5, <1>6, <1>7,
     <1>8, <1>9, <1>10, <1>11, <1>12, <1>13, <1>14 DEF Next

(***************************************************************************)
(* The theorems.                                                           *)
(***************************************************************************)

\* The run satisfies ConfigInv at all times.
THEOREM ConfigInvariant == Spec => []ConfigInv
<1>1. Init => ConfigInv
  <2> SUFFICES ASSUME Init PROVE ConfigInv
    OBVIOUS
  <2>1. TypeOK
    BY ConfigAssumption DEF Init, TypeOK, Steps, Optional
  <2>2. RestInv /\ StoreInv
    BY DEF Init, RestInv, StoreInv
  <2>3. LiveInv /\ SettledInv /\ ListInv /\ CompareInv /\ RebootInv
    BY DEF Init, LiveInv, SettledInv, ListInv, CompareInv, RebootInv, Looping
  <2> QED
    BY <2>1, <2>2, <2>3 DEF ConfigInv
<1>2. ConfigInv /\ [Next]_vars => ConfigInv'
  <2> SUFFICES ASSUME ConfigInv, [Next]_vars PROVE ConfigInv'
    OBVIOUS
  <2>1. /\ TypeOK /\ RestInv /\ StoreInv
        /\ LiveInv /\ SettledInv /\ ListInv /\ CompareInv /\ RebootInv
    BY DEF ConfigInv
  <2>2. TypeOK'
    BY <2>1, TypeStep
  <2>3. RestInv'
    BY <2>1, RestStep
  <2>4. StoreInv'
    BY <2>1, StoreStep
  <2>5. LiveInv'
    BY <2>1, LiveStep
  <2>6. SettledInv'
    BY <2>1, SettledStep
  <2>7. ListInv'
    BY <2>1, ListStep
  <2>8. CompareInv'
    BY <2>1, CompareStep
  <2>9. RebootInv'
    BY <2>1, RebootStep
  <2> QED
    BY <2>2, <2>3, <2>4, <2>5, <2>6, <2>7, <2>8, <2>9 DEF ConfigInv
<1> QED
  BY <1>1, <1>2, PTL DEF Spec

\* Every variable keeps its type.
THEOREM TypeCorrect == Spec => []TypeOK
<1>1. ConfigInv => TypeOK
  BY DEF ConfigInv
<1> QED
  BY <1>1, ConfigInvariant, PTL

\* A run leaves exactly its configuration in the database, key by key
\* (clearDB, processXconfResponseConfigDataPart, clearDBEnd).
THEOREM ConfigurationApplied == Spec => []AppliedExactly
<1>1. ConfigInv => AppliedExactly
  BY DEF ConfigInv, RestInv, SettledInv, Settled, AppliedExactly, Answer
<1> QED
  BY <1>1, ConfigInvariant, PTL

\* tr181.list agrees with the database (updateTR181File).
THEOREM ListFaithful == Spec => []ListMatchesStore
<1>1. ASSUME ConfigInv PROVE ListMatchesStore
  <2> SUFFICES ASSUME pc = "done", NEW k \in Named(Map) \ dropped,
                      ~(k = AccountKey /\ before[k] \in {Empty, Unknown})
               PROVE  Answer(k) = list[k]
    BY DEF ListMatchesStore
  <2>1. rest = {} /\ k \in Keys /\ Named(Map) # {}
    BY <1>1 DEF ConfigInv, RestInv, Named
  <2>2. Reads(k, store[k]) = list[k]
    BY <1>1, <2>1 DEF ConfigInv, ListInv
  <2>3. live[k] = store[k]
    BY <1>1, <2>1 DEF ConfigInv, SettledInv
  <2> QED
    BY <2>2, <2>3 DEF Answer
<1> QED
  BY <1>1, ConfigInvariant, PTL

\* A reboot is asked for when, and only when, a value changes
\* (isConfigValueChange, set_RFCProperty).
THEOREM RebootJustified == Spec => []RebootExactly
<1>1. ConfigInv => RebootExactly
  BY DEF ConfigInv, RestInv, RebootInv, RebootExactly
<1> QED
  BY <1>1, ConfigInvariant, PTL
=============================================================================

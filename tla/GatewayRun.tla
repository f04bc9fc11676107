----------------------------- MODULE GatewayRun -----------------------------
(***************************************************************************)
(* A run of rfcMgr on a gateway (RDKB build): waitForRfcCompletion, the    *)
(* check for a WAN address, the request with the hash kept in RAM,         *)
(* ProcessJsonResponseB with its two passes over the configuration, and    *)
(* the reboot script.  One process at a time (see RfcService); Xconf's     *)
(* redirections and identities are in XconfRequest, the schedule that      *)
(* follows the request in CronSchedule.                                    *)
(***************************************************************************)
EXTENDS FeatureMap

CONSTANTS
  Kind,        \* rbus type of each parameter: number is INT32, long INT64
  Rank,        \* order of the names in a std::map
  RfcKeys,     \* the parameters in the RFC namespace
  UpnpKey,     \* UPnP.Refactor.Enable: not applied in WFO builds
  WfoKey,      \* WanFailOverSupport.Enable
  ModeKey,     \* EthernetWAN.SelectedOperationalMode: goes to the WanManager
  UnifyKey,    \* WanUnification.Enable
  PartnerKey,  \* Syndication.PartnerId
  SupportKeys, \* CodebigSupport, ContainerSupport: off before every configuration
  Texts,       \* texts of values
  Numeral,     \* the number a text starts with, as std::to_string prints it
  Default,     \* value of each parameter after a factory reset
  Configs,     \* responses the server may have, by their hash
  Content,     \* the features of each
  Bad,         \* a response that is not JSON
  NoFeatures,  \* one without an array of features
  NoHash, Cleared,
  Foreign,     \* bound on the texts others set
  MaxEvents    \* bound on failures, writes of others, deaths, reboots, ...

True == "true"
Unknown == "Unknown"

\* waitForRfcCompletion gives up after this many sleeps; RETRY_COUNT requests.
WaitRetries == 6
RETRY_COUNT == 3

\* valid: the feature has a name, enable and effectiveImmediate.
Feature == [valid : BOOLEAN, immediate : BOOLEAN,
            data : [Keys -> Texts \cup {None}] \cup {NoData}]

ASSUME GatewayAssumption ==
  /\ Kind \in [Keys -> {"string", "boolean", "number", "long"}]
  /\ Rank \in [Keys -> Nat]
  /\ \A j, k \in Keys : Rank[j] = Rank[k] => j = k
  /\ RfcKeys \subseteq Keys
  /\ {UpnpKey, WfoKey, UnifyKey} \subseteq RfcKeys
  /\ {ModeKey, PartnerKey} \subseteq Keys \ RfcKeys
  /\ SupportKeys \subseteq RfcKeys \ {UpnpKey, WfoKey, UnifyKey}
  /\ ModeKey # PartnerKey
  /\ \A k \in SupportKeys \cup {UpnpKey, WfoKey, UnifyKey} : Kind[k] = "boolean"
  /\ {True, "false", "1", Unknown} \subseteq Texts /\ None \notin Texts
  /\ Numeral \in [Texts -> Texts \cup {None}]
  /\ \A t \in Texts : Numeral[t] # None => Numeral[Numeral[t]] = Numeral[t]
  /\ Default \in [Keys -> Texts]
  /\ Content \in [Configs -> Seq(Feature)]
  /\ {Bad, NoFeatures} \subseteq Configs /\ Bad # NoFeatures
  /\ Content[Bad] = <<>> /\ Content[NoFeatures] = <<>>
  /\ Foreign \subseteq Texts
  /\ NoHash \notin Configs /\ Cleared \notin Configs
  /\ MaxEvents \in Nat

VARIABLES
  server,     \* what Xconf has for this device; 304 when the hash is its hash
  hash,       \* /tmp/RFC/.hashValue
  live,       \* the parameters, as rbus_get answers
  touched,    \* parameters set since ClearDB; all of them without one
  wan,        \* the interfaces the WanManager may select
  writes,     \* the selections that a diverted mode has still to write
  blob,       \* "processing": so says the sysevent, and the agent is running;
              \* "completed" stands for all that need not be waited for
  pc, retry, conf,
  index, rest,          \* the feature and the keys still to come
  rfcRebootCronNeeded,
  scheduled,  \* the run called the reboot script
  events,
  before,     \* history: live when the configuration arrived
  dropped     \* history: keys that a failure, a death or others concern

vars == <<server, hash, live, touched, wan, writes, blob, pc, retry, conf,
          index, rest, rfcRebootCronNeeded, scheduled, events, before, dropped>>

Steps == {"off", "wait", "ip", "request", "open", "first", "end", "second",
          "finish", "store", "cron"}

\* The steps between ClearDB and the new hash.
Applying == {"first", "end", "second", "finish", "store"}

Selectors == {"docsis", "ethernet", "persist"}

Selections == [Selectors -> BOOLEAN]

\* Which interfaces a mode allows, and whether the choice is kept: each but
\* in the mode named here.
Excludes == [docsis |-> "Ethernet", ethernet |-> "DOCSIS", persist |-> "Auto"]

SelectionOf(mode) == [s \in Selectors |-> mode # Excludes[s]]

Init ==
  /\ server \in Configs
  /\ hash = NoHash
  /\ live = Default
  /\ touched = Keys
  /\ wan = SelectionOf("Auto")
  /\ writes = {}
  /\ blob \in {"processing", "completed"}
  /\ pc = "off"
  /\ retry = 0
  /\ conf = Bad
  /\ index = 0
  /\ rest = {}
  /\ rfcRebootCronNeeded = FALSE
  /\ scheduled = FALSE
  /\ events = 0
  /\ before = Default
  /\ dropped = {}

Events(n) ==
  /\ events + n <= MaxEvents
  /\ events' = events + n

Cost(ok) == IF ok THEN 0 ELSE 1

\* The process ends, and its memory with it.
Gone ==
  /\ pc' = "off"
  /\ writes' = {}
  /\ retry' = 0
  /\ conf' = Bad
  /\ index' = 0
  /\ rest' = {}
  /\ rfcRebootCronNeeded' = FALSE
  /\ scheduled' = FALSE
  /\ before' = Default

(***************************************************************************)
(* waitForRfcCompletion and CheckIPConnectivity                            *)
(***************************************************************************)

\* It waits if the sysevent says so and the agent's file is there.
Start ==
  /\ pc = "off"
  /\ pc' = IF blob = "processing" THEN "wait" ELSE "ip"
  /\ retry' = 1
  /\ UNCHANGED <<server, hash, live, touched, wan, blob, conf, index, rest,
                 writes, rfcRebootCronNeeded, scheduled, events, before, dropped>>

\* Variant of Wait: the retries are not counted.
WaitForever ==
  /\ pc = "wait"
  /\ pc' = IF blob = "completed" THEN "ip" ELSE "wait"
  /\ UNCHANGED <<server, hash, live, touched, wan, blob, conf, index, rest,
                 writes, rfcRebootCronNeeded, scheduled, events, before, dropped, retry>>

\* One round of the loop: completed, given up, or 100 s of sleep.
Wait ==
  /\ pc = "wait"
  /\ IF blob = "completed" \/ retry > WaitRetries
       THEN pc' = "ip" /\ UNCHANGED retry
       ELSE retry' = retry + 1 /\ UNCHANGED pc
  /\ UNCHANGED <<server, hash, live, touched, wan, blob, conf, index, rest,
                 writes, rfcRebootCronNeeded, scheduled, events, before, dropped>>

\* getErouterIPAddress asks for the IPv6 address, then for the IPv4 one.
\* Without either the device is offline and the process ends.
CheckIPConnectivity(ipv6, ipv4) ==
  /\ pc = "ip"
  /\ Events(Cost(ipv6 \/ ipv4))
  /\ IF ipv6 \/ ipv4
       THEN /\ pc' = "request"
            /\ retry' = 0
            /\ UNCHANGED <<conf, index, rest, writes, rfcRebootCronNeeded, scheduled,
                           before>>
       ELSE Gone
  /\ UNCHANGED <<server, hash, live, touched, wan, blob, dropped>>

(***************************************************************************)
(* The request, with the hash of the RAM file or UPGRADE_HASH without one  *)
(***************************************************************************)

RequestFails ==
  /\ pc = "request"
  /\ Events(1)
  /\ retry' = retry + 1
  /\ pc' = IF retry' < RETRY_COUNT THEN "request" ELSE "cron"
  /\ UNCHANGED <<server, hash, live, touched, wan, blob, conf, index, rest,
                 writes, rfcRebootCronNeeded, scheduled, before, dropped>>

NotModified ==
  /\ pc = "request"
  /\ hash = server
  /\ pc' = "cron"
  /\ UNCHANGED <<server, hash, live, touched, wan, blob, retry, conf, index,
                 rest, writes, rfcRebootCronNeeded, scheduled, events, before, dropped>>

Response ==
  /\ pc = "request"
  /\ hash # server
  /\ conf' = server
  /\ pc' = "open"
  /\ UNCHANGED <<server, hash, live, touched, wan, blob, retry, index, rest,
                 writes, rfcRebootCronNeeded, scheduled, events, before, dropped>>

(***************************************************************************)
(* ProcessJsonResponseB, up to the features                                *)
(***************************************************************************)

\* updateHashInDB("CLEARED") after a FAILURE.
Failure ==
  /\ hash' = Cleared
  /\ pc' = "cron"

OpenFails ==
  /\ pc = "open"
  /\ Events(1)
  /\ Failure
  /\ UNCHANGED <<server, live, touched, wan, blob, retry, conf, index, rest,
                 writes, rfcRebootCronNeeded, scheduled, before, dropped>>

\* Two features are switched off and ClearDB is sent, before the response is
\* parsed.
ClearDB(off, ok) ==
  /\ pc = "open"
  /\ Events(Cost(off) + Cost(ok))
  /\ live' = [k \in Keys |-> IF off /\ k \in SupportKeys THEN "false" ELSE live[k]]
  /\ touched' = IF ok THEN {} ELSE touched
  /\ before' = live
  /\ dropped' = IF ok THEN {} ELSE RfcKeys
  /\ IF conf = Bad
       THEN Failure /\ UNCHANGED <<index, rest>>
       ELSE /\ pc' = "first"
            /\ index' = 0
            /\ rest' = {}
            /\ UNCHANGED hash
  /\ UNCHANGED <<server, wan, blob, retry, conf, writes, rfcRebootCronNeeded, scheduled>>

(***************************************************************************)
(* The first pass: ParseConfigValue for every entry of configData          *)
(***************************************************************************)

Features == Content[conf]

\* Features without a name, enable or effectiveImmediate are passed over.
NextFeature ==
  /\ pc = "first"
  /\ rest = {} /\ writes = {}
  /\ IF index < Len(Features)
       THEN /\ index' = index + 1
            /\ LET f == Features[index']
               IN  rest' = IF f.valid /\ f.data # NoData THEN Named(f.data)
                                                         ELSE {}
            /\ UNCHANGED pc
       ELSE /\ pc' = "end"
            /\ UNCHANGED <<index, rest>>
  /\ UNCHANGED <<server, hash, live, touched, wan, blob, retry, conf,
                 writes, rfcRebootCronNeeded, scheduled, events, before, dropped>>

\* What a parameter holds once a text has been set; None when the text is no
\* number for it.
Canonical(k, v) ==
  CASE Kind[k] = "string" -> v
    [] Kind[k] = "boolean" -> IF v \in {True, "1"} THEN True ELSE "false"
    [] Kind[k] \in {"number", "long"} -> Numeral[v]

\* Defaults are spelled as rbus spells values.
ASSUME DefaultAssumption == \A k \in Keys : Canonical(k, Default[k]) = Default[k]

\* rbus_set works for k.
Put(k, v) ==
  /\ live' = [live EXCEPT ![k] = Canonical(k, v)]
  /\ touched' = touched \cup {k}

NotApplied(k) == k = UpnpKey /\ live[WfoKey] = True

Diverted(k) == k = ModeKey /\ live[UnifyKey] = True

\* The types ParseConfigValue converts to, and texts it can convert.
Convertible(k, v) == Kind[k] # "long" /\ Canonical(k, v) # None

FirstValue(k) == Features[index].data[k]

Entry(k) ==
  /\ pc = "first"
  /\ writes = {}
  /\ k \in rest
  /\ rest' = rest \ {k}
  /\ UNCHANGED <<server, hash, blob, pc, retry, conf, index, scheduled, before>>

\* The value is not applied, cannot be converted, or is there already.
ParamSkipped(k) ==
  LET v == FirstValue(k)
  IN  /\ Entry(k)
      /\ ~Diverted(k)
      /\ \/ NotApplied(k)
         \/ ~Convertible(k, v)
         \/ k \notin RfcKeys /\ v = live[k]
      /\ UNCHANGED <<live, touched, wan, writes, rfcRebootCronNeeded, events,
                     dropped>>

\* The mode is not set: the interfaces it selects are, one after the other.
ModeDiverted(k) ==
  /\ Entry(k)
  /\ Diverted(k)
  /\ writes' = Selectors
  /\ UNCHANGED <<live, touched, wan, rfcRebootCronNeeded, events, dropped>>

\* The next of the writes: DOCSIS, WANOE, then the choice with psmcli.
NextWrite(s) ==
  /\ pc = "first"
  /\ s \in writes
  /\ s = "ethernet" => "docsis" \notin writes
  /\ s = "persist" => writes = {"persist"}
  /\ writes' = writes \ {s}
  /\ UNCHANGED <<server, hash, live, touched, blob, pc, retry, conf, index, rest,
                 rfcRebootCronNeeded, scheduled, before>>

\* Variant of SelectionSet: the two interfaces are swapped.
SelectionSetSwapped(s, ok) ==
  /\ NextWrite(s)
  /\ Events(Cost(ok))
  /\ LET chosen == SelectionOf(FirstValue(ModeKey))
     IN  wan' = IF ok THEN [wan EXCEPT ![s] = CASE s = "docsis" -> chosen["ethernet"]
                                                [] s = "ethernet" -> chosen["docsis"]
                                                [] s = "persist" -> chosen["persist"]]
                      ELSE wan
  /\ dropped' = IF ok THEN dropped ELSE dropped \cup {ModeKey}

\* One write works or fails; the others follow in either case.
SelectionSet(s, ok) ==
  /\ NextWrite(s)
  /\ Events(Cost(ok))
  /\ wan' = IF ok THEN [wan EXCEPT ![s] = SelectionOf(FirstValue(ModeKey))[s]]
                   ELSE wan
  /\ dropped' = IF ok THEN dropped ELSE dropped \cup {ModeKey}

\* The new value, or a partner that was unknown, asks for a reboot.
Reboots(k, v) ==
  /\ v # live[k]
  /\ Features[index].immediate \/ (k = PartnerKey /\ live[k] = Unknown)

\* Variant of ParamSet: RFC parameters always ask for the reboot.
ParamSetAlways(k, read) ==
  LET v == FirstValue(k)
  IN  /\ Entry(k)
      /\ read => ~NotApplied(k) /\ ~Diverted(k)
      /\ Convertible(k, v)
      /\ v # live[k] \/ k \in RfcKeys
      /\ Events(Cost(read))
      /\ Put(k, v)
      /\ rfcRebootCronNeeded' =
           (rfcRebootCronNeeded \/ Features[index].immediate)
      /\ dropped' = IF read THEN dropped ELSE dropped \cup {k}
      /\ UNCHANGED <<wan, writes>>

\* Variant of ParamSet: the text is set without a look at the conversion.
ParamSetUnchecked(k, read) ==
  LET v == FirstValue(k)
  IN  /\ Entry(k)
      /\ read => ~NotApplied(k) /\ ~Diverted(k)
      /\ v # live[k] \/ k \in RfcKeys
      /\ Events(Cost(read))
      /\ Put(k, v)
      /\ rfcRebootCronNeeded' = (rfcRebootCronNeeded \/ Reboots(k, v))
      /\ dropped' = IF read THEN dropped ELSE dropped \cup {k}
      /\ UNCHANGED <<wan, writes>>

\* A value that differs, as a text, is set, and so is an RFC parameter in any
\* case.  ~read: a switch that is on could not be read, and is taken as off.
ParamSet(k, read) ==
  LET v == FirstValue(k)
  IN  /\ Entry(k)
      /\ read => ~NotApplied(k) /\ ~Diverted(k)
      /\ Convertible(k, v)
      /\ v # live[k] \/ k \in RfcKeys
      /\ Events(Cost(read))
      /\ Put(k, v)
      /\ rfcRebootCronNeeded' = (rfcRebootCronNeeded \/ Reboots(k, v))
      /\ dropped' = IF read THEN dropped ELSE dropped \cup {k}
      /\ UNCHANGED <<wan, writes>>

\* rbus_open, rbus_get or rbus_set fails: the next entry.
ParamFails(k) ==
  /\ Entry(k)
  /\ Events(1)
  /\ dropped' = dropped \cup {k}
  /\ UNCHANGED <<live, touched, wan, writes, rfcRebootCronNeeded>>

DataOf(c) == [i \in DOMAIN Content[c] |-> Content[c][i].data]

\* _RFCKeyAndValueMap of each response.
SecondMaps == [c \in Configs |-> ConfigMap(DataOf(c))]

SecondMap == SecondMaps[conf]

\* Variant of ClearDBEnd: nothing falls back.
ClearDBEndNot(ok) ==
  /\ pc = "end"
  /\ ok
  /\ touched' = Keys
  /\ rest' = Named(SecondMap)
  /\ pc' = "second"
  /\ UNCHANGED <<server, hash, live, wan, blob, retry, conf, index, events,
                 writes, rfcRebootCronNeeded, scheduled, before, dropped>>

\* ClearDBEnd: RFC parameters that were not set since ClearDB fall back.
\* processXconfResponseConfigDataPart then makes its own map.
ClearDBEnd(ok) ==
  /\ pc = "end"
  /\ Events(Cost(ok))
  /\ IF ok
       THEN /\ live' = [k \in Keys |-> IF k \in RfcKeys \ touched
                                         THEN Default[k] ELSE live[k]]
            /\ touched' = Keys
       ELSE UNCHANGED <<live, touched>>
  /\ dropped' = IF ok THEN dropped ELSE dropped \cup RfcKeys
  /\ rest' = Named(SecondMap)
  /\ pc' = "second"
  /\ UNCHANGED <<server, hash, wan, blob, retry, conf, index,
                 writes, rfcRebootCronNeeded, scheduled, before>>

(***************************************************************************)
(* The second pass: set_RFCProperty for every key of the map, whatever the *)
(* first one made of it.                                                   *)
(***************************************************************************)

SecondValue(k) == SecondMap[k]

MapEntry(k) ==
  /\ pc = "second"
  /\ k \in rest
  /\ \A j \in rest : Rank[k] <= Rank[j]
  /\ UNCHANGED <<server, hash, wan, blob>>

\* The entry is done with.
NextEntry(k) ==
  /\ rest' = rest \ {k}
  /\ UNCHANGED <<pc, retry, conf, index, writes, rfcRebootCronNeeded, scheduled, before>>

\* isConfigValueChange; a parameter that read_RFCProperty cannot read counts
\* as changed.
ConfigValueChange(k, v) == k \in RfcKeys \/ Kind[k] = "long" \/ v # live[k]

SecondSkipped(k) ==
  LET v == SecondValue(k)
  IN  /\ MapEntry(k)
      /\ ~ConfigValueChange(k, v)
      /\ NextEntry(k)
      /\ UNCHANGED <<live, touched, events, dropped>>

SecondSet(k, ok) ==
  LET v == SecondValue(k)
  IN  /\ MapEntry(k)
      /\ ConfigValueChange(k, v)
      /\ Canonical(k, v) # None
      /\ Events(Cost(ok))
      /\ IF ok THEN Put(k, v) ELSE UNCHANGED <<live, touched>>
      /\ dropped' = IF ok THEN dropped ELSE dropped \cup {k}
      /\ NextEntry(k)

\* Here nobody catches what std::stoi throws: the process is gone.
SecondAborts(k) ==
  LET v == SecondValue(k)
  IN  /\ MapEntry(k)
      /\ ConfigValueChange(k, v)
      /\ Canonical(k, v) = None
      /\ Gone
      /\ dropped' = Keys
      /\ UNCHANGED <<live, touched, events>>

SecondEnds ==
  /\ pc = "second"
  /\ rest = {}
  /\ pc' = "finish"
  /\ UNCHANGED <<server, hash, live, touched, wan, blob, retry, conf, index,
                 rest, writes, rfcRebootCronNeeded, scheduled, events, before, dropped>>

\* rfcCheckAccountId, the feature list, .version and HandleScheduledReboot.
\* Without an array of features GetRuntimeFeatureControlJSON has freed the
\* JSON already: the second FreeJson may end the process.
Finish(survives) ==
  /\ pc = "finish"
  /\ conf # NoFeatures => survives
  /\ IF survives
       THEN /\ scheduled' = rfcRebootCronNeeded
            /\ pc' = "store"
            /\ UNCHANGED <<retry, conf, index, rest, writes, rfcRebootCronNeeded,
                           before, dropped>>
       ELSE /\ Gone
            /\ dropped' = Keys
  /\ UNCHANGED <<server, hash, live, touched, wan, blob, events>>

\* Variant of UpdateHashAndTimeInDB: the file is not written.
UpdateHashAndTimeInDBNot(found) ==
  /\ pc = "store"
  /\ found
  /\ pc' = "cron"
  /\ UNCHANGED <<server, hash, live, touched, wan, blob, retry, conf, index,
                 rest, writes, rfcRebootCronNeeded, scheduled, events, before, dropped>>

\* Without the header in the response, the old hash stays.
UpdateHashAndTimeInDB(found) ==
  /\ pc = "store"
  /\ Events(Cost(found))
  /\ hash' = IF found THEN conf ELSE hash
  /\ dropped' = IF found THEN dropped ELSE Keys
  /\ pc' = "cron"
  /\ UNCHANGED <<server, live, touched, wan, blob, retry, conf, index, rest,
                 writes, rfcRebootCronNeeded, scheduled, before>>

\* getCronFromDCMSettings and manageCronJob, whatever became of the request.
Exit ==
  /\ pc = "cron"
  /\ Gone
  /\ UNCHANGED <<server, hash, live, touched, wan, blob, events, dropped>>

(***************************************************************************)
(* Environment                                                             *)
(***************************************************************************)

\* webconfig may or may not come to an end.
BlobCompleted ==
  /\ blob = "processing"
  /\ blob' = "completed"
  /\ UNCHANGED <<server, hash, live, touched, wan, pc, retry, conf, index,
                 rest, writes, rfcRebootCronNeeded, scheduled, events, before, dropped>>

ServerChanges(c) ==
  /\ c # server
  /\ Events(1)
  /\ server' = c
  /\ UNCHANGED <<hash, live, touched, wan, blob, pc, retry, conf, index, rest,
                 writes, rfcRebootCronNeeded, scheduled, before, dropped>>

\* WebPA, or the agent that applies the blob, sets a parameter.
OtherSets(k, v) ==
  /\ Canonical(k, v) = v /\ v # live[k]
  /\ Events(1)
  /\ Put(k, v)
  /\ dropped' = dropped \cup {k}
  /\ UNCHANGED <<server, hash, wan, blob, pc, retry, conf, index, rest,
                 writes, rfcRebootCronNeeded, scheduled, before>>

\* The process is killed.  The hash of the configuration before stays.
Die ==
  /\ pc # "off"
  /\ Events(1)
  /\ Gone
  /\ dropped' = IF pc \in Applying THEN Keys ELSE dropped
  /\ UNCHANGED <<server, hash, live, touched, wan, blob>>

\* The parameters are in flash, the hash is in RAM.
Reboot ==
  /\ Events(1)
  /\ Gone
  /\ hash' = NoHash
  /\ touched' = Keys
  /\ blob' \in {"processing", "completed"}
  /\ UNCHANGED <<server, live, wan, dropped>>

\* The entries of configData and of the map.
EntryStep(k) ==
  \/ ParamSkipped(k) \/ ParamFails(k)
  \/ SecondSkipped(k) \/ SecondAborts(k)
  \/ ModeDiverted(k)
  \/ \E ok \in BOOLEAN : ParamSet(k, ok) \/ SecondSet(k, ok)

Step ==
  \/ \E k \in rest : EntryStep(k)
  \/ \E s \in writes, ok \in BOOLEAN : SelectionSet(s, ok)
  \/ NextFeature \/ SecondEnds
  \/ Start \/ Wait \/ NotModified \/ Response \/ RequestFails \/ OpenFails
  \/ \E ipv6, ipv4 \in BOOLEAN : CheckIPConnectivity(ipv6, ipv4)
  \/ \E ok \in BOOLEAN :
       \/ \E off \in BOOLEAN : ClearDB(off, ok)
       \/ ClearDBEnd(ok) \/ Finish(ok) \/ UpdateHashAndTimeInDB(ok)
  \/ Exit

Next ==
  \/ Step
  \/ BlobCompleted
  \/ \E c \in Configs : ServerChanges(c)
  \/ \E k \in Keys, v \in Foreign : OtherSets(k, v)
  \/ Die
  \/ Reboot

Spec == Init /\ [][Next]_vars

\* rfcMgr is started again by cron (or after a boot), and its steps do not
\* hang.
FairSpec == Spec /\ WF_vars(Step)

(***************************************************************************)
(* Properties                                                              *)
(***************************************************************************)

\* Every variable keeps its type.
TypeOK ==
  /\ server \in Configs
  /\ hash \in Configs \cup {NoHash, Cleared}
  /\ live \in [Keys -> Texts]
  /\ touched \subseteq Keys
  /\ wan \in Selections
  /\ writes \subseteq Selectors
  /\ blob \in {"processing", "completed"}
  /\ pc \in Steps
  /\ retry \in 0 .. WaitRetries + 1
  /\ conf \in Configs
  /\ index \in Nat
  /\ rest \subseteq Keys
  /\ rfcRebootCronNeeded \in BOOLEAN /\ scheduled \in BOOLEAN
  /\ events \in 0 .. MaxEvents
  /\ before \in [Keys -> Texts]
  /\ dropped \subseteq Keys

\* The features that name k, those the first pass looks at, and what it finds.
Namings == [c \in Configs |-> [k \in Keys |->
              {i \in WithData(DataOf(c)) : DataOf(c)[i][k] # None}]]
Naming(c, k) == Namings[c][k]
FirstPass(c) == {i \in WithData(DataOf(c)) : Content[c][i].valid}
FirstMaps == [c \in Configs |-> MapOf(DataOf(c), FirstPass(c))]

\* The parameters ks have the values of the hash's configuration: those that
\* both passes find have its values, those only the first pass finds (behind
\* a feature without configData) too, and RFC parameters it does not name
\* have their defaults.
Applied(ks) ==
  \A k \in ks :
    LET second == SecondMaps[hash][k]
        first == FirstMaps[hash][k]
    IN  /\ second # None => live[k] = Canonical(k, second)
        /\ second = None /\ first # None /\ k \notin {UpnpKey, ModeKey}
              /\ Convertible(k, first)
           => live[k] = Canonical(k, first)
        /\ k \in RfcKeys /\ Naming(hash, k) = {} => live[k] = Default[k]

\* The hash in RAM stands for the parameters, so a 304 is right to change
\* nothing.  Left out are keys that a failed call or another writer concerns,
\* and everything when a process died, or threw an exception, after ClearDB:
\* then the hash of the configuration before stays beside half of the new one.
HashMeansApplied ==
  pc \notin Applying /\ hash \in Configs => Applied(Keys \ dropped)

\* A reboot is scheduled when a feature that takes effect immediately
\* changes a parameter; and only when some parameter has changed, with three
\* kinds of exception: a key that the configuration names twice, a support
\* key, which is off when its value is compared, and a value that rbus spells
\* another way ("1" for a Boolean).  In these three the code departs from its
\* own comment, "Only schedule reboot if values actually changed": see
\* RebootOnlyForChanges.
RebootExactly ==
  pc = "store" =>
    /\ \A k \in Keys \ (dropped \cup SupportKeys \cup {UpnpKey, ModeKey}), i \in FirstPass(conf) :
         LET v == Content[conf][i].data[k]
         IN  /\ Naming(conf, k) = {i} /\ Content[conf][i].immediate
             /\ Convertible(k, v) /\ Canonical(k, v) # before[k]
             => scheduled
    /\ scheduled =>
         \E k \in Keys :
           \/ k \in dropped \/ live[k] # before[k]
           \/ k \in SupportKeys /\ Naming(conf, k) # {}
           \/ \E i, j \in Naming(conf, k) : i # j
           \/ \E i \in Naming(conf, k) :
                Content[conf][i].data[k] # Canonical(k, Content[conf][i].data[k])

\* As the comment in ParseConfigValue has it: without a failure, a reboot is
\* scheduled only if some parameter has changed.  It does not hold: the
\* comparison is one of texts, so a configuration with "1" for a Boolean asks
\* for a reboot in every run that applies it, and the reboot empties /tmp and
\* makes the next run apply it again.
RebootOnlyForChanges ==
  pc = "store" /\ scheduled => \E k \in Keys : k \in dropped \/ live[k] # before[k]

\* With WAN unification on before the run and not switched by it, the mode
\* that the configuration selects is what the WanManager gets.
WanFollowsMode ==
  pc = "store" =>
    \A i \in FirstPass(conf) :
      /\ before[UnifyKey] = True
      /\ \A j \in Naming(conf, UnifyKey) : Content[conf][j].data[UnifyKey] = True
      /\ Naming(conf, ModeKey) = {i}
      /\ {ModeKey, UnifyKey} \cap dropped = {}
      => wan = SelectionOf(Content[conf][i].data[ModeKey])

\* Every run ends: webconfig cannot hold it back forever, nor can the server.
RunEnds == (pc # "off") ~> (pc = "off")

\* Every value the second pass sets is a number where one is needed.
Processable(c) ==
  /\ c \notin {Bad, NoFeatures}
  /\ \A k \in Named(SecondMaps[c]) : Canonical(k, SecondMaps[c][k]) # None

\* Once failures, deaths, reboots, other writers and changes of the server
\* have come to an end, and no run is under way, a device whose hash is not
\* the server's gets the server's configuration, with every one of its
\* parameters, those that failures or deaths concerned before included; unless
\* it is one the code cannot process.  With the hash of the server all
\* answers are 304: what failed while that hash was stored stays as it is.
Converges ==
  (events = MaxEvents /\ pc = "off" /\ hash # server)
    ~> ((hash = server /\ Applied(Keys)) \/ ~Processable(server))

(***************************************************************************)
(* The inductive invariant.                                                *)
(***************************************************************************)

\* The features whose entry for k the first pass looks at.
Entries(k) == {i \in FirstPass(conf) : i \in Naming(conf, k)}

Datum(i, k) == Content[conf][i].data[k]

\* The first pass has been at entry k of feature i.
Done(k, i) ==
  \/ pc \in Applying \ {"first"}
  \/ pc = "first" /\ (i < index \/ (i = index /\ k \notin rest))

\* The entries to come, and what a run begins with.
ControlInv ==
  /\ pc = "first" => index <= Len(Features)
  /\ pc = "first" /\ rest # {} => index \in FirstPass(conf) /\ rest \subseteq Named(Features[index].data)
  /\ pc = "second" => rest \subseteq Named(SecondMap)
  /\ writes # {} => pc = "first" /\ index \in FirstPass(conf) \cap Naming(conf, ModeKey)
  /\ pc = "request" => retry < RETRY_COUNT
  /\ pc \in {"off", "wait", "ip", "request", "open"} => ~rfcRebootCronNeeded
  /\ pc = "store" => scheduled = rfcRebootCronNeeded

\* rbus spells every value in one way.
CanonicalInv == \A k \in Keys : Canonical(k, live[k]) = live[k]

\* Before its first entry a parameter has the value it had before the run.
UntouchedInv ==
  pc = "first" =>
    \A k \in Keys \ (dropped \cup SupportKeys) :
      (\A i \in Entries(k) : ~Done(k, i)) => live[k] = before[k]

\* After the last of its entries it has the value of that one, and ClearDBEnd
\* leaves it alone.
FirstInv ==
  pc \in Applying =>
    \A k \in Keys \ (dropped \cup {UpnpKey, ModeKey}) : \A i \in Entries(k) :
      /\ Done(k, i) /\ (\A j \in Entries(k) : j <= i) /\ Convertible(k, Datum(i, k))
      /\ pc \in {"first", "end"} \/ SecondMap[k] = None
      => /\ live[k] = Canonical(k, Datum(i, k))
         /\ pc \in {"first", "end"} /\ k \in RfcKeys => k \in touched

\* What the configuration does not name falls back.
FallbackInv ==
  pc \in Applying =>
    \A k \in RfcKeys \ dropped :
      Naming(conf, k) = {} =>
        IF pc \in {"first", "end"} THEN k \notin touched ELSE live[k] = Default[k]

\* The second pass sets every entry of its map.
SecondInv ==
  pc \in {"second", "finish", "store"} =>
    \A k \in Named(SecondMap) \ dropped :
      (pc = "second" => k \notin rest) => live[k] = Canonical(k, SecondMap[k])

\* An entry that must ask for a reboot has done so.
AskedInv ==
  pc \in Applying =>
    \A k \in Keys \ (dropped \cup SupportKeys \cup {UpnpKey, ModeKey}), i \in FirstPass(conf) :
      /\ Naming(conf, k) = {i} /\ Content[conf][i].immediate
      /\ Convertible(k, Datum(i, k)) /\ Canonical(k, Datum(i, k)) # before[k]
      /\ Done(k, i)
      => rfcRebootCronNeeded

\* The entry k, the only one for its parameter, has changed it for good.
ChangedBy(k, i) ==
  /\ Naming(conf, k) = {i}
  /\ live[k] = Datum(i, k) /\ Canonical(k, Datum(i, k)) = Datum(i, k) /\ live[k] # before[k]
  /\ pc \in {"first", "end"} /\ k \in RfcKeys => k \in touched

\* Who asked for a reboot had a reason.
ReasonInv ==
  pc \in Applying /\ rfcRebootCronNeeded =>
    \E k \in Keys :
      \/ k \in dropped
      \/ k \in SupportKeys /\ Naming(conf, k) # {}
      \/ \E i, j \in Naming(conf, k) : i # j
      \/ \E i \in Naming(conf, k) : Datum(i, k) # Canonical(k, Datum(i, k))
      \/ \E i \in Naming(conf, k) : ChangedBy(k, i)

\* With WAN unification on, the mode goes to the WanManager, write by write.
WanInv ==
  /\ pc \in Applying /\ before[UnifyKey] = True /\ UnifyKey \notin dropped
  /\ \A j \in Naming(conf, UnifyKey) : Datum(j, UnifyKey) = True
  => /\ pc = "first" => live[UnifyKey] = True
     /\ \A i \in FirstPass(conf) :
          Naming(conf, ModeKey) = {i} /\ ModeKey \notin dropped /\ Done(ModeKey, i)
          => \A s \in Selectors \ writes : wan[s] = SelectionOf(Datum(i, ModeKey))[s]

GatewayInv ==
  /\ TypeOK
  /\ ControlInv
  /\ CanonicalInv
  /\ UntouchedInv
  /\ FirstInv
  /\ FallbackInv
  /\ SecondInv
  /\ AskedInv
  /\ ReasonInv
  /\ WanInv
  /\ HashMeansApplied
=============================================================================

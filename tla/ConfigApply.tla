---------------------------- MODULE ConfigApply ----------------------------
(***************************************************************************)
(* How a run of rfcMgr (video build) applies the configuration it received,*)
(* key by key: CreateConfigDataValueMap, clearDB, the loop of              *)
(* processXconfResponseConfigDataPart with isConfigValueChange and         *)
(* set_RFCProperty, tr181.list and clearDBEnd.  XconfRequest has all of    *)
(* this as the steps ClearDB, RestoreAccount and ApplyConfigData.          *)
(***************************************************************************)
EXTENDS FeatureMap

CONSTANTS
  RfcKeys,     \* those in the RFC namespace or in the bootstrap file
  BootKeys,    \* those in the bootstrap file
  AccountKey, UrlKey,
  Defaults,    \* parameters with a built-in default
  Values,      \* texts of values
  DefaultValue, Empty, Unknown,
  Responses,   \* feature arrays the server may send
  Foreign,     \* bound on the values others set
  Maintenance, \* isMaintenanceEnabled: the line is there, or no file is
  MaxEvents    \* bound on failed calls, values set by others, starts of tr69hostif

Optional == Values \cup {None}

ASSUME ConfigAssumption ==
  /\ RfcKeys \subseteq Keys /\ BootKeys \subseteq RfcKeys /\ AccountKey \in RfcKeys /\ UrlKey \in RfcKeys
  /\ AccountKey # UrlKey
  /\ Defaults \subseteq Keys \ {AccountKey}
  /\ DefaultValue \in Values /\ Empty \in Values /\ Unknown \in Values
  /\ None \notin Values /\ Foreign \subseteq Values
  /\ Responses \subseteq Seq([Keys -> Optional] \cup {NoData})
  /\ NoData \notin [Keys -> Optional]
  /\ Maintenance \in BOOLEAN
  /\ MaxEvents \in Nat

VARIABLES
  ready,        \* tr69hostif has announced its HTTP server
  live,         \* what tr69hostif, or the ini files, answer to a GET
  store,        \* tr181store.ini as it is rewritten; live after RELOADCACHE
  features,     \* the response
  pc, rest, key, newValue, currentValue,
  isRebootRequired,
  list,         \* the line of each key in tr181.list
  events,
  before,       \* history: live at the start of the run
  dropped,      \* history: keys a failed call, a refused value, another
                \* writer or a tr69hostif that is not ready concerns
  misread       \* history: a GET of a parameter that has a value failed

vars == <<ready, live, store, features, pc, rest, key, newValue,
          currentValue, isRebootRequired, list, events, before, dropped,
          misread>>

env == <<ready, features, before>>

Steps == {"map", "clear", "restore", "loop", "set", "end", "done"}

Init ==
  /\ ready \in BOOLEAN
  /\ live = [k \in Keys |-> None]
  /\ store = live
  /\ features \in Responses
  /\ pc = "map"
  /\ rest = {}
  /\ key = AccountKey
  /\ newValue = Empty
  /\ currentValue = Empty
  /\ isRebootRequired = FALSE
  /\ list = live
  /\ events = 0
  /\ before = live
  /\ dropped = {}
  /\ misread = FALSE

\* A call fails, or somebody else writes: n of them in this step.
Events(n) ==
  /\ events + n <= MaxEvents
  /\ events' = events + n

\* Without a key nothing is cleared or applied.
CreateConfigDataValueMap ==
  /\ pc = "map"
  /\ rest' = Named(ConfigMap(features))
  /\ pc' = IF rest' = {} THEN "done" ELSE "clear"
  /\ UNCHANGED <<env, live, store, key, newValue, currentValue,
                 isRebootRequired, list, events, dropped, misread>>

(***************************************************************************)
(* clearDB.  tr181store.ini is truncated in any case; the ClearDB commands *)
(* reach tr69hostif only when its server is ready.  When it is not, the    *)
(* bootstrap file stays as it is, and nothing is set in the RFC namespace. *)
(***************************************************************************)

Cleared(f, keys) == [k \in Keys |-> IF k \in keys THEN None ELSE f[k]]

\* Variant of ClearDB: the RFC namespace is not emptied.
ClearDBNot(ok) ==
  /\ pc = "clear"
  /\ ok
  /\ pc' = "restore"
  /\ UNCHANGED <<env, live, store, rest, key, newValue, currentValue,
                 isRebootRequired, list, events, dropped, misread>>

ClearDB(ok) ==
  /\ pc = "clear"
  /\ Events(IF ok THEN 0 ELSE 1)
  /\ IF ready
       THEN /\ store' = IF ok THEN Cleared(store, RfcKeys) ELSE store
            /\ dropped' = IF ok THEN dropped
                          ELSE dropped \cup (RfcKeys \ rest) \cup {AccountKey}
            /\ UNCHANGED live
       ELSE /\ ok
            /\ live' = Cleared(live, RfcKeys \ BootKeys)
            /\ store' = live'
            /\ dropped' = dropped \cup RfcKeys
  /\ pc' = "restore"
  /\ UNCHANGED <<env, rest, key, newValue, currentValue, isRebootRequired,
                 list, misread>>

\* rfcStashRetrieveParams puts the account back, if GetAccountID found one
\* before the clear and the SET works.
RestoreAccount(ok) ==
  /\ pc = "restore"
  /\ LET stash == before[AccountKey]
         restored == ok /\ ready /\ stash \notin {None, Empty, Unknown}
     IN  /\ Events(IF ok THEN 0 ELSE 1)
         /\ store' = IF restored THEN [store EXCEPT ![AccountKey] = stash]
                                 ELSE store
         /\ dropped' = IF ok THEN dropped ELSE dropped \cup {AccountKey}
  /\ pc' = "loop"
  /\ UNCHANGED <<env, live, rest, key, newValue, currentValue,
                 isRebootRequired, list, misread>>

(***************************************************************************)
(* The loop, in any order of the keys.                                     *)
(***************************************************************************)

\* read_RFCProperty: a default counts as a value.
Reads(k, v) == IF v = None /\ k \in Defaults THEN DefaultValue ELSE v

Answer(k) == Reads(k, live[k])

\* isConfigValueChange after a successful read of k.
Changed(k, value, current) ==
  IF k \in RfcKeys THEN ~(k = AccountKey /\ value = Unknown)
                   ELSE value # current

\* Variant of SkipKey: the list gets what Xconf sent.
SkipKeyListed(k) ==
  LET value == ConfigMap(features)[k]
  IN  /\ pc = "loop" /\ k \in rest
      /\ Answer(k) # None
      /\ ~Changed(k, value, Answer(k))
      /\ currentValue' = Answer(k)
      /\ newValue' = value
      /\ key' = k
      /\ list' = [list EXCEPT ![k] = newValue']
      /\ rest' = rest \ {k}
      /\ UNCHANGED <<env, live, store, pc, isRebootRequired, events, dropped,
                     misread>>

\* A value that is read and need not be set: the list gets it, or, for an
\* account that Xconf calls unknown, the one that was read.
SkipKey(k) ==
  LET value == ConfigMap(features)[k]
  IN  /\ pc = "loop" /\ k \in rest
      /\ Answer(k) # None
      /\ ~Changed(k, value, Answer(k))
      /\ currentValue' = Answer(k)
      /\ newValue' = IF k \in RfcKeys THEN Answer(k) ELSE value
      /\ key' = k
      /\ list' = [list EXCEPT ![k] = newValue']
      /\ rest' = rest \ {k}
      /\ UNCHANGED <<env, live, store, pc, isRebootRequired, events, dropped,
                     misread>>

\* A changed value goes on to set_RFCProperty.  Empty values are rejected,
\* and so is an Xconf URL that does not answer: ProcessXconfUrl tries it
\* twice.
Accept(k, value, valid) ==
  IF value = Empty \/ (k = UrlKey /\ ~valid)
    THEN /\ rest' = rest \ {k}
         /\ dropped' = dropped \cup {k}
         /\ UNCHANGED pc
    ELSE /\ pc' = "set"
         /\ UNCHANGED <<rest, dropped>>

\* Variant of ReadKey: the value is copied although the read gave a default.
ReadKeyRaw(k, valid) ==
  LET value == ConfigMap(features)[k]
  IN  /\ pc = "loop" /\ k \in rest
      /\ Answer(k) # None
      /\ Changed(k, value, Answer(k))
      /\ currentValue' = live[k]
      /\ newValue' = value
      /\ key' = k
      /\ Accept(k, value, valid)
      /\ UNCHANGED <<env, live, store, isRebootRequired, list, events, misread>>

ReadKey(k, valid) ==
  LET value == ConfigMap(features)[k]
  IN  /\ pc = "loop" /\ k \in rest
      /\ Answer(k) # None
      /\ Changed(k, value, Answer(k))
      /\ currentValue' = Answer(k)
      /\ newValue' = value
      /\ key' = k
      /\ Accept(k, value, valid)
      /\ UNCHANGED <<env, live, store, isRebootRequired, list, events, misread>>

\* A failed read counts as a change, and leaves currentValue as it is: the
\* value of the key before.
ReadFails(k, valid) ==
  LET value == ConfigMap(features)[k]
      fault == Answer(k) # None
  IN  /\ pc = "loop" /\ k \in rest
      /\ Events(IF fault THEN 1 ELSE 0)
      /\ misread' = (misread \/ fault)
      /\ newValue' = value
      /\ key' = k
      /\ Accept(k, value, valid)
      /\ UNCHANGED <<env, live, store, currentValue, isRebootRequired, list>>

\* What is written through tr69hostif: outside the RFC namespace it is live
\* at once.
Put(k, v) ==
  /\ store' = [store EXCEPT ![k] = v]
  /\ live' = IF k \in RfcKeys THEN live ELSE [live EXCEPT ![k] = v]

\* Variant of SetRFCProperty: the status of the SET decides.
SetRFCPropertyChecked(got, set) ==
  /\ pc = "set"
  /\ ready
  /\ live[key] = None => got
  /\ Events((IF got THEN 0 ELSE 1) + (IF set THEN 0 ELSE 1))
  /\ IF set THEN Put(key, newValue) ELSE UNCHANGED <<live, store>>
  /\ dropped' = IF set THEN dropped ELSE dropped \cup {key}
  /\ isRebootRequired' =
       (isRebootRequired \/ (Maintenance /\ set /\ newValue # currentValue))
  /\ misread' = (misread \/ ~got)
  /\ list' = [list EXCEPT ![key] = newValue]
  /\ rest' = rest \ {key}
  /\ pc' = "loop"
  /\ UNCHANGED <<env, key, newValue, currentValue>>

\* set_RFCProperty: a GET for the type and a SET, with tr69hostif ready.  A
\* failed GET leaves the type 0, a string, and the SET is sent all the same.
\* The result is the status of the GET, SUCCESS only for a parameter with a
\* value of its own; the status of the SET is lost in an inner variable.
SetRFCProperty(got, set) ==
  /\ pc = "set"
  /\ ready
  /\ live[key] = None => got
  /\ Events((IF got THEN 0 ELSE 1) + (IF set THEN 0 ELSE 1))
  /\ IF set THEN Put(key, newValue) ELSE UNCHANGED <<live, store>>
  /\ dropped' = IF set THEN dropped ELSE dropped \cup {key}
  /\ LET success == got /\ live[key] # None
     IN  isRebootRequired' =
           (isRebootRequired \/ (Maintenance /\ success /\ newValue # currentValue))
  /\ misread' = (misread \/ ~got)
  /\ list' = [list EXCEPT ![key] = newValue]
  /\ rest' = rest \ {key}
  /\ pc' = "loop"
  /\ UNCHANGED <<env, key, newValue, currentValue>>

\* The same before tr69hostif is ready: a value found in the files has type
\* WDMP_NONE, nothing is set, and SUCCESS is returned; a value not found is
\* sent to a server that is not there.
SetSkipped ==
  /\ pc = "set"
  /\ ~ready
  /\ dropped' = dropped \cup {key}
  /\ isRebootRequired' =
       (isRebootRequired
        \/ (Maintenance /\ Answer(key) # None /\ newValue # currentValue))
  /\ list' = [list EXCEPT ![key] = newValue]
  /\ rest' = rest \ {key}
  /\ pc' = "loop"
  /\ UNCHANGED <<env, live, store, key, newValue, currentValue, events, misread>>

LoopEnds ==
  /\ pc = "loop"
  /\ rest = {}
  /\ pc' = "end"
  /\ UNCHANGED <<env, live, store, rest, key, newValue, currentValue,
                 isRebootRequired, list, events, dropped, misread>>

\* updateTR181File and clearDBEnd, which makes tr69hostif reload its cache.
ClearDBEnd(ok) ==
  /\ pc = "end"
  /\ Events(IF ok THEN 0 ELSE 1)
  /\ live' = IF ok /\ ready THEN store ELSE live
  /\ dropped' = IF ok THEN dropped ELSE Keys
  /\ pc' = "done"
  /\ UNCHANGED <<env, store, rest, key, newValue, currentValue,
                 isRebootRequired, list, misread>>

(***************************************************************************)
(* Environment                                                             *)
(***************************************************************************)

\* WebPA or an operator sets a parameter.
OtherSets(k, v) ==
  /\ ready
  /\ Events(1)
  /\ store' = [store EXCEPT ![k] = v]
  /\ live' = [live EXCEPT ![k] = v]
  /\ dropped' = dropped \cup {k}
  /\ UNCHANGED <<env, pc, rest, key, newValue, currentValue, isRebootRequired,
                 list, misread>>

\* tr69hostif announces its server, in the middle of a run or not, and
\* answers with what is in its files.
HostifReady ==
  /\ ~ready
  /\ Events(1)
  /\ ready' = TRUE
  /\ UNCHANGED <<live, store, features, pc, rest, key, newValue, currentValue,
                 isRebootRequired, list, before, dropped, misread>>

\* The next run, in a new process; its response (200) has removed tr181.list.
NextRun(fs, r) ==
  /\ pc = "done"
  /\ features' = fs
  /\ ready' = r
  /\ live' = IF ready = r THEN live ELSE store
  /\ before' = live'
  /\ pc' = "map"
  /\ rest' = {}
  /\ key' = AccountKey
  /\ newValue' = Empty
  /\ currentValue' = Empty
  /\ isRebootRequired' = FALSE
  /\ list' = [k \in Keys |-> None]
  /\ dropped' = {}
  /\ misread' = FALSE
  /\ UNCHANGED <<store, events>>

Next ==
  \/ CreateConfigDataValueMap
  \/ \E ok \in BOOLEAN : ClearDB(ok) \/ RestoreAccount(ok) \/ ClearDBEnd(ok)
  \/ \E k \in Keys :
       \/ SkipKey(k)
       \/ \E valid \in BOOLEAN : ReadKey(k, valid) \/ ReadFails(k, valid)
  \/ \E got, set \in BOOLEAN : SetRFCProperty(got, set)
  \/ SetSkipped
  \/ LoopEnds
  \/ \E k \in Keys, v \in Foreign : OtherSets(k, v)
  \/ HostifReady
  \/ \E fs \in Responses, r \in BOOLEAN : NextRun(fs, r)

Spec == Init /\ [][Next]_vars

(***************************************************************************)
(* Properties.                                                             *)
(***************************************************************************)

\* Every variable keeps its type.
TypeOK ==
  /\ ready \in BOOLEAN
  /\ live \in [Keys -> Optional] /\ store \in [Keys -> Optional]
  /\ features \in Responses
  /\ pc \in Steps
  /\ rest \subseteq Keys /\ key \in Keys
  /\ newValue \in Values /\ currentValue \in Values
  /\ isRebootRequired \in BOOLEAN
  /\ list \in [Keys -> Optional]
  /\ events \in Nat
  /\ before \in [Keys -> Optional]
  /\ dropped \subseteq Keys
  /\ misread \in BOOLEAN

Map == ConfigMap(features)

\* The value a key has after the run: that of the map; an account that Xconf
\* calls unknown is the one the device had, if it had one.  Other RFC keys
\* are gone, except for the stashed account; keys outside the namespace are
\* left alone.
Wanted(k) ==
  LET kept == IF before[k] \in {Empty, Unknown} THEN None ELSE before[k]
  IN  CASE Map[k] = None /\ k \notin RfcKeys -> before[k]
        [] Map[k] = None /\ k = AccountKey -> kept
        [] Map[k] = None /\ k \in RfcKeys \ {AccountKey} -> None
        [] Map[k] = Unknown /\ k = AccountKey /\ before[k] # None -> kept
        [] OTHER -> Map[k]

\* A run with at least one key leaves exactly its configuration in the
\* database, for every key that no failed call, refused value or other
\* writer concerns: a failure of one key costs no other one, and a key that
\* has disappeared from the configuration disappears from the device.  A key
\* that is set before tr69hostif is ready is not, and neither is the RFC
\* namespace if clearDB comes before it.  (A failed read lets an account
\* "Unknown" replace a valid one.)
AppliedExactly ==
  pc = "done" /\ Named(Map) # {} =>
    \A k \in Keys \ dropped :
      (k = AccountKey /\ misread) \/ Answer(k) = Reads(k, Wanted(k))

\* tr181.list tells its readers what the database holds, for every key of
\* the configuration that no failed call or other writer concerns.  Left
\* out: an account stored as empty or "Unknown", which is listed and not
\* restored.
ListMatchesStore ==
  pc = "done" =>
    \A k \in Named(Map) \ dropped :
      \/ k = AccountKey /\ before[k] \in {Empty, Unknown}
      \/ Answer(k) = list[k]

\* The key had a value of its own and gets another one.
Differs(k) ==
  /\ Map[k] # None /\ before[k] # None /\ Map[k] # before[k]
  /\ ~(k = AccountKey /\ Map[k] = Unknown)

\* With maintenance enabled a reboot is asked for when a key that had a
\* value gets another one, and only then: the value of one key never decides
\* about the next one, unless a GET failed or a key was written meanwhile.
RebootExactly ==
  pc = "done" /\ ~misread =>
    /\ Maintenance /\ (\E k \in Keys \ dropped : Differs(k)) => isRebootRequired
    /\ isRebootRequired => Maintenance /\ \E k \in Keys : Differs(k) \/ k \in dropped

\* The test plan says of a feature without configData that it "should be
\* skipped": the parameters of all other features are applied.
OtherFeaturesApplied ==
  ready /\ pc = "done" =>
    \A k \in Keys \ (dropped \cup {AccountKey}) :
      LET all == MapOf(features, WithData(features))
      IN  all[k] # None => Answer(k) = all[k]

(***************************************************************************)
(* The inductive invariant.                                                *)
(***************************************************************************)

Looping == {"loop", "set", "end"}

\* The keys still to come are keys of the response.
RestInv ==
  /\ rest \subseteq Named(Map)
  /\ pc \in {"clear", "restore"} => rest = Named(Map)
  /\ pc \in {"end", "done"} => rest = {}
  /\ pc = "set" => key \in rest /\ newValue = Map[key]

\* Only the RFC namespace is held back until tr69hostif reloads its cache.
StoreInv ==
  /\ ~ready => live = store
  /\ \A k \in Keys \ RfcKeys : live[k] = store[k]

\* What a key had before the run is what a GET returns until it is set.
LiveInv ==
  \A k \in Keys \ dropped :
    /\ pc \in {"map", "clear", "restore"} => live[k] = before[k]
    /\ pc \in Looping /\ (k \in RfcKeys \cup rest \/ Map[k] = None) => live[k] = before[k]

\* The account that rfcStashRetrieveParams puts back.
Stashed == IF before[AccountKey] \in {Empty, Unknown} THEN None ELSE before[AccountKey]

Settled(k) == (k = AccountKey /\ misread) \/ Reads(k, store[k]) = Reads(k, Wanted(k))

\* The store is settled key by key.
SettledInv ==
  \A k \in Keys \ dropped :
    /\ pc = "restore" /\ k \in RfcKeys /\ (k \notin rest \/ k = AccountKey) => store[k] = None
    /\ pc \in Looping /\ k = AccountKey /\ k \in rest => store[k] = Stashed
    /\ pc \in Looping /\ k \notin rest => Settled(k)
    /\ pc = "done" /\ Named(Map) # {} => live[k] = store[k] /\ Settled(k)

\* ... and tr181.list with it.
ListInv ==
  pc \in Looping \cup {"done"} =>
    \A k \in Named(Map) \ (dropped \cup rest) :
      \/ k = AccountKey /\ before[k] \in {Empty, Unknown}
      \/ Reads(k, store[k]) = list[k]

\* set_RFCProperty compares with the value of its own key.
CompareInv ==
  pc = "set" /\ ~misread /\ key \notin dropped /\ before[key] # None =>
    /\ currentValue = before[key]
    /\ ~(key = AccountKey /\ newValue = Unknown)

RebootInv ==
  ~misread =>
    /\ pc \in Looping \cup {"done"} /\ Maintenance =>
         \A k \in Keys \ (dropped \cup rest) : Differs(k) => isRebootRequired
    /\ isRebootRequired => Maintenance /\ \E k \in Keys : Differs(k) \/ k \in dropped

ConfigInv ==
  /\ TypeOK
  /\ RestInv
  /\ StoreInv
  /\ LiveInv /\ SettledInv /\ ListInv /\ CompareInv /\ RebootInv
=============================================================================

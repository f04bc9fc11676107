---------------------------- MODULE XconfRequest ----------------------------
(***************************************************************************)
(* The feature-control request of rfcMgr (rfc_xconf_handler.cpp): one run  *)
(* asks the Xconf server for the configuration of the device, applies it   *)
(* to the feature files and the TR-181 RFC store, and remembers its hash   *)
(* so that the server can answer "not modified" next time.  The process    *)
(* may die between any two writes; between runs the server may publish     *)
(* another configuration and the firmware may be upgraded.  A read of the  *)
(* store may fail at any time; a set has no timeout and waits for as long  *)
(* as tr69hostif hangs.                                                    *)
(*                                                                         *)
(* A configuration stands for its configSetHash.  Two configurations are   *)
(* the same when their hashes are.                                         *)
(***************************************************************************)
EXTENDS Naturals

CONSTANTS
  Configs,        \* what the servers publish, see ConfigsAssumption
  Endpoints,      \* the Xconf servers
  Prod,           \* the server of rfc.properties and of the bootstrap URL
  Firmwares,      \* firmware versions
  None,           \* no hash, no parameters, no files, no answer
  Cleared,        \* the hash "CLEARED"
  Malformed,      \* a body without featureControl.features
  WhoamiSupport,  \* WHOAMI_SUPPORT of device.properties
  RETRY_COUNT,    \* requests of a run
  MaxEvents,      \* publications, upgrades, hangs and deaths explored
  MaxWriteErrors  \* failed writes to the TR-181 store explored

Unknown == "Unknown"

\* Account and partner IDs: absent, unknown, a good one, one with characters
\* that CheckSpecialCharacters refuses.
Ids == {"", Unknown, "id", "i?d"}

Selectors == {"", "prod", "local"}

ASSUME ConfigsAssumption ==
  \A c \in Configs :
    /\ c.data \in BOOLEAN       \* some feature before it has configData
    /\ c.hashed \in BOOLEAN     \* the header configSetHash is there
    /\ c.validates \in BOOLEAN  \* sets the bootstrap URL, which is validated
    /\ c.account \in Ids        \* the keys PreProcessJsonResponse looks at
    /\ c.partner \in Ids
    /\ c.selector \in {"", "ci", "prod"}
    /\ c.url \in Endpoints \cup {None}
ASSUME SentinelAssumption ==
  /\ None \notin Configs /\ Cleared \notin Configs /\ Malformed \notin Configs
  /\ None # Cleared /\ None # Malformed /\ None \notin Endpoints /\ None \notin Firmwares
ASSUME ParameterAssumption ==
  /\ Prod \in Endpoints
  /\ WhoamiSupport \in BOOLEAN
  /\ MaxEvents \in Nat /\ MaxWriteErrors \in Nat
ASSUME RetryAssumption == RETRY_COUNT \in Nat /\ RETRY_COUNT > 0

VARIABLES
  served,        \* the configuration each server publishes
  firmware,      \* the running firmware
  version,       \* .version: the firmware of the last complete run
  features,      \* the configuration of rfcVariable.ini and .RFC_*.ini
  db,            \* the TR-181 RFC store: hash, params, selector, account
  hashFirmware,  \* history: the firmware that stored db.hash
  pc,            \* the next step of the process
  proc,          \* the members of RuntimeFeatureControlProcessor
  result,        \* what ProcessRuntimeFeatureControlReq returns
  start,         \* history: db when the run started
  hangs,         \* tr69hostif accepts requests and does not answer
  events,        \* publications, upgrades, hangs and deaths so far
  writeErrors    \* failed writes so far

vars == <<served, firmware, version, features, db, hashFirmware, pc, proc,
          result, start, hangs, events, writeErrors>>

Steps ==
  {"off", "request", "answer", "features", "clear", "restore", "apply",
   "version", "hash", "failhash", "meta", "done"}

RfcStates == {"Init", "Local", "Redo", "Redo_With_Valid_Data", "Finish"}

Stores ==
  [hash : Configs \cup {None, Cleared}, params : Configs \cup {None},
   selector : Selectors, account : Ids]

EmptyStore == [hash |-> None, params |-> None, selector |-> "", account |-> ""]

\* The members of the object: rfc_state, rfcSelectOpt, _xconf_server_url,
\* whether _boot_strap_xconf_url is set, retries of the loop,
\* _is_first_request, _last_firmware, _accountId, _partner_id,
\* stashAccountId, bkup_hash, isRebootRequired and the downloaded body.
\* misread is a history: what the run works with and has not read, because
\* the read failed.
Reads == {"account", "hash"}

Processors ==
  [state : RfcStates, selectOpt : {"prod", "local"}, url : Endpoints,
   bootstrap : BOOLEAN, retries : 0..RETRY_COUNT, first : BOOLEAN,
   last : Firmwares \cup {None}, account : Ids, partner : Ids, stash : Ids,
   bkup : Configs \cup {None, Cleared}, reboot : BOOLEAN,
   resp : Configs \cup {None, Malformed}, misread : SUBSET Reads]

\* A process that is not there.
NoProcess ==
  [state |-> "Init", selectOpt |-> "prod", url |-> Prod, bootstrap |-> FALSE,
   retries |-> 0, first |-> FALSE, last |-> None, account |-> "",
   partner |-> "", stash |-> "", bkup |-> None, reboot |-> FALSE, resp |-> None,
   misread |-> {}]

\* A device out of the factory.
Init ==
  /\ served \in [Endpoints -> Configs]
  /\ firmware \in Firmwares
  /\ version = None
  /\ features = None
  /\ db = EmptyStore
  /\ hashFirmware = None
  /\ pc = "off"
  /\ proc = NoProcess
  /\ result = "FAILURE"
  /\ start = EmptyStore
  /\ hangs = FALSE
  /\ events = 0
  /\ writeErrors = 0

\* A write to the TR-181 store waits for an answer.  It succeeds, or fails
\* and is counted, and the code goes on either way.
Write(ok) ==
  /\ ~hangs
  /\ \/ ok /\ UNCHANGED writeErrors
     \/ ~ok /\ writeErrors < MaxWriteErrors /\ writeErrors' = writeErrors + 1

\* Whether a read of the store fails: it has a timeout.
ReadFails == IF hangs THEN {TRUE} ELSE BOOLEAN

\* misread when a read fails.
Misread(read, failed) == IF failed THEN proc.misread \cup {read} ELSE proc.misread

(***************************************************************************)
(* InitializeRuntimeFeatureControlProcessor.                               *)
(***************************************************************************)

\* GetAccountID: _accountId after it.  A failed read leaves it alone.
GetAccountID(failed, old, last) ==
  IF failed THEN old
  ELSE IF db.account = "" \/ last # firmware THEN Unknown
  ELSE db.account

\* .version names no firmware, or another one.
IsNewFirmwareFirstRequest == version # firmware

\* _partner_id: what GetPartnerId finds on the device, or Unknown.
PartnersRead == {Unknown, "id"}

\* GetServURL: the server named by the properties file in use.
GetServURL(local) == IF local THEN Endpoints ELSE {Prod}

\* GetBootstrapXconfUrl: whether the bootstrap store has a URL that is
\* used.  Ten failed reads count as none.
GetBootstrapXconfUrl(local) == IF local THEN {FALSE} ELSE BOOLEAN

\* A fresh /tmp/.lastdirectfail_rfc, or an initialisation that fails (no
\* URL, no experience), ends the run before it asks anything.
UnlessDirectBlocked(blocked) == IF blocked THEN "done" ELSE "request"

\* A run starts.  With a local override (persistent properties file and
\* unlocked debug services) the URL is the one of that file and the
\* bootstrap URL is never used.
Start(local, bootstrap, blocked, partner, u) ==
  /\ pc = "off"
  /\ u \in GetServURL(local)
  /\ bootstrap \in GetBootstrapXconfUrl(local)
  /\ partner \in PartnersRead
  /\ pc' = UnlessDirectBlocked(blocked)
  /\ \E failed \in ReadFails :
       proc' = [NoProcess EXCEPT
                  !.state = IF local THEN "Local" ELSE "Init",
                  !.selectOpt = IF local THEN "local" ELSE "prod",
                  !.url = u,
                  !.bootstrap = bootstrap,
                  !.first = IsNewFirmwareFirstRequest,
                  !.last = version,
                  !.account = GetAccountID(failed, "", version),
                  !.misread = IF failed THEN {"account"} ELSE {},
                  !.partner = partner]
  /\ result' = "FAILURE"
  /\ start' = db
  /\ UNCHANGED <<served, hangs, firmware, version, features, db, hashFirmware, events, writeErrors>>

(***************************************************************************)
(* DownloadRuntimeFeatutres.                                               *)
(***************************************************************************)

\* Which reads of a request fail: XconfSelector, ConfigSetHash.
HashReads == [selector : ReadFails, hash : ReadFails]

\* The last run used the production server (XconfSelector).
IsXconfSelectorSlotProd(failed) == ~failed /\ db.selector = "prod"

\* GetStoredHashAndTime reads the stored hash, and RetrieveHashAndTime-
\* FromPreviousDataSet saves it in bkup_hash.
Retrieves(f) ==
  /\ proc.last = firmware
  /\ proc.state = "Init" => IsXconfSelectorSlotProd(f.selector)

\* None stands for the texts UPGRADE_HASH and OVERRIDE_HASH.
StoredHash(f) == IF f.hash THEN None ELSE db.hash

\* The hash in the request.
SentHash(f) ==
  IF Retrieves(f) /\ proc.partner # Unknown /\ proc.account # Unknown
    THEN StoredHash(f)
    ELSE None

BackupHash(f) == IF Retrieves(f) THEN StoredHash(f) ELSE proc.bkup

HashMisread(f) ==
  \/ Retrieves(f) /\ f.hash
  \/ proc.last = firmware /\ proc.state = "Init" /\ f.selector

\* The server of this request: the bootstrap URL replaces _xconf_server_url
\* in every pass of the loop unless there is a local override.
Target ==
  IF proc.bootstrap /\ proc.selectOpt # "local" THEN Prod ELSE proc.url

\* The process when it has sent the request.
Asked(f) ==
  [proc EXCEPT !.url = Target, !.bkup = BackupHash(f), !.resp = None,
               !.misread = Misread("hash", HashMisread(f))]

\* Variant of Retry: one request too many.
RetryOnceMore(p) ==
  /\ proc' = [p EXCEPT !.retries = @ + 1]
  /\ pc' = IF p.retries < RETRY_COUNT THEN "request" ELSE "done"
  /\ UNCHANGED result

\* Variant of Retry: at the limit the count starts over.
RetryForever(p) ==
  /\ proc' = [p EXCEPT !.retries = (@ + 1) % RETRY_COUNT]
  /\ pc' = "request"
  /\ UNCHANGED result

\* The loop goes round again, or gives up.
Retry(p) ==
  /\ proc' = [p EXCEPT !.retries = @ + 1]
  /\ pc' = IF p.retries + 1 < RETRY_COUNT THEN "request" ELSE "done"
  /\ UNCHANGED result

\* The feature files are removed.
CleanAllFile == features' = None

\* The server answers 304, which it only does for the hash it publishes.
NotModified(f) ==
  /\ pc = "request"
  /\ SentHash(f) = served[Target]
  /\ proc' = [Asked(f) EXCEPT !.resp = served[Target]]
  /\ result' = "SUCCESS"
  /\ pc' = "done"
  /\ UNCHANGED <<served, hangs, firmware, version, features, db, hashFirmware, start,
                 events, writeErrors>>

\* 200: cleanAllFile and the removal of tr181.list come before the body is
\* looked at.
Updated(f) ==
  /\ pc = "request"
  /\ \E body \in {served[Target], Malformed} :
        proc' = [Asked(f) EXCEPT !.resp = body]
  /\ CleanAllFile
  /\ pc' = "answer"
  /\ UNCHANGED <<served, hangs, firmware, version, db, hashFirmware, result, start,
                 events, writeErrors>>

\* 404 also removes the feature files; the loop goes round again.
NotFound(f) ==
  /\ pc = "request"
  /\ CleanAllFile
  /\ Retry(Asked(f))
  /\ UNCHANGED <<served, hangs, firmware, version, db, hashFirmware, start, events, writeErrors>>

\* Any other code, a curl error, no certificate.
RequestFails(f) ==
  /\ pc = "request"
  /\ Retry(Asked(f))
  /\ UNCHANGED <<served, hangs, firmware, version, features, db, hashFirmware, start,
                 events, writeErrors>>

\* No memory for the answer: the loop ends.
AllocationFails ==
  /\ pc = "request"
  /\ proc' = [proc EXCEPT !.url = Target]
  /\ pc' = "done"
  /\ UNCHANGED <<served, hangs, firmware, version, features, db, hashFirmware, result,
                 start, events, writeErrors>>

(***************************************************************************)
(* PreProcessJsonResponse: is this the answer to apply?                    *)
(***************************************************************************)

\* GetValidAccountId and GetValidPartnerId for a received ID v: the ID used
\* from now on, and whether it asks for another request.
NewId(v, old) ==
  IF v \in {"", "i?d"} THEN [id |-> old, redo |-> FALSE]
  ELSE IF v = Unknown THEN [id |-> old, redo |-> old = Unknown /\ ~WhoamiSupport]
  ELSE [id |-> v, redo |-> ~WhoamiSupport]

\* An account that the configuration does not mention counts as unknown.
GetValidAccountId ==
  NewId(IF proc.resp.account = "" THEN Unknown ELSE proc.resp.account, proc.account)

GetValidPartnerId == NewId(proc.resp.partner, proc.partner)

\* The IDs are only looked at in the first request of a new firmware.
WithValidIds ==
  IF ~proc.first THEN proc
  ELSE [proc EXCEPT
          !.account = GetValidAccountId.id,
          !.partner = GetValidPartnerId.id,
          !.first = FALSE,
          !.state = IF GetValidAccountId.redo \/ GetValidPartnerId.redo
                      THEN "Redo_With_Valid_Data" ELSE @]

\* GetXconfSelect: the answer may name another server and ask to go there.
GetXconfSelect(p) ==
  [p EXCEPT
     !.url = IF p.resp.url # None THEN p.resp.url ELSE @,
     !.state = IF p.resp.selector = "ci" THEN "Redo" ELSE "Finish"]

Selected(p) ==
  IF p.state # "Init" THEN p
  ELSE IF p.selectOpt = "local" THEN [p EXCEPT !.state = "Finish"]
  ELSE GetXconfSelect(p)

PreProcessed ==
  IF proc.state = "Init" \/ proc.first
    THEN IF proc.resp = Malformed THEN proc ELSE Selected(WithValidIds)
    ELSE IF proc.state = "Redo" THEN [proc EXCEPT !.state = "Finish"] ELSE proc

PreProcessJsonResponse ==
  /\ pc = "answer"
  /\ \/ PreProcessed.state = "Redo" /\ Retry(PreProcessed)
     \/ /\ PreProcessed.state = "Redo_With_Valid_Data"
        /\ Retry([PreProcessed EXCEPT !.state = "Init"])
     \/ /\ PreProcessed.state \notin {"Redo", "Redo_With_Valid_Data"}
        /\ proc' = PreProcessed
        /\ pc' = "features"
        /\ UNCHANGED result
  /\ UNCHANGED <<served, hangs, firmware, version, features, db, hashFirmware, start,
                 events, writeErrors>>

(***************************************************************************)
(* ProcessJsonResponse and what follows it in the loop.                    *)
(***************************************************************************)

\* CreateConfigDataValueMap finds a key to apply.
CreateConfigDataValueMap(c) == c.data

\* The feature files are written.  Without a key to apply the store is not
\* cleared.
WriteFeatures ==
  /\ pc = "features"
  /\ proc.resp # Malformed
  /\ features' = proc.resp
  /\ pc' = IF CreateConfigDataValueMap(proc.resp) THEN "clear" ELSE "version"
  /\ UNCHANGED <<served, hangs, firmware, version, db, hashFirmware, proc, result,
                 start, events, writeErrors>>

ParseFails ==
  /\ pc = "features"
  /\ proc.resp = Malformed
  /\ pc' = "failhash"
  /\ UNCHANGED <<served, hangs, firmware, version, features, db, hashFirmware, proc,
                 result, start, events, writeErrors>>

\* rfcStashStoreParams reads the account once more.
Stashed(failed) ==
  LET account == GetAccountID(failed, proc.account, proc.last)
  IN  [proc EXCEPT !.account = account, !.stash = account,
                   !.misread = IF failed THEN @ ELSE @ \ {"account"}]

\* Variant of ClearDB: the hash survives.
ClearDBKeepsHash(ok) ==
  /\ pc = "clear"
  /\ Write(ok)
  /\ \E failed \in ReadFails : proc' = Stashed(failed)
  /\ db' = IF ok THEN [EmptyStore EXCEPT !.hash = db.hash] ELSE db
  /\ pc' = "restore"
  /\ UNCHANGED <<served, hangs, firmware, version, features, hashFirmware, result,
                 start, events>>

\* clearDB up to the restore: the account is stashed and the RFC store is
\* emptied, the hash and the selector included.
ClearDB(ok) ==
  /\ pc = "clear"
  /\ Write(ok)
  /\ \E failed \in ReadFails : proc' = Stashed(failed)
  /\ db' = IF ok THEN EmptyStore ELSE db
  /\ pc' = "restore"
  /\ UNCHANGED <<served, hangs, firmware, version, features, hashFirmware, result,
                 start, events>>

\* Variant of RestoreAccount: the stash is forgotten.
RestoreNothing(ok) ==
  /\ pc = "restore"
  /\ ok
  /\ pc' = "apply"
  /\ UNCHANGED <<served, hangs, firmware, version, features, db, hashFirmware, proc, result,
                 start, events, writeErrors>>

\* rfcStashRetrieveParams.
RestoreAccount(ok) ==
  /\ pc = "restore"
  /\ pc' = "apply"
  /\ IF proc.stash \in {"", Unknown}
       THEN ok /\ UNCHANGED <<db, writeErrors>>
       ELSE Write(ok) /\ db' = IF ok THEN [db EXCEPT !.account = proc.stash] ELSE db
  /\ UNCHANGED <<served, hangs, firmware, version, features, hashFirmware, proc, result,
                 start, events>>

\* The account after the loop over the configuration: an unknown account
\* does not replace one that is read (isConfigValueChange).
AccountApplied(failed) ==
  IF proc.resp.account = "" THEN db.account
  ELSE IF proc.resp.account = Unknown /\ ~failed THEN db.account
  ELSE proc.resp.account

\* ProcessXconfUrl: the validation of a new bootstrap URL is a request too,
\* and saves the stored hash in bkup_hash again.
ValidatedBackup(f) == IF proc.resp.validates THEN BackupHash(f) ELSE proc.bkup

\* The loop of processXconfResponseConfigDataPart, tr181.list and
\* clearDBEnd.  A value that differs from the one read before asks for a
\* reboot when maintenance is enabled.
ApplyConfigData(ok) ==
  /\ pc = "apply"
  /\ Write(ok)
  /\ \E failed \in ReadFails, differs \in BOOLEAN, f \in HashReads :
        /\ db' = [db EXCEPT !.params = IF ok THEN proc.resp ELSE None,
                            !.account = AccountApplied(failed)]
        /\ proc' = [proc EXCEPT !.reboot = @ \/ differs,
                                !.bkup = ValidatedBackup(f),
                                !.misread = Misread("account", failed /\ proc.resp.account = Unknown)]
  /\ pc' = "version"
  /\ UNCHANGED <<served, hangs, firmware, version, features, hashFirmware, result,
                 start, events>>

\* Variant of WriteVersion: an existing .version is kept.
WriteVersionOnce ==
  /\ pc = "version"
  /\ version' = IF version = None THEN firmware ELSE version
  /\ pc' = "hash"
  /\ UNCHANGED <<served, hangs, firmware, features, db, hashFirmware, proc, result,
                 start, events, writeErrors>>

WriteVersion ==
  /\ pc = "version"
  /\ version' = firmware
  /\ pc' = "hash"
  /\ UNCHANGED <<served, hangs, firmware, features, db, hashFirmware, proc, result,
                 start, events, writeErrors>>

\* Variant of UpdateHash: the same hash does not cancel the reboot.
UpdateHashKeepsReboot(ok) ==
  /\ pc = "hash"
  /\ IF proc.resp.hashed
       THEN /\ Write(ok)
            /\ db' = IF ok THEN [db EXCEPT !.hash = proc.resp] ELSE db
            /\ hashFirmware' = IF ok THEN firmware ELSE hashFirmware
            /\ UNCHANGED proc
       ELSE ok /\ UNCHANGED <<db, hashFirmware, proc, writeErrors>>
  /\ result' = "SUCCESS"
  /\ pc' = "meta"
  /\ UNCHANGED <<served, hangs, firmware, version, features, start, events>>

\* updateHashAndTimeInDB: without the header the hash is not touched.
UpdateHash(ok) ==
  /\ pc = "hash"
  /\ IF proc.resp.hashed
       THEN /\ Write(ok)
            /\ db' = IF ok THEN [db EXCEPT !.hash = proc.resp] ELSE db
            /\ hashFirmware' = IF ok THEN firmware ELSE hashFirmware
            /\ proc' = [proc EXCEPT !.reboot = @ /\ proc.bkup # proc.resp]
       ELSE ok /\ UNCHANGED <<db, hashFirmware, proc, writeErrors>>
  /\ result' = "SUCCESS"
  /\ pc' = "meta"
  /\ UNCHANGED <<served, hangs, firmware, version, features, start, events>>

\* The answer could not be processed: updateHashInDB("CLEARED").
ClearHash(ok) ==
  /\ pc = "failhash"
  /\ Write(ok)
  /\ db' = IF ok THEN [db EXCEPT !.hash = Cleared] ELSE db
  /\ pc' = "meta"
  /\ UNCHANGED <<served, hangs, firmware, version, features, hashFirmware, proc,
                 result, start, events>>

StoreXconfEndpointMetadata(ok) ==
  /\ pc = "meta"
  /\ Write(ok)
  /\ db' = IF ok THEN [db EXCEPT !.selector = proc.selectOpt] ELSE db
  /\ pc' = "done"
  /\ UNCHANGED <<served, hangs, firmware, version, features, hashFirmware, proc,
                 result, start, events>>

\* The result goes to RFCManager and the process ends.
Exit ==
  /\ pc = "done"
  /\ pc' = "off"
  /\ proc' = NoProcess
  /\ result' = "FAILURE"
  /\ start' = EmptyStore
  /\ UNCHANGED <<served, hangs, firmware, version, features, db, hashFirmware, events, writeErrors>>

(***************************************************************************)
(* The environment.                                                        *)
(***************************************************************************)

\* The process dies, or the device loses power.
Die ==
  /\ pc # "off"
  /\ events < MaxEvents
  /\ events' = events + 1
  /\ pc' = "off"
  /\ proc' = NoProcess
  /\ result' = "FAILURE"
  /\ start' = EmptyStore
  /\ UNCHANGED <<served, hangs, firmware, version, features, db, hashFirmware, writeErrors>>

\* A server publishes another configuration.
Publish(e, c) ==
  /\ events < MaxEvents
  /\ events' = events + 1
  /\ served[e] # c
  /\ served' = [served EXCEPT ![e] = c]
  /\ UNCHANGED <<hangs, firmware, version, features, db, hashFirmware, pc, proc,
                 result, start, writeErrors>>

\* The device boots another firmware.
Upgrade(f) ==
  /\ pc = "off"
  /\ events < MaxEvents
  /\ events' = events + 1
  /\ firmware # f
  /\ firmware' = f
  /\ UNCHANGED <<served, hangs, version, features, db, hashFirmware, pc, proc, result,
                 start, writeErrors>>

\* tr69hostif stops answering, and answers again or is started anew.
HostifHangs ==
  /\ ~hangs
  /\ events < MaxEvents
  /\ events' = events + 1
  /\ hangs' = TRUE
  /\ UNCHANGED <<served, firmware, version, features, db, hashFirmware, pc, proc,
                 result, start, writeErrors>>

HostifAnswers ==
  /\ hangs
  /\ hangs' = FALSE
  /\ UNCHANGED <<served, firmware, version, features, db, hashFirmware, pc, proc,
                 result, start, events, writeErrors>>

\* The steps of a run that has started.
Progress ==
  \/ \E f \in HashReads : NotModified(f) \/ Updated(f) \/ NotFound(f) \/ RequestFails(f)
  \/ AllocationFails
  \/ PreProcessJsonResponse
  \/ WriteFeatures \/ ParseFails
  \/ \E ok \in BOOLEAN :
       \/ ClearDB(ok) \/ RestoreAccount(ok) \/ ApplyConfigData(ok)
       \/ UpdateHash(ok) \/ ClearHash(ok) \/ StoreXconfEndpointMetadata(ok)
  \/ WriteVersion
  \/ Exit

Next ==
  \/ \E local, bootstrap, blocked \in BOOLEAN, partner \in Ids, u \in Endpoints :
       Start(local, bootstrap, blocked, partner, u)
  \/ Progress
  \/ Die
  \/ \E e \in Endpoints, c \in Configs : Publish(e, c)
  \/ \E f \in Firmwares : Upgrade(f)
  \/ HostifHangs
  \/ HostifAnswers

Spec == Init /\ [][Next]_vars

\* A process that runs is scheduled: downloads, reads and sleeps end.  A set
\* ends if tr69hostif answers, which nothing promises.
FairSpec == Spec /\ WF_vars(Progress)

(***************************************************************************)
(* Properties.                                                             *)
(***************************************************************************)

\* Every variable keeps its type.
TypeOK ==
  /\ served \in [Endpoints -> Configs]
  /\ firmware \in Firmwares
  /\ version \in Firmwares \cup {None}
  /\ features \in Configs \cup {None}
  /\ db \in Stores
  /\ hashFirmware \in Firmwares \cup {None}
  /\ pc \in Steps
  /\ proc \in Processors
  /\ result \in {"SUCCESS", "FAILURE"}
  /\ start \in Stores
  /\ hangs \in BOOLEAN
  /\ events \in Nat
  /\ writeErrors \in Nat

\* Once a hash is stored the server answers 304 for it and nothing is
\* applied any more, so at every point where the process may die the stored
\* hash of a configuration with data means that its parameters, and no
\* others, are in the store (clearDB first, hash last), unless a write failed.
HashMatchesParams ==
  writeErrors = 0 /\ db.hash \in Configs /\ db.hash.data => db.params = db.hash

\* The stored hash was stored by the firmware that .version names, so a new
\* firmware never presents the hash of an old one, wherever a run was cut.
\* A configuration without data skips clearDB and is excluded.
HashOfVersion ==
  writeErrors = 0 /\ (\A c \in Configs : c.data) /\ db.hash \in Configs
    => hashFirmware = version

\* A device that had an account when a run of the same firmware started has
\* one when the run ends (rfcStashStoreParams, rfcStashRetrieveParams): one
\* of the two reads before the store is emptied is enough.  Lost to failed
\* reads are only the account of a run where both fail, and the one that is
\* compared with an account Unknown of the server (misread).
AccountRestored ==
  writeErrors = 0 /\ pc = "done" /\ proc.last = firmware /\ start.account \notin {"", Unknown}
  /\ "account" \notin proc.misread
    => db.account \notin {"", Unknown}

\* A run that stores the hash it found in the store asks for no reboot, when
\* it read that hash: same firmware, selector prod or a local override, no
\* failed read and no validation of a bootstrap URL in between
\* (updateHashInDB).
SameHashNoReboot ==
  ( /\ pc = "done" /\ result = "SUCCESS" /\ proc.resp = start.hash
    /\ proc.resp.hashed /\ ~proc.resp.validates
    /\ proc.last = firmware /\ "hash" \notin proc.misread
    /\ start.selector = "prod" \/ proc.selectOpt = "local" )
  => ~proc.reboot

\* Every run ends, whatever the server answers (RETRY_COUNT bounds the
\* retries, Redo and Redo_With_Valid_Data included), unless tr69hostif
\* hangs time and again: setRFCParameter has no timeout.
RunEnds == <>[](~hangs) => (pc = "request" ~> pc = "off")

(***************************************************************************)
(* The inductive invariant.                                                *)
(***************************************************************************)

\* What kind of answer each step works on.
AnswerInv ==
  /\ pc \in {"request", "answer"} => proc.retries < RETRY_COUNT
  /\ pc = "answer" => proc.resp # None
  /\ pc = "features" => proc.resp # None
  /\ pc \in {"clear", "restore", "apply"} => proc.resp \in Configs /\ proc.resp.data
  /\ pc \in {"version", "hash"} => proc.resp \in Configs
  /\ pc = "hash" => version = firmware

\* Between clearDB and the update of the hash the store holds no hash.
Rewriting ==
  \/ pc \in {"restore", "apply"}
  \/ pc \in {"version", "hash"} /\ proc.resp.data

RewriteInv ==
  writeErrors = 0 =>
    /\ Rewriting => db.hash \notin Configs
    /\ pc \in {"version", "hash"} /\ proc.resp.data => db.params = proc.resp

\* Where the account is at each step of a run of the same firmware.
AccountInv ==
  writeErrors = 0 /\ pc # "off" /\ proc.last = firmware /\ start.account \notin {"", Unknown} =>
    /\ ~proc.first
    /\ pc \in {"request", "answer", "features", "clear"} =>
         /\ db.account \notin {"", Unknown}
         /\ "account" \notin proc.misread => proc.account \notin {"", Unknown}
    /\ "account" \notin proc.misread =>
         IF pc = "restore" THEN proc.stash \notin {"", Unknown}
                           ELSE db.account \notin {"", Unknown}

\* The hash of the store is read before every request of the run.
Comparable ==
  /\ proc.last = firmware /\ "hash" \notin proc.misread
  /\ start.selector = "prod" \/ proc.selectOpt = "local"

\* bkup_hash is the hash the run found, from the request to the update of
\* the hash, and nothing asks for a reboot before the loop over the keys.
RebootInv ==
  /\ pc \notin {"off", "meta", "done"} => result = "FAILURE"
  /\ pc # "off" /\ Comparable =>
       ~proc.first /\ (proc.selectOpt = "local" => proc.state = "Local")
  /\ pc \in {"request", "answer", "features", "clear"} =>
       ~proc.reboot /\ db.hash = start.hash /\ db.selector = start.selector
  /\ pc \in {"answer", "features", "clear", "restore", "apply"} /\ Comparable =>
       proc.bkup = start.hash
  /\ pc \in {"version", "hash"} /\ Comparable =>
       proc.bkup = start.hash \/ proc.resp.validates
  /\ pc \in {"meta", "done"} /\ result = "SUCCESS" /\ Comparable =>
       \/ ~proc.reboot
       \/ proc.resp # start.hash \/ ~proc.resp.hashed \/ proc.resp.validates

XconfInv ==
  /\ TypeOK
  /\ AnswerInv
  /\ RewriteInv
  /\ HashMatchesParams
  /\ HashOfVersion
  /\ AccountInv
  /\ RebootInv
=============================================================================

# TLA+ verification of the RDK Remote Feature Control (RFC) manager

This directory holds TLA+ modules for the parts of the repository whose
correctness depends on order: who holds which lock, what is on disk when a
process dies, and which answer of a server is applied. TLC checks them on small
instances; TLAPS proves every safety property of the passing runs, the refinement
among them, for all instances.

Paths are relative to the repository root. The code has three builds selected
by macros: video/STB (default), `RDKB_SUPPORT` and `RDKC`. The modules model the
**video build**, except `CronSchedule` and `GatewayRun`, which model the RDKB build.

## 1. Inventory

| Component | Source | State | Operations | Interacts with |
|---|---|---|---|---|
| Device-local store (tr181api) | `tr181api/tr181api.cpp` | `tr181localstore.ini`, the named semaphore `localstore` | `getLocalParam`, `setLocalParam`, `clearLocalParam` (`getParam`, `setParam`, `clearParam` forward to rfcapi) | any process that links the library, through file and semaphore |
| Feature-control request | `rfcMgr/rfc_xconf_handler.cpp` | members of `RuntimeFeatureControlProcessor`; `.version`, feature files, `tr181.list`; the RFC part of the TR-181 database (hash, time, parameters, selector, account) | initialise, build the request, download, pre-process, write features, clear and rewrite the database, store the hash | Xconf server (HTTP), tr69hostif (TR-181), RFC files read by everyone else |
| Parameter application | `rfcMgr/rfc_xconf_handler.cpp` | key/value map, TR-181 database | `CreateConfigDataValueMap`, `isConfigValueChange`, `set_RFCProperty` | part of the request |
| Service and RFCManager | `rfcMgr/rfc_main.cpp`, `rfc_manager.cpp` | `/tmp/.rfcServiceLock`, pid, last event | `main`, `signal_handler`, `CheckDeviceIsOnline`, `RFCManagerProcess`, events, post-process | boot, cron, operators (start it); Maintenance Manager (events); network stack (`/tmp/route_available`) |
| rfcapi | `rfcapi/rfcapi.cpp` | cached "tr69hostif is ready" flag, merged `/tmp/rfcdefaults.ini` | `getRFCParameter`, `init_rfcdefaults`, `setRFCParameter`, `isRFCEnabled` | tr69hostif over HTTP, ini files, other processes through the merged file |
| Cron schedule (RDKB) | `rfcMgr/rfc_manager.cpp`, `rfc_common.cpp` | crontab | `manageCronJob`, `getCronFromDCMSettings`, `waitForRfcCompletion` | cron |
| RDKB/RDKC request variants | same files, `#ifdef` | hash in RAM, parameters behind rbus, interfaces of the WanManager, scheduled reboot | `CheckIPConnectivity`, `ProcessJsonResponseB`, `ParseConfigValue`, `HandleScheduledReboot`; `WaitForIpAcquisition` (RDKC) | rbus, WanManager, webconfig (sysevent), reboot script |
| Command line tool | `utils/tr181utils.cpp` | locals of one invocation | `parseargs`, get, set, clear | tr181api, rfcapi |
| JSON helpers, mTLS, scripts | `utils/jsonhandler.cpp`, `rfcMgr/xconf_handler.cpp`, `mtlsUtils.cpp`, `*.sh` | none of their own | file copies, curl | the parts above |

What is hard to test, and the property each part needs:

* **Local store.** Several processes read, modify and rewrite one file in
  place. `sem_wait` can fail and its failure is only logged; a process can die
  inside the critical section. Needed: exclusion, no lost update, the permit
  comes back, and together the illusion of an atomic map.
* **Request.** A run does a dozen writes, and a death or a power loss can fall
  between any two of them; the next run trusts what it finds. Once a hash is
  stored the server answers 304 and nothing is applied any more, so a hash that
  does not match what was applied is a permanent error. Retries, redirections
  and repeated requests with new IDs go through one counted loop.
* **Service.** The lock is on a *file*, and its *name* is removed by every
  process that exits, the refused ones too. Processes are started by boot, cron
  and operators at any time, and killed at any time.
* **rfcapi.** A lookup goes through several files while others change them, and
  the file of defaults is built in place, without a lock, by whoever misses it.
  Needed: the answer was the effective value at some moment of the call, the
  merged file ends up complete however many build it at once, and calls return.
* **Parameter application.** A dozen separate calls, each of which may fail, with
  the values read before, between and after a clear of the database, whose effect
  is visible at different times. Needed: what is left is the configuration, key by
  key, and a reboot is asked for exactly when a value changes.
* **Cron schedule.** Calendar arithmetic field by field, a whole-file replacement
  of a crontab that others edit too, a copy that must survive a reboot.
* **Gateway.** Two passes over the same configuration with different rules, a hash
  in RAM beside parameters in flash, switches that the same response changes while
  they are read.
* **Command line tool.** Options by position; a type asked for in one request and
  used in the next.
* **Network wait.** A counter that is decremented in a loop condition and
  tested afterwards.

`PROJECT.json` lists these hazards one by one with their lines.

## 2. Modules

| Module | What it is |
|---|---|
| `LocalStoreOps` | parameters, values, lookup (`GetValue`, `LocalValue`), update (`Updated`, `Cleared`) and what a death leaves of a file (`Cut`, `Remnants`) as pure operators |
| `LocalStore` | abstract specification: an atomic map with pending calls, failures and deaths |
| `Tr181LocalStore` | the three calls as `tr181api.cpp` executes them |
| `Tr181LocalStoreProofs` | invariance and refinement proofs |
| `XconfRequest` | a run of rfcMgr's request, server, firmware upgrades, deaths |
| `XconfRequestProofs` | invariance proofs |
| `RfcService` | life of rfcMgr processes: lock, signals, network, events |
| `RfcServiceProofs` | invariance proofs |
| `RfcApi` | processes that read and set parameters through librfcapi, tr69hostif coming and going |
| `RfcApiProofs` | invariance proofs |
| `FeatureMap` | `CreateConfigDataValueMap`: the keys of a response as a pure operator, used by the next two |
| `ConfigApply` | clear, stash, loop over the keys, `tr181.list`, reload (video build) |
| `ConfigApplyProofs` | invariance proofs |
| `GatewayRun` | a run of the RDKB build: waits, request, two passes, hash in RAM, reboot script |
| `GatewayRunProofs` | invariance proofs |
| `CronSchedule` | the RDKB schedule: DCM's file and its copy, the crontab and its editors |
| `CronScheduleProofs` | invariance proofs |
| `Tr181Tool` | an invocation of the `tr181` tool |
| `Tr181ToolProofs` | invariance proofs |
| `MC*` | instances for TLC: model values, kinds of configurations, symmetry |

Operators introduced by a comment "Variant of ..." are deliberately wrong
versions of the operator that follows. No specification uses them; they exist to
show that a property would notice such a mistake in the code.

### Tr181LocalStore

`file` is the ini file as a map from names to a value, the empty value or
"absent"; `sem` the semaphore; `pc`, `op`, `dict`, `rest`, `ret` the locals of
each caller. A name is a sequence of pieces of text, because `clearLocalParam` with
a trailing dot matches anywhere in the key, in the middle of a word too
(`key.find`).

| Action | Code |
|---|---|
| `Call`, `SemOpenFails` | `sem_open` succeeds or returns `SEM_FAILED` |
| `SemWait`, `SemWaitFails` | `sem_wait`; an error is logged and the caller goes on |
| `ReadParam` | `getValue` on the local store, then on the caller's defaults |
| `NothingToClear`, `ReadDict` | `setValue` reads the file and computes `m_dict`; an unmatched clear returns early |
| `OpenStore`, `OpenStoreFails` | `fopen(.., "w")`, which truncates |
| `WriteChunk`, `WritePart`, `CloseStore` | the loop over the unordered map; the stdio buffer reaches the file in pieces that end anywhere, inside a value too (`WritePart`); `fsync`, `fclose` |
| `SemPost` | `sem_post`, `sem_close`, return |
| `Die`, `Restart`, `Reboot` | the kernel returns no permit; a reboot recreates the semaphore and keeps the file |

`LocalStore` is what callers may rely on: each call takes effect at one moment,
or fails without effect; a caller that dies after its update took effect may
take any of the entries with it and leave one line torn: its key with the beginning
of its value (`Cuts`, a constant that says what a value may read as when its end is
missing), because the rewrite is in place. A line cut inside its key is left out: it
has no `=`, so `getValue` never returns it. The mapping lets an update take effect at
`OpenStore`: from then until the post, the abstract map is the writer's
dictionary.

### XconfRequest

A configuration stands for its hash, and carries only what the control flow
looks at: does it have `configData`, a hash header, account, partner, selector
and URL keys, a bootstrap URL to validate. `db` is the RFC part of the TR-181
database, `version` and `features` the files, `proc` the members of the C++
object, `pc` the next write. Every write is a step of its own, so `Die` can fall
between any two.

| Action | Code |
|---|---|
| `Start` | `InitializeRuntimeFeatureControlProcessor` (`GetServURL`, `GetBootstrapXconfUrl`, `AccountsRead`, `PartnersRead`), `IsDirectBlocked`, first lines of `ProcessRuntimeFeatureControlReq` |
| `NotModified`, `Updated`, `NotFound`, `RequestFails`, `AllocationFails` | a pass of the loop up to the result of `DownloadRuntimeFeatutres` |
| `PreProcessJsonResponse` | account, partner and server selection, `Redo` and `Redo_With_Valid_Data` |
| `WriteFeatures`, `ParseFails` | `ProcessJsonResponse`; without a key in `CreateConfigDataValueMap` nothing is cleared |
| `ClearDB`, `RestoreAccount` | `clearDB` with `rfcStashStoreParams` and `rfcStashRetrieveParams` |
| `ApplyConfigData` | the loop of `processXconfResponseConfigDataPart` as one step (`ConfigApply` has it key by key); whether a value differs is a free choice |
| `WriteVersion`, `UpdateHash`, `ClearHash`, `StoreXconfEndpointMetadata` | the end of the pass |
| `Publish`, `Upgrade`, `Die`, `HostifHangs`, `HostifAnswers` | environment |

Every read may fail: of the account at the start, before the clear and when it is
compared with the server's (`GetAccountID`, `AccountApplied`), of the selector and of
the stored hash in each request (`HashReads`). `proc.misread` records that it did:
`"account"` until a later read succeeds, `"hash"` for the rest of the run. Every
set waits for as long as tr69hostif `hangs`, because `setRFCParameter` sets no
timeout.

Abstractions: the `ClearDB` command of tr69hostif empties the whole RFC namespace
(hash, selector, account and parameters), as the stash code presumes; hash and
time are one value; the server answers 304 only for the hash it publishes;
selector `ci` also stands for `automation`; telemetry and logs are left out.

### RfcService

`link` is the file the name `/tmp/.rfcServiceLock` leads to, `lock` the flock of
each file, `fd` what each process has open. `CurrentRunningInst` comes from a
library outside the repository and is modelled from its use: `open` with
`O_CREAT`, then `flock(LOCK_EX | LOCK_NB)`; if the open fails it reports that no
other instance runs. The request itself is two steps here, with any result:
`ProcessRequest`, which fails, finds nothing to apply or comes to its sets, and
`SetsReturn`, which needs a tr69hostif that answers; `XconfRequest` details them. Every
`SendEventToMaintenanceManager` is a step of its own (`SendComplete`,
`SendCriticalUpdate`, ...). `Signal` may strike anywhere before `exit`;
`SignalHandler` and `CleanupLockFile` are the two `unlink`s it leads to.
`exposed` is a history variable: the lock file was removed under a process that
counts on it, or could not be opened.

### RfcApi

`store` and `bootstrap` are the two override files, `etc` the ini files of
`/etc/rfcdefaults` in directory order, `present` and `merged` the file built from
them, `server` and `readyFile` the state of tr69hostif, `ready` the static flag
each process caches. `pc`, `param`, `arg`, `pos`, `ret` are the locals of a call.

| Action | Code |
|---|---|
| `GetWildcard`, `GetLegacy`, `GetFromFiles`, `GetLive` | the first lines of `getRFCParameter`, by kind of name and readiness |
| `ReadStore`, `ReadBootstrap` | `getValue` on the two overrides; an empty value goes on to the next file |
| `OpenDefaults`, `Scan` | `getValue` on the merged file, first without and then after `init_rfcdefaults` |
| `CreateDefaults`, `CreateFails`, `NotWritable`, `Reopen`, `MergeFile`, `MergeEnds` | `init_rfcdefaults`: a truncating `ofstream`, one turn per ini file, close; without the directory it fails, without a writable file it copies nothing, reports success, and the lookup opens what is there |
| `HttpAnswer`, `HttpFails` | the GET to tr69hostif and its timeouts |
| `SetParameter`, `PostAnswer`, `PostFails` | `setRFCParameter`, which sets no timeout |
| `Die`, `HostifStarts`, `HostifStops` | environment |

Abstractions: the merged file is the set of ini files copied since the last
truncation. Builders copy the same files in the same directory order, so they
write the same bytes to the same offsets, and a builder that is ahead of a
truncation leaves a hole of NUL bytes before its next piece: the first line after
the hole is unreadable (`PieceValue`). A piece reaches the file as a whole; the
scan of an opened file is one read. An ini file without a character makes
`operator<<` set `failbit`, and no later file is copied (`Mergeable`). What the
defaults promise is all files that are not empty (`AllFiles`), so `MergedWhenQuiet`
and the last part of `ReadsEffective` hold for directories without an empty file only
(`NoneEmpty`); with one they would fail, which is the disagreement listed in section 3.
`rfcVariable.ini` has any content. `seen` (the effective results since a call
began) and `torn` (a builder died) are history variables.

### FeatureMap and ConfigApply

A response is a sequence of features, each a map from parameters to texts, or
`NoData` for one without `configData`, where the loop of
`CreateConfigDataValueMap` breaks. `store` is the database as it is rewritten,
`live` what a GET answers: for parameters of the RFC namespace tr69hostif answers
from a cache until `RELOADCACHE` at the end of the run. `currentValue` is the
member that keeps its value when a read fails.

| Action | Code |
|---|---|
| `CreateConfigDataValueMap` | the map; without a key nothing else happens |
| `ClearDB`, `RestoreAccount` | `clearDB`, `rfcStashStoreParams`, `rfcStashRetrieveParams`; before tr69hostif is ready only the truncation of `tr181store.ini` works, which leaves the keys of the bootstrap file (`BootKeys`) |
| `SkipKey`, `ReadKey`, `ReadFails` | one turn of the loop up to `isConfigValueChange`, the refusal of empty values and of an Xconf URL that does not answer |
| `SetRFCProperty`, `SetSkipped` | a GET for the type and a SET, or neither; the result is that of the GET |
| `LoopEnds`, `ClearDBEnd` | `updateTR181File`, `RELOADCACHE` |
| `OtherSets`, `HostifReady`, `NextRun` | WebPA or an operator; tr69hostif becomes ready, between any two steps of a run; the next run |

Abstractions: runs of one firmware (`XconfRequest` has the others), files can be
opened, texts are compared as a whole. `before` (the answers at the start), `dropped`
(keys a failed call, a refused value or another writer concerns) and `misread` are
history variables; the properties speak of the other keys.

### GatewayRun

| Action | Code |
|---|---|
| `Start`, `Wait` | `waitForRfcCompletion`: up to six sleeps for webconfig |
| `CheckIPConnectivity` | the WAN address, IPv6 and then IPv4; without one the process ends |
| `RequestFails`, `NotModified`, `Response` | the counted request with the hash of `/tmp/RFC/.hashValue` |
| `OpenFails`, `ClearDB` | beginning of `ProcessJsonResponseB`: the support features off, the `ClearDB` command, the parser |
| `NextFeature`, `ParamSkipped`, `ModeDiverted`, `SelectionSet`, `ParamSet`, `ParamFails` | first pass: `ParseConfigValue` for each entry, its conversions, WFO, the WanManager and the decision about a reboot |
| `ClearDBEnd` | the command that lets unset RFC parameters fall back |
| `SecondSkipped`, `SecondSet`, `SecondAborts`, `SecondEnds` | second pass: `processXconfResponseConfigDataPart`, in the order of the `std::map`; `std::stoi` throws uncaught |
| `Finish` | `rfcCheckAccountId`, feature list, `.version`, `HandleScheduledReboot`; the second `FreeJson` |
| `UpdateHashAndTimeInDB`, `Exit` | the hash; the schedule (`CronSchedule`) and the end |
| `BlobCompleted`, `ServerChanges`, `OtherSets`, `Die`, `Reboot` | environment |

A text that is set is stored as the parameter's type spells it (`Canonical`:
`true`/`1` for Booleans, the leading number for integers), and compared as a text. A
mode that is diverted starts three writes (`writes`): DOCSIS, WANOE and the choice
kept with psmcli. Each is a step that works or fails, and a death may fall between
two of them.
Abstractions: one process (`RfcService` says when there are two), redirections and
IDs are in `XconfRequest`, feature files are left out, rbus keeps what was set.

### CronSchedule

A field of a schedule is `*`, or a text of which `std::stoi` takes the leading
number or throws; the three day fields are one, because the code treats them
alike. A crontab holds rfcMgr's lines and those of others.

| Action | Code |
|---|---|
| `Start`, `StartBeside` | the request is over, alone or beside a second process |
| `FoundInDcm`, `SaveCopy`, `CopyUnopened`, `SaveFails`, `NotInDcm`, `FoundInCopy` | `getCronFromDCMSettings`: the copy is truncated and written, or cannot be opened and stays as it was, or cannot be written and stays empty |
| `Export`, `DeleteEntry`, `AppendEntry`, `Apply`, `Unlink` and their failures | `manageCronJob`: `crontab -l`, `sed`, append, `crontab FILE`, `unlink` |
| `Publish`, `Edit`, `Die`, `Reboot` | DCM, other services, environment |

`ThreeMinutesEarlier` compares the fields the code computes with a reference that
looks at every minute of a week, for the schedules whose numbers are in the range of
their field (`Plain`; the others are no times) and that another minute and hour can
express (`Movable`). Of those that are not movable `OthersDoNotMove` proves that the
code does not move them, against its comment. `latest` is the schedule that a run read
last from DCM, `saved` the one the copy was last made of.

### Tr181Tool

`line` is argv, `args` what `parseargs` has found (one turn of its loop per step),
`type` the type of a set, `up`, `ready` and `hangs` tr69hostif, `permit` the semaphore of
the local store. What the two stores do with a
request is the subject of `Tr181LocalStore` and `RfcApi`; here a call succeeds or
fails, and the writes that take effect are recorded. The properties compare an
invocation with a second reading of the line that does not go from left to right
(`Heads`, `Told`). `-c` with `-n localOnly` is left out of `DoesAsTold`
(`ClearsLocal`): it clears the parameter through tr69hostif.

| Action | Code |
|---|---|
| `Begin` | `legacyRfcEnabled`: with its file the line goes to `trsetutil`, which does nothing without the macros of its build |
| `ParseArgs` | a turn of the loop in `parseargs` |
| `ShowUsage`, `Main` | the checks at the end of `parseargs`; `main` and the choice of the request |
| `GetAttribute`, `SetLocalParam`, `GetParamType`, `TypeUnknown`, `SetRFCParameter`, `ClearAttribute` | the requests |
| `HostifStarts`, `HostifStops`, `HostifHangs`, `HostifAnswers`, `PermitTaken`, `PermitReturned` | environment |

## 3. Runs

| Run | Bounds | Distinct states | Shows |
|---|---|---|---|
| `local_store` | 2 callers, 2 names, 1 value and the empty one, 1 failed `sem_wait`, 1 death or reboot | 250 819 | `MutualExclusion` and `FreshDict` until a `sem_wait` fails; `AtomicStore`: until then every step is one of `LocalStore`; `PermitReturns` (every path, early returns included, ends in `sem_post`) as long as nobody dies |
| `xconf_request` | 2 servers, 4 kinds of configuration, 2 firmwares, 3 requests per run, 1 event, any reads that fail | 4 793 088 | `HashMatchesParams`, `AccountRestored`, `SameHashNoReboot` |
| `xconf_upgrade` | 1 server, 2 configurations, 2 firmwares, 2 events, any reads that fail | 1 070 344 | `HashOfVersion` and `RunEnds` |
| `service` | 2 processes, 3 starts, 2 checks of the route, 1 kill, signal, hang or change of the route | 400 673 | `OneUntilExposed`, `NoStaleLockFile`, `RefusedByHolder`, `ProcessEnds` |
| `service_one_instance` | 3 plain starts | - | *violation* of `OneInstance` |
| `rfc_api` | 2 processes, a TR-181, a legacy and a wildcard name, 2 values, 3 directories of defaults (one with an empty ini file), 2 deaths, starts, stops or hangs | 376 092 | `MergedWhenQuiet`, `ReadsEffective`, `CallReturns` |
| `config_apply` | 4 keys (in and outside the RFC namespace, account, URL), 4 values, 3 responses, any number of runs, 2 failed calls, foreign writes or moments at which tr69hostif becomes ready | 2 228 688 | `AppliedExactly`, `ListMatchesStore`, `RebootExactly` |
| `config_apply_skip` | the same, no event | - | *violation* of `OtherFeaturesApplied` |
| `gateway` | 8 parameters, 6 responses, 2 failures, deaths, reboots, foreign writes or changes of the server | 225 008 | `HashMeansApplied`, `RebootExactly`, `WanFollowsMode`, `RunEnds`, `Converges` |
| `gateway_reboot` | a response with `1` for a Boolean, 1 reboot | - | *violation* of `RebootOnlyForChanges` |
| `cron` | 2 processes, 6 schedules, 1 foreign line, 3 events | 1 439 700 | `ThreeMinutesEarlier`, `EntryReplaced`, `OthersKept`, `FollowsDcm` |
| `tr181_tool` | all lines of up to 4 words over 3 texts and 6 options, longer ones with all options, 1 start, stop or hang, or permit taken | 457 562 | `DoesAsTold`, `InvocationEnds` |

**Why the bounds are enough to be interesting.** The local-store races need one
reader or writer against one writer, and the second name is matched by the same
domain clear in the middle of the key. A value cut short reads as the empty one
there; the proofs take any `Cuts`. The requests need an old and a new
configuration, an old and a new firmware, and three passes so that a
`Redo_With_Valid_Data` and a `Redo` fit in one run. A removed lock file needs a
runner, a refused process and a third one, or a restart of the second. `service`
uses two checks of the route flag, the least with one that fails and one that is
the last (the code's five only repeat the first). `rfc_api` needs two builders,
one of which truncates under the other, a directory with an empty ini file between two
others, where both promises are void and every other property is not, and two events
so that a process caches
the ready flag of a tr69hostif that then stops or hangs. `config_apply` has a key of
each kind the loop tells apart, with responses in which a key comes, changes and
goes, is named twice, is empty, or stands behind a feature without `configData`;
two events are a failed GET and a failed SET of the same key, or a tr69hostif that
becomes ready between the clear and the loop and then refuses a key. `gateway` has a
parameter for each special case of `ParseConfigValue` and the code's own numbers of
sleeps and requests; two events are a server that changes and a death, reboot or failed
call in the middle of what it sent. `cron` has schedules on both sides of
the hour, of midnight and of the end of the week; three events are a publication, a
death and a reboot. Four words are enough for an option to be the argument of
another one. Runs of `RfcService`
allow deadlock because all processes may have ended with no start left;
`rfc_api` because everybody may wait in a set for a tr69hostif that hangs, which is
the behaviour of the code; `tr181_tool` because an invocation ends.

**Fairness.** A process that is scheduled makes its next step when it can; what it
waits for is not assumed to come. curl has timeouts in a download and in a get, and
`sleep` returns; a set (`setRFCParameter`) has none, and a local call waits in
`sem_wait`. So `XconfRequest` and `RfcService` assume weak fairness of the steps of a
started process, in which a set is not possible while tr69hostif hangs: `RunEnds` and
`ProcessEnds` are claims about runs in which it hangs only for a time
(`<>[](~hangs)`). Without that premise TLC finds a run that waits in a set for ever,
with the lock of rfcMgr. `Tr181Tool` is the same, with the permit of the local store
beside the hang (`<>[](~hangs /\ permit)`); `RfcApi` excludes the set to a hung
server in `CallReturns` itself. Neither the end of a hang nor the return of a permit
is fair. `Tr181LocalStore`: weak fairness of each caller's steps in a call: a live
process is scheduled, and `sem_wait` returns when a permit stays available; calls
themselves, failures and deaths are not fair. `GatewayRun`: weak fairness of the
process' steps, its start included (cron and the boot start it again); its sets go
over rbus, whose library bounds the wait for an answer, so that a lost one is a
failure and not a hang; webconfig, the
server and all failures are not fair.

`Converges` is the promise of the gateway as a whole. Once failures, deaths, reboots,
other writers and changes of the server have ended, a device that is between two runs
with another hash than the server's ends up with that hash **and** every parameter of
it. Two cases are left out because the code breaks its promise there: a configuration
it cannot process (`Processable`), and a device that already has the server's hash,
which gets 304 for ever, whatever failed in the run that stored it.

### What the violations show

* `service_one_instance`: a refused process removes the name of the lock file the
  running one holds; the next process locks a new file and runs beside it.
* `gateway_reboot`: `ParseConfigValue` compares texts. `1` for a Boolean that reads
  `true` counts as a change, and the reboot script is called with nothing changed; the
  reboot empties `/tmp`, the hash with it, so the next run does the same.
  `rfc_xconf_handler.cpp:508` says "Only schedule reboot if values actually changed".
* `config_apply_skip`: `CreateConfigDataValueMap` breaks at the first feature without
  `configData`; the parameters of the features behind it are not applied, although
  `test/docs/L2_Analysis_Report.md:300` says that feature is skipped.

Further disagreements met while modelling, visible in the modules but without a
run.

Local store and rfcapi:

* an interrupted `sem_wait` lets a writer put back a dictionary it read before
  another caller's update, although `tr181api/docs/README.md:241` says
  "Write-serialized [...] Safe for concurrent callers.";
* a caller that dies inside the critical section leaves the semaphore at 0 until
  reboot although `tr181api/docs/README.md:319` says "no persistent initialization is
  required"; `getLocalParam` falls back to the caller's defaults although line 217
  says it reads "exclusively from the device-local store";
* a reader may open the merged defaults while another process builds them, and get
  a later default or none, although `rfcapi/docs/README.md:111` says "Safe to call from
  multiple threads concurrently";
* a death during a rewrite may leave a key with the beginning of its value, which every
  later caller takes for the value;
* an empty ini file drops the defaults after it although
  `docs/rfc-parameter-runtime-priority.md:171` says all ini files are merged
  (`NoneEmpty` excludes such directories from the two promises); the
  ready flag stays cached when tr69hostif stops, and legacy names then go over HTTP,
  although the same document (line 66 and after) describes a check per call; a set
  waits for ever for a server that hangs.

Service:

* when the route flag never appears the counter ends at -1, and the test for 0 takes
  the device as online, although `test/docs/L2_Analysis_Report.md:626` says it "should be
  marked as offline after 5 attempts"; a flag found by the fifth check is reported
  as missing; only a refused process sends `MAINT_RFC_INPROGRESS`;
* `isMaintenanceEnabled` answers yes when `device.properties` cannot be read, because
  the error code is not 0.

Request and parameters (video):

* a 404 deletes the feature files and keeps the hash; the next request gets 304 and
  they stay away, although `test/docs/L2_Analysis_Report.md:148` says of a 304
  "features remain active"; a 404 is retried although the log says "Retry logic not
  needed!!!" (`rfc_xconf_handler.cpp:2125`);
* a configuration without `configData` returns before `clearDB` and its hash is stored:
  the parameters of the one before stay although the comment at
  `rfc_xconf_handler.cpp:1345` says the store is cleared before new values are stored;
* a stored hash that was not read before the request (`UPGRADE_HASH`,
  `OVERRIDE_HASH`) does not cancel the reboot;
* in the first run of a new firmware `GetAccountID` reports `Unknown`, so nothing is
  stashed and `clearDB` loses the account although the comment at line 1387 says the
  stash holds the parameters that survive the clear. The same happens when both
  reads of the account before the clear fail, and a failed read later lets an account
  `Unknown` of the server replace a valid one (`misread` in `AccountRestored`);
* `set_RFCProperty` returns the status of its GET: a failed SET is forgotten and may
  ask for a reboot, a first SET never does; before tr69hostif is ready nothing is set,
  `tr181store.ini` is emptied all the same and a reboot may be asked for.

Gateway, cron and tool:

* a key named twice and the two support keys ask for a reboot each time the
  configuration is applied, like a value in another spelling (`gateway_reboot`):
  `RebootExactly` names these three as its exceptions;
* a parameter whose set failed in the second pass stays unset: the hash is stored all
  the same and the server answers 304 from then on;
* keys that the first pass refuses (WFO) or diverts (the WAN mode) are set by the
  second pass anyway; the mode reaches the WanManager only if unification was on
  before its entry is read;
* a text that is no number ends the process in the second pass, before the hash, the
  schedule and the reboot; a response without features frees its JSON twice;
* a death after `ClearDB`, or a response without a `configSetHash` header, leaves the
  old hash in RAM beside new parameters;
* `manageCronJob` does not move a schedule "back by three minutes"
  (`rfc_manager.cpp:597`) when its minute is `*` beside another restriction, or when
  the day before is needed (`Movable` says which are moved, `OthersDoNotMove` that the
  others are not); when the copy in `/nvram` cannot be opened nothing is logged, and
  after a reboot an older schedule is used; a `CheckSchedule:cron=` line without a
  value overwrites the copy in `/nvram`; without a crontab, the complaint of `crontab
  -l` is imported as a line, because of its `2>&1`;
* `tr181 ... -v` or `-t` as the last word never ends; the exit status of a get is not
  0 for a default although `tr181utils.cpp:137` says "0 if succesfully retrieve
  value"; `-c` with `-n localOnly` goes to tr69hostif, and leaves the local store
  alone, although line 210 says "Clears a local setting" (`ClearsLocal`); a value goes
  out as an integer when tr69hostif becomes ready between the question for the type
  and the set.

## 4. Proofs

All theorems hold for every value of the constants that satisfies the named
assumptions of the modules (sentinels differ from values, bounds are naturals,
records have the fields the control flow reads).

* **Local store** (`Tr181LocalStoreProofs`). `TypeCorrect`; `Exclusion` and
  `NoLostUpdate` from the inductive invariant `StoreInv`. `MutualExclusion` alone
  is not inductive: `PermitInv` adds that the permit is either in the semaphore or
  with the one caller inside, `OperationInv` that a caller in a call has an
  operation, `WriteInProgress` what a half-written file holds: the lines that are
  written, and of one other the key and the beginning of its value.
  `ImplementsAtomicStore`: every step until a `sem_wait` fails is, under the mapping,
  a step of `LocalStore` or a stutter; `RefinementStep` has one case per action, and
  the one of `Die` shows that what a torn rewrite leaves is one of the remnants the
  abstract map allows (`Remnants`). `ImplementsMap`: where no `sem_wait` can fail
  (`MaxInterrupts = 0`), `Spec` implies the whole specification of `LocalStore`.
* **Request** (`XconfRequestProofs`). `TypeCorrect` needs `AnswerInv` (which step
  works on which kind of answer). `StoredHashSound` and `StoredHashOfVersion` need
  `RewriteInv`: between `clearDB` and the update of the hash no hash of a
  configuration is stored, and before the update the parameters are those of the
  answer. `AccountKeptByRun` needs `AccountInv`: where the account is at each step
  (database, or stash between clear and restore), unless the reads that would have
  found it failed. `NoRebootForSameHash` speaks of the
  end of a run only; `RebootInv` follows `bkup_hash` through the steps in between: it
  is the hash the run found from the first request to the update of the hash, unless
  a bootstrap URL was validated or the read of the hash failed.
* **Service** (`RfcServiceProofs`). `Exclusion`, `OnlyHoldersRefuse` and
  `LockFileRemoved` from `ServiceInv`: a lock belongs to a process that has the
  file open and is not off (`HolderInv`), an unexposed runner holds the lock of
  the file the name leads to (`LockInv`), and while the name exists somebody is
  left to remove it unless a process was killed (`CleanInv`).
* **rfcapi** (`RfcApiProofs`). `TypeCorrect`; `MergeCompletes` and `LookupIsEffective`
  from `ApiInv`. `MergedWhenQuiet` is not inductive because it says nothing while
  somebody builds: `MergeInv` adds that every missing piece that can be merged still
  lies ahead of some builder, and that whoever builds or scans does so on a file that
  exists. `SeenInv` says, for each step of a lookup, that what the rest of it should
  return is among the effective results of the call.
* **Parameter application** (`ConfigApplyProofs`). `ConfigurationApplied`,
  `ListFaithful` and `RebootJustified` speak of the end of a run; `ConfigInv` says the
  same of every key that has left `rest`, and of the others where their value is:
  `LiveInv` (a GET answers what was there before the run until the key is set, because
  of the cache), `SettledInv` (what the store holds at each step, the stashed account
  included), `CompareInv` (the comparison is made with the value of the same key) and
  `RebootInv`. `GreatestNatural` makes sense of "the last feature that names a key"
  for responses of any length.
* **Cron schedule** (`CronScheduleProofs`). `OneEntry`, `NothingLost` and `NeverOlder`
  from `CronInv`: a clean process is alone and has what it needs in the temporary file
  (`CleanInv`), and as long as nothing was disturbed the temporary file has
  everybody's lines (`ExportInv`) and the copy is the schedule saved last, and a
  process works with that one or with the one read last (`LatestInv`).
  `MovableMovedBack` and `OthersDoNotMove` are arithmetic: for each shape of a
  schedule, moving the fields is moving the minutes of the week, or a minute shows
  that it is not.
* **Command line tool** (`Tr181ToolProofs`). `WritesAsTold` for lines of any length:
  `ParseInv` says that the loop stands at a head (a word that is no argument of an
  option) and has what the heads before it say; `RequestInv` that a request
  is of the kind the line asks for.
* **Gateway** (`GatewayRunProofs`). `HashSound` speaks of stored hashes only;
  `GatewayInv` says what becomes of a parameter on the way there. `Done` is the part of
  the first pass that is over. `UntouchedInv`: before its first entry a parameter has
  its old value; `FirstInv`: after its last one it has that value, and is touched, so
  that `ClearDBEnd` leaves it alone; `FallbackInv`: what is not named is not
  touched, and falls back; `SecondInv`: keys the second pass has left have its
  values; `CanonicalInv`: a value that compares as equal is the value. `AskedInv` and
  `ReasonInv` are the two halves of `RebootJustified` entry by entry, `WanInv` is
  `ModeReachesWan` for each of the three writes that is not still to come, together
  with the switch that must not move. Two lemmas carry the
  proofs: `DoneStep` (the only entry a step does is the one it takes from `rest`) and
  `ParameterStep` (what a step may do to one parameter); each part of the invariant
  then has four cases instead of one per action.

The assumptions on constants are facts of the code or of its libraries. In
`GatewayRun` a number that `std::to_string` printed is read back as itself, the
switches the code compares with `true` are Booleans, and defaults are spelled as rbus
spells values; in `CronSchedule` the crontab that is absent is no crontab; in
`Tr181Tool` the absent word is no word. TLC evaluates them in the runs.

The inductive invariants were checked by TLC on the instances of the runs before they
were proved.

Only model-checked: the liveness properties (`PermitReturns`, `RunEnds`,
`ProcessEnds`, `CallReturns`, `Converges`, `InvocationEnds`), which this prover does not
reach, and the three violations, which need no proof.

## 5. Not modelled

* The camera build (`WaitForIpAcquisition`, its reboot), the RDKB lookup of rfcapi, and
  of the RDKB run the feature files, the account check and the endpoint metadata.
* `trsetutils.cpp`: one IARM call behind two macros, an empty shell without them.
* JSON helpers, `xconf_handler.cpp`, mTLS and the shell scripts: file copies, curl and
  certificate selection without state of their own; their outcomes are choices.
* IARM set-up, telemetry, logging and the texts of requests.
* The hard cases without a property, with the reason, are in the hazards of
  `PROJECT.json`.

## 6. Plan

1. `ConfigApply` as an implementation of the steps `ClearDB`, `RestoreAccount` and
   `ApplyConfigData` of `XconfRequest`, model-checked and then proved.
2. Two request processes over one database behind the lock of `RfcService`, to say
   what a removed lock file costs.

------------------------- MODULE XconfRequestProofs -------------------------
(***************************************************************************)
(* XconfRequest keeps its types, never holds the hash of a configuration   *)
(* whose parameters are not applied, never presents the hash of another    *)
(* firmware, loses an account in a run of the same firmware only to failed *)
(* reads, and asks for no reboot when it applies the same hash again, for  *)
(* every set of configurations, servers and firmwares, every number of     *)
(* retries and any number of deaths, publications, upgrades, failed reads  *)
(* and hangs of tr69hostif.                                                *)
(***************************************************************************)
EXTENDS XconfRequest, TLAPS

(***************************************************************************)
(* The process object.                                                     *)
(***************************************************************************)

\* The process as Start makes it, and no process, have their types.
LEMMA NoProcessType == NoProcess \in Processors
  BY ParameterAssumption, RetryAssumption DEF NoProcess, Processors, RfcStates, Ids, Unknown

\* The store clearDB leaves behind has its type.
LEMMA EmptyStoreType == EmptyStore \in Stores
  BY DEF EmptyStore, Stores, Selectors, Ids

\* What a step in the middle of a run leaves alone of the process: what the
\* account is read with, and what is misread already.
Keeps(p) ==
  /\ p.last = proc.last /\ p.first = proc.first /\ p.account = proc.account
  /\ proc.misread \subseteq p.misread
  /\ "account" \in p.misread => "account" \in proc.misread

\* Sending a request (the URL and the saved hash) keeps the types.
LEMMA AskedType ==
  ASSUME TypeOK, NEW f \in HashReads
  PROVE  /\ Asked(f) \in Processors
         /\ Asked(f).retries = proc.retries /\ Keeps(Asked(f))
         /\ Target \in Endpoints
         /\ \A r \in Configs \cup {Malformed} :
              /\ [Asked(f) EXCEPT !.resp = r] \in Processors
              /\ [Asked(f) EXCEPT !.resp = r].resp = r
              /\ [Asked(f) EXCEPT !.resp = r].retries = proc.retries
              /\ Keeps([Asked(f) EXCEPT !.resp = r])
<1>1. Target \in Endpoints
  BY ParameterAssumption DEF Target, TypeOK, Processors
<1>2. BackupHash(f) \in Configs \cup {None, Cleared}
  BY DEF BackupHash, StoredHash, TypeOK, Stores, Processors
<1>3. proc \in Processors
  BY DEF TypeOK
<1> DEFINE m == Misread("hash", HashMisread(f))
<1>4. /\ m \in SUBSET Reads /\ proc.misread \subseteq m
      /\ "account" \in m => "account" \in proc.misread
  BY <1>3 DEF Misread, Reads, Processors
<1>5. Asked(f) = [proc EXCEPT !.url = Target, !.bkup = BackupHash(f), !.resp = None, !.misread = m]
  BY DEF Asked
<1> HIDE DEF m
<1>6. /\ Asked(f) \in Processors
      /\ Asked(f).retries = proc.retries /\ Asked(f).misread = m
      /\ Asked(f).last = proc.last /\ Asked(f).first = proc.first /\ Asked(f).account = proc.account
  BY ZenonT(60), <1>1, <1>2, <1>3, <1>4, <1>5 DEF Processors
<1> DEFINE a == Asked(f)
<1> HIDE DEF a
<1>7. a \in Processors /\ a.retries = proc.retries /\ Keeps(a)
  BY <1>4, <1>6 DEF Keeps, a
<1>8. ASSUME NEW r \in Configs \cup {Malformed}
      PROVE  /\ [a EXCEPT !.resp = r] \in Processors
             /\ [a EXCEPT !.resp = r].resp = r
             /\ [a EXCEPT !.resp = r].retries = proc.retries
             /\ Keeps([a EXCEPT !.resp = r])
  BY <1>7 DEF Keeps, Processors
<1> QED
  BY <1>1, <1>7, <1>8 DEF a

\* A received ID gives an ID and a decision (GetValidAccountId and
\* GetValidPartnerId).
LEMMA NewIdType ==
  ASSUME NEW v \in Ids, NEW old \in Ids
  PROVE  NewId(v, old).id \in Ids /\ NewId(v, old).redo \in BOOLEAN
  BY ParameterAssumption DEF NewId, Ids, Unknown

\* rfcStashStoreParams keeps the types and what the request is compared with.
LEMMA StashedType ==
  ASSUME TypeOK, NEW failed \in BOOLEAN
  PROVE  LET p == Stashed(failed)
         IN  /\ p \in Processors
             /\ p.stash = GetAccountID(failed, proc.account, proc.last)
             /\ p.misread = IF failed THEN proc.misread ELSE proc.misread \ {"account"}
             /\ p.resp = proc.resp /\ p.last = proc.last /\ p.first = proc.first
             /\ p.selectOpt = proc.selectOpt /\ p.state = proc.state
             /\ p.bkup = proc.bkup /\ p.reboot = proc.reboot
<1> DEFINE a == GetAccountID(failed, proc.account, proc.last)
           m == IF failed THEN proc.misread ELSE proc.misread \ {"account"}
<1>1. proc \in Processors
  BY DEF TypeOK
<1>2. a \in Ids
  BY <1>1 DEF GetAccountID, TypeOK, Stores, Processors, Ids, Unknown
<1>3. m \in SUBSET Reads
  BY <1>1 DEF Processors
<1>4. Stashed(failed) = [proc EXCEPT !.account = a, !.stash = a, !.misread = m]
  BY <1>1 DEF Stashed, Processors
<1> HIDE DEF a, m
<1>5. LET p == [proc EXCEPT !.account = a, !.stash = a, !.misread = m]
      IN  /\ p \in Processors /\ p.stash = a /\ p.misread = m
          /\ p.resp = proc.resp /\ p.last = proc.last /\ p.first = proc.first
          /\ p.selectOpt = proc.selectOpt /\ p.state = proc.state
          /\ p.bkup = proc.bkup /\ p.reboot = proc.reboot
  BY <1>1, <1>2, <1>3 DEF Processors
<1> QED
  BY <1>4, <1>5 DEF a, m

\* The loop over the configuration keeps the types, the answer and, unless
\* its read of the account failed, the account.
LEMMA AppliedType ==
  ASSUME TypeOK, proc.resp \in Configs, NEW ok \in BOOLEAN, ApplyConfigData(ok)
  PROVE  /\ db' \in Stores /\ proc' \in Processors
         /\ db'.hash = db.hash /\ (ok => db'.params = proc.resp)
         /\ proc'.resp = proc.resp /\ proc'.last = proc.last /\ proc'.first = proc.first
         /\ proc'.selectOpt = proc.selectOpt /\ proc'.state = proc.state
         /\ proc.misread \subseteq proc'.misread
         /\ "hash" \in proc'.misread => "hash" \in proc.misread
         /\ "account" \notin proc'.misread /\ db.account \notin {"", Unknown}
              => db'.account \notin {"", Unknown}
         /\ ~proc.resp.validates => proc'.bkup = proc.bkup
<1>1. PICK failed \in ReadFails, differs \in BOOLEAN, f \in HashReads :
        /\ db' = [db EXCEPT !.params = IF ok THEN proc.resp ELSE None,
                            !.account = AccountApplied(failed)]
        /\ proc' = [proc EXCEPT !.reboot = @ \/ differs,
                                !.bkup = ValidatedBackup(f),
                                !.misread = Misread("account", failed /\ proc.resp.account = Unknown)]
  BY DEF ApplyConfigData
<1> DEFINE a == AccountApplied(failed)
           m == Misread("account", failed /\ proc.resp.account = Unknown)
           b == ValidatedBackup(f)
<1>2. proc \in Processors /\ db \in Stores /\ proc.resp.account \in Ids
  BY ConfigsAssumption DEF TypeOK
<1>3. /\ a \in Ids
      /\ "account" \notin m /\ db.account \notin {"", Unknown} => a \notin {"", Unknown}
  BY <1>2 DEF AccountApplied, Stores, Ids, Misread
<1>4. m \in SUBSET Reads /\ proc.misread \subseteq m /\ ("hash" \in m => "hash" \in proc.misread)
  BY <1>2 DEF Misread, Reads, Processors
<1>5. b \in Configs \cup {None, Cleared} /\ (~proc.resp.validates => b = proc.bkup)
  BY <1>2 DEF ValidatedBackup, BackupHash, StoredHash, Stores, Processors
<1>6. db' = [db EXCEPT !.params = IF ok THEN proc.resp ELSE None, !.account = a]
  BY <1>1
<1>7. proc' = [proc EXCEPT !.reboot = @ \/ differs, !.bkup = b, !.misread = m]
  BY <1>1
<1> HIDE DEF a, m, b
<1>8. /\ db' \in Stores /\ db'.hash = db.hash /\ (ok => db'.params = proc.resp)
      /\ db'.account = a
  BY <1>2, <1>3, <1>6 DEF Stores
<1>9. /\ proc' \in Processors /\ proc'.bkup = b /\ proc'.misread = m
      /\ proc'.resp = proc.resp /\ proc'.last = proc.last /\ proc'.first = proc.first
      /\ proc'.selectOpt = proc.selectOpt /\ proc'.state = proc.state
  BY ZenonT(60), <1>2, <1>4, <1>5, <1>7 DEF Processors
<1> QED
  BY <1>3, <1>4, <1>5, <1>8, <1>9

\* PreProcessJsonResponse keeps the types, the answer and the counters.
LEMMA PreProcessedType ==
  ASSUME TypeOK, proc.resp # None
  PROVE  /\ PreProcessed \in Processors
         /\ PreProcessed.resp = proc.resp
         /\ PreProcessed.retries = proc.retries
         /\ PreProcessed.last = proc.last
         /\ PreProcessed.misread = proc.misread
         /\ ~proc.first => ~PreProcessed.first /\ PreProcessed.account = proc.account
<1>1. proc \in Processors
  BY DEF TypeOK
<1>2. CASE proc.resp = Malformed
  BY <1>1, <1>2 DEF PreProcessed, Processors, RfcStates
<1>3. CASE proc.resp # Malformed
  <2>1. proc.resp \in Configs
    BY <1>1, <1>3 DEF Processors
  <2>2. /\ GetValidAccountId.id \in Ids /\ GetValidAccountId.redo \in BOOLEAN
        /\ GetValidPartnerId.id \in Ids /\ GetValidPartnerId.redo \in BOOLEAN
    <3>1. /\ proc.account \in Ids /\ proc.partner \in Ids
          /\ proc.resp.account \in Ids /\ proc.resp.partner \in Ids
      BY <1>1, <2>1, ConfigsAssumption DEF Processors
    <3>2. (IF proc.resp.account = "" THEN Unknown ELSE proc.resp.account) \in Ids
      BY <3>1 DEF Ids
    <3> QED
      BY <3>1, <3>2, NewIdType DEF GetValidAccountId, GetValidPartnerId
  <2>3. /\ WithValidIds \in Processors
        /\ WithValidIds.resp = proc.resp
        /\ WithValidIds.retries = proc.retries
        /\ WithValidIds.last = proc.last
        /\ WithValidIds.misread = proc.misread
        /\ ~proc.first => WithValidIds = proc
    <3> DEFINE a == GetValidAccountId.id
               b == GetValidPartnerId.id
               st == IF GetValidAccountId.redo \/ GetValidPartnerId.redo
                       THEN "Redo_With_Valid_Data" ELSE proc.state
    <3>1. a \in Ids /\ b \in Ids
      BY <2>2
    <3>2. st \in RfcStates
      BY <1>1 DEF Processors, RfcStates
    <3>3. WithValidIds = IF ~proc.first THEN proc
                         ELSE [proc EXCEPT !.account = a, !.partner = b, !.first = FALSE,
                                           !.state = st]
      BY DEF WithValidIds
    <3> HIDE DEF a, b, st
    <3>4. CASE ~proc.first
      BY <1>1, <3>3, <3>4
    <3>5. CASE proc.first
      <4> DEFINE q == [proc EXCEPT !.account = a, !.partner = b, !.first = FALSE,
                                   !.state = st]
      <4>1. q \in Processors
        BY <1>1, <3>1, <3>2 DEF Processors
      <4>2. /\ q.resp = proc.resp /\ q.retries = proc.retries
            /\ q.last = proc.last /\ q.misread = proc.misread
        BY <1>1 DEF Processors
      <4> QED
        BY <3>3, <3>5, <4>1, <4>2
    <3> QED
      BY <3>4, <3>5
  <2>4. proc.resp.url \in Endpoints \cup {None}
    BY <2>1, ConfigsAssumption
  <2>5. ASSUME NEW p \in Processors, p.resp = proc.resp
        PROVE  /\ GetXconfSelect(p) \in Processors
               /\ GetXconfSelect(p).resp = p.resp
               /\ GetXconfSelect(p).retries = p.retries
               /\ GetXconfSelect(p).last = p.last
               /\ GetXconfSelect(p).misread = p.misread
               /\ GetXconfSelect(p).first = p.first
               /\ GetXconfSelect(p).account = p.account
    BY ZenonT(60), <2>4, <2>5 DEF GetXconfSelect, Processors, RfcStates
  <2>6. /\ Selected(WithValidIds) \in Processors
        /\ Selected(WithValidIds).resp = proc.resp
        /\ Selected(WithValidIds).retries = proc.retries
        /\ Selected(WithValidIds).last = proc.last
        /\ Selected(WithValidIds).misread = proc.misread
        /\ ~proc.first => /\ ~Selected(WithValidIds).first
                          /\ Selected(WithValidIds).account = proc.account
    <3> DEFINE p == WithValidIds
    <3> HIDE DEF p
    <3>1. /\ p \in Processors /\ p.resp = proc.resp /\ p.retries = proc.retries
          /\ p.last = proc.last /\ p.misread = proc.misread
          /\ ~proc.first => ~p.first /\ p.account = proc.account
      BY <2>3 DEF p
    <3>2. /\ Selected(p) \in Processors /\ Selected(p).resp = proc.resp
          /\ Selected(p).retries = proc.retries /\ Selected(p).last = proc.last
          /\ Selected(p).misread = p.misread
          /\ Selected(p).first = p.first /\ Selected(p).account = p.account
      <4>1. CASE p.state # "Init"
        BY <3>1, <4>1 DEF Selected
      <4>2. CASE p.state = "Init" /\ p.selectOpt = "local"
        BY <3>1, <4>2 DEF Selected, Processors, RfcStates
      <4>3. CASE p.state = "Init" /\ p.selectOpt # "local"
        BY <3>1, <4>3, <2>5 DEF Selected
      <4> QED
        BY <4>1, <4>2, <4>3
    <3> QED
      BY <3>1, <3>2 DEF p
  <2> QED
    BY <1>1, <1>3, <2>6 DEF PreProcessed, Processors, RfcStates
<1> QED
  BY <1>2, <1>3

(***************************************************************************)
(* Types.                                                                  *)
(***************************************************************************)

\* What the program counter says of the answer and of the retries holds in
\* every state (the loop of ProcessRuntimeFeatureControlReq), and the types.
TypedAnswer == TypeOK /\ AnswerInv

\* Every step of a run and of its environment keeps types and answers.
LEMMA TypedAnswerStep == TypedAnswer /\ [Next]_vars => TypedAnswer'
<1> SUFFICES ASSUME TypedAnswer, [Next]_vars
             PROVE  TypedAnswer'
  OBVIOUS
<1> USE DEF TypedAnswer
<1>0. CASE UNCHANGED vars
  BY <1>0 DEF vars, TypeOK, AnswerInv
<1>1. ASSUME NEW local \in BOOLEAN, NEW bootstrap \in BOOLEAN, NEW blocked \in BOOLEAN,
             NEW partner \in Ids, NEW u \in Endpoints,
             Start(local, bootstrap, blocked, partner, u)
      PROVE  TypedAnswer'
  <2> DEFINE state == IF local THEN "Local" ELSE "Init"
             opt   == IF local THEN "local" ELSE "prod"
             first == IsNewFirmwareFirstRequest
  <2>1. PICK failed \in ReadFails :
          proc' = [NoProcess EXCEPT
                  !.state = state, !.selectOpt = opt, !.url = u,
                  !.bootstrap = bootstrap, !.first = first, !.last = version,
                  !.account = GetAccountID(failed, "", version),
                  !.misread = IF failed THEN {"account"} ELSE {},
                  !.partner = partner]
    BY <1>1 DEF Start
  <2> DEFINE a == GetAccountID(failed, "", version)
             m == IF failed THEN {"account"} ELSE {}
  <2>2. a \in Ids /\ m \in SUBSET Reads
    BY DEF GetAccountID, TypeOK, Stores, Ids, Unknown, Reads
  <2>3. state \in RfcStates /\ opt \in {"prod", "local"} /\ first \in BOOLEAN
    BY DEF RfcStates, IsNewFirmwareFirstRequest
  <2>4. version \in Firmwares \cup {None}
    BY DEF TypeOK
  <2> HIDE DEF state, opt, first, a, m
  <2>5. proc' \in Processors /\ proc'.retries = 0
    <3>1. proc' = [NoProcess EXCEPT
                  !.state = state, !.selectOpt = opt, !.url = u,
                  !.bootstrap = bootstrap, !.first = first, !.last = version,
                  !.account = a, !.misread = m, !.partner = partner]
      BY <2>1 DEF a, m
    <3>2. proc' =
            [state |-> state, selectOpt |-> opt, url |-> u, bootstrap |-> bootstrap,
             retries |-> 0, first |-> first, last |-> version, account |-> a,
             partner |-> partner, stash |-> "", bkup |-> None, reboot |-> FALSE,
             resp |-> None, misread |-> m]
      BY <3>1 DEF NoProcess
    <3>3. 0 \in 0..RETRY_COUNT /\ "" \in Ids
      <4>1. 0 \in 0..RETRY_COUNT
        BY RetryAssumption
      <4>2. "" \in Ids
        BY DEF Ids
      <4> QED
        BY <4>1, <4>2
    <3> QED
      BY <2>2, <2>3, <2>4, <3>2, <3>3 DEF Processors
  <2>6. pc' \in {"done", "request"} /\ start' = db /\ result' = "FAILURE"
        /\ UNCHANGED <<served, hangs, firmware, version, features, db, hashFirmware, events, writeErrors>>
    BY <1>1 DEF Start, UnlessDirectBlocked
  <2>7. TypeOK'
    BY <2>5, <2>6 DEF TypeOK, Steps
  <2>8. AnswerInv'
    <3>1. proc'.retries < RETRY_COUNT
      BY <2>5, RetryAssumption
    <3>2. pc' = "done" \/ pc' = "request"
      BY <2>6
    <3> QED
      BY <3>1, <3>2 DEF AnswerInv
  <2> QED
    BY <2>7, <2>8
<1>2. ASSUME NEW f \in HashReads, NotModified(f)
      PROVE  TypedAnswer'
  <2>1. served[Target] \in Configs
    BY AskedType DEF TypeOK
  <2> QED
    BY <1>2, <2>1, AskedType DEF NotModified, TypeOK, AnswerInv, Steps
<1>3. ASSUME NEW f \in HashReads, Updated(f)
      PROVE  TypedAnswer'
  <2>1. PICK body \in {served[Target], Malformed} : proc' = [Asked(f) EXCEPT !.resp = body]
    BY <1>3 DEF Updated
  <2>2. body \in Configs \cup {Malformed}
    BY <2>1, AskedType DEF TypeOK
  <2>3. body # None
    BY <2>2, SentinelAssumption
  <2>4. proc' \in Processors /\ proc'.resp = body /\ proc'.retries = proc.retries
    BY <2>1, <2>2, AskedType
  <2> QED
    BY <1>3, <2>3, <2>4 DEF Updated, CleanAllFile, TypeOK, AnswerInv, Steps
<1>4. ASSUME NEW p \in Processors, p.retries < RETRY_COUNT, Retry(p)
      PROVE  /\ proc' \in Processors
             /\ pc' \in {"request", "done"}
             /\ pc' = "request" => proc'.retries < RETRY_COUNT
             /\ proc'.last = p.last
  BY <1>4, RetryAssumption DEF Retry, Processors
<1>5. ASSUME NEW f \in HashReads, NotFound(f)
      PROVE  TypedAnswer'
  BY <1>4, <1>5, AskedType DEF NotFound, CleanAllFile, Retry, TypeOK, AnswerInv, Steps
<1>6. ASSUME NEW f \in HashReads, RequestFails(f)
      PROVE  TypedAnswer'
  BY <1>4, <1>6, AskedType DEF RequestFails, Retry, TypeOK, AnswerInv, Steps
<1>7. CASE AllocationFails
  <2>1. proc' \in Processors
    BY <1>7, ParameterAssumption DEF AllocationFails, Target, TypeOK, Processors
  <2> QED
    BY <1>7, <2>1 DEF AllocationFails, TypeOK, AnswerInv, Steps
<1>8. CASE PreProcessJsonResponse
  <2>0. pc = "answer" /\ proc.resp # None /\ proc.retries < RETRY_COUNT
    BY <1>8 DEF PreProcessJsonResponse, AnswerInv
  <2>1. PreProcessed \in Processors /\ PreProcessed.resp = proc.resp /\ PreProcessed.retries = proc.retries
    BY <2>0, PreProcessedType
  <2> DEFINE p == PreProcessed
  <2> DEFINE q == [p EXCEPT !.state = "Init"]
  <2>2. q \in Processors /\ q.retries < RETRY_COUNT
    BY <2>0, <2>1 DEF Processors, RfcStates
  <2>3. CASE Retry(p)
    BY <1>4, <1>8, <2>0, <2>1, <2>3 DEF PreProcessJsonResponse, Retry, TypeOK, AnswerInv, Steps
  <2>4. CASE Retry(q)
    BY <1>4, <1>8, <2>2, <2>4 DEF PreProcessJsonResponse, Retry, TypeOK, AnswerInv, Steps
  <2>5. CASE proc' = p /\ pc' = "features" /\ UNCHANGED result
    BY <1>8, <2>0, <2>1, <2>5 DEF PreProcessJsonResponse, TypeOK, AnswerInv, Steps
  <2> QED
    BY <1>8, <2>3, <2>4, <2>5 DEF PreProcessJsonResponse
<1>9. CASE WriteFeatures
  <2>1. proc.resp \in Configs /\ proc.resp.data \in BOOLEAN
    BY <1>9, ConfigsAssumption DEF WriteFeatures, TypeOK, AnswerInv, Processors
  <2> QED
    BY <1>9, <2>1 DEF WriteFeatures, CreateConfigDataValueMap, TypeOK, AnswerInv, Steps
<1>10. CASE ParseFails
  BY <1>10 DEF ParseFails, TypeOK, AnswerInv, Steps
<1>11. ASSUME NEW ok \in BOOLEAN, ClearDB(ok)
       PROVE  TypedAnswer'
  <2>1. PICK failed \in ReadFails : proc' = Stashed(failed)
    BY <1>11 DEF ClearDB
  <2>2. failed \in BOOLEAN
    BY DEF ReadFails
  <2>3. proc' \in Processors /\ proc'.resp = proc.resp
    BY <2>1, <2>2, StashedType
  <2> QED
    BY <1>11, <2>3, EmptyStoreType DEF ClearDB, Write, TypeOK, AnswerInv, Steps
<1>12. ASSUME NEW ok \in BOOLEAN, RestoreAccount(ok)
       PROVE  TypedAnswer'
  <2>1. db' \in Stores
    BY <1>12 DEF RestoreAccount, TypeOK, Stores, Processors
  <2>2. writeErrors' \in Nat
    <3>1. UNCHANGED writeErrors \/ Write(ok)
      BY <1>12, Zenon DEF RestoreAccount
    <3> QED
      BY <3>1 DEF Write, TypeOK
  <2>3. /\ pc = "restore" /\ pc' = "apply"
        /\ UNCHANGED <<served, hangs, firmware, version, features, hashFirmware, proc, result,
                       start, events>>
    BY <1>12 DEF RestoreAccount
  <2> QED
    BY <2>1, <2>2, <2>3 DEF TypeOK, AnswerInv, Steps
<1>13. ASSUME NEW ok \in BOOLEAN, ApplyConfigData(ok)
       PROVE  TypedAnswer'
  <2>1. proc.resp \in Configs
    BY <1>13 DEF ApplyConfigData, AnswerInv
  <2>2. db' \in Stores /\ proc' \in Processors /\ proc'.resp = proc.resp
    BY <1>13, <2>1, AppliedType
  <2> QED
    BY <1>13, <2>1, <2>2 DEF ApplyConfigData, Write, TypeOK, AnswerInv, Steps
<1>14. CASE WriteVersion
  BY <1>14 DEF WriteVersion, TypeOK, AnswerInv, Steps
<1>15. ASSUME NEW ok \in BOOLEAN, UpdateHash(ok)
       PROVE  TypedAnswer'
  <2>1. db' \in Stores
    BY <1>15 DEF UpdateHash, TypeOK, AnswerInv, Stores
  <2>2. proc' \in Processors
    <3>1. proc \in Processors
      BY DEF TypeOK
    <3>2. \/ proc' = proc
          \/ proc' = [proc EXCEPT !.reboot = @ /\ proc.bkup # proc.resp]
      BY <1>15 DEF UpdateHash
    <3> QED
      BY ZenonT(60), <3>1, <3>2 DEF Processors
  <2> QED
    BY <1>15, <2>1, <2>2 DEF UpdateHash, Write, TypeOK, AnswerInv, Steps
<1>16. ASSUME NEW ok \in BOOLEAN, ClearHash(ok)
       PROVE  TypedAnswer'
  <2>1. db' \in Stores
    BY <1>16 DEF ClearHash, TypeOK, Stores
  <2> QED
    BY <1>16, <2>1 DEF ClearHash, Write, TypeOK, AnswerInv, Steps
<1>17. ASSUME NEW ok \in BOOLEAN, StoreXconfEndpointMetadata(ok)
       PROVE  TypedAnswer'
  <2>1. db' \in Stores
    BY <1>17 DEF StoreXconfEndpointMetadata, TypeOK, Stores, Processors, Selectors
  <2> QED
    BY <1>17, <2>1 DEF StoreXconfEndpointMetadata, Write, TypeOK, AnswerInv, Steps
<1>18. CASE Exit
  BY <1>18, NoProcessType, EmptyStoreType DEF Exit, TypeOK, AnswerInv, Steps
<1>19. CASE Die
  BY <1>19, NoProcessType, EmptyStoreType DEF Die, TypeOK, AnswerInv, Steps
<1>20. ASSUME NEW e \in Endpoints, NEW c \in Configs, Publish(e, c)
       PROVE  TypedAnswer'
  BY <1>20 DEF Publish, TypeOK, AnswerInv
<1>21. ASSUME NEW f \in Firmwares, Upgrade(f)
       PROVE  TypedAnswer'
  BY <1>21 DEF Upgrade, TypeOK, AnswerInv
<1>22. CASE HostifHangs \/ HostifAnswers
  <2>1. hangs' \in BOOLEAN
    BY <1>22, Zenon DEF HostifHangs, HostifAnswers
  <2>2. /\ UNCHANGED <<served, firmware, version, features, db, hashFirmware, pc, proc,
                       result, start, writeErrors>>
        /\ events' \in Nat
    BY <1>22 DEF HostifHangs, HostifAnswers, TypeOK
  <2> QED
    BY <2>1, <2>2 DEF TypeOK, AnswerInv
<1> QED
  BY <1>0, <1>1, <1>2, <1>3, <1>5, <1>6, <1>7, <1>8, <1>9, <1>10, <1>11, <1>12, <1>13, <1>14,
     <1>15, <1>16, <1>17, <1>18, <1>19, <1>20, <1>21, <1>22 DEF Next, Progress

\* They hold on a device out of the factory.
LEMMA TypedAnswerInit == Init => TypedAnswer
<1> SUFFICES ASSUME Init PROVE TypedAnswer
  OBVIOUS
<1>1. hangs \in BOOLEAN
  BY Zenon DEF Init
<1> QED
  BY <1>1, NoProcessType, EmptyStoreType DEF Init, TypedAnswer, TypeOK, AnswerInv, Steps

\* Every variable of the request machine keeps its type, whatever the server
\* answers and wherever a run is cut (ProcessRuntimeFeatureControlReq).
THEOREM TypeCorrect == Spec => []TypeOK
<1>1. TypedAnswer => TypeOK
  BY DEF TypedAnswer
<1> QED
  BY <1>1, TypedAnswerInit, TypedAnswerStep, PTL DEF Spec

(***************************************************************************)
(* The store: clearDB first, the hash last.                                *)
(***************************************************************************)

\* What the store holds while it is rewritten and afterwards.
StoreInv == RewriteInv /\ HashMatchesParams /\ HashOfVersion

\* As long as no write was counted as failed, the write just made succeeded.
LEMMA WritesCounted ==
  ASSUME TypeOK, NEW ok \in BOOLEAN, Write(ok), writeErrors' = 0
  PROVE  ok /\ writeErrors = 0
  BY DEF Write, TypeOK

\* Steps that leave the store, the files it is compared with and the answer
\* alone, and end where nothing is being rewritten.
LEMMA StoreKept ==
  ASSUME StoreInv, UNCHANGED <<db, hashFirmware, version, writeErrors>>,
         pc' \notin {"restore", "apply", "version", "hash"}
  PROVE  StoreInv'
  BY DEF StoreInv, RewriteInv, Rewriting, HashMatchesParams, HashOfVersion

\* Every step keeps the store's invariant: clearDB removes the hash before a
\* parameter is touched and updateHashAndTimeInDB stores it after the last one.
LEMMA StoreStep == TypedAnswer /\ StoreInv /\ [Next]_vars => StoreInv'
<1> SUFFICES ASSUME TypedAnswer, StoreInv, [Next]_vars
             PROVE  StoreInv'
  OBVIOUS
<1>t. TypeOK /\ AnswerInv
  BY DEF TypedAnswer
<1>0. CASE UNCHANGED vars
  BY <1>0 DEF vars, StoreInv, RewriteInv, Rewriting, HashMatchesParams, HashOfVersion
<1>1. ASSUME NEW local \in BOOLEAN, NEW bootstrap \in BOOLEAN, NEW blocked \in BOOLEAN,
             NEW partner \in Ids, NEW u \in Endpoints,
             Start(local, bootstrap, blocked, partner, u)
      PROVE  StoreInv'
  <2>1. /\ UNCHANGED <<db, hashFirmware, version, writeErrors>>
        /\ pc' \in {"done", "request"}
    BY <1>1 DEF Start, UnlessDirectBlocked
  <2> QED
    BY <2>1, StoreKept
<1>2. ASSUME NEW f \in HashReads, NotModified(f)
      PROVE  StoreInv'
  BY <1>2, StoreKept DEF NotModified
<1>3. ASSUME NEW f \in HashReads, Updated(f)
      PROVE  StoreInv'
  BY <1>3, StoreKept DEF Updated
<1>4. ASSUME NEW f \in HashReads, NotFound(f)
      PROVE  StoreInv'
  <2>1. /\ UNCHANGED <<db, hashFirmware, version, writeErrors>>
        /\ pc' \in {"done", "request"}
    BY <1>4 DEF NotFound, Retry
  <2> QED
    BY <2>1, StoreKept
<1>5. ASSUME NEW f \in HashReads, RequestFails(f)
      PROVE  StoreInv'
  <2>1. /\ UNCHANGED <<db, hashFirmware, version, writeErrors>>
        /\ pc' \in {"done", "request"}
    BY <1>5 DEF RequestFails, Retry
  <2> QED
    BY <2>1, StoreKept
<1>6. CASE AllocationFails
  BY <1>6, StoreKept DEF AllocationFails
<1>7. CASE PreProcessJsonResponse
  <2>1. /\ UNCHANGED <<db, hashFirmware, version, writeErrors>>
        /\ pc' \in {"done", "request", "features"}
    BY <1>7 DEF PreProcessJsonResponse, Retry
  <2> QED
    BY <2>1, StoreKept
<1>8. CASE WriteFeatures
  <2>1. UNCHANGED <<db, hashFirmware, version, writeErrors, proc>>
    BY <1>8 DEF WriteFeatures
  <2>2. pc' = "clear" \/ (pc' = "version" /\ ~proc.resp.data)
    BY <1>8 DEF WriteFeatures, CreateConfigDataValueMap
  <2> QED
    BY <2>1, <2>2 DEF StoreInv, RewriteInv, Rewriting, HashMatchesParams, HashOfVersion
<1>9. CASE ParseFails
  BY <1>9, StoreKept DEF ParseFails
<1>10. ASSUME NEW ok \in BOOLEAN, ClearDB(ok)
       PROVE  StoreInv'
  <2>1. pc' = "restore" /\ Write(ok) /\ (ok => db' = EmptyStore)
    BY <1>10 DEF ClearDB
  <2>2. CASE writeErrors' = 0
    <3>1. db' = EmptyStore
      BY <1>t, <2>1, <2>2, WritesCounted
    <3>2. db'.hash \notin Configs
      BY <3>1, SentinelAssumption DEF EmptyStore
    <3> QED
      BY <2>1, <3>2 DEF StoreInv, RewriteInv, Rewriting, HashMatchesParams, HashOfVersion
  <2>3. CASE writeErrors' # 0
    BY <2>3 DEF StoreInv, RewriteInv, HashMatchesParams, HashOfVersion
  <2> QED
    BY <2>2, <2>3
<1>11. ASSUME NEW ok \in BOOLEAN, RestoreAccount(ok)
       PROVE  StoreInv'
  <2>1. pc = "restore" /\ pc' = "apply" /\ (UNCHANGED writeErrors \/ Write(ok))
    BY <1>11, Zenon DEF RestoreAccount
  <2>2. db'.hash = db.hash
    BY <1>t, <1>11 DEF RestoreAccount, TypeOK, Stores
  <2>3. CASE writeErrors' = 0
    <3>1. writeErrors = 0
      BY <1>t, <2>1, <2>3, WritesCounted
    <3>2. db.hash \notin Configs
      BY <2>1, <3>1 DEF StoreInv, RewriteInv, Rewriting
    <3> QED
      BY <2>1, <2>2, <3>2 DEF StoreInv, RewriteInv, Rewriting, HashMatchesParams, HashOfVersion
  <2>4. CASE writeErrors' # 0
    BY <2>4 DEF StoreInv, RewriteInv, HashMatchesParams, HashOfVersion
  <2> QED
    BY <2>3, <2>4
<1>12. ASSUME NEW ok \in BOOLEAN, ApplyConfigData(ok)
       PROVE  StoreInv'
  <2>1. pc = "apply" /\ pc' = "version" /\ Write(ok)
    BY <1>12 DEF ApplyConfigData
  <2>2. proc.resp \in Configs
    BY <1>t, <2>1 DEF AnswerInv
  <2>3. db'.hash = db.hash /\ (ok => db'.params = proc.resp) /\ proc'.resp = proc.resp
    BY <1>t, <1>12, <2>2, AppliedType
  <2>5. CASE writeErrors' = 0
    <3>1. ok /\ writeErrors = 0
      BY <1>t, <2>1, <2>5, WritesCounted
    <3>2. db.hash \notin Configs
      BY <2>1, <3>1 DEF StoreInv, RewriteInv, Rewriting
    <3> QED
      BY <2>1, <2>3, <3>1, <3>2
         DEF StoreInv, RewriteInv, Rewriting, HashMatchesParams, HashOfVersion
  <2>6. CASE writeErrors' # 0
    BY <2>6 DEF StoreInv, RewriteInv, HashMatchesParams, HashOfVersion
  <2> QED
    BY <2>5, <2>6
<1>13. CASE WriteVersion
  <2>1. /\ pc = "version" /\ pc' = "hash" /\ version' = firmware
        /\ UNCHANGED <<db, hashFirmware, writeErrors, proc>>
    BY <1>13 DEF WriteVersion
  <2>2. proc.resp \in Configs
    BY <1>t, <2>1 DEF AnswerInv
  <2>3. RewriteInv' /\ HashMatchesParams'
    BY <2>1 DEF StoreInv, RewriteInv, Rewriting, HashMatchesParams
  <2>4. HashOfVersion'
    BY <2>1, <2>2 DEF StoreInv, RewriteInv, Rewriting, HashOfVersion
  <2> QED
    BY <2>3, <2>4 DEF StoreInv
<1>14. ASSUME NEW ok \in BOOLEAN, UpdateHash(ok)
       PROVE  StoreInv'
  <2>1. pc = "hash" /\ pc' = "meta" /\ UNCHANGED version
    BY <1>14 DEF UpdateHash
  <2>2. CASE proc.resp.hashed
    <3>1. /\ Write(ok)
          /\ ok => db' = [db EXCEPT !.hash = proc.resp] /\ hashFirmware' = firmware
      BY <1>14, <2>2 DEF UpdateHash
    <3>2. CASE writeErrors' = 0
      <4>1. ok /\ writeErrors = 0
        BY <1>t, <3>1, <3>2, WritesCounted
      <4>2. db'.hash = proc.resp /\ db'.params = db.params /\ hashFirmware' = firmware
        BY <1>t, <3>1, <4>1 DEF TypeOK, Stores
      <4>3. version = firmware /\ (proc.resp.data => db.params = proc.resp)
        BY <1>t, <2>1, <4>1 DEF AnswerInv, StoreInv, RewriteInv
      <4> QED
        BY <2>1, <4>2, <4>3 DEF StoreInv, RewriteInv, Rewriting, HashMatchesParams, HashOfVersion
    <3>3. CASE writeErrors' # 0
      BY <3>3 DEF StoreInv, RewriteInv, HashMatchesParams, HashOfVersion
    <3> QED
      BY <3>2, <3>3
  <2>3. CASE ~proc.resp.hashed
    BY <1>14, <2>1, <2>3, StoreKept DEF UpdateHash
  <2> QED
    BY <2>2, <2>3
<1>15. ASSUME NEW ok \in BOOLEAN, ClearHash(ok)
       PROVE  StoreInv'
  <2>1. pc' = "meta" /\ Write(ok) /\ (ok => db' = [db EXCEPT !.hash = Cleared])
    BY <1>15 DEF ClearHash
  <2>2. CASE writeErrors' = 0
    <3>1. ok
      BY <1>t, <2>1, <2>2, WritesCounted
    <3>2. db'.hash \notin Configs
      BY <1>t, <2>1, <3>1, SentinelAssumption DEF TypeOK, Stores
    <3> QED
      BY <2>1, <3>2 DEF StoreInv, RewriteInv, Rewriting, HashMatchesParams, HashOfVersion
  <2>3. CASE writeErrors' # 0
    BY <2>3 DEF StoreInv, RewriteInv, HashMatchesParams, HashOfVersion
  <2> QED
    BY <2>2, <2>3
<1>16. ASSUME NEW ok \in BOOLEAN, StoreXconfEndpointMetadata(ok)
       PROVE  StoreInv'
  <2>1. /\ pc' = "done" /\ Write(ok) /\ UNCHANGED <<version, hashFirmware>>
        /\ db' = IF ok THEN [db EXCEPT !.selector = proc.selectOpt] ELSE db
    BY <1>16 DEF StoreXconfEndpointMetadata
  <2>2. db'.hash = db.hash /\ db'.params = db.params
    BY <1>t, <2>1 DEF TypeOK, Stores
  <2>3. writeErrors' = 0 => writeErrors = 0
    BY <1>t, <2>1, WritesCounted
  <2> QED
    BY <2>1, <2>2, <2>3 DEF StoreInv, RewriteInv, Rewriting, HashMatchesParams, HashOfVersion
<1>17. CASE Exit
  BY <1>17, StoreKept DEF Exit
<1>18. CASE Die
  BY <1>18, StoreKept DEF Die
<1>19. ASSUME NEW e \in Endpoints, NEW c \in Configs, Publish(e, c)
       PROVE  StoreInv'
  BY <1>19 DEF Publish, StoreInv, RewriteInv, Rewriting, HashMatchesParams, HashOfVersion
<1>20. ASSUME NEW f \in Firmwares, Upgrade(f)
       PROVE  StoreInv'
  BY <1>20 DEF Upgrade, StoreInv, RewriteInv, Rewriting, HashMatchesParams, HashOfVersion
<1>21. CASE HostifHangs \/ HostifAnswers
  BY <1>21 DEF HostifHangs, HostifAnswers, StoreInv, RewriteInv, Rewriting, HashMatchesParams, HashOfVersion
<1> QED
  BY <1>0, <1>1, <1>2, <1>3, <1>4, <1>5, <1>6, <1>7, <1>8, <1>9, <1>10, <1>11, <1>12, <1>13, <1>14,
     <1>15, <1>16, <1>17, <1>18, <1>19, <1>20, <1>21 DEF Next, Progress

\* The store is empty on a device out of the factory.
LEMMA StoreInit == Init => StoreInv
<1> SUFFICES ASSUME Init PROVE StoreInv
  OBVIOUS
<1>1. pc = "off"
  BY DEF Init
<1>2. db.hash \notin Configs
  BY SentinelAssumption DEF Init, EmptyStore
<1> QED
  BY <1>1, <1>2 DEF StoreInv, RewriteInv, Rewriting, HashMatchesParams, HashOfVersion

\* The store's invariant holds in every reachable state.
LEMMA StoreInvariant == Spec => [](TypedAnswer /\ StoreInv)
  BY TypedAnswerInit, TypedAnswerStep, StoreInit, StoreStep, PTL DEF Spec

\* Wherever runs are cut, whatever the servers publish and answer and however
\* often the firmware changes, a stored hash of a configuration with data
\* comes with that configuration's parameters, unless a write failed
\* (clearDB, processXconfResponseConfigDataPart, updateHashAndTimeInDB).
THEOREM StoredHashSound == Spec => []HashMatchesParams
<1>1. StoreInv => HashMatchesParams
  BY DEF StoreInv
<1> QED
  BY <1>1, StoreInvariant, PTL

\* The stored hash belongs to the firmware that .version names
\* (GetStoredHashAndTime, RetrieveHashAndTimeFromPreviousDataSet).
THEOREM StoredHashOfVersion == Spec => []HashOfVersion
<1>1. StoreInv => HashOfVersion
  BY DEF StoreInv
<1> QED
  BY <1>1, StoreInvariant, PTL

(***************************************************************************)
(* The account: stashed before clearDB, put back after it.                 *)
(***************************************************************************)

\* An account ID that is set and not unknown.
Known(a) == a \notin {"", Unknown}

\* Steps of a run that leave the account and the firmware it is read with
\* alone, before the store is emptied.
LEMMA AccountKeptBefore ==
  ASSUME AccountInv, pc \in {"request", "answer", "features", "clear"}, pc' # "restore",
         UNCHANGED <<firmware, start, db>>,
         writeErrors' = 0 => writeErrors = 0,
         proc'.last = proc.last,
         proc.misread \subseteq proc'.misread,
         ~proc.first => ~proc'.first /\ proc'.account = proc.account
  PROVE  AccountInv'
  BY DEF AccountInv

\* And after it was put back.
LEMMA AccountKeptAfter ==
  ASSUME AccountInv, pc \notin {"off", "request", "answer", "features", "clear", "restore"},
         pc' \notin {"request", "answer", "features", "clear", "restore"},
         UNCHANGED <<firmware, start>>,
         writeErrors' = 0 => writeErrors = 0,
         proc'.last = proc.last, proc'.first = proc.first, proc'.misread = proc.misread,
         db'.account = db.account
  PROVE  AccountInv'
  BY DEF AccountInv

\* Every step keeps the account where the run expects it: in the store, or
\* in stashAccountId between clearDB and rfcStashRetrieveParams.
LEMMA AccountStep == TypedAnswer /\ AccountInv /\ [Next]_vars => AccountInv'
<1> SUFFICES ASSUME TypedAnswer, AccountInv, [Next]_vars
             PROVE  AccountInv'
  OBVIOUS
<1>t. TypeOK /\ AnswerInv
  BY DEF TypedAnswer
<1>0. CASE UNCHANGED vars
  BY <1>0 DEF vars, AccountInv
<1>1. ASSUME NEW local \in BOOLEAN, NEW bootstrap \in BOOLEAN, NEW blocked \in BOOLEAN,
             NEW partner \in Ids, NEW u \in Endpoints,
             Start(local, bootstrap, blocked, partner, u)
      PROVE  AccountInv'
  <2>1. /\ start' = db /\ db' = db /\ firmware' = firmware
        /\ pc' \in {"request", "done"}
    BY <1>1 DEF Start, UnlessDirectBlocked
  <2>2. PICK failed \in ReadFails :
          proc' = [NoProcess EXCEPT
                  !.state = IF local THEN "Local" ELSE "Init",
                  !.selectOpt = IF local THEN "local" ELSE "prod",
                  !.url = u,
                  !.bootstrap = bootstrap,
                  !.first = IsNewFirmwareFirstRequest,
                  !.last = version,
                  !.account = GetAccountID(failed, "", version),
                  !.misread = IF failed THEN {"account"} ELSE {},
                  !.partner = partner]
    BY <1>1 DEF Start
  <2>3. /\ proc'.last = version /\ proc'.first = IsNewFirmwareFirstRequest
        /\ proc'.account = GetAccountID(failed, "", version)
        /\ "account" \notin proc'.misread => ~failed
    BY <2>2 DEF NoProcess
  <2>4. failed \in BOOLEAN
    BY DEF ReadFails
  <2> QED
    BY <2>1, <2>3, <2>4 DEF AccountInv, IsNewFirmwareFirstRequest, GetAccountID
<1>2. ASSUME NEW f \in HashReads, NotModified(f)
      PROVE  AccountInv'
  <2>1. Keeps(proc')
    <3>1. served[Target] \in Configs
      BY <1>t, AskedType DEF TypeOK
    <3> QED
      BY <1>t, <1>2, <3>1, AskedType DEF NotModified
  <2> QED
    BY <1>2, <2>1, AccountKeptBefore DEF NotModified, Keeps
<1>3. ASSUME NEW f \in HashReads, Updated(f)
      PROVE  AccountInv'
  <2>1. Keeps(proc')
    <3>1. PICK body \in {served[Target], Malformed} : proc' = [Asked(f) EXCEPT !.resp = body]
      BY <1>3 DEF Updated
    <3>2. body \in Configs \cup {Malformed}
      BY <1>t, <3>1, AskedType DEF TypeOK
    <3> QED
      BY <1>t, <3>1, <3>2, AskedType
  <2> QED
    BY <1>3, <2>1, AccountKeptBefore DEF Updated, Keeps
<1>4. ASSUME NEW f \in HashReads, NotFound(f)
      PROVE  AccountInv'
  <2>1. pc' # "restore" /\ proc' = [Asked(f) EXCEPT !.retries = @ + 1]
    BY <1>4 DEF NotFound, Retry
  <2>2. Keeps(proc')
    BY <1>t, <2>1, AskedType DEF Keeps, Processors
  <2> QED
    BY <1>4, <2>1, <2>2, AccountKeptBefore DEF NotFound, Keeps
<1>5. ASSUME NEW f \in HashReads, RequestFails(f)
      PROVE  AccountInv'
  <2>1. pc' # "restore" /\ proc' = [Asked(f) EXCEPT !.retries = @ + 1]
    BY <1>5 DEF RequestFails, Retry
  <2>2. Keeps(proc')
    BY <1>t, <2>1, AskedType DEF Keeps, Processors
  <2> QED
    BY <1>5, <2>1, <2>2, AccountKeptBefore DEF RequestFails, Keeps
<1>6. CASE AllocationFails
  <2>1. Keeps(proc')
    BY <1>t, <1>6 DEF AllocationFails, TypeOK, Processors, Keeps
  <2> QED
    BY <1>6, <2>1, AccountKeptBefore DEF AllocationFails, Keeps
<1>7. CASE PreProcessJsonResponse
  <2>0. pc = "answer" /\ proc.resp # None
    BY <1>t, <1>7 DEF PreProcessJsonResponse, AnswerInv
  <2> DEFINE p == PreProcessed
  <2>1. /\ p \in Processors /\ p.last = proc.last /\ p.misread = proc.misread
        /\ ~proc.first => ~p.first /\ p.account = proc.account
    BY <1>t, <2>0, PreProcessedType
  <2> HIDE DEF p
  <2>2. \/ Retry(p) \/ Retry([p EXCEPT !.state = "Init"])
        \/ proc' = p /\ pc' = "features"
    BY <1>7 DEF PreProcessJsonResponse, p
  <2>3. /\ proc'.last = p.last /\ pc' # "restore" /\ proc'.misread = p.misread
        /\ proc'.first = p.first /\ proc'.account = p.account
    BY <2>1, <2>2 DEF Retry, Processors
  <2> QED
    BY <1>7, <2>0, <2>1, <2>3, AccountKeptBefore DEF PreProcessJsonResponse
<1>8. CASE WriteFeatures
  BY <1>8 DEF WriteFeatures, AccountInv
<1>9. CASE ParseFails
  BY <1>9 DEF ParseFails, AccountInv
<1>10. ASSUME NEW ok \in BOOLEAN, ClearDB(ok)
       PROVE  AccountInv'
  <2>1. PICK failed \in ReadFails : proc' = Stashed(failed)
    BY <1>10 DEF ClearDB
  <2>2. failed \in BOOLEAN
    BY DEF ReadFails
  <2>3. /\ proc'.last = proc.last /\ proc'.first = proc.first
        /\ proc'.stash = GetAccountID(failed, proc.account, proc.last)
        /\ proc'.misread = IF failed THEN proc.misread ELSE proc.misread \ {"account"}
    BY <1>t, <2>1, <2>2, StashedType
  <2>4. pc = "clear" /\ pc' = "restore" /\ Write(ok) /\ UNCHANGED <<firmware, start>>
    BY <1>10 DEF ClearDB
  <2>5. writeErrors' = 0 => writeErrors = 0
    BY <1>t, <2>4, WritesCounted
  <2> QED
    BY <2>2, <2>3, <2>4, <2>5 DEF AccountInv, GetAccountID
<1>11. ASSUME NEW ok \in BOOLEAN, RestoreAccount(ok)
       PROVE  AccountInv'
  <2>1. /\ pc = "restore" /\ pc' = "apply" /\ UNCHANGED <<firmware, start, proc>>
        /\ Known(proc.stash) => Write(ok) /\ (ok => db' = [db EXCEPT !.account = proc.stash])
        /\ UNCHANGED writeErrors \/ Write(ok)
    BY <1>11, Zenon DEF RestoreAccount, Known
  <2>2. CASE writeErrors' = 0 /\ Known(proc.stash)
    <3>1. ok /\ writeErrors = 0
      BY <1>t, <2>1, <2>2, WritesCounted
    <3>2. db'.account = proc.stash
      BY <1>t, <2>1, <2>2, <3>1 DEF TypeOK, Stores
    <3> QED
      BY <2>1, <2>2, <3>1, <3>2 DEF AccountInv, Known
  <2>3. CASE writeErrors' = 0 /\ ~Known(proc.stash)
    <3>1. writeErrors = 0
      BY <1>t, <2>1, <2>3, WritesCounted
    <3> QED
      BY <2>1, <2>3, <3>1 DEF AccountInv, Known
  <2>4. CASE writeErrors' # 0
    BY <2>4 DEF AccountInv
  <2> QED
    BY <2>2, <2>3, <2>4
<1>12. ASSUME NEW ok \in BOOLEAN, ApplyConfigData(ok)
       PROVE  AccountInv'
  <2>1. pc = "apply" /\ pc' = "version" /\ Write(ok) /\ UNCHANGED <<firmware, start>>
    BY <1>12 DEF ApplyConfigData
  <2>2. proc.resp \in Configs
    BY <1>t, <2>1 DEF AnswerInv
  <2>3. /\ proc'.last = proc.last /\ proc'.first = proc.first /\ proc.misread \subseteq proc'.misread
        /\ "account" \notin proc'.misread /\ db.account \notin {"", Unknown}
             => db'.account \notin {"", Unknown}
    BY <1>t, <1>12, <2>2, AppliedType
  <2>4. writeErrors' = 0 => writeErrors = 0
    BY <1>t, <2>1, WritesCounted
  <2> QED
    BY <2>1, <2>3, <2>4 DEF AccountInv
<1>13. CASE WriteVersion
  BY <1>13, AccountKeptAfter DEF WriteVersion
<1>14. ASSUME NEW ok \in BOOLEAN, UpdateHash(ok)
       PROVE  AccountInv'
  <2>1. pc = "hash" /\ pc' = "meta" /\ UNCHANGED <<firmware, start>>
    BY <1>14 DEF UpdateHash
  <2>2. /\ db'.account = db.account /\ proc'.last = proc.last
        /\ proc'.first = proc.first /\ proc'.misread = proc.misread
    BY <1>t, <1>14 DEF UpdateHash, TypeOK, Stores, Processors
  <2>3. UNCHANGED writeErrors \/ Write(ok)
    BY <1>14, Zenon DEF UpdateHash
  <2>4. writeErrors' = 0 => writeErrors = 0
    BY <1>t, <2>3, WritesCounted
  <2> QED
    BY <2>1, <2>2, <2>4, AccountKeptAfter
<1>15. ASSUME NEW ok \in BOOLEAN, ClearHash(ok)
       PROVE  AccountInv'
  <2>1. db'.account = db.account
    BY <1>t, <1>15 DEF ClearHash, TypeOK, Stores
  <2>2. writeErrors' = 0 => writeErrors = 0
    BY <1>t, <1>15, WritesCounted DEF ClearHash
  <2> QED
    BY <1>15, <2>1, <2>2, AccountKeptAfter DEF ClearHash
<1>16. ASSUME NEW ok \in BOOLEAN, StoreXconfEndpointMetadata(ok)
       PROVE  AccountInv'
  <2>1. db'.account = db.account
    BY <1>t, <1>16 DEF StoreXconfEndpointMetadata, TypeOK, Stores
  <2>2. writeErrors' = 0 => writeErrors = 0
    BY <1>t, <1>16, WritesCounted DEF StoreXconfEndpointMetadata
  <2> QED
    BY <1>16, <2>1, <2>2, AccountKeptAfter DEF StoreXconfEndpointMetadata
<1>17. CASE Exit
  BY <1>17 DEF Exit, AccountInv
<1>18. CASE Die
  BY <1>18 DEF Die, AccountInv
<1>19. ASSUME NEW e \in Endpoints, NEW c \in Configs, Publish(e, c)
       PROVE  AccountInv'
  BY <1>19 DEF Publish, AccountInv
<1>20. ASSUME NEW f \in Firmwares, Upgrade(f)
       PROVE  AccountInv'
  BY <1>20 DEF Upgrade, AccountInv
<1>21. CASE HostifHangs \/ HostifAnswers
  BY <1>21 DEF HostifHangs, HostifAnswers, AccountInv
<1> QED
  BY <1>0, <1>1, <1>2, <1>3, <1>4, <1>5, <1>6, <1>7, <1>8, <1>9, <1>10, <1>11, <1>12, <1>13, <1>14,
     <1>15, <1>16, <1>17, <1>18, <1>19, <1>20, <1>21 DEF Next, Progress

\* A run of an unchanged firmware ends with an account in the store whenever
\* it started with one and read it: clearDB empties the store, rfcStash-
\* RetrieveParams and the loop of processXconfResponseConfigDataPart put an
\* account back.  What is given up is named by misread: both reads before
\* clearDB failed, or the one an account Unknown of the server is compared with.
THEOREM AccountKeptByRun == Spec => []AccountRestored
<1>1. Init => AccountInv
  BY DEF Init, AccountInv
<1>2. AccountInv => AccountRestored
  BY DEF AccountInv, AccountRestored
<1> QED
  BY <1>1, <1>2, TypedAnswerInit, TypedAnswerStep, AccountStep, PTL DEF Spec

(***************************************************************************)
(* The reboot.                                                             *)
(***************************************************************************)

\* PreProcessJsonResponse changes neither bkup_hash nor the demand for a
\* reboot, and leaves a local override alone once the IDs were looked at.
LEMMA PreProcessedKeeps ==
  ASSUME TypeOK, proc.resp # None
  PROVE  /\ PreProcessed.selectOpt = proc.selectOpt
         /\ PreProcessed.bkup = proc.bkup
         /\ PreProcessed.misread = proc.misread
         /\ PreProcessed.reboot = proc.reboot
         /\ ~proc.first => ~PreProcessed.first
         /\ ~proc.first /\ proc.state = "Local" => PreProcessed.state = "Local"
<1>1. proc \in Processors
  BY DEF TypeOK
<1>2. CASE proc.resp = Malformed \/ ~(proc.state = "Init" \/ proc.first)
  BY <1>1, <1>2 DEF PreProcessed, Processors, RfcStates
<1>3. CASE proc.resp # Malformed /\ (proc.state = "Init" \/ proc.first)
  <2>1. ASSUME NEW a, NEW b, NEW redo,
               WithValidIds = IF ~proc.first THEN proc
                              ELSE [proc EXCEPT !.account = a, !.partner = b, !.first = FALSE,
                                      !.state = IF redo THEN "Redo_With_Valid_Data" ELSE @]
        PROVE  /\ WithValidIds.selectOpt = proc.selectOpt /\ WithValidIds.bkup = proc.bkup
               /\ WithValidIds.misread = proc.misread
               /\ WithValidIds.reboot = proc.reboot /\ WithValidIds.first = FALSE
               /\ ~proc.first => WithValidIds = proc
    BY <1>1, <2>1 DEF Processors
  <2>2. /\ WithValidIds.selectOpt = proc.selectOpt /\ WithValidIds.bkup = proc.bkup
        /\ WithValidIds.misread = proc.misread
        /\ WithValidIds.reboot = proc.reboot /\ WithValidIds.first = FALSE
        /\ ~proc.first => WithValidIds = proc
    BY <2>1 DEF WithValidIds
  <2> DEFINE w == WithValidIds
  <2> HIDE DEF w
  <2>3. w = proc \/ w = [proc EXCEPT !.account = GetValidAccountId.id, !.partner = GetValidPartnerId.id,
                            !.first = FALSE,
                            !.state = IF GetValidAccountId.redo \/ GetValidPartnerId.redo
                                        THEN "Redo_With_Valid_Data" ELSE @]
    BY DEF WithValidIds, w
  <2>4. DOMAIN w = DOMAIN proc
    BY <2>3
  <2>5. /\ Selected(w).selectOpt = w.selectOpt /\ Selected(w).bkup = w.bkup
        /\ Selected(w).reboot = w.reboot /\ Selected(w).first = w.first
        /\ Selected(w).misread = w.misread
        /\ w.state = "Local" => Selected(w).state = "Local"
    BY <1>1, <2>4 DEF Selected, GetXconfSelect, Processors
  <2>6. PreProcessed = Selected(w)
    BY <1>3 DEF PreProcessed, w
  <2> QED
    BY <2>2, <2>5, <2>6 DEF w
<1> QED
  BY <1>2, <1>3

\* What the invariant looks at of a step in the middle of a run.
RebootKept ==
  /\ UNCHANGED <<firmware, start, result>>
  /\ proc'.last = proc.last /\ proc'.selectOpt = proc.selectOpt
  /\ proc'.first = proc.first /\ proc'.state = proc.state
  /\ "hash" \in proc.misread => "hash" \in proc'.misread

\* Sending a request saves the hash that the run found.
LEMMA AskedBackup ==
  ASSUME TypeOK, RebootInv, pc = "request", NEW f \in HashReads, NEW r
  PROVE  LET p == [Asked(f) EXCEPT !.resp = r]
         IN  /\ p.last = proc.last /\ p.selectOpt = proc.selectOpt
             /\ p.first = proc.first /\ p.state = proc.state /\ p.reboot = FALSE
             /\ p.resp = r
             /\ proc.misread \subseteq p.misread
             /\ Asked(f).last = proc.last /\ Asked(f).selectOpt = proc.selectOpt
             /\ Asked(f).first = proc.first /\ Asked(f).state = proc.state
             /\ Asked(f).reboot = FALSE /\ proc.misread \subseteq Asked(f).misread
             /\ Comparable /\ "hash" \notin p.misread => p.bkup = start.hash
<1>1. proc \in Processors /\ proc.reboot = FALSE
  BY DEF TypeOK, RebootInv, Processors
<1> DEFINE m == Misread("hash", HashMisread(f))
           b == BackupHash(f)
<1>2. Comparable /\ "hash" \notin m => b = start.hash
  <2> SUFFICES ASSUME Comparable, "hash" \notin m
               PROVE  b = start.hash
    OBVIOUS
  <2>1. ~HashMisread(f)
    BY DEF Misread
  <2>2. proc.selectOpt = "local" => proc.state = "Local"
    BY DEF RebootInv
  <2>3. proc.last = firmware /\ (start.selector = "prod" \/ proc.state = "Local")
    BY <2>2 DEF Comparable
  <2>4. db.hash = start.hash /\ db.selector = start.selector
    BY DEF RebootInv
  <2> QED
    BY <2>1, <2>3, <2>4
       DEF HashMisread, BackupHash, StoredHash, Retrieves, IsXconfSelectorSlotProd
<1>3. proc.misread \subseteq m
  BY DEF Misread
<1>4. Asked(f) = [proc EXCEPT !.url = Target, !.bkup = b, !.resp = None, !.misread = m]
  BY DEF Asked
<1> HIDE DEF m, b
<1> QED
  BY <1>1, <1>2, <1>3, <1>4 DEF Processors

\* Every step keeps bkup_hash what the run found, until the hash of the
\* answer is compared with it.
LEMMA RebootStep == TypedAnswer /\ RebootInv /\ [Next]_vars => RebootInv'
<1> SUFFICES ASSUME TypedAnswer, RebootInv, [Next]_vars
             PROVE  RebootInv'
  OBVIOUS
<1>t. TypeOK /\ AnswerInv /\ proc \in Processors /\ db \in Stores
  BY DEF TypedAnswer, TypeOK
<1>0. CASE UNCHANGED vars
  BY <1>0 DEF vars, RebootInv, Comparable
<1>1. ASSUME NEW local \in BOOLEAN, NEW bootstrap \in BOOLEAN, NEW blocked \in BOOLEAN,
             NEW partner \in Ids, NEW u \in Endpoints,
             Start(local, bootstrap, blocked, partner, u)
      PROVE  RebootInv'
  <2>1. /\ start' = db /\ db' = db /\ firmware' = firmware /\ result' = "FAILURE"
        /\ pc' \in {"request", "done"}
    BY <1>1 DEF Start, UnlessDirectBlocked
  <2>2. PICK failed \in ReadFails :
          proc' = [NoProcess EXCEPT
                     !.state = IF local THEN "Local" ELSE "Init",
                     !.selectOpt = IF local THEN "local" ELSE "prod",
                     !.url = u, !.bootstrap = bootstrap, !.first = IsNewFirmwareFirstRequest,
                     !.last = version, !.account = GetAccountID(failed, "", version),
                     !.misread = IF failed THEN {"account"} ELSE {}, !.partner = partner]
    BY <1>1 DEF Start
  <2>3. /\ proc'.reboot = FALSE /\ proc'.last = version
        /\ proc'.first = IsNewFirmwareFirstRequest
        /\ proc'.selectOpt = "local" => proc'.state = "Local"
    BY <2>2 DEF NoProcess
  <2> QED
    BY <2>1, <2>3 DEF RebootInv, Comparable, IsNewFirmwareFirstRequest
<1>2. ASSUME NEW f \in HashReads, NotModified(f)
      PROVE  RebootInv'
  <2>1. /\ proc' = [Asked(f) EXCEPT !.resp = served[Target]] /\ pc = "request" /\ pc' = "done"
        /\ UNCHANGED <<firmware, start>>
    BY <1>2 DEF NotModified
  <2>2. /\ proc'.last = proc.last /\ proc'.selectOpt = proc.selectOpt
        /\ proc'.first = proc.first /\ proc'.state = proc.state /\ proc'.reboot = FALSE
        /\ proc.misread \subseteq proc'.misread
    BY <1>t, <2>1, AskedBackup
  <2> QED
    BY <2>1, <2>2 DEF RebootInv, Comparable
<1>3. ASSUME NEW f \in HashReads, Updated(f)
      PROVE  RebootInv'
  <2>1. PICK body \in {served[Target], Malformed} : proc' = [Asked(f) EXCEPT !.resp = body]
    BY <1>3 DEF Updated
  <2>2. pc = "request" /\ pc' = "answer" /\ UNCHANGED <<firmware, start, result, db>>
    BY <1>3 DEF Updated
  <2>3. /\ proc'.last = proc.last /\ proc'.selectOpt = proc.selectOpt
        /\ proc'.first = proc.first /\ proc'.state = proc.state /\ proc'.reboot = FALSE
        /\ proc.misread \subseteq proc'.misread
        /\ Comparable /\ "hash" \notin proc'.misread => proc'.bkup = start.hash
    BY <1>t, <2>1, <2>2, AskedBackup
  <2> QED
    BY <2>2, <2>3 DEF RebootInv, Comparable
<1>4. ASSUME NEW f \in HashReads, NotFound(f) \/ RequestFails(f)
      PROVE  RebootInv'
  <2>1. /\ pc = "request" /\ pc' \in {"request", "done"}
        /\ proc' = [Asked(f) EXCEPT !.retries = @ + 1]
        /\ UNCHANGED <<firmware, start, result, db>>
    BY <1>4 DEF NotFound, RequestFails, Retry
  <2>2. /\ Asked(f).last = proc.last /\ Asked(f).selectOpt = proc.selectOpt
        /\ Asked(f).first = proc.first /\ Asked(f).state = proc.state /\ Asked(f).reboot = FALSE
        /\ proc.misread \subseteq Asked(f).misread
    BY <1>t, <2>1, AskedBackup
  <2>3. /\ proc'.last = proc.last /\ proc'.selectOpt = proc.selectOpt
        /\ proc'.first = proc.first /\ proc'.state = proc.state /\ proc'.reboot = FALSE
        /\ proc.misread \subseteq proc'.misread
    BY <1>t, <2>1, <2>2, AskedType DEF Processors
  <2> QED
    BY <2>1, <2>3 DEF RebootInv, Comparable
<1>5. CASE AllocationFails
  <2>1. RebootKept /\ pc = "request" /\ pc' = "done"
    BY <1>t, <1>5 DEF AllocationFails, RebootKept, Processors
  <2> QED
    BY <2>1 DEF RebootInv, Comparable, RebootKept
<1>6. CASE PreProcessJsonResponse
  <2>0. pc = "answer" /\ proc.resp # None /\ UNCHANGED <<firmware, start, db>>
    BY <1>t, <1>6 DEF PreProcessJsonResponse, AnswerInv
  <2> DEFINE p == PreProcessed
  <2> HIDE DEF p
  <2>1. p \in Processors /\ p.last = proc.last /\ p.misread = proc.misread
    BY <1>t, <2>0, PreProcessedType DEF p
  <2>2. /\ p.selectOpt = proc.selectOpt /\ p.bkup = proc.bkup /\ p.reboot = proc.reboot
        /\ ~proc.first => ~p.first
        /\ ~proc.first /\ proc.state = "Local" => p.state = "Local"
    BY <1>t, <2>0, PreProcessedKeeps DEF p
  <2>3. /\ UNCHANGED result
        /\ \/ Retry(p)
           \/ p.state = "Redo_With_Valid_Data" /\ Retry([p EXCEPT !.state = "Init"])
           \/ proc' = p /\ pc' = "features"
    BY <1>6 DEF PreProcessJsonResponse, Retry, p
  <2>4. /\ proc'.last = proc.last /\ proc'.selectOpt = proc.selectOpt
        /\ proc'.bkup = proc.bkup /\ proc'.reboot = proc.reboot
        /\ proc'.misread = proc.misread
        /\ ~proc.first => ~proc'.first
        /\ ~proc.first /\ proc.state = "Local" => proc'.state = "Local"
        /\ pc' \in {"request", "features", "done"}
    BY <2>1, <2>2, <2>3 DEF Retry, Processors
  <2> QED
    BY <2>0, <2>3, <2>4 DEF RebootInv, Comparable
<1>7. CASE WriteFeatures \/ ParseFails
  <2>1. /\ pc = "features" /\ pc' \in {"clear", "version", "failhash"}
        /\ UNCHANGED <<firmware, start, result, db, proc>>
    BY <1>7 DEF WriteFeatures, ParseFails
  <2> QED
    BY <2>1 DEF RebootInv, Comparable
<1>8. ASSUME NEW ok \in BOOLEAN, ClearDB(ok)
      PROVE  RebootInv'
  <2>1. PICK failed \in ReadFails : proc' = Stashed(failed)
    BY <1>8 DEF ClearDB
  <2>2. failed \in BOOLEAN
    BY DEF ReadFails
  <2>3. RebootKept /\ proc'.bkup = proc.bkup /\ pc = "clear" /\ pc' = "restore"
    BY <1>t, <1>8, <2>1, <2>2, StashedType DEF ClearDB, RebootKept
  <2> QED
    BY <2>3 DEF RebootInv, Comparable, RebootKept
<1>9. ASSUME NEW ok \in BOOLEAN, RestoreAccount(ok)
      PROVE  RebootInv'
  <2>1. RebootKept /\ proc' = proc /\ pc = "restore" /\ pc' = "apply"
    BY <1>9 DEF RestoreAccount, RebootKept
  <2> QED
    BY <2>1 DEF RebootInv, Comparable, RebootKept
<1>10. ASSUME NEW ok \in BOOLEAN, ApplyConfigData(ok)
       PROVE  RebootInv'
  <2>1. pc = "apply" /\ pc' = "version" /\ UNCHANGED <<firmware, start, result>>
    BY <1>10 DEF ApplyConfigData
  <2>2. proc.resp \in Configs
    BY <1>t, <2>1 DEF AnswerInv
  <2>3. /\ RebootKept /\ proc'.resp = proc.resp
        /\ ~proc.resp.validates => proc'.bkup = proc.bkup
    BY <1>t, <1>10, <2>1, <2>2, AppliedType DEF RebootKept
  <2>4. proc.resp.validates \in BOOLEAN
    BY <2>2, ConfigsAssumption
  <2> QED
    BY <2>1, <2>3, <2>4 DEF RebootInv, Comparable, RebootKept
<1>11. CASE WriteVersion
  BY <1>11 DEF WriteVersion, RebootInv, Comparable
<1>12. ASSUME NEW ok \in BOOLEAN, UpdateHash(ok)
       PROVE  RebootInv'
  <2>1. pc = "hash" /\ pc' = "meta" /\ UNCHANGED <<firmware, start>>
    BY <1>12 DEF UpdateHash
  <2>2. /\ proc'.last = proc.last /\ proc'.selectOpt = proc.selectOpt
        /\ proc'.first = proc.first /\ proc'.state = proc.state /\ proc'.resp = proc.resp
        /\ proc'.misread = proc.misread
        /\ proc.resp.hashed => proc'.reboot = (proc.reboot /\ proc.bkup # proc.resp)
    BY <1>t, <1>12 DEF UpdateHash, Processors
  <2> QED
    BY <2>1, <2>2 DEF RebootInv, Comparable
<1>13. ASSUME NEW ok \in BOOLEAN, ClearHash(ok)
       PROVE  RebootInv'
  BY <1>13 DEF ClearHash, RebootInv, Comparable
<1>14. ASSUME NEW ok \in BOOLEAN, StoreXconfEndpointMetadata(ok)
       PROVE  RebootInv'
  BY <1>14 DEF StoreXconfEndpointMetadata, RebootInv, Comparable
<1>15. CASE Exit \/ Die
  BY <1>15 DEF Exit, Die, RebootInv
<1>16. ASSUME NEW e \in Endpoints, NEW c \in Configs, Publish(e, c)
       PROVE  RebootInv'
  BY <1>16 DEF Publish, RebootInv, Comparable
<1>17. ASSUME NEW f \in Firmwares, Upgrade(f)
       PROVE  RebootInv'
  BY <1>17 DEF Upgrade, RebootInv, Comparable
<1>18. CASE HostifHangs \/ HostifAnswers
  BY <1>18 DEF HostifHangs, HostifAnswers, RebootInv, Comparable
<1> QED
  BY <1>0, <1>1, <1>2, <1>3, <1>4, <1>5, <1>6, <1>7, <1>8, <1>9, <1>10, <1>11, <1>12, <1>13, <1>14,
     <1>15, <1>16, <1>17, <1>18 DEF Next, Progress

\* A run that applies the configuration whose hash it found in the store
\* asks for no reboot, whatever it went through before: redirections, retries
\* and new IDs overwrite bkup_hash with the same hash (updateHashInDB).
THEOREM NoRebootForSameHash == Spec => []SameHashNoReboot
<1>1. Init => RebootInv
  BY DEF Init, RebootInv
<1>2. TypedAnswer /\ RebootInv => SameHashNoReboot
  BY DEF RebootInv, Comparable, SameHashNoReboot
<1> QED
  BY <1>1, <1>2, TypedAnswerInit, TypedAnswerStep, RebootStep, PTL DEF Spec
=============================================================================

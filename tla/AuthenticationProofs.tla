------------------------ MODULE AuthenticationProofs ------------------------
(***************************************************************************)
(* The connection string for any hubs, devices and re-provisionings:       *)
(* whose key it holds, when it is stale, and what is released.             *)
(***************************************************************************)
EXTENDS Authentication, TLAPS

-----------------------------------------------------------------------------
Starting == {"start", "connection", "module", "auth"}
Asking == {"hub", "renew.hub"}
Initializing == Starting \cup {"abort", "dps", "hub"}

(***************************************************************************)
(* What the control point says about the statics.  Before the first secret *)
(* everything is as AuthenticationManager_Init left it; what is to be      *)
(* freed is always marked as initialised.                                  *)
(***************************************************************************)
Control ==
    /\ pc \in Starting =>
          auth = EmptyManager /\ ~initialized /\ connectionString = NoString
    /\ pc \in {"start", "connection", "module"} => ~useDps
    /\ pc \in {"dps", "renew.dps", "renew.hub"} => useDps
    /\ pc \in Initializing => outcome = "none"
    /\ outcome # "none" => useDps
    /\ ~initialized => auth.secret = "none" /\ ~auth.dps
    /\ pc \in {"failed", "stopped"} =>
          /\ ~initialized /\ connectionString = NoString
          /\ "agentId" \notin held
    /\ pc \in Initializing => connectionString = NoString
    /\ pc \in Initializing \cup {"failed"} => overwritten = 0

(***************************************************************************)
(* The connection strings that are allocated: the one the pointer names,   *)
(* and those it named before.                                              *)
(***************************************************************************)
Allocated ==
    strings = overwritten + (IF connectionString = NoString THEN 0 ELSE 1)

(***************************************************************************)
(* The manager names one module, and whoever is about to be asked for its  *)
(* key is the one that the last accepted answer of the service named.      *)
(***************************************************************************)
NamesAnswer ==
    /\ auth.hostName = answered.hub /\ auth.deviceId = answered.device
    /\ auth.lastDPSUpdateTime = answered.time

Manager ==
    pc \in Asking =>
        /\ auth.hostName \in Hubs /\ auth.deviceId \in Devices
        /\ auth.relativeUrl = auth.deviceId
        /\ useDps => NamesAnswer

(***************************************************************************)
(* The connection string holds the key of the module it names, and unless  *)
(* a renewal failed it names what the service answered last.               *)
(***************************************************************************)
StringNamesAnswer ==
    /\ connectionString # NoString
    /\ connectionString.hostName = answered.hub
    /\ connectionString.deviceId = answered.device

Connection ==
    /\ connectionString # NoString =>
          connectionString.keyOf
              = <<connectionString.hostName, connectionString.deviceId>>
    /\ pc = "running" /\ useDps /\ outcome # "failed" =>
          StringNamesAnswer /\ auth.lastDPSUpdateTime = answered.time

(***************************************************************************)
(* The service dates its assignments: the accepted one is an earlier one,  *)
(* or the present one.                                                     *)
(***************************************************************************)
Dated ==
    /\ answered.time <= dps.time
    /\ answered.time = dps.time => answered = dps

Inv == TypeOK /\ Control /\ Allocated /\ Manager /\ Connection /\ Dated

-----------------------------------------------------------------------------
(***************************************************************************)
(* A manager before any secret, and one that was released, are managers.   *)
(***************************************************************************)
LEMMA ManagerType ==
  /\ EmptyManager \in Managers /\ EmptyManager.secret = "none" /\ ~EmptyManager.dps
  /\ \A a \in Managers :
        Released(a) \in Managers /\ Released(a).secret = "none" /\ ~Released(a).dps
BY DEF EmptyManager, Released, Managers, Secrets

(***************************************************************************)
(* UpdateFromDpsResponse leaves the secret and the request body alone, and *)
(* what it accepts names the device, its URL and the time of the answer.   *)
(***************************************************************************)
LEMMA ResponseType ==
  ASSUME NEW a \in Managers, NEW d \in Assignments, NEW r \in Answers(d)
  PROVE  LET u == UpdateFromDpsResponse(a, r)
         IN  /\ u.ok \in BOOLEAN /\ u.manager \in Managers
             /\ u.manager.secret = a.secret /\ u.manager.dps = a.dps
             /\ u.ok => /\ u.manager.hostName = d.hub
                        /\ u.manager.deviceId = d.device
                        /\ u.manager.relativeUrl = d.device
                        /\ u.manager.lastDPSUpdateTime = d.time
<1> DEFINE gotHub == r.assigned /\ r.hub # Missing
           gotDevice == gotHub /\ r.device # Missing
           gotTime == gotDevice /\ r.time # Missing
           fresh == gotTime /\ r.time # a.lastDPSUpdateTime
           h == IF gotHub THEN r.hub ELSE a.hostName
           v == IF gotDevice THEN r.device ELSE a.deviceId
           t == IF fresh THEN r.time ELSE a.lastDPSUpdateTime
           l == IF fresh THEN r.device ELSE a.relativeUrl
           m == [a EXCEPT !.hostName = h, !.deviceId = v, !.lastDPSUpdateTime = t,
                          !.relativeUrl = l]
<1>1. UpdateFromDpsResponse(a, r) = [ok |-> fresh, manager |-> m]
  BY DEF UpdateFromDpsResponse, ModuleUrl
<1>2. /\ r.hub \in {d.hub, Missing} /\ r.device \in {d.device, Missing}
      /\ r.time \in {d.time, Missing}
  BY DEF Answers
<1>3. d.hub \in Hubs /\ d.device \in Devices /\ d.time \in 1 .. MaxTime + 1
  BY DEF Assignments
<1>4. /\ a.hostName \in Hubs \cup {Missing} /\ a.deviceId \in Devices \cup {Missing}
      /\ a.relativeUrl \in Devices \cup {Missing}
      /\ a.lastDPSUpdateTime \in 1 .. MaxTime + 1 \cup {Missing}
  BY DEF Managers
<1>5. /\ h \in Hubs \cup {Missing} /\ v \in Devices \cup {Missing}
      /\ l \in Devices \cup {Missing} /\ t \in 1 .. MaxTime + 1 \cup {Missing}
  BY <1>2, <1>3, <1>4
<1>6. fresh => h = d.hub /\ v = d.device /\ t = d.time /\ l = d.device
  BY <1>2
<1> HIDE DEF h, v, t, l, fresh
<1>7. /\ m \in Managers /\ m.secret = a.secret /\ m.dps = a.dps
      /\ m.hostName = h /\ m.deviceId = v /\ m.lastDPSUpdateTime = t /\ m.relativeUrl = l
  BY <1>5 DEF Managers
<1>8. fresh \in BOOLEAN
  BY DEF fresh
<1> HIDE DEF m
<1> QED
  BY <1>1, <1>6, <1>7, <1>8

(***************************************************************************)
(* The same of everything GetHostNameFromDPS can make of the manager.      *)
(***************************************************************************)
LEMMA DpsOutcome ==
  ASSUME TypeOK, NEW o \in DpsOutcomes
  PROVE  /\ o.manager \in Managers
         /\ o.manager.secret = auth.secret /\ o.manager.dps = auth.dps
         /\ o.ok => /\ o.manager.hostName = dps.hub /\ o.manager.deviceId = dps.device
                    /\ o.manager.relativeUrl = dps.device
                    /\ o.manager.lastDPSUpdateTime = dps.time
<1> DEFINE updates == {UpdateFromDpsResponse(auth, r) : r \in Answers(dps)}
<1>0. auth \in Managers /\ dps \in Assignments
  BY DEF TypeOK
<1>1. CASE o = [ok |-> FALSE, manager |-> auth]
  BY <1>0, <1>1
<1>2. CASE o \in updates
  BY <1>0, <1>2, ResponseType
<1>3. ASSUME NEW u \in updates,
             o = [ok |-> FALSE, manager |-> [u.manager EXCEPT !.relativeUrl = Missing]]
      PROVE  /\ ~o.ok /\ o.manager \in Managers
             /\ o.manager.secret = auth.secret /\ o.manager.dps = auth.dps
  <2>1. u.manager \in Managers /\ u.manager.secret = auth.secret /\ u.manager.dps = auth.dps
    BY <1>0, ResponseType
  <2> QED
    BY <1>3, <2>1 DEF Managers
<1> QED
  BY <1>1, <1>2, <1>3 DEF DpsOutcomes

(***************************************************************************)
(* A request to the service leaves the rest of the statics alone, and goes *)
(* on to the hub only with the names of the answer it accepted.            *)
(***************************************************************************)
LEMMA DpsAsked ==
  ASSUME TypeOK, NEW from, NEW onSuccess, NEW onFailure,
         onSuccess # onFailure, onSuccess # "crashed",
         GetHostNameFromDPS(from, onSuccess, onFailure)
  PROVE  /\ pc = from /\ pc' \in {"crashed", onSuccess, onFailure}
         /\ UNCHANGED <<initialized, useDps, held, connectionString, strings, service,
                        overwritten>>
         /\ auth' \in Managers
         /\ auth'.secret = auth.secret /\ auth'.dps = auth.dps
         /\ pc' = onSuccess =>
               /\ auth'.hostName = dps.hub /\ auth'.deviceId = dps.device
               /\ auth'.relativeUrl = dps.device
               /\ auth'.lastDPSUpdateTime = dps.time /\ answered' = dps
         /\ pc' # onSuccess => answered' = answered
         /\ answered' \in {answered, dps}
         /\ outcome' = IF pc' = onFailure /\ onFailure = "running" THEN "failed" ELSE outcome
<1>1. CASE pc' = "crashed" /\ UNCHANGED <<auth, answered, outcome>>
  <2>1. onFailure = "running" => pc' # onFailure
    BY <1>1
  <2> QED
    BY <1>1, <2>1 DEF GetHostNameFromDPS, TypeOK
<1>2. ASSUME NEW o \in DpsOutcomes, auth' = o.manager,
             pc' = IF o.ok THEN onSuccess ELSE onFailure,
             answered' = IF o.ok THEN dps ELSE answered,
             outcome' = IF ~o.ok /\ onFailure = "running" THEN "failed" ELSE outcome
      PROVE  /\ pc' \in {"crashed", onSuccess, onFailure}
             /\ auth' \in Managers
             /\ auth'.secret = auth.secret /\ auth'.dps = auth.dps
             /\ pc' = onSuccess =>
                   /\ auth'.hostName = dps.hub /\ auth'.deviceId = dps.device
                   /\ auth'.relativeUrl = dps.device
                   /\ auth'.lastDPSUpdateTime = dps.time /\ answered' = dps
             /\ pc' # onSuccess => answered' = answered
             /\ answered' \in {answered, dps}
             /\ outcome' = IF pc' = onFailure /\ onFailure = "running"
                           THEN "failed" ELSE outcome
  <2>1. CASE o.ok
    BY <1>2, <2>1, DpsOutcome
  <2>2. CASE ~o.ok
    BY <1>2, <2>2, DpsOutcome
  <2> QED
    BY <2>1, <2>2
<1>3. /\ pc = from
      /\ UNCHANGED <<initialized, useDps, held, connectionString, strings, service,
                        overwritten>>
  BY DEF GetHostNameFromDPS
<1>4. \/ pc' = "crashed" /\ UNCHANGED <<auth, answered, outcome>>
      \/ \E o \in DpsOutcomes :
            /\ auth' = o.manager
            /\ pc' = IF o.ok THEN onSuccess ELSE onFailure
            /\ answered' = IF o.ok THEN dps ELSE answered
            /\ outcome' = IF ~o.ok /\ onFailure = "running" THEN "failed" ELSE outcome
  BY DEF GetHostNameFromDPS
<1> QED
  BY <1>1, <1>2, <1>3, <1>4

(***************************************************************************)
(* LocalConfiguration_Deinit gives back the secret, the request body, the  *)
(* connection string and the agent id.                                     *)
(***************************************************************************)
LEMMA Deinitialized ==
  ASSUME TypeOK, ~initialized => auth.secret = "none" /\ ~auth.dps,
         NEW h \in SUBSET {"agentId", "objectName"}, Deinit(auth, h)
  PROVE  /\ auth' \in Managers /\ auth'.secret = "none" /\ ~auth'.dps
         /\ ~initialized' /\ initialized' \in BOOLEAN
         /\ connectionString' = NoString
         /\ Allocated => strings' \in Nat /\ strings' = overwritten
         /\ held' \subseteq {"agentId", "objectName"} /\ "agentId" \notin held'
<1>1. auth \in Managers /\ auth' = IF initialized THEN Released(auth) ELSE auth
  BY DEF TypeOK, Deinit
<1>2. auth' \in Managers /\ auth'.secret = "none" /\ ~auth'.dps
  BY <1>1, ManagerType
<1>3. Allocated => strings' \in Nat /\ strings' = overwritten
  BY DEF Deinit, Allocated, TypeOK
<1> QED
  BY <1>2, <1>3 DEF Deinit

(***************************************************************************)
(* Once a secret is loaded the manager is marked; without DPS it has the   *)
(* names of the configuration file.                                        *)
(***************************************************************************)
LEMMA Authenticated ==
  ASSUME TypeOK, InitAuthentication
  PROVE  /\ pc = "auth" /\ pc' \in {"dps", "hub", "abort"}
         /\ initialized' /\ initialized' \in BOOLEAN
         /\ auth' \in Managers
         /\ UNCHANGED <<useDps, held, connectionString, strings, service, history>>
         /\ pc' = "dps" => useDps
         /\ pc' = "hub" =>
               /\ ~useDps /\ auth'.hostName \in Hubs /\ auth'.deviceId \in Devices
               /\ auth'.relativeUrl = auth'.deviceId
<1> DEFINE M(d) == [EmptyManager EXCEPT !.dps = useDps /\ d]
<1>1. \A d \in BOOLEAN : M(d) \in Managers
  BY ManagerType DEF Managers, TypeOK
<1>2. file.hub \in Hubs /\ file.device \in Devices /\ LoadedSecrets \subseteq Secrets
  BY DEF TypeOK, Files, LoadedSecrets, Secrets
<1>3. ASSUME NEW a \in Managers, NEW s \in LoadedSecrets,
             auth' = SharedProperties([a EXCEPT !.secret = s]), pc' = AfterSecret
      PROVE  /\ auth' \in Managers /\ pc' \in {"dps", "hub"}
             /\ pc' = "dps" => useDps
             /\ pc' = "hub" =>
                   /\ ~useDps /\ auth'.hostName \in Hubs /\ auth'.deviceId \in Devices
                   /\ auth'.relativeUrl = auth'.deviceId
  <2> DEFINE b == [a EXCEPT !.secret = s]
  <2>1. b \in Managers
    BY <1>2, <1>3 DEF Managers
  <2> HIDE DEF b
  <2>2. CASE useDps
    BY <1>3, <2>1, <2>2 DEF SharedProperties, Managers, AfterSecret, b
  <2>3. CASE ~useDps
    BY <1>2, <1>3, <2>1, <2>3 DEF SharedProperties, Managers, AfterSecret, b
  <2> QED
    BY <2>2, <2>3
<1>4. ASSUME NEW a \in Managers, pc' = "abort",
             auth' = IF file.method = "SelfSignedCertificate" THEN Released(a) ELSE a
      PROVE  auth' \in Managers
  BY <1>4, ManagerType
<1>5. \E d \in BOOLEAN :
         \/ \E s \in LoadedSecrets :
               auth' = SharedProperties([M(d) EXCEPT !.secret = s]) /\ pc' = AfterSecret
         \/ /\ auth' = IF file.method = "SelfSignedCertificate" THEN Released(M(d)) ELSE M(d)
            /\ pc' = "abort"
  BY DEF InitAuthentication
<1> HIDE DEF M
<1>6. /\ pc = "auth" /\ initialized' /\ initialized' \in BOOLEAN
      /\ UNCHANGED <<useDps, held, connectionString, strings, service, history>>
  BY DEF InitAuthentication, MarkInitialized
<1> QED
  BY <1>1, <1>3, <1>4, <1>5, <1>6

(***************************************************************************)
(* A hub asked for a key: the string stays, is lost, or is made of the     *)
(* names of the manager and the key of the module its URL names.           *)
(***************************************************************************)
LEMMA HubOutcome ==
  ASSUME TypeOK, Manager, Connection, pc \in Asking,
         NEW o \in ConnectionStringOutcomes
  PROVE  /\ o.string \in Strings \cup {NoString}
         /\ o.string # NoString => o.string.keyOf = <<o.string.hostName, o.string.deviceId>>
         /\ o.ok => /\ o.string # NoString
                    /\ o.string.hostName = auth.hostName
                    /\ o.string.deviceId = auth.deviceId
         /\ Store(o) /\ Allocated =>
               /\ strings' \in Nat /\ overwritten' \in Nat /\ Allocated'
               /\ connectionString = NoString => overwritten' = overwritten
<1>1. /\ FetchedString \in Strings /\ FetchedString.hostName = auth.hostName
      /\ FetchedString.deviceId = auth.deviceId
      /\ FetchedString.keyOf = <<FetchedString.hostName, FetchedString.deviceId>>
  BY DEF Manager, FetchedString, Strings
<1>2. FetchedString # NoString
  BY <1>1, AuthenticationAssumption DEF Strings
<1>3. \/ o = [ok |-> FALSE, string |-> connectionString]
      \/ o = [ok |-> FALSE, string |-> NoString]
      \/ o = [ok |-> TRUE, string |-> FetchedString]
  BY DEF ConnectionStringOutcomes
<1>4. ASSUME Store(o), Allocated
      PROVE  /\ strings' \in Nat /\ overwritten' \in Nat /\ Allocated'
             /\ connectionString = NoString => overwritten' = overwritten
  <2>1. strings \in Nat /\ overwritten \in Nat
    BY DEF TypeOK
  <2>2. CASE o = [ok |-> FALSE, string |-> connectionString]
    BY <1>4, <2>1, <2>2 DEF Store, Allocated
  <2>3. CASE o = [ok |-> FALSE, string |-> NoString]
    BY <1>4, <2>1, <2>3 DEF Store, Allocated
  <2>4. CASE o = [ok |-> TRUE, string |-> FetchedString]
    BY <1>2, <1>4, <2>1, <2>4 DEF Store, Allocated
  <2> QED
    BY <1>3, <2>2, <2>3, <2>4
<1> QED
  BY <1>1, <1>2, <1>3, <1>4 DEF Connection, TypeOK

(***************************************************************************)
(* A process starts with nothing but the configuration file.               *)
(***************************************************************************)
LEMMA InitInv == Init => Inv
<1> SUFFICES ASSUME Init PROVE Inv
  OBVIOUS
<1>1. dps \in Assignments /\ dps.time = 1
  BY AuthenticationAssumption DEF Init, Assignments
<1>2. TypeOK
  BY <1>1, ManagerType DEF Init, TypeOK, Locations
<1>3. Control
  BY ManagerType DEF Init, Control, Starting, Initializing
<1>4. Manager /\ Connection /\ Dated
  BY <1>1 DEF Init, Manager, Asking, Connection, Dated
<1>5. Allocated
  BY DEF Init, Allocated
<1> QED
  BY <1>2, <1>3, <1>4, <1>5 DEF Inv

(***************************************************************************)
(* Every step stores values of the statics' types.                         *)
(***************************************************************************)
LEMMA TypeStep == Inv /\ [Next]_vars => TypeOK'
<1> SUFFICES ASSUME Inv, [Next]_vars PROVE TypeOK'
  OBVIOUS
<1> USE DEF Inv, TypeOK, Locations, service, history
<1>1. CASE ReadSettings
  <2>1. PICK h \in SUBSET {"agentId", "objectName"} :
           \/ held' = h /\ pc' = "connection" /\ UNCHANGED <<auth, initialized, connectionString, strings>>
           \/ Deinit(auth, h) /\ pc' = "failed"
    BY <1>1 DEF ReadSettings
  <2> QED
    BY <1>1, <2>1, Deinitialized DEF ReadSettings, Control
<1>2. CASE InitConnectionString
  <2>1. useDps' \in BOOLEAN
    BY <1>2 DEF InitConnectionString
  <2>2. CASE UNCHANGED <<auth, initialized, connectionString, strings, held>>
    BY <1>2, <2>1, <2>2 DEF InitConnectionString
  <2>3. CASE Deinit(auth, held)
    BY <1>2, <2>1, <2>3, Deinitialized DEF InitConnectionString, Control
  <2> QED
    BY <1>2, <2>2, <2>3 DEF InitConnectionString
<1>3. CASE InitConnectionStringFromModule
  <2>1. CASE FailInit(auth)
    BY <2>1, Deinitialized DEF FailInit, Control
  <2>2. CASE ~FailInit(auth)
    <3>1. connectionString' \in Strings
      BY <1>3, <2>2 DEF InitConnectionStringFromModule, Files, Strings
    <3>2. strings' \in Nat
      BY <1>3, <2>2 DEF InitConnectionStringFromModule
    <3> QED
      BY <1>3, <2>2, <3>1, <3>2 DEF InitConnectionStringFromModule
  <2> QED
    BY <2>1, <2>2
<1>4. CASE InitAuthentication
  BY <1>4, Authenticated
<1>5. CASE AbortInit
  BY <1>5, Deinitialized DEF AbortInit, FailInit, Control
<1>6. CASE AskDps
  BY <1>6, DpsAsked DEF AskDps
<1>7. CASE AskHub
  BY <1>7, HubOutcome DEF AskHub, Store, Asking
<1>8. CASE TryRenewConnectionString
  BY <1>8 DEF TryRenewConnectionString
<1>9. CASE RenewAskDps
  BY <1>9, DpsAsked DEF RenewAskDps
<1>10. CASE RenewAskHub
  <2>1. PICK o \in ConnectionStringOutcomes :
           Store(o) /\ outcome' = IF o.ok THEN "ok" ELSE "failed"
    BY <1>10 DEF RenewAskHub
  <2>2. connectionString' \in Strings \cup {NoString} /\ strings' \in Nat /\ overwritten' \in Nat
    BY <1>10, <2>1, HubOutcome DEF RenewAskHub, Store, Asking
  <2> QED
    BY <1>10, <2>1, <2>2 DEF RenewAskHub
<1>11. CASE Shutdown
  BY <1>11, Deinitialized DEF Shutdown, Control
<1>12. CASE Restart
  BY <1>12, ManagerType DEF Restart
<1>13. CASE Reprovision
  <2>1. dps' \in Assignments
    BY <1>13, AuthenticationAssumption DEF Reprovision, Assignments
  <2> QED
    BY <1>13, <2>1 DEF Reprovision
<1>14. CASE UNCHANGED vars
  BY <1>14 DEF vars
<1> QED
  BY <1>1, <1>2, <1>3, <1>4, <1>5, <1>6, <1>7, <1>8, <1>9, <1>10, <1>11,
     <1>12, <1>13, <1>14 DEF Next

(***************************************************************************)
(* The statics follow the control point, whichever step fails.             *)
(***************************************************************************)
LEMMA ControlStep == Inv /\ [Next]_vars => Control'
<1> SUFFICES ASSUME Inv, [Next]_vars PROVE Control'
  OBVIOUS
<1> USE DEF Inv, Control, Starting, Initializing, service, history
<1>1. CASE ReadSettings
  <2>1. PICK h \in SUBSET {"agentId", "objectName"} :
           \/ held' = h /\ pc' = "connection" /\ UNCHANGED <<auth, initialized, connectionString, strings>>
           \/ Deinit(auth, h) /\ pc' = "failed"
    BY <1>1 DEF ReadSettings
  <2> QED
    BY <1>1, <2>1, Deinitialized DEF ReadSettings
<1>2. CASE InitConnectionString
  <2>1. CASE UNCHANGED <<auth, initialized, connectionString, strings, held>> /\ pc' # "failed"
    <3>1. useDps' => useDps \/ file.identity = "DPS"
      BY <1>2 DEF InitConnectionString
    <3> QED
      BY <1>2, <2>1, <3>1 DEF InitConnectionString
  <2>2. CASE Deinit(auth, held) /\ pc' = "failed"
    BY <1>2, <2>2, Deinitialized DEF InitConnectionString, TypeOK
  <2> QED
    BY <1>2, <2>1, <2>2 DEF InitConnectionString
<1>3. CASE InitConnectionStringFromModule
  <2>1. CASE FailInit(auth)
    BY <1>3, <2>1, Deinitialized DEF InitConnectionStringFromModule, FailInit, TypeOK
  <2>2. CASE ~FailInit(auth)
    BY <1>3, <2>2 DEF InitConnectionStringFromModule
  <2> QED
    BY <2>1, <2>2
<1>4. CASE InitAuthentication
  BY <1>4, Authenticated
<1>5. CASE AbortInit
  BY <1>5, Deinitialized DEF AbortInit, FailInit, TypeOK
<1>6. CASE AskDps
  BY <1>6, DpsAsked DEF AskDps
<1>7. CASE AskHub
  <2>1. PICK o \in ConnectionStringOutcomes :
           Store(o) /\ pc' = IF o.ok THEN "running" ELSE "abort"
    BY <1>7 DEF AskHub
  <2>2. overwritten' = overwritten
    BY <1>7, <2>1 DEF AskHub, Store
  <2>3. ~o.ok => connectionString' = NoString
    BY <1>7, <2>1 DEF AskHub, Store, ConnectionStringOutcomes
  <2> QED
    BY <1>7, <2>1, <2>2, <2>3 DEF AskHub
<1>8. CASE TryRenewConnectionString
  BY <1>8 DEF TryRenewConnectionString
<1>9. CASE RenewAskDps
  BY <1>9, DpsAsked DEF RenewAskDps
<1>10. CASE RenewAskHub
  BY <1>10 DEF RenewAskHub
<1>11. CASE Shutdown
  BY <1>11, Deinitialized DEF Shutdown, TypeOK
<1>12. CASE Restart
  BY <1>12, ManagerType DEF Restart
<1>13. CASE Reprovision
  BY <1>13 DEF Reprovision
<1>14. CASE UNCHANGED vars
  BY <1>14 DEF vars
<1> QED
  BY <1>1, <1>2, <1>3, <1>4, <1>5, <1>6, <1>7, <1>8, <1>9, <1>10, <1>11,
     <1>12, <1>13, <1>14 DEF Next

(***************************************************************************)
(* A connection string that is allocated is named by the pointer, or was   *)
(* until a renewal.                                                        *)
(***************************************************************************)
LEMMA AllocatedStep == Inv /\ [Next]_vars => Allocated'
<1> SUFFICES ASSUME Inv, [Next]_vars PROVE Allocated'
  OBVIOUS
<1> USE DEF Inv, service, history
<1>0. \A h \in SUBSET {"agentId", "objectName"} :
         Deinit(auth, h) /\ overwritten' = overwritten => Allocated'
  <2> SUFFICES ASSUME NEW h \in SUBSET {"agentId", "objectName"},
                      Deinit(auth, h), overwritten' = overwritten
               PROVE  Allocated'
    OBVIOUS
  <2>1. connectionString' = NoString /\ strings' = overwritten /\ overwritten \in Nat
    BY Deinitialized DEF Control, TypeOK
  <2> QED
    BY <2>1 DEF Allocated
<1>00. UNCHANGED <<connectionString, strings, overwritten>> => Allocated'
  BY DEF Allocated
<1>000. held \in SUBSET {"agentId", "objectName"}
  BY DEF TypeOK
<1>1. CASE ReadSettings
  <2>1. PICK h \in SUBSET {"agentId", "objectName"} :
           \/ UNCHANGED <<connectionString, strings>>
           \/ Deinit(auth, h)
    BY <1>1 DEF ReadSettings
  <2> QED
    BY <1>1, <2>1, <1>0, <1>00 DEF ReadSettings
<1>2. CASE InitConnectionString
  BY <1>2, <1>0, <1>00, <1>000 DEF InitConnectionString
<1>3. CASE InitConnectionStringFromModule
  <2>1. CASE FailInit(auth)
    BY <2>1, <1>0, <1>000 DEF FailInit
  <2>2. CASE ~FailInit(auth)
    <3>1. connectionString = NoString /\ strings = overwritten /\ overwritten \in Nat
      BY <1>3 DEF InitConnectionStringFromModule, Control, Starting, Allocated, TypeOK
    <3>2. connectionString' \in Strings /\ strings' = strings + 1
      BY <1>3, <2>2 DEF InitConnectionStringFromModule, Files, Strings, TypeOK
    <3>3. connectionString' # NoString
      BY <3>2, AuthenticationAssumption DEF Strings
    <3>4. overwritten' = overwritten
      BY <1>3, <2>2 DEF InitConnectionStringFromModule
    <3> QED
      BY <3>1, <3>2, <3>3, <3>4 DEF Allocated
  <2> QED
    BY <2>1, <2>2
<1>4. CASE InitAuthentication
  BY <1>4, <1>00 DEF InitAuthentication
<1>5. CASE AbortInit
  BY <1>5, <1>0, <1>000 DEF AbortInit, FailInit
<1>6. CASE AskDps
  BY <1>6, <1>00 DEF AskDps, GetHostNameFromDPS
<1>7. CASE AskHub
  BY <1>7, HubOutcome DEF AskHub, Asking
<1>8. CASE TryRenewConnectionString
  BY <1>8, <1>00 DEF TryRenewConnectionString
<1>9. CASE RenewAskDps
  BY <1>9, <1>00 DEF RenewAskDps, GetHostNameFromDPS
<1>10. CASE RenewAskHub
  BY <1>10, HubOutcome DEF RenewAskHub, Asking
<1>11. CASE Shutdown
  BY <1>11, <1>0, <1>000 DEF Shutdown
<1>12. CASE Restart
  BY <1>12 DEF Restart, Allocated
<1>13. CASE Reprovision
  BY <1>13, <1>00 DEF Reprovision
<1>14. CASE UNCHANGED vars
  BY <1>14, <1>00 DEF vars
<1> QED
  BY <1>1, <1>2, <1>3, <1>4, <1>5, <1>6, <1>7, <1>8, <1>9, <1>10, <1>11,
     <1>12, <1>13, <1>14 DEF Next

(***************************************************************************)
(* The names of the manager agree when a hub is asked.                     *)
(***************************************************************************)
LEMMA ManagerStep == Inv /\ [Next]_vars => Manager'
<1> SUFFICES ASSUME Inv, [Next]_vars PROVE Manager'
  OBVIOUS
<1> USE DEF Inv, Manager, NamesAnswer, Asking, service, history
<1>1. CASE ReadSettings
  BY <1>1 DEF ReadSettings
<1>2. CASE InitConnectionString
  BY <1>2 DEF InitConnectionString
<1>3. CASE InitConnectionStringFromModule
  BY <1>3 DEF InitConnectionStringFromModule, FailInit
<1>4. CASE InitAuthentication
  BY <1>4, Authenticated
<1>5. CASE AbortInit
  BY <1>5 DEF AbortInit, FailInit
<1>6. CASE AskDps
  <2>1. dps.hub \in Hubs /\ dps.device \in Devices
    BY DEF TypeOK, Assignments
  <2> QED
    BY <1>6, <2>1, DpsAsked DEF AskDps
<1>7. CASE AskHub
  BY <1>7 DEF AskHub
<1>8. CASE TryRenewConnectionString
  BY <1>8 DEF TryRenewConnectionString
<1>9. CASE RenewAskDps
  <2>1. dps.hub \in Hubs /\ dps.device \in Devices
    BY DEF TypeOK, Assignments
  <2> QED
    BY <1>9, <2>1, DpsAsked DEF RenewAskDps
<1>10. CASE RenewAskHub
  BY <1>10 DEF RenewAskHub
<1>11. CASE Shutdown
  BY <1>11 DEF Shutdown
<1>12. CASE Restart
  BY <1>12 DEF Restart
<1>13. CASE Reprovision
  BY <1>13 DEF Reprovision
<1>14. CASE UNCHANGED vars
  BY <1>14 DEF vars
<1> QED
  BY <1>1, <1>2, <1>3, <1>4, <1>5, <1>6, <1>7, <1>8, <1>9, <1>10, <1>11,
     <1>12, <1>13, <1>14 DEF Next

(***************************************************************************)
(* The connection string stays that of one module.                         *)
(***************************************************************************)
LEMMA ConnectionStep == Inv /\ [Next]_vars => Connection'
<1> SUFFICES ASSUME Inv, [Next]_vars PROVE Connection'
  OBVIOUS
<1> USE DEF Inv, Connection, StringNamesAnswer, service, history
<1>1. CASE ReadSettings
  <2>1. PICK h \in SUBSET {"agentId", "objectName"} :
           \/ held' = h /\ pc' = "connection" /\ UNCHANGED <<auth, initialized, connectionString, strings>>
           \/ Deinit(auth, h) /\ pc' = "failed"
    BY <1>1 DEF ReadSettings
  <2> QED
    BY <1>1, <2>1, Deinitialized DEF ReadSettings, Control, Starting
<1>2. CASE InitConnectionString
  <2>1. CASE UNCHANGED <<auth, initialized, connectionString, strings, held>> /\ pc' # "failed"
    <3>1. useDps' => useDps \/ file.identity = "DPS"
      BY <1>2 DEF InitConnectionString
    <3> QED
      BY <1>2, <2>1, <3>1 DEF InitConnectionString
  <2>2. CASE Deinit(auth, held) /\ pc' = "failed"
    BY <1>2, <2>2, Deinitialized DEF InitConnectionString, TypeOK, Control
  <2> QED
    BY <1>2, <2>1, <2>2 DEF InitConnectionString
<1>3. CASE InitConnectionStringFromModule
  <2>1. CASE FailInit(auth)
    BY <2>1 DEF FailInit, Deinit
  <2>2. CASE ~FailInit(auth)
    BY <1>3, <2>2 DEF InitConnectionStringFromModule, Control
  <2> QED
    BY <2>1, <2>2
<1>4. CASE InitAuthentication
  BY <1>4, Authenticated
<1>5. CASE AbortInit
  BY <1>5 DEF AbortInit, FailInit, Deinit
<1>6. CASE AskDps
  BY <1>6, DpsAsked DEF AskDps
<1>7. CASE AskHub
  BY <1>7, HubOutcome DEF AskHub, Store, Asking, Manager, NamesAnswer
<1>8. CASE TryRenewConnectionString
  BY <1>8 DEF TryRenewConnectionString
<1>9. CASE RenewAskDps
  BY <1>9, DpsAsked DEF RenewAskDps
<1>10. CASE RenewAskHub
  BY <1>10, HubOutcome DEF RenewAskHub, Store, Asking, Manager, NamesAnswer
<1>11. CASE Shutdown
  BY <1>11 DEF Shutdown, Deinit
<1>12. CASE Restart
  BY <1>12 DEF Restart
<1>13. CASE Reprovision
  BY <1>13 DEF Reprovision
<1>14. CASE UNCHANGED vars
  BY <1>14 DEF vars
<1> QED
  BY <1>1, <1>2, <1>3, <1>4, <1>5, <1>6, <1>7, <1>8, <1>9, <1>10, <1>11,
     <1>12, <1>13, <1>14 DEF Next

(***************************************************************************)
(* The accepted assignment is not later than the present one.              *)
(***************************************************************************)
LEMMA DatedStep == Inv /\ [Next]_vars => Dated'
<1> SUFFICES ASSUME Inv, [Next]_vars PROVE Dated'
  OBVIOUS
<1> USE DEF Inv, Dated, service, history
<1>1. CASE ReadSettings
  BY <1>1 DEF ReadSettings
<1>2. CASE InitConnectionString
  BY <1>2 DEF InitConnectionString
<1>3. CASE InitConnectionStringFromModule
  BY <1>3 DEF InitConnectionStringFromModule, FailInit
<1>4. CASE InitAuthentication
  BY <1>4 DEF InitAuthentication
<1>5. CASE AbortInit
  BY <1>5 DEF AbortInit, FailInit
<1>6. CASE AskDps
  BY <1>6, DpsAsked DEF AskDps, TypeOK, Assignments
<1>7. CASE AskHub
  BY <1>7 DEF AskHub
<1>8. CASE TryRenewConnectionString
  BY <1>8 DEF TryRenewConnectionString
<1>9. CASE RenewAskDps
  BY <1>9, DpsAsked DEF RenewAskDps, TypeOK, Assignments
<1>10. CASE RenewAskHub
  BY <1>10 DEF RenewAskHub
<1>11. CASE Shutdown
  BY <1>11 DEF Shutdown
<1>12. CASE Restart
  BY <1>12 DEF Restart
<1>13. CASE Reprovision
  <2>1. dps'.time = dps.time + 1 /\ dps.time \in Nat /\ answered.time \in Nat
    BY <1>13 DEF Reprovision, TypeOK, Assignments
  <2> QED
    BY <1>13, <2>1 DEF Reprovision
<1>14. CASE UNCHANGED vars
  BY <1>14 DEF vars
<1> QED
  BY <1>1, <1>2, <1>3, <1>4, <1>5, <1>6, <1>7, <1>8, <1>9, <1>10, <1>11,
     <1>12, <1>13, <1>14 DEF Next

-----------------------------------------------------------------------------
(***************************************************************************)
(* The invariant of the authentication holds in every state.               *)
(***************************************************************************)
LEMMA InvCorrect == Spec => []Inv
<1>1. Inv /\ [Next]_vars => Inv'
  BY TypeStep, ControlStep, AllocatedStep, ManagerStep, ConnectionStep, DatedStep DEF Inv
<1> QED
  BY InitInv, <1>1, PTL DEF Spec

(***************************************************************************)
(* The statics of the two files keep their types, whichever request fails; *)
(* a connection string always has a host, a device and a key.              *)
(***************************************************************************)
THEOREM TypeCorrect == Spec => []TypeOK
<1>1. Inv => TypeOK
  BY DEF Inv
<1> QED
  BY InvCorrect, <1>1, PTL

(***************************************************************************)
(* The agent never connects as one module with the key of another, and a   *)
(* renewal that succeeds has followed the service.                         *)
(***************************************************************************)
THEOREM KeyCorrect == Spec => []KeyOfNamedModule
<1>1. Inv => KeyOfNamedModule
  BY DEF Inv, Control, Connection, StringNamesAnswer, KeyOfNamedModule
<1> QED
  BY InvCorrect, <1>1, PTL

(***************************************************************************)
(* No path of the initialisation that fails leaves a secret or a string    *)
(* allocated, and a shutdown leaves only the strings renewals replaced.    *)
(***************************************************************************)
THEOREM ReleaseCorrect == Spec => []SecretsReleased
<1>1. Inv => SecretsReleased
  BY DEF Inv, TypeOK, Control, Allocated, SecretsReleased
<1> QED
  BY InvCorrect, <1>1, PTL

(***************************************************************************)
(* Without a failed renewal, an unchanged update time means that the       *)
(* connection string is current.                                           *)
(***************************************************************************)
THEOREM StaleCorrect == Spec => []StaleOnlyAfterFailure
<1>1. Inv => StaleOnlyAfterFailure
  BY DEF Inv, Connection, StringNamesAnswer, Dated, StaleOnlyAfterFailure
<1> QED
  BY InvCorrect, <1>1, PTL

=============================================================================

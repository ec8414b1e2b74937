--------------------------- MODULE Authentication ---------------------------
(***************************************************************************)
(* How the agent obtains the connection string of its security module:     *)
(* local_config.c reads the configuration file, authentication_manager.c   *)
(* keeps the secret of the device, asks the provisioning service (DPS) for *)
(* the hub the device is assigned to and asks that hub for the key of the  *)
(* module.  TryRenewConnectionString repeats the last two requests while   *)
(* the agent runs; each request may fail, and so may the step after it.    *)
(*                                                                         *)
(* A string is the name of what it stands for.  A string that is absent    *)
(* from a JSON document, or longer than its MAX_BUFF bytes, is Missing.    *)
(* The process is restarted by systemd (Restart=always), with nothing kept.*)
(***************************************************************************)
EXTENDS Naturals

CONSTANTS
    Hubs,       \* the names of IoT hubs
    Devices,    \* the names of devices
    Missing,    \* no string where one is needed
    NoString,   \* the connection string is NULL
    MaxTime     \* bound on re-provisionings by the service

ASSUME AuthenticationAssumption ==
    /\ Hubs # {} /\ Devices # {}
    /\ Missing \notin Hubs \cup Devices \cup Nat
    /\ NoString \notin [hostName : Hubs, deviceId : Devices, keyOf : Hubs \X Devices]
    /\ MaxTime \in Nat

VARIABLES
    file,             \* the configuration file
    pc,               \* where the (single) thread is
    auth,             \* the static authenticationManager
    initialized,      \* authenticationManagerInitialized
    useDps,           \* useDps
    held,             \* the strings of local_config.c that are allocated
    connectionString, \* connectionString: whom it names, whose key it holds
    strings,          \* the connection strings that are allocated
    dps,              \* the service: the assignment of this device
    answered,         \* history: the last answer accepted from the service
    outcome,          \* history: how the last renewal ended
    overwritten       \* history: connection strings whose pointer was lost

vars == <<file, pc, auth, initialized, useDps, held, connectionString,
          strings, dps, answered, outcome, overwritten>>

Identities == {"SecurityModule", "Device", "DPS", "other", "missing"}
Methods == {"SasToken", "SelfSignedCertificate", "other", "missing"}
Files == [identity : Identities, method : Methods, complete : BOOLEAN,
          hub : Hubs, device : Devices]
Assignments == [hub : Hubs, device : Devices, time : 1 .. MaxTime + 1]
Secrets == {"none", "key", "certificate"}

(* An answer of the service holds the current assignment, but any string   *)
(* of it may be absent, and the status may be another than "assigned".     *)
Answers(a) ==
    [assigned : BOOLEAN, hub : {a.hub, Missing}, device : {a.device, Missing},
     time : {a.time, Missing}]

(* AuthenticationManager_Init.                                             *)
EmptyManager ==
    [secret |-> "none", hostName |-> Missing, deviceId |-> Missing,
     relativeUrl |-> Missing, lastDPSUpdateTime |-> Missing, dps |-> FALSE]

(* AuthenticationManager_Deinit and DeinitDpsDetails: what is freed.       *)
Released(a) == [a EXCEPT !.secret = "none", !.dps = FALSE]

Init ==
    /\ file \in Files
    /\ pc = "start"
    /\ auth = EmptyManager
    /\ initialized = FALSE
    /\ useDps = FALSE
    /\ held = {}
    /\ connectionString = NoString
    /\ strings = 0
    /\ dps \in [hub : Hubs, device : Devices, time : {1}]
    /\ answered = dps
    /\ outcome = "none"
    /\ overwritten = 0

service == <<file, dps>>
history == <<answered, outcome, overwritten>>

-----------------------------------------------------------------------------
(* LocalConfiguration_Deinit, given the strings held by then.  The branch  *)
(* for remoteConfigurationObjectName frees agentId instead.                *)
Deinit(a, h) ==
    /\ auth' = IF initialized THEN Released(a) ELSE a
    /\ initialized' = FALSE
    /\ connectionString' = NoString
    /\ strings' = IF connectionString = NoString THEN strings ELSE strings - 1
    /\ held' = h \ {"agentId"}

(* LocalConfiguration_Init returns an error: it deinitialises first.       *)
FailInit(a) ==
    /\ Deinit(a, held)
    /\ pc' = "failed"
    /\ UNCHANGED <<useDps, service, history>>

(* LocalConfiguration_Init up to the authentication: four settings are     *)
(* read in order and the first that cannot be read or copied is an error.  *)
ReadSettings ==
    /\ pc = "start"
    /\ \E n \in 0 .. 4 :
          LET stored == (IF n >= 1 THEN {"agentId"} ELSE {})
                        \cup (IF n >= 4 THEN {"objectName"} ELSE {})
          IN IF n = 4
             THEN /\ held' = stored
                  /\ pc' = "connection"
                  /\ UNCHANGED <<auth, initialized, connectionString, strings>>
             ELSE /\ Deinit(auth, stored)
                  /\ pc' = "failed"
    /\ UNCHANGED <<useDps, service, history>>

(* LocalConfiguration_InitConnectionString: the identity is compared       *)
(* before the results of the reads are looked at, so an absent one is the  *)
(* strlen of a null pointer.                                               *)
InitConnectionString ==
    /\ pc = "connection"
    /\ useDps' = (useDps \/ file.identity = "DPS")
    /\ \/ /\ file.identity = "missing"
          /\ pc' = "crashed"
          /\ UNCHANGED <<auth, initialized, connectionString, strings, held>>
       \/ /\ file.identity # "missing"
          /\ file.complete /\ file.method # "missing"
          /\ \/ file.identity \in {"DPS", "Device"}
             \/ file.identity = "SecurityModule" /\ file.method = "SasToken"
          /\ pc' = IF file.identity = "SecurityModule" THEN "module" ELSE "auth"
          /\ UNCHANGED <<auth, initialized, connectionString, strings, held>>
       \/ /\ file.identity # "missing"
          /\ \/ ~file.complete \/ file.method = "missing"
             \/ file.identity = "other"
             \/ file.identity = "SecurityModule" /\ file.method # "SasToken"
          /\ Deinit(auth, held)
          /\ pc' = "failed"
    /\ UNCHANGED <<service, history>>

(* LocalConfiguration_InitConnectionStringFromModule: the key is in a file *)
(* and the names are those of the configuration.                           *)
InitConnectionStringFromModule ==
    /\ pc = "module"
    /\ \/ /\ connectionString' = [hostName |-> file.hub,
                                  deviceId |-> file.device,
                                  keyOf |-> <<file.hub, file.device>>]
          /\ strings' = strings + 1
          /\ pc' = "running"
          /\ UNCHANGED <<auth, initialized, useDps, held, service, history>>
       \/ FailInit(auth)

(* InitSharedProperties: host, device and the URL of the module of that    *)
(* device; DPS starts with empty names.                                    *)
SharedProperties(a) ==
    IF useDps
    THEN [a EXCEPT !.hostName = Missing, !.deviceId = Missing,
                   !.relativeUrl = Missing]
    ELSE [a EXCEPT !.hostName = file.hub, !.deviceId = file.device,
                   !.relativeUrl = file.device]

(* InitFromSharedAccessKey and InitFromCertificate: a certificate that     *)
(* cannot be written as PEM leaves a null pointer and is no error.         *)
LoadedSecrets ==
    IF file.method = "SasToken" THEN {"key"}
    ELSE IF file.method = "SelfSignedCertificate" THEN {"certificate", "none"}
    ELSE {}

(* Mutant: only the device path marks the manager as initialised.          *)
MarkInitializedDevice == initialized' = ~useDps

MarkInitialized == initialized' = TRUE

(* With DPS the hub has to be found first.                                 *)
AfterSecret == IF useDps THEN "dps" ELSE "hub"

(* InitAuthenticationThroughDevice and _ThroughDps: the result of          *)
(* SetDPSDetails is not looked at; the key or the certificate may not      *)
(* load, or the method is unknown.  A certificate that fails releases all. *)
InitAuthentication ==
    /\ pc = "auth"
    /\ MarkInitialized
    /\ \E details \in BOOLEAN :
          LET a == [EmptyManager EXCEPT !.dps = useDps /\ details]
          IN \/ \E s \in LoadedSecrets :
                   /\ auth' = SharedProperties([a EXCEPT !.secret = s])
                   /\ pc' = AfterSecret
             \/ /\ auth' = IF file.method = "SelfSignedCertificate"
                           THEN Released(a) ELSE a
                /\ pc' = "abort"
    /\ UNCHANGED <<useDps, held, connectionString, strings, service, history>>

(* ... after which LocalConfiguration_Init cleans up.                      *)
AbortInit == pc = "abort" /\ FailInit(auth)

-----------------------------------------------------------------------------
(* Mutant: the URL stays the one of the first device.                      *)
ModuleUrlOld(a, r) == IF a.relativeUrl = Missing THEN r.device
                      ELSE a.relativeUrl

(* The URL of the security module, made for the device of the answer.      *)
ModuleUrl(a, r) == r.device

(* UpdateFromDpsResponse: each string is stored as soon as it is read, the *)
(* update time last but one, and an update time equal to the stored one is *)
(* an error.  The URL may be too long for its buffer, which is an error    *)
(* after everything was stored (DpsOutcomes).                              *)
UpdateFromDpsResponse(a, r) ==
    LET gotHub == r.assigned /\ r.hub # Missing
        gotDevice == gotHub /\ r.device # Missing
        gotTime == gotDevice /\ r.time # Missing
        fresh == gotTime /\ r.time # a.lastDPSUpdateTime
    IN [ok |-> fresh,
        manager |->
          [a EXCEPT !.hostName = IF gotHub THEN r.hub ELSE @,
                    !.deviceId = IF gotDevice THEN r.device ELSE @,
                    !.lastDPSUpdateTime = IF fresh THEN r.time ELSE @,
                    !.relativeUrl = IF fresh THEN ModuleUrl(a, r) ELSE @]]

(* What GetHostNameFromDPS can make of the manager: [ok, manager].  The    *)
(* request may fail or answer another status than 200 (nothing changes),   *)
(* and without a secret there is no request.                               *)
DpsOutcomes ==
    {[ok |-> FALSE, manager |-> auth]} \cup
    IF auth.secret = "none" THEN {}
    ELSE LET updates == {UpdateFromDpsResponse(auth, r) : r \in Answers(dps)}
         IN updates \cup {[ok |-> FALSE,
                           manager |-> [u.manager EXCEPT !.relativeUrl = Missing]]
                          : u \in {v \in updates : v.ok}}

(* GetHostNameFromDPSService takes the length of the request body, which   *)
(* is a null pointer when SetDPSDetails failed.                            *)
DpsBodyMissing == auth.secret # "none" /\ ~auth.dps

GetHostNameFromDPS(from, onSuccess, onFailure) ==
    /\ pc = from
    /\ \/ /\ DpsBodyMissing
          /\ pc' = "crashed"
          /\ UNCHANGED <<auth, answered, outcome>>
       \/ /\ ~DpsBodyMissing
          /\ \E o \in DpsOutcomes :
                /\ auth' = o.manager
                /\ pc' = IF o.ok THEN onSuccess ELSE onFailure
                /\ answered' = IF o.ok THEN dps ELSE answered
                /\ outcome' = IF ~o.ok /\ onFailure = "running" THEN "failed"
                              ELSE outcome
    /\ UNCHANGED <<initialized, useDps, held, connectionString, strings, service,
                   overwritten>>

(* The key the hub answers with is the one of the module the URL names.    *)
FetchedString ==
    [hostName |-> auth.hostName, deviceId |-> auth.deviceId,
     keyOf |-> <<auth.hostName, auth.relativeUrl>>]

(* Mutant: the old string is kept and success returned when the hub fails. *)
ConnectionStringOutcomesKept ==
    {[ok |-> TRUE, string |-> connectionString]}
    \cup IF auth.secret = "none" THEN {}
         ELSE {[ok |-> TRUE, string |-> FetchedString]}

(* LocalConfiguration_InitConnectionStringFromDevice: the request fails,   *)
(* or is refused, or the answer has no key (the old string stays), or      *)
(* there is no memory for the copy (Utils_CreateStringCopy has cleared the *)
(* pointer by then), or all is well.                                       *)
ConnectionStringOutcomes ==
    {[ok |-> FALSE, string |-> connectionString]}
    \cup IF auth.secret = "none" THEN {}
         ELSE {[ok |-> FALSE, string |-> NoString],
               [ok |-> TRUE, string |-> FetchedString]}

(* Utils_CreateStringCopy clears the pointer and allocates; nobody frees   *)
(* the string it pointed to before.                                        *)
Store(o) ==
    /\ connectionString' = o.string
    /\ strings' = IF o.ok THEN strings + 1 ELSE strings
    /\ overwritten' = IF connectionString # NoString /\ (o.ok \/ o.string = NoString)
                      THEN overwritten + 1 ELSE overwritten

-----------------------------------------------------------------------------
(* Initialisation, continued.                                              *)
AskDps == GetHostNameFromDPS("dps", "hub", "abort")

AskHub ==
    /\ pc = "hub"
    /\ \E o \in ConnectionStringOutcomes :
          /\ Store(o)
          /\ pc' = IF o.ok THEN "running" ELSE "abort"
    /\ UNCHANGED <<auth, initialized, useDps, held, service, answered, outcome>>

(* LocalConfiguration_TryRenewConnectionString.                            *)
TryRenewConnectionString ==
    /\ pc = "running" /\ useDps
    /\ pc' = "renew.dps"
    /\ UNCHANGED <<auth, initialized, useDps, held, connectionString, strings, service,
                   history>>

RenewAskDps == GetHostNameFromDPS("renew.dps", "renew.hub", "running")

RenewAskHub ==
    /\ pc = "renew.hub"
    /\ \E o \in ConnectionStringOutcomes :
          /\ Store(o)
          /\ outcome' = IF o.ok THEN "ok" ELSE "failed"
    /\ pc' = "running"
    /\ UNCHANGED <<auth, initialized, useDps, held, service, answered>>

(* SecurityAgent_Deinit at the end of the process.                         *)
Shutdown ==
    /\ pc = "running"
    /\ Deinit(auth, held)
    /\ pc' = "stopped"
    /\ UNCHANGED <<useDps, service, history>>

(* systemd starts a new process.                                           *)
Restart ==
    /\ pc \in {"failed", "crashed", "stopped"}
    /\ pc' = "start"
    /\ auth' = EmptyManager
    /\ initialized' = FALSE
    /\ useDps' = FALSE
    /\ held' = {}
    /\ connectionString' = NoString
    /\ strings' = 0
    /\ outcome' = "none"
    /\ overwritten' = 0
    /\ UNCHANGED <<service, answered>>

(* The service assigns the device anew; it dates the assignment.           *)
Reprovision ==
    /\ dps.time <= MaxTime
    /\ \E h \in Hubs, d \in Devices :
          dps' = [hub |-> h, device |-> d, time |-> dps.time + 1]
    /\ UNCHANGED <<file, pc, auth, initialized, useDps, held,
                   connectionString, strings, history>>

Next ==
    \/ ReadSettings \/ InitConnectionString \/ InitConnectionStringFromModule
    \/ InitAuthentication \/ AbortInit \/ AskDps \/ AskHub
    \/ TryRenewConnectionString \/ RenewAskDps \/ RenewAskHub
    \/ Shutdown \/ Restart \/ Reprovision

Spec == Init /\ [][Next]_vars

-----------------------------------------------------------------------------
Locations == {"start", "connection", "module", "auth", "abort", "dps", "hub",
              "running", "renew.dps", "renew.hub", "failed", "crashed",
              "stopped"}
Managers ==
    [secret : Secrets, hostName : Hubs \cup {Missing},
     deviceId : Devices \cup {Missing}, relativeUrl : Devices \cup {Missing},
     lastDPSUpdateTime : 1 .. MaxTime + 1 \cup {Missing}, dps : BOOLEAN]
Strings ==
    [hostName : Hubs, deviceId : Devices, keyOf : Hubs \X Devices]

(* The statics of local_config.c and authentication_manager.c hold what    *)
(* the code can store in them; a connection string is always complete.     *)
TypeOK ==
    /\ file \in Files
    /\ pc \in Locations
    /\ auth \in Managers
    /\ initialized \in BOOLEAN
    /\ useDps \in BOOLEAN
    /\ held \subseteq {"agentId", "objectName"}
    /\ connectionString \in Strings \cup {NoString}
    /\ strings \in Nat
    /\ dps \in Assignments
    /\ answered \in Assignments
    /\ outcome \in {"none", "ok", "failed"}
    /\ overwritten \in Nat

(* The connection string pairs the names of a module with the key of that  *)
(* same module: the host, the device and the URL of the manager, written   *)
(* one by one from answers that may be cut short, agree when they are used,*)
(* and a renewal that reports success leaves a string for the module that  *)
(* the last accepted answer of the service assigned.                       *)
KeyOfNamedModule ==
    /\ connectionString # NoString =>
          connectionString.keyOf
              = <<connectionString.hostName, connectionString.deviceId>>
    /\ (pc = "running" /\ outcome = "ok") =>
          /\ connectionString # NoString
          /\ connectionString.hostName = answered.hub
          /\ connectionString.deviceId = answered.device

(* However the initialisation fails, no secret, no connection string and   *)
(* no agent id stay allocated, and after a shutdown none but the strings   *)
(* that a renewal replaced: each of those is lost, and no other.           *)
SecretsReleased ==
    pc \in {"failed", "stopped"} =>
        /\ auth.secret = "none" /\ ~auth.dps
        /\ connectionString = NoString
        /\ strings = IF pc = "failed" THEN 0 ELSE overwritten
        /\ "agentId" \notin held

(* The update time is stored before the hub is asked for the key, so after *)
(* a failure an unchanged time proves nothing.  Otherwise it does: while   *)
(* the service answers the stored time the connection string is that of    *)
(* the device's present assignment, whatever was renewed before.           *)
StaleOnlyAfterFailure ==
    (/\ pc = "running" /\ useDps /\ outcome # "failed"
     /\ auth.lastDPSUpdateTime = dps.time) =>
        /\ connectionString # NoString
        /\ connectionString.hostName = dps.hub
        /\ connectionString.deviceId = dps.device

(* What the comment of UpdateFromDpsResponse takes for granted: while the  *)
(* service answers the update time that is stored, the device was not      *)
(* re-provisioned since the connection string was made.                    *)
UnchangedTimeMeansCurrent ==
    (pc = "running" /\ useDps /\ auth.lastDPSUpdateTime = dps.time) =>
        /\ connectionString # NoString
        /\ connectionString.hostName = dps.hub
        /\ connectionString.deviceId = dps.device

(* LocalConfiguration_Init answers OK or EXCEPTION to every file.          *)
InitReturns == pc # "crashed"

(* After a shutdown no connection string is left, whatever was renewed.    *)
StringsReleased == pc = "stopped" => strings = 0

(* LocalConfiguration_Deinit gives back every string.                      *)
DeinitReleasesAll == pc = "stopped" => held = {}

=============================================================================

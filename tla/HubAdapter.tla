----------------------------- MODULE HubAdapter -----------------------------
(***************************************************************************)
(* The adapter to the IoT hub client (iothub_adapter.c).  Five threads     *)
(* meet in its one structure: main initialises it, connects and in the end *)
(* deinitialises it; the publisher sends messages and, when the connection *)
(* is lost and DPS is used, renews the connection string and reinitialises *)
(* the adapter in the middle of the send; the twin task reports properties *)
(* and the monitor takes the message counters, both without the adapter's  *)
(* lock; and the worker thread of the client library calls back, also      *)
(* without it.                                                             *)
(*                                                                         *)
(* A client handle is a number, new for every client created.  A call that *)
(* may fail for reasons outside the adapter is a choice.                   *)
(***************************************************************************)
EXTENDS Naturals

CONSTANTS
    UseDps,       \* LocalConfiguration_UseDps
    Polls,        \* polls within the connection timeout
    MaxClients,   \* bound on clients created
    MaxMessages   \* bound on messages accepted

ASSUME HubAdapterAssumption ==
    /\ UseDps \in BOOLEAN
    /\ Polls \in Nat \ {0}
    /\ MaxClients \in Nat \ {0}
    /\ MaxMessages \in Nat

Threads == {"main", "publisher", "updater", "monitor", "sdk"}
NULL == 0
NoThread == "none"

VARIABLES
    moduleHandle, hubInitiated, connected, connectionStatusReason,
    hasTwinConfiguration,   \* the fields of the adapter
    counter, counterLock,   \* ... messageCounter, and whether its lock exists
    lock,                   \* the holder of iotHubAdapterLock
    alive,                  \* clients created and not destroyed
    callbacks,              \* callbacks registered with the client
    inFlight,               \* messages the client has not confirmed
    pc,                     \* per thread: control
    after,                  \* per thread: where Deinit_Internal returns to
    elapsed,                \* polls made by the running Connect
    reportHandle,           \* the handle the twin task passed to the client
    pending,                \* what a connection callback will store
    clients, renewals, accepted, failures, reported,
                            \* history: what happened so far
    pushed                  \* history: the best item pushed to the twin queue

fields == <<moduleHandle, hubInitiated, connected, connectionStatusReason,
            hasTwinConfiguration>>
counters == <<counter, counterLock>>
client == <<alive, callbacks, inFlight>>
locals == <<after, elapsed, reportHandle, pending>>
history == <<clients, renewals, accepted, pushed, failures, reported>>
vars == <<fields, counters, lock, client, pc, locals, history>>

(* BAD_CREDENTIAL and NO_NETWORK are permanent failures to Connect; the    *)
(* value of a cleared structure (EXPIRED_SAS_TOKEN) is one of the others.  *)
Reasons == {"OK", "permanent", "other"}
NoCount == [sent |-> 0, small |-> 0, failed |-> 0]

Init ==
    /\ moduleHandle = NULL
    /\ hubInitiated = FALSE
    /\ connected = FALSE
    /\ connectionStatusReason = "other"
    /\ hasTwinConfiguration = FALSE
    /\ counter = NoCount
    /\ counterLock = FALSE
    /\ lock = "main"
    /\ alive = {}
    /\ callbacks = {}
    /\ inFlight = 0
    /\ pc = [t \in Threads |-> IF t = "main" THEN "create" ELSE "idle"]
    /\ after = [t \in Threads |-> "create"]
    /\ elapsed = 0
    /\ reportHandle = NULL
    /\ pending = FALSE
    /\ clients = 0 /\ renewals = 0 /\ accepted = 0
    /\ pushed = "nothing" /\ failures = 0
    /\ reported = NoCount

At(t, l) == pc[t] = l
Goto(t, l) == pc' = [pc EXCEPT ![t] = l]
Initialisers == {"main", "publisher"}

-----------------------------------------------------------------------------
(* IoTHubAdapter_Init_Internal: everything is cleared, the client created. *)
(* On any failure Deinit_Internal is called and the error returned.        *)
CleanUp(t) ==
    /\ after' = [after EXCEPT ![t] = "failed"]
    /\ Goto(t, "deinit")

CreateClient(t) ==
    /\ At(t, "create")
    /\ hubInitiated' = FALSE
    /\ connected' = FALSE
    /\ connectionStatusReason' = "other"
    /\ hasTwinConfiguration' = FALSE
    /\ counter' = NoCount
    /\ counterLock' = FALSE
    /\ callbacks' = {}
    /\ \/ /\ clients < MaxClients
          /\ clients' = clients + 1
          /\ moduleHandle' = clients + 1
          /\ alive' = alive \cup {clients + 1}
          /\ Goto(t, "options")
          /\ UNCHANGED after
       \/ /\ moduleHandle' = NULL
          /\ CleanUp(t)
          /\ UNCHANGED <<clients, alive>>
    /\ UNCHANGED <<lock, inFlight, elapsed, reportHandle, pending, renewals,
                   accepted, pushed, failures, reported>>

(* The options and the connection status callback.                         *)
SetOptions(t) ==
    /\ At(t, "options")
    /\ \/ /\ callbacks' = {"status"}
          /\ Goto(t, "callbacks")
          /\ UNCHANGED after
       \/ CleanUp(t) /\ UNCHANGED callbacks
    /\ UNCHANGED <<fields, counters, lock, alive, inFlight, elapsed,
                   reportHandle, pending, history>>

SetTwinCallback(t) ==
    /\ At(t, "callbacks")
    /\ \/ /\ callbacks' = callbacks \cup {"twin"}
          /\ Goto(t, "counter")
          /\ UNCHANGED after
       \/ CleanUp(t) /\ UNCHANGED callbacks
    /\ UNCHANGED <<fields, counters, lock, alive, inFlight, elapsed,
                   reportHandle, pending, history>>

(* AgentTelemetryCounter_Init, then the adapter is initiated; main unlocks *)
(* it, the publisher keeps it locked and connects.                         *)
InitCounter(t) ==
    /\ At(t, "counter")
    /\ counter' = NoCount
    /\ \/ /\ counterLock' = TRUE
          /\ hubInitiated' = TRUE
          /\ lock' = IF t = "main" THEN NoThread ELSE lock
          /\ elapsed' = 0
          /\ Goto(t, "poll")
          /\ UNCHANGED after
       \/ CleanUp(t) /\ UNCHANGED <<counterLock, hubInitiated, lock, elapsed>>
    /\ UNCHANGED <<moduleHandle, connected, connectionStatusReason,
                   hasTwinConfiguration, client, reportHandle, pending,
                   history>>

-----------------------------------------------------------------------------
(* Mutant: hubInitiated is left to Init_Internal.                          *)
NotInitiatedUnset == UNCHANGED hubInitiated

NotInitiated == hubInitiated' = FALSE

(* IoTHubAdapter_Deinit_Internal: first the flag and the counter ...       *)
DeinitCounter(t) ==
    /\ At(t, "deinit")
    /\ NotInitiated
    /\ counterLock' = FALSE
    /\ Goto(t, IF moduleHandle = NULL THEN after[t] ELSE "destroy")
    /\ UNCHANGED <<moduleHandle, connected, connectionStatusReason,
                   hasTwinConfiguration, counter, lock, client, locals,
                   history>>

RemoveClient(h) == alive' = alive \ {h}

(* ... then the client, whose worker thread ends with its last callback    *)
(* and whose unconfirmed messages fail; there is no counter to count them. *)
(* The handle keeps its value.                                             *)
DestroyClient(t) ==
    /\ At(t, "destroy")
    /\ At("sdk", "idle")
    /\ RemoveClient(moduleHandle)
    /\ callbacks' = {}
    /\ inFlight' = 0
    /\ Goto(t, after[t])
    /\ UNCHANGED <<fields, counters, lock, locals, history>>

(* An initialisation that failed: main gives up, the publisher returns     *)
(* from the send.                                                          *)
InitFailed(t) ==
    /\ At(t, "failed")
    /\ lock' = IF t = "main" THEN NoThread ELSE lock
    /\ Goto(t, IF t = "main" THEN "done" ELSE "unlock")
    /\ UNCHANGED <<fields, counters, client, locals, history>>

-----------------------------------------------------------------------------
(* IoTHubAdapter_Connect: poll until connected with a twin, until the      *)
(* failure is permanent, or until the time is out.                         *)
Permanent ==
    ~connected /\ connectionStatusReason = "permanent"

Connected == connected /\ hasTwinConfiguration

TimeLeft == elapsed < Polls

Poll(t) ==
    /\ At(t, "poll")
    /\ \/ /\ TimeLeft
          /\ elapsed' = elapsed + 1
          /\ Goto(t, IF Connected \/ Permanent THEN "verdict" ELSE "poll")
       \/ /\ ~TimeLeft
          /\ Goto(t, "verdict")
          /\ UNCHANGED elapsed
    /\ UNCHANGED <<fields, counters, lock, client, after, reportHandle,
                   pending, history>>

(* main starts the tasks or shuts down; a send goes on or fails.           *)
Verdict(t) ==
    /\ At(t, "verdict")
    /\ Goto(t, IF t = "main" THEN (IF Connected THEN "up" ELSE "stop")
               ELSE (IF Connected THEN "send" ELSE "unlock"))
    /\ elapsed' = 0
    /\ UNCHANGED <<fields, counters, lock, client, after, reportHandle,
                   pending, history>>

-----------------------------------------------------------------------------
(* IoTHubAdapter_SendMessageAsync, on the publisher's thread.              *)
SendMessageAsync ==
    /\ At("main", "up")
    /\ At("publisher", "idle")
    /\ Goto("publisher", "lock")
    /\ UNCHANGED <<fields, counters, lock, client, locals, history>>

SendLock ==
    /\ At("publisher", "lock")
    /\ lock = NoThread
    /\ lock' = "publisher"
    /\ Goto("publisher", "test")
    /\ UNCHANGED <<fields, counters, client, locals, history>>

SendTest ==
    /\ At("publisher", "test")
    /\ Goto("publisher", IF ~hubInitiated THEN "unlock"
                         ELSE IF ~connected /\ UseDps THEN "renew"
                         ELSE "send")
    /\ UNCHANGED <<fields, counters, lock, client, locals, history>>

(* Mutant: a renewal that fails is tried again.                            *)
AfterFailedRenewalRetry == "test"

AfterFailedRenewal == "unlock"

(* TryRenewConnectionString fails or succeeds (module Authentication);     *)
(* then IoTHubAdapter_Reinit: deinitialise, initialise, connect.           *)
Renew ==
    /\ At("publisher", "renew")
    /\ \/ /\ clients < MaxClients
          /\ renewals' = renewals + 1
          /\ after' = [after EXCEPT !["publisher"] = "create"]
          /\ Goto("publisher", "deinit")
       \/ /\ Goto("publisher", AfterFailedRenewal)
          /\ UNCHANGED <<renewals, after>>
    /\ UNCHANGED <<fields, counters, lock, client, elapsed, reportHandle,
                   pending, clients, accepted, pushed, failures, reported>>

(* The message is built and handed to the client, or that fails.           *)
SendEventAsync ==
    /\ At("publisher", "send")
    /\ \/ /\ accepted < MaxMessages
          /\ accepted' = accepted + 1
          /\ inFlight' = inFlight + 1
          /\ \E l \in {"count.small", "count.sent"} : Goto("publisher", l)
       \/ /\ Goto("publisher", "unlock")
          /\ UNCHANGED <<accepted, inFlight>>
    /\ UNCHANGED <<fields, counters, lock, alive, callbacks, locals, clients,
                   renewals, pushed, failures, reported>>

(* AgentTelemetryCounter_IncreaseBy: nothing is counted without a lock;    *)
(* with one, not while the monitor holds it.                               *)
IncreaseBy(f) ==
    /\ counterLock => ~At("monitor", "snapshot")
    /\ counter' = IF counterLock THEN [counter EXCEPT ![f] = @ + 1]
                  ELSE counter
    /\ UNCHANGED counterLock

CountSmall ==
    /\ At("publisher", "count.small")
    /\ IncreaseBy("small")
    /\ Goto("publisher", "count.sent")
    /\ UNCHANGED <<fields, lock, client, locals, history>>

CountSent ==
    /\ At("publisher", "count.sent")
    /\ IncreaseBy("sent")
    /\ Goto("publisher", "unlock")
    /\ UNCHANGED <<fields, lock, client, locals, history>>

SendUnlock ==
    /\ At("publisher", "unlock")
    /\ lock' = NoThread
    /\ Goto("publisher", "idle")
    /\ UNCHANGED <<fields, counters, client, locals, history>>

-----------------------------------------------------------------------------
(* IoTHubAdapter_SetReportedPropertiesAsync, on the twin task's thread:    *)
(* the handle is read, then the client is called with it.                  *)
SetReportedPropertiesAsync ==
    /\ At("main", "up")
    /\ At("updater", "idle")
    /\ reportHandle' = moduleHandle
    /\ Goto("updater", "report")
    /\ UNCHANGED <<fields, counters, lock, client, after, elapsed, pending,
                   history>>

SendReportedState ==
    /\ At("updater", "report")
    /\ reportHandle' = NULL
    /\ Goto("updater", "idle")
    /\ UNCHANGED <<fields, counters, lock, client, after, elapsed, pending,
                   history>>

(* AgentTelemetryCounter_SnapshotAndReset, on the monitor's thread.        *)
SnapshotLock ==
    /\ At("main", "up")
    /\ At("monitor", "idle")
    /\ counterLock
    /\ Goto("monitor", "snapshot")
    /\ UNCHANGED <<fields, counters, lock, client, locals, history>>

(* Mutant: the counter is copied and not reset.                            *)
ResetCounterNot == UNCHANGED counter

ResetCounter == counter' = NoCount

Snapshot ==
    /\ At("monitor", "snapshot")
    /\ reported' = [f \in DOMAIN counter |-> reported[f] + counter[f]]
    /\ ResetCounter
    /\ Goto("monitor", "idle")
    /\ UNCHANGED <<fields, counterLock, lock, client, locals, clients,
                   renewals, accepted, pushed, failures>>

-----------------------------------------------------------------------------
(* The callbacks, on the client's worker thread.                           *)
Calls(c) == At("sdk", "idle") /\ c \in callbacks /\ alive # {}

(* IoTHubAdapter_ConnectionStatusCallback: the reason first.               *)
StatusReason ==
    /\ Calls("status")
    /\ \E r \in Reasons :
          /\ connectionStatusReason' = r
          /\ pending' \in IF r = "OK" THEN BOOLEAN ELSE {FALSE}
    /\ Goto("sdk", "status")
    /\ UNCHANGED <<moduleHandle, hubInitiated, connected,
                   hasTwinConfiguration, counters, lock, client, after,
                   elapsed, reportHandle, history>>

StatusConnected ==
    /\ At("sdk", "status")
    /\ connected' = pending
    /\ pending' = FALSE
    /\ Goto("sdk", "idle")
    /\ UNCHANGED <<moduleHandle, hubInitiated, connectionStatusReason,
                   hasTwinConfiguration, counters, lock, client, after,
                   elapsed, reportHandle, history>>

(* Mutant: the flag is set whether or not the update could be queued.      *)
TwinDroppedFlag == hasTwinConfiguration' = TRUE

TwinDropped == UNCHANGED hasTwinConfiguration

(* UpdateTwinTask_InitUpdateTwinTaskItem makes an item of the payload; if  *)
(* memory runs out what it leaves is NULL or a pointer to a freed item.    *)
TwinItems == {"update", "spoilt"}

(* IoTHubAdapter_DeviceTwinCallback: whatever was made is queued, then the *)
(* flag is set; an empty payload or a failed push leaves both alone.       *)
TwinPush ==
    /\ Calls("twin")
    /\ \/ /\ \E item \in TwinItems :
                pushed' = IF pushed = "update" THEN pushed ELSE item
          /\ Goto("sdk", "twin")
          /\ UNCHANGED hasTwinConfiguration
       \/ TwinDropped /\ UNCHANGED <<pushed, pc>>
    /\ UNCHANGED <<moduleHandle, hubInitiated, connected,
                   connectionStatusReason, counters, lock, client, locals,
                   clients, renewals, accepted, failures, reported>>

TwinPushed ==
    /\ At("sdk", "twin")
    /\ hasTwinConfiguration' = TRUE
    /\ Goto("sdk", "idle")
    /\ UNCHANGED <<moduleHandle, hubInitiated, connected,
                   connectionStatusReason, counters, lock, client, locals,
                   history>>

(* IoTHubAdapter_SendConfirmCallback.                                      *)
SendConfirm ==
    /\ At("sdk", "idle") /\ alive # {}
    /\ inFlight > 0
    /\ inFlight' = inFlight - 1
    /\ \/ /\ IncreaseBy("failed")
          /\ failures' = failures + 1
       \/ UNCHANGED <<counters, failures>>
    /\ UNCHANGED <<fields, lock, alive, callbacks, pc, locals, clients,
                   renewals, accepted, pushed, reported>>

-----------------------------------------------------------------------------
(* Mutant: the tasks are not waited for.                                   *)
TasksJoinedNot == TRUE

(* SecurityAgent_Deinit joins the tasks before it deinitialises the        *)
(* adapter.                                                                *)
TasksJoined == \A t \in {"publisher", "updater", "monitor"} : At(t, "idle")

Stop ==
    /\ At("main", "up")
    /\ TasksJoined
    /\ Goto("main", "stop")
    /\ UNCHANGED <<fields, counters, lock, client, locals, history>>

(* IoTHubAdapter_Deinit.                                                   *)
DeinitLock ==
    /\ At("main", "stop")
    /\ lock = NoThread
    /\ lock' = "main"
    /\ after' = [after EXCEPT !["main"] = "free"]
    /\ Goto("main", "deinit")
    /\ UNCHANGED <<fields, counters, client, elapsed, reportHandle, pending,
                   history>>

DeinitUnlock ==
    /\ At("main", "free")
    /\ lock' = NoThread
    /\ Goto("main", "done")
    /\ UNCHANGED <<fields, counters, client, locals, history>>

Terminated == At("main", "done") /\ UNCHANGED vars

Initialise(t) ==
    \/ CreateClient(t) \/ SetOptions(t) \/ SetTwinCallback(t)
    \/ InitCounter(t) \/ DeinitCounter(t) \/ DestroyClient(t)
    \/ InitFailed(t) \/ Poll(t) \/ Verdict(t)
Send ==
    \/ SendLock \/ SendTest \/ Renew \/ SendEventAsync
    \/ CountSmall \/ CountSent \/ SendUnlock
Callback == StatusConnected \/ TwinPushed

Next ==
    \/ \E t \in Initialisers : Initialise(t)
    \/ SendMessageAsync \/ Send
    \/ SetReportedPropertiesAsync \/ SendReportedState
    \/ SnapshotLock \/ Snapshot
    \/ StatusReason \/ TwinPush \/ Callback \/ SendConfirm
    \/ Stop \/ DeinitLock \/ DeinitUnlock \/ Terminated

Spec == Init /\ [][Next]_vars

(* A thread that can take a step is scheduled in the end; a callback that  *)
(* has begun returns.  Waiting for a lock, and waiting for the worker to   *)
(* finish its callback, succeed when they are possible again and again.    *)
Fairness ==
    /\ WF_vars(Callback) /\ WF_vars(Snapshot) /\ WF_vars(SendReportedState)
    /\ \A t \in Initialisers :
          /\ WF_vars(CreateClient(t) \/ SetOptions(t) \/ SetTwinCallback(t))
          /\ WF_vars(InitCounter(t) \/ DeinitCounter(t) \/ InitFailed(t))
          /\ WF_vars(Poll(t) \/ Verdict(t))
          /\ SF_vars(DestroyClient(t))
    /\ WF_vars(SendTest \/ Renew \/ SendEventAsync \/ SendUnlock)
    /\ SF_vars(SendLock) /\ SF_vars(CountSmall \/ CountSent)
    /\ WF_vars(DeinitUnlock) /\ SF_vars(DeinitLock)

FairSpec == Spec /\ Fairness

-----------------------------------------------------------------------------
Locations == {"idle", "create", "options", "callbacks", "counter", "deinit",
              "destroy", "failed", "poll", "verdict", "lock", "test", "renew",
              "send", "count.small", "count.sent", "unlock", "report",
              "snapshot", "status", "twin", "up", "stop", "free", "done"}
Counts == [sent : Nat, small : Nat, failed : Nat]
Handles == 0 .. MaxClients

(* The adapter's fields hold what the code stores in them, and Connect     *)
(* never polls past its timeout.                                           *)
TypeOK ==
    /\ moduleHandle \in Handles
    /\ hubInitiated \in BOOLEAN /\ connected \in BOOLEAN
    /\ connectionStatusReason \in Reasons
    /\ hasTwinConfiguration \in BOOLEAN
    /\ counter \in Counts /\ reported \in Counts
    /\ counterLock \in BOOLEAN
    /\ lock \in Initialisers \cup {NoThread}
    /\ alive \subseteq 1 .. MaxClients
    /\ callbacks \subseteq {"status", "twin"}
    /\ inFlight \in 0 .. MaxMessages
    /\ pc \in [Threads -> Locations]
    /\ after \in [Threads -> {"create", "failed", "free"}]
    /\ elapsed \in 0 .. Polls
    /\ reportHandle \in Handles
    /\ pending \in BOOLEAN
    /\ clients \in 0 .. MaxClients /\ renewals \in 0 .. MaxClients
    /\ accepted \in 0 .. MaxMessages /\ pushed \in TwinItems \cup {"nothing"}
    /\ failures \in 0 .. MaxMessages

(* hubInitiated and the handle tell the truth, however many renewals       *)
(* succeeded or failed half way: while the flag is set, and when a message *)
(* is handed over, the client exists and its counter has a lock; the only  *)
(* client alive is the one the adapter holds, and none is left when the    *)
(* adapter is gone.                                                        *)
HandleTruthful ==
    /\ (hubInitiated \/ At("publisher", "send")) =>
          moduleHandle \in alive /\ counterLock
    /\ alive \subseteq {moduleHandle}
    /\ At("main", "done") => alive = {}

(* Without a renewal no thread uses what another has destroyed: not the    *)
(* unlocked report of the twin task, not the snapshot of the counters, not *)
(* the second destruction of a client.                                     *)
DanglingOnlyAfterRenewal ==
    renewals = 0 =>
        /\ At("updater", "report") => reportHandle \in alive
        /\ At("monitor", "snapshot") => counterLock
        /\ \A t \in Initialisers : At(t, "destroy") => moduleHandle \in alive

(* When Connect has succeeded, an item is in the twin queue, as            *)
(* SecurityAgent_ConnectAndUpdateConfiguration expects before it starts    *)
(* the tasks: the flag is never ahead of the queue.  Unless the memory ran *)
(* out in a callback (every item is spoilt), it is an update.              *)
ConnectedMeansTwinQueued ==
    At("main", "up") /\ pushed # "spoilt" => pushed = "update"

(* What main takes for granted: after Connect an update is in the queue.   *)
ConnectedMeansUpdate == At("main", "up") => pushed = "update"

(* Every message the client accepted is counted once, in the counter or in *)
(* a snapshot, and every failure too, until a renewal or the shutdown      *)
(* takes the counter away.                                                 *)
MessagesCounted ==
    (counterLock /\ renewals = 0) =>
        /\ reported.sent + counter.sent
           + (IF \/ At("publisher", "count.small")
                 \/ At("publisher", "count.sent") THEN 1 ELSE 0) = accepted
        /\ reported.failed + counter.failed = failures

(* A send returns, whatever happens in its middle: a renewal, a failed     *)
(* initialisation, a time-out.                                             *)
SendReturns == (pc["publisher"] # "idle") ~> (pc["publisher"] = "idle")

=============================================================================

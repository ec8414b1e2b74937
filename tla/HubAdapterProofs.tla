-------------------------- MODULE HubAdapterProofs --------------------------
(***************************************************************************)
(* The adapter to the hub for any number of clients, polls, messages and   *)
(* twin updates: when its handle is good, what a renewal may spoil, and    *)
(* how messages are counted.                                               *)
(***************************************************************************)
EXTENDS HubAdapter, TLAPS

-----------------------------------------------------------------------------
(* The steps of Init_Internal with a client, of Deinit_Internal, and of    *)
(* the two of them; the steps that find the adapter initiated.             *)
Setting == {"options", "callbacks", "counter"}
Cleaning == {"deinit", "destroy"}
Working == {"create", "failed"} \cup Setting \cup Cleaning
Connecting == {"poll", "verdict"}
Counting == {"count.small", "count.sent"}

(***************************************************************************)
(* Where each thread can be.  The tasks run while main is up: it joins     *)
(* them before it leaves.  The lock is held by whoever works on the        *)
(* adapter, except by main while it connects.                              *)
(***************************************************************************)
MainHolds == Working \cup {"free"}
MainLocations == MainHolds \cup Connecting \cup {"up", "stop", "done"}
PublisherHolds ==
    Working \cup Connecting \cup Counting \cup {"test", "renew", "send", "unlock"}

Control ==
    /\ pc["main"] \in MainLocations
    /\ pc["publisher"] \in PublisherHolds \cup {"idle", "lock"}
    /\ pc["updater"] \in {"idle", "report"}
    /\ pc["monitor"] \in {"idle", "snapshot"}
    /\ pc["sdk"] \in {"idle", "status", "twin"}
    /\ pc["main"] # "up" =>
          pc["publisher"] = "idle" /\ pc["updater"] = "idle" /\ pc["monitor"] = "idle"
    /\ lock = "main" <=> pc["main"] \in MainHolds
    /\ lock = "publisher" <=> pc["publisher"] \in PublisherHolds
    /\ pc["main"] \in Cleaning => after["main"] \in {"failed", "free"}
    /\ pc["publisher"] \in Cleaning => after["publisher"] \in {"create", "failed"}

(***************************************************************************)
(* The client, the handle and the flag.                                    *)
(***************************************************************************)
Handle ==
    /\ alive \subseteq {moduleHandle} /\ NULL \notin alive
    /\ hubInitiated => moduleHandle \in alive /\ counterLock
    /\ pc["publisher"] \in Connecting \cup Counting \cup {"renew", "send"} => hubInitiated
    /\ \A t \in Initialisers :
          /\ pc[t] \in Setting => moduleHandle \in alive
          /\ pc[t] \in {"create", "failed", "free", "done"} => alive = {}
          /\ pc[t] \in Working \ {"deinit"} => ~hubInitiated
          /\ pc[t] \in {"free", "done"} => ~hubInitiated
          /\ pc[t] = "destroy" => moduleHandle # NULL

(***************************************************************************)
(* Before the first renewal only main has worked on the adapter.           *)
(***************************************************************************)
Unrenewed ==
    renewals = 0 =>
        /\ pc["publisher"] \notin Working \cup Connecting
        /\ pc["main"] \in Connecting \cup {"up", "stop"} => hubInitiated
        /\ pc["main"] \in Cleaning => moduleHandle \in alive \cup {NULL}
        /\ pc["updater"] = "report" => reportHandle = moduleHandle

(***************************************************************************)
(* Something was pushed to the twin queue before the flag says so.         *)
(***************************************************************************)
TwinKnown ==
    hasTwinConfiguration \/ pc["sdk"] = "twin" \/ pc["main"] = "up" =>
        pushed \in TwinItems

(***************************************************************************)
(* Until main has connected nothing was sent or counted.                   *)
(***************************************************************************)
Fresh ==
    pc["main"] \in {"create"} \cup Setting \cup Connecting =>
        accepted = 0 /\ failures = 0 /\ counter = NoCount /\ reported = NoCount

(***************************************************************************)
(* What the bounds of the history rest on: a failure is an accepted        *)
(* message, and each renewal but one has created a client.                 *)
(***************************************************************************)
Bounds ==
    /\ inFlight + failures <= accepted
    /\ renewals <= clients
    /\ hubInitiated /\ pc["publisher"] # "deinit" => renewals < clients
    /\ \A t \in Initialisers : pc[t] \in Setting => renewals < clients

Inv ==
    /\ TypeOK /\ Control /\ Handle /\ Unrenewed /\ TwinKnown /\ Fresh
    /\ MessagesCounted /\ Bounds

-----------------------------------------------------------------------------
(***************************************************************************)
(* AgentTelemetryCounter_IncreaseBy adds to one field and keeps the others.*)
(***************************************************************************)
LEMMA Increased ==
  ASSUME counter \in Counts
  PROVE  /\ IncreaseBy("small") =>
               /\ counter' \in Counts
               /\ counter'.sent = counter.sent /\ counter'.failed = counter.failed
         /\ IncreaseBy("sent") =>
               /\ counter' \in Counts /\ counter'.failed = counter.failed
               /\ counterLock => counter'.sent = counter.sent + 1
         /\ IncreaseBy("failed") =>
               /\ counter' \in Counts /\ counter'.sent = counter.sent
               /\ counterLock => counter'.failed = counter.failed + 1
BY DEF IncreaseBy, Counts

(***************************************************************************)
(* AgentTelemetryCounter_SnapshotAndReset: what is reported grows by what  *)
(* was counted.                                                            *)
(***************************************************************************)
LEMMA Reported ==
  ASSUME counter \in Counts, reported \in Counts
  PROVE  [f \in DOMAIN counter |-> reported[f] + counter[f]] \in Counts
BY DEF Counts

(***************************************************************************)
(* A client is created once the adapter was cleared.                       *)
(***************************************************************************)
LEMMA InitInv == Init => Inv
<1> SUFFICES ASSUME Init PROVE Inv
  OBVIOUS
<1>1. /\ pc \in [Threads -> Locations] /\ pc["main"] = "create"
      /\ \A t \in Threads \ {"main"} : pc[t] = "idle"
  BY DEF Init, Threads, Locations
<1>2. NoCount \in Counts /\ NoCount.sent = 0 /\ NoCount.failed = 0
  BY DEF NoCount, Counts
<1>3. TypeOK
  <2>1. /\ 0 \in Handles /\ 0 \in 0 .. MaxClients /\ 0 \in 0 .. MaxMessages
        /\ 0 \in 0 .. Polls
    BY HubAdapterAssumption DEF Handles
  <2>2. after \in [Threads -> {"create", "failed", "free"}]
    BY DEF Init
  <2> QED
    BY <1>1, <1>2, <2>1, <2>2 DEF Init, TypeOK, Reasons, Initialisers, NULL
<1>4. Control
  BY <1>1 DEF Init, Control, MainLocations, MainHolds, PublisherHolds, Working, Setting,
     Cleaning, Connecting, Counting, Threads
<1>5. Handle
  BY <1>1 DEF Init, Handle, Connecting, Counting, Setting, Working, Cleaning, Threads,
     Initialisers
<1>6. Unrenewed /\ TwinKnown /\ Fresh /\ Bounds /\ MessagesCounted
  BY <1>1, <1>2 DEF Init, Unrenewed, TwinKnown, Fresh, Bounds, MessagesCounted, Working, Setting,
     Cleaning, Connecting, Threads, Initialisers, At
<1> QED
  BY <1>3, <1>4, <1>5, <1>6 DEF Inv

(***************************************************************************)
(* Each thread stays on its path, the tasks run while main is up, and the  *)
(* lock is with whoever works on the adapter.                              *)
(***************************************************************************)
LEMMA ControlStep == Inv /\ [Next]_vars => Control'
<1> SUFFICES ASSUME Inv, [Next]_vars PROVE Control'
  OBVIOUS
<1> USE DEF Inv, Control, MainLocations, MainHolds, PublisherHolds, Working,
   Setting, Cleaning, Connecting, Counting, Threads, Initialisers, NoThread,
   At, Goto, CleanUp, fields, counters, client, locals, history
<1>0. pc \in [Threads -> Locations] /\ after \in [Threads -> {"create", "failed", "free"}]
  BY DEF TypeOK
<1>1. ASSUME NEW t \in Initialisers, CreateClient(t) PROVE Control'
  BY <1>0, <1>1 DEF CreateClient
<1>2. ASSUME NEW t \in Initialisers, SetOptions(t) PROVE Control'
  BY <1>0, <1>2 DEF SetOptions
<1>3. ASSUME NEW t \in Initialisers, SetTwinCallback(t) PROVE Control'
  BY <1>0, <1>3 DEF SetTwinCallback
<1>4. ASSUME NEW t \in Initialisers, InitCounter(t) PROVE Control'
  BY <1>0, <1>4 DEF InitCounter
<1>5. ASSUME NEW t \in Initialisers, DeinitCounter(t) PROVE Control'
  BY <1>0, <1>5 DEF DeinitCounter, NotInitiated
<1>6. ASSUME NEW t \in Initialisers, DestroyClient(t) PROVE Control'
  BY <1>0, <1>6 DEF DestroyClient, RemoveClient
<1>7. ASSUME NEW t \in Initialisers, InitFailed(t) PROVE Control'
  BY <1>0, <1>7 DEF InitFailed
<1>8. ASSUME NEW t \in Initialisers, Poll(t) PROVE Control'
  BY <1>0, <1>8 DEF Poll
<1>9. ASSUME NEW t \in Initialisers, Verdict(t) PROVE Control'
  BY <1>0, <1>9 DEF Verdict, Connected
<1>10. CASE SendMessageAsync
  BY <1>0, <1>10 DEF SendMessageAsync
<1>11. CASE SendLock
  BY <1>0, <1>11 DEF SendLock
<1>12. CASE SendTest
  BY <1>0, <1>12 DEF SendTest
<1>13. CASE Renew
  BY <1>0, <1>13 DEF Renew, AfterFailedRenewal
<1>14. CASE SendEventAsync
  BY <1>0, <1>14 DEF SendEventAsync
<1>15. CASE CountSmall
  BY <1>0, <1>15 DEF CountSmall, IncreaseBy
<1>16. CASE CountSent
  BY <1>0, <1>16 DEF CountSent, IncreaseBy
<1>17. CASE SendUnlock
  BY <1>0, <1>17 DEF SendUnlock
<1>18. CASE SetReportedPropertiesAsync
  BY <1>0, <1>18 DEF SetReportedPropertiesAsync
<1>19. CASE SendReportedState
  BY <1>0, <1>19 DEF SendReportedState
<1>20. CASE SnapshotLock
  BY <1>0, <1>20 DEF SnapshotLock
<1>21. CASE Snapshot
  BY <1>0, <1>21 DEF Snapshot, ResetCounter
<1>22. CASE StatusReason
  BY <1>0, <1>22 DEF StatusReason, Calls
<1>23. CASE StatusConnected
  BY <1>0, <1>23 DEF StatusConnected
<1>24. CASE TwinPush
  BY <1>0, <1>24 DEF TwinPush, TwinDropped, TwinItems, Calls
<1>25. CASE TwinPushed
  BY <1>0, <1>25 DEF TwinPushed
<1>26. CASE SendConfirm
  BY <1>0, <1>26 DEF SendConfirm, IncreaseBy
<1>27. CASE Stop
  BY <1>0, <1>27 DEF Stop, TasksJoined
<1>28. CASE DeinitLock
  BY <1>0, <1>28 DEF DeinitLock
<1>29. CASE DeinitUnlock
  BY <1>0, <1>29 DEF DeinitUnlock
<1>30. CASE UNCHANGED vars
  BY <1>0, <1>30 DEF vars
<1> QED
  BY <1>1, <1>2, <1>3, <1>4, <1>5, <1>6, <1>7, <1>8, <1>9, <1>10, <1>11,
     <1>12, <1>13, <1>14, <1>15, <1>16, <1>17, <1>18, <1>19, <1>20, <1>21,
     <1>22, <1>23, <1>24, <1>25, <1>26, <1>27, <1>28, <1>29, <1>30 DEF Next,
     Initialise, Send, Callback, Terminated

(***************************************************************************)
(* The flag and the handle follow the client.                              *)
(***************************************************************************)
LEMMA HandleStep == Inv /\ [Next]_vars => Handle'
<1> SUFFICES ASSUME Inv, [Next]_vars PROVE Handle'
  OBVIOUS
<1> USE DEF Inv, Control, Handle, MainLocations, MainHolds, PublisherHolds,
   Working, Setting, Cleaning, Connecting, Counting, Threads, Initialisers,
   NoThread, NULL, At, Goto, CleanUp, fields, counters, client, locals,
   history
<1>0. pc \in [Threads -> Locations] /\ after \in [Threads -> {"create", "failed", "free"}]
  BY DEF TypeOK
<1>1. ASSUME NEW t \in Initialisers, CreateClient(t) PROVE Handle'
  <2>1. alive = {} /\ clients \in Nat
    <3>1. alive = {}
      BY <1>1 DEF CreateClient
    <3> QED
      BY <3>1, HubAdapterAssumption DEF TypeOK
  <2>2. CASE /\ clients' = clients + 1 /\ moduleHandle' = clients + 1
             /\ alive' = alive \cup {clients + 1} /\ Goto(t, "options")
    <3>1. clients + 1 # 0
      BY <2>1
    <3> QED
      BY <1>0, <1>1, <2>1, <2>2, <3>1 DEF CreateClient
  <2>3. CASE moduleHandle' = NULL /\ CleanUp(t) /\ UNCHANGED <<clients, alive>>
    BY <1>0, <1>1, <2>1, <2>3 DEF CreateClient
  <2> QED
    BY <1>1, <2>2, <2>3 DEF CreateClient
<1>2. ASSUME NEW t \in Initialisers, SetOptions(t) PROVE Handle'
  BY <1>0, <1>2 DEF SetOptions
<1>3. ASSUME NEW t \in Initialisers, SetTwinCallback(t) PROVE Handle'
  BY <1>0, <1>3 DEF SetTwinCallback
<1>4. ASSUME NEW t \in Initialisers, InitCounter(t) PROVE Handle'
  BY <1>0, <1>4 DEF InitCounter
<1>5. ASSUME NEW t \in Initialisers, DeinitCounter(t) PROVE Handle'
  BY <1>0, <1>5 DEF DeinitCounter, NotInitiated
<1>6. ASSUME NEW t \in Initialisers, DestroyClient(t) PROVE Handle'
  BY <1>0, <1>6 DEF DestroyClient, RemoveClient
<1>7. ASSUME NEW t \in Initialisers, InitFailed(t) PROVE Handle'
  BY <1>0, <1>7 DEF InitFailed
<1>8. ASSUME NEW t \in Initialisers, Poll(t) PROVE Handle'
  BY <1>0, <1>8 DEF Poll
<1>9. ASSUME NEW t \in Initialisers, Verdict(t) PROVE Handle'
  BY <1>0, <1>9 DEF Verdict, Connected
<1>10. CASE SendMessageAsync
  BY <1>0, <1>10 DEF SendMessageAsync
<1>11. CASE SendLock
  BY <1>0, <1>11 DEF SendLock
<1>12. CASE SendTest
  BY <1>0, <1>12 DEF SendTest
<1>13. CASE Renew
  BY <1>0, <1>13 DEF Renew, AfterFailedRenewal
<1>14. CASE SendEventAsync
  BY <1>0, <1>14 DEF SendEventAsync
<1>15. CASE CountSmall
  BY <1>0, <1>15 DEF CountSmall, IncreaseBy
<1>16. CASE CountSent
  BY <1>0, <1>16 DEF CountSent, IncreaseBy
<1>17. CASE SendUnlock
  BY <1>0, <1>17 DEF SendUnlock
<1>18. CASE SetReportedPropertiesAsync
  BY <1>0, <1>18 DEF SetReportedPropertiesAsync
<1>19. CASE SendReportedState
  BY <1>0, <1>19 DEF SendReportedState
<1>20. CASE SnapshotLock
  BY <1>0, <1>20 DEF SnapshotLock
<1>21. CASE Snapshot
  BY <1>0, <1>21 DEF Snapshot, ResetCounter
<1>22. CASE StatusReason
  BY <1>0, <1>22 DEF StatusReason, Calls
<1>23. CASE StatusConnected
  BY <1>0, <1>23 DEF StatusConnected
<1>24. CASE TwinPush
  BY <1>0, <1>24 DEF TwinPush, TwinDropped, TwinItems, Calls
<1>25. CASE TwinPushed
  BY <1>0, <1>25 DEF TwinPushed
<1>26. CASE SendConfirm
  BY <1>0, <1>26 DEF SendConfirm, IncreaseBy
<1>27. CASE Stop
  BY <1>0, <1>27 DEF Stop, TasksJoined
<1>28. CASE DeinitLock
  BY <1>0, <1>28 DEF DeinitLock
<1>29. CASE DeinitUnlock
  BY <1>0, <1>29 DEF DeinitUnlock
<1>30. CASE UNCHANGED vars
  BY <1>0, <1>30 DEF vars
<1> QED
  BY <1>1, <1>2, <1>3, <1>4, <1>5, <1>6, <1>7, <1>8, <1>9, <1>10, <1>11,
     <1>12, <1>13, <1>14, <1>15, <1>16, <1>17, <1>18, <1>19, <1>20, <1>21,
     <1>22, <1>23, <1>24, <1>25, <1>26, <1>27, <1>28, <1>29, <1>30 DEF Next,
     Initialise, Send, Callback, Terminated

(***************************************************************************)
(* Before the first renewal nobody but main destroys or replaces a client. *)
(***************************************************************************)
LEMMA UnrenewedStep == Inv /\ [Next]_vars => Unrenewed'
<1> SUFFICES ASSUME Inv, [Next]_vars PROVE Unrenewed'
  OBVIOUS
<1> USE DEF Inv, Control, Handle, Unrenewed, MainLocations, MainHolds,
   PublisherHolds, Working, Setting, Cleaning, Connecting, Counting, Threads,
   Initialisers, NoThread, NULL, At, Goto, CleanUp, fields, counters, client,
   locals, history
<1>0. pc \in [Threads -> Locations] /\ after \in [Threads -> {"create", "failed", "free"}]
  BY DEF TypeOK
<1>1. ASSUME NEW t \in Initialisers, CreateClient(t) PROVE Unrenewed'
  BY <1>0, <1>1 DEF CreateClient
<1>2. ASSUME NEW t \in Initialisers, SetOptions(t) PROVE Unrenewed'
  BY <1>0, <1>2 DEF SetOptions
<1>3. ASSUME NEW t \in Initialisers, SetTwinCallback(t) PROVE Unrenewed'
  BY <1>0, <1>3 DEF SetTwinCallback
<1>4. ASSUME NEW t \in Initialisers, InitCounter(t) PROVE Unrenewed'
  BY <1>0, <1>4 DEF InitCounter
<1>5. ASSUME NEW t \in Initialisers, DeinitCounter(t) PROVE Unrenewed'
  BY <1>0, <1>5 DEF DeinitCounter, NotInitiated
<1>6. ASSUME NEW t \in Initialisers, DestroyClient(t) PROVE Unrenewed'
  BY <1>0, <1>6 DEF DestroyClient, RemoveClient
<1>7. ASSUME NEW t \in Initialisers, InitFailed(t) PROVE Unrenewed'
  BY <1>0, <1>7 DEF InitFailed
<1>8. ASSUME NEW t \in Initialisers, Poll(t) PROVE Unrenewed'
  BY <1>0, <1>8 DEF Poll
<1>9. ASSUME NEW t \in Initialisers, Verdict(t) PROVE Unrenewed'
  BY <1>0, <1>9 DEF Verdict, Connected
<1>10. CASE SendMessageAsync
  BY <1>0, <1>10 DEF SendMessageAsync
<1>11. CASE SendLock
  BY <1>0, <1>11 DEF SendLock
<1>12. CASE SendTest
  BY <1>0, <1>12 DEF SendTest
<1>13. CASE Renew
  BY <1>0, <1>13 DEF Renew, AfterFailedRenewal, TypeOK
<1>14. CASE SendEventAsync
  BY <1>0, <1>14 DEF SendEventAsync
<1>15. CASE CountSmall
  BY <1>0, <1>15 DEF CountSmall, IncreaseBy
<1>16. CASE CountSent
  BY <1>0, <1>16 DEF CountSent, IncreaseBy
<1>17. CASE SendUnlock
  BY <1>0, <1>17 DEF SendUnlock
<1>18. CASE SetReportedPropertiesAsync
  BY <1>0, <1>18 DEF SetReportedPropertiesAsync
<1>19. CASE SendReportedState
  BY <1>0, <1>19 DEF SendReportedState
<1>20. CASE SnapshotLock
  BY <1>0, <1>20 DEF SnapshotLock
<1>21. CASE Snapshot
  BY <1>0, <1>21 DEF Snapshot, ResetCounter
<1>22. CASE StatusReason
  BY <1>0, <1>22 DEF StatusReason, Calls
<1>23. CASE StatusConnected
  BY <1>0, <1>23 DEF StatusConnected
<1>24. CASE TwinPush
  BY <1>0, <1>24 DEF TwinPush, TwinDropped, TwinItems, Calls
<1>25. CASE TwinPushed
  BY <1>0, <1>25 DEF TwinPushed
<1>26. CASE SendConfirm
  BY <1>0, <1>26 DEF SendConfirm, IncreaseBy
<1>27. CASE Stop
  BY <1>0, <1>27 DEF Stop, TasksJoined
<1>28. CASE DeinitLock
  BY <1>0, <1>28 DEF DeinitLock
<1>29. CASE DeinitUnlock
  BY <1>0, <1>29 DEF DeinitUnlock
<1>30. CASE UNCHANGED vars
  BY <1>0, <1>30 DEF vars
<1> QED
  BY <1>1, <1>2, <1>3, <1>4, <1>5, <1>6, <1>7, <1>8, <1>9, <1>10, <1>11,
     <1>12, <1>13, <1>14, <1>15, <1>16, <1>17, <1>18, <1>19, <1>20, <1>21,
     <1>22, <1>23, <1>24, <1>25, <1>26, <1>27, <1>28, <1>29, <1>30 DEF Next,
     Initialise, Send, Callback, Terminated

(***************************************************************************)
(* The flag is set after the update was queued.                            *)
(***************************************************************************)
LEMMA TwinStep == Inv /\ [Next]_vars => TwinKnown'
<1> SUFFICES ASSUME Inv, [Next]_vars PROVE TwinKnown'
  OBVIOUS
<1> USE DEF Inv, Control, TwinKnown, MainLocations, MainHolds, PublisherHolds,
   Working, Setting, Cleaning, Connecting, Counting, Threads, Initialisers,
   At, Goto, CleanUp, fields, counters, client, locals, history
<1>0. pc \in [Threads -> Locations] /\ after \in [Threads -> {"create", "failed", "free"}]
  BY DEF TypeOK
<1>1. ASSUME NEW t \in Initialisers, CreateClient(t) PROVE TwinKnown'
  BY <1>0, <1>1 DEF CreateClient
<1>2. ASSUME NEW t \in Initialisers, SetOptions(t) PROVE TwinKnown'
  BY <1>0, <1>2 DEF SetOptions
<1>3. ASSUME NEW t \in Initialisers, SetTwinCallback(t) PROVE TwinKnown'
  BY <1>0, <1>3 DEF SetTwinCallback
<1>4. ASSUME NEW t \in Initialisers, InitCounter(t) PROVE TwinKnown'
  BY <1>0, <1>4 DEF InitCounter
<1>5. ASSUME NEW t \in Initialisers, DeinitCounter(t) PROVE TwinKnown'
  BY <1>0, <1>5 DEF DeinitCounter, NotInitiated
<1>6. ASSUME NEW t \in Initialisers, DestroyClient(t) PROVE TwinKnown'
  BY <1>0, <1>6 DEF DestroyClient, RemoveClient
<1>7. ASSUME NEW t \in Initialisers, InitFailed(t) PROVE TwinKnown'
  BY <1>0, <1>7 DEF InitFailed
<1>8. ASSUME NEW t \in Initialisers, Poll(t) PROVE TwinKnown'
  BY <1>0, <1>8 DEF Poll
<1>9. ASSUME NEW t \in Initialisers, Verdict(t) PROVE TwinKnown'
  BY <1>0, <1>9 DEF Verdict, Connected
<1>10. CASE SendMessageAsync
  BY <1>0, <1>10 DEF SendMessageAsync
<1>11. CASE SendLock
  BY <1>0, <1>11 DEF SendLock
<1>12. CASE SendTest
  BY <1>0, <1>12 DEF SendTest
<1>13. CASE Renew
  BY <1>0, <1>13 DEF Renew, AfterFailedRenewal
<1>14. CASE SendEventAsync
  BY <1>0, <1>14 DEF SendEventAsync
<1>15. CASE CountSmall
  BY <1>0, <1>15 DEF CountSmall, IncreaseBy
<1>16. CASE CountSent
  BY <1>0, <1>16 DEF CountSent, IncreaseBy
<1>17. CASE SendUnlock
  BY <1>0, <1>17 DEF SendUnlock
<1>18. CASE SetReportedPropertiesAsync
  BY <1>0, <1>18 DEF SetReportedPropertiesAsync
<1>19. CASE SendReportedState
  BY <1>0, <1>19 DEF SendReportedState
<1>20. CASE SnapshotLock
  BY <1>0, <1>20 DEF SnapshotLock
<1>21. CASE Snapshot
  BY <1>0, <1>21 DEF Snapshot, ResetCounter
<1>22. CASE StatusReason
  BY <1>0, <1>22 DEF StatusReason, Calls
<1>23. CASE StatusConnected
  BY <1>0, <1>23 DEF StatusConnected
<1>24. CASE TwinPush
  BY <1>0, <1>24 DEF TwinPush, TwinDropped, TwinItems, Calls, TypeOK
<1>25. CASE TwinPushed
  BY <1>0, <1>25 DEF TwinPushed
<1>26. CASE SendConfirm
  BY <1>0, <1>26 DEF SendConfirm, IncreaseBy
<1>27. CASE Stop
  BY <1>0, <1>27 DEF Stop, TasksJoined
<1>28. CASE DeinitLock
  BY <1>0, <1>28 DEF DeinitLock
<1>29. CASE DeinitUnlock
  BY <1>0, <1>29 DEF DeinitUnlock
<1>30. CASE UNCHANGED vars
  BY <1>0, <1>30 DEF vars
<1> QED
  BY <1>1, <1>2, <1>3, <1>4, <1>5, <1>6, <1>7, <1>8, <1>9, <1>10, <1>11,
     <1>12, <1>13, <1>14, <1>15, <1>16, <1>17, <1>18, <1>19, <1>20, <1>21,
     <1>22, <1>23, <1>24, <1>25, <1>26, <1>27, <1>28, <1>29, <1>30 DEF Next,
     Initialise, Send, Callback, Terminated

(***************************************************************************)
(* Nothing is sent or counted before main has connected.                   *)
(***************************************************************************)
LEMMA FreshStep == Inv /\ [Next]_vars => Fresh'
<1> SUFFICES ASSUME Inv, [Next]_vars PROVE Fresh'
  OBVIOUS
<1> USE DEF Inv, Control, Fresh, Bounds, MainLocations, MainHolds,
   PublisherHolds, Working, Setting, Cleaning, Connecting, Counting, Threads,
   Initialisers, At, Goto, CleanUp, fields, counters, client, locals, history
<1>0. pc \in [Threads -> Locations] /\ after \in [Threads -> {"create", "failed", "free"}]
  BY DEF TypeOK
<1>1. ASSUME NEW t \in Initialisers, CreateClient(t) PROVE Fresh'
  BY <1>0, <1>1 DEF CreateClient
<1>2. ASSUME NEW t \in Initialisers, SetOptions(t) PROVE Fresh'
  BY <1>0, <1>2 DEF SetOptions
<1>3. ASSUME NEW t \in Initialisers, SetTwinCallback(t) PROVE Fresh'
  BY <1>0, <1>3 DEF SetTwinCallback
<1>4. ASSUME NEW t \in Initialisers, InitCounter(t) PROVE Fresh'
  BY <1>0, <1>4 DEF InitCounter
<1>5. ASSUME NEW t \in Initialisers, DeinitCounter(t) PROVE Fresh'
  BY <1>0, <1>5 DEF DeinitCounter, NotInitiated
<1>6. ASSUME NEW t \in Initialisers, DestroyClient(t) PROVE Fresh'
  BY <1>0, <1>6 DEF DestroyClient, RemoveClient
<1>7. ASSUME NEW t \in Initialisers, InitFailed(t) PROVE Fresh'
  BY <1>0, <1>7 DEF InitFailed
<1>8. ASSUME NEW t \in Initialisers, Poll(t) PROVE Fresh'
  BY <1>0, <1>8 DEF Poll
<1>9. ASSUME NEW t \in Initialisers, Verdict(t) PROVE Fresh'
  BY <1>0, <1>9 DEF Verdict, Connected
<1>10. CASE SendMessageAsync
  BY <1>0, <1>10 DEF SendMessageAsync
<1>11. CASE SendLock
  BY <1>0, <1>11 DEF SendLock
<1>12. CASE SendTest
  BY <1>0, <1>12 DEF SendTest
<1>13. CASE Renew
  BY <1>0, <1>13 DEF Renew, AfterFailedRenewal
<1>14. CASE SendEventAsync
  BY <1>0, <1>14 DEF SendEventAsync
<1>15. CASE CountSmall
  BY <1>0, <1>15 DEF CountSmall, IncreaseBy
<1>16. CASE CountSent
  BY <1>0, <1>16 DEF CountSent, IncreaseBy
<1>17. CASE SendUnlock
  BY <1>0, <1>17 DEF SendUnlock
<1>18. CASE SetReportedPropertiesAsync
  BY <1>0, <1>18 DEF SetReportedPropertiesAsync
<1>19. CASE SendReportedState
  BY <1>0, <1>19 DEF SendReportedState
<1>20. CASE SnapshotLock
  BY <1>0, <1>20 DEF SnapshotLock
<1>21. CASE Snapshot
  BY <1>0, <1>21 DEF Snapshot, ResetCounter
<1>22. CASE StatusReason
  BY <1>0, <1>22 DEF StatusReason, Calls
<1>23. CASE StatusConnected
  BY <1>0, <1>23 DEF StatusConnected
<1>24. CASE TwinPush
  BY <1>0, <1>24 DEF TwinPush, TwinDropped, TwinItems, Calls
<1>25. CASE TwinPushed
  BY <1>0, <1>25 DEF TwinPushed
<1>26. CASE SendConfirm
  BY <1>0, <1>26 DEF SendConfirm, IncreaseBy, TypeOK
<1>27. CASE Stop
  BY <1>0, <1>27 DEF Stop, TasksJoined
<1>28. CASE DeinitLock
  BY <1>0, <1>28 DEF DeinitLock
<1>29. CASE DeinitUnlock
  BY <1>0, <1>29 DEF DeinitUnlock
<1>30. CASE UNCHANGED vars
  BY <1>0, <1>30 DEF vars
<1> QED
  BY <1>1, <1>2, <1>3, <1>4, <1>5, <1>6, <1>7, <1>8, <1>9, <1>10, <1>11,
     <1>12, <1>13, <1>14, <1>15, <1>16, <1>17, <1>18, <1>19, <1>20, <1>21,
     <1>22, <1>23, <1>24, <1>25, <1>26, <1>27, <1>28, <1>29, <1>30 DEF Next,
     Initialise, Send, Callback, Terminated

(***************************************************************************)
(* Failures are accepted messages; a renewal creates a client.             *)
(***************************************************************************)
LEMMA BoundsStep == Inv /\ [Next]_vars => Bounds'
<1> SUFFICES ASSUME Inv, [Next]_vars PROVE Bounds'
  OBVIOUS
<1> USE DEF Inv, Control, Bounds, Handle, MainLocations, MainHolds,
   PublisherHolds, Working, Setting, Cleaning, Connecting, Counting, Threads,
   Initialisers, TypeOK, At, Goto, CleanUp, fields, counters, client, locals,
   history
<1>0. pc \in [Threads -> Locations] /\ after \in [Threads -> {"create", "failed", "free"}]
  BY DEF TypeOK
<1>1. ASSUME NEW t \in Initialisers, CreateClient(t) PROVE Bounds'
  BY <1>0, <1>1 DEF CreateClient
<1>2. ASSUME NEW t \in Initialisers, SetOptions(t) PROVE Bounds'
  BY <1>0, <1>2 DEF SetOptions
<1>3. ASSUME NEW t \in Initialisers, SetTwinCallback(t) PROVE Bounds'
  BY <1>0, <1>3 DEF SetTwinCallback
<1>4. ASSUME NEW t \in Initialisers, InitCounter(t) PROVE Bounds'
  BY <1>0, <1>4 DEF InitCounter
<1>5. ASSUME NEW t \in Initialisers, DeinitCounter(t) PROVE Bounds'
  BY <1>0, <1>5 DEF DeinitCounter, NotInitiated
<1>6. ASSUME NEW t \in Initialisers, DestroyClient(t) PROVE Bounds'
  BY <1>0, <1>6 DEF DestroyClient, RemoveClient
<1>7. ASSUME NEW t \in Initialisers, InitFailed(t) PROVE Bounds'
  BY <1>0, <1>7 DEF InitFailed
<1>8. ASSUME NEW t \in Initialisers, Poll(t) PROVE Bounds'
  BY <1>0, <1>8 DEF Poll
<1>9. ASSUME NEW t \in Initialisers, Verdict(t) PROVE Bounds'
  BY <1>0, <1>9 DEF Verdict, Connected
<1>10. CASE SendMessageAsync
  BY <1>0, <1>10 DEF SendMessageAsync
<1>11. CASE SendLock
  BY <1>0, <1>11 DEF SendLock
<1>12. CASE SendTest
  BY <1>0, <1>12 DEF SendTest
<1>13. CASE Renew
  BY <1>0, <1>13 DEF Renew, AfterFailedRenewal
<1>14. CASE SendEventAsync
  BY <1>0, <1>14 DEF SendEventAsync
<1>15. CASE CountSmall
  BY <1>0, <1>15 DEF CountSmall, IncreaseBy
<1>16. CASE CountSent
  BY <1>0, <1>16 DEF CountSent, IncreaseBy
<1>17. CASE SendUnlock
  BY <1>0, <1>17 DEF SendUnlock
<1>18. CASE SetReportedPropertiesAsync
  BY <1>0, <1>18 DEF SetReportedPropertiesAsync
<1>19. CASE SendReportedState
  BY <1>0, <1>19 DEF SendReportedState
<1>20. CASE SnapshotLock
  BY <1>0, <1>20 DEF SnapshotLock
<1>21. CASE Snapshot
  BY <1>0, <1>21 DEF Snapshot, ResetCounter
<1>22. CASE StatusReason
  BY <1>0, <1>22 DEF StatusReason, Calls
<1>23. CASE StatusConnected
  BY <1>0, <1>23 DEF StatusConnected
<1>24. CASE TwinPush
  BY <1>0, <1>24 DEF TwinPush, TwinDropped, TwinItems, Calls
<1>25. CASE TwinPushed
  BY <1>0, <1>25 DEF TwinPushed
<1>26. CASE SendConfirm
  BY <1>0, <1>26 DEF SendConfirm, IncreaseBy
<1>27. CASE Stop
  BY <1>0, <1>27 DEF Stop, TasksJoined
<1>28. CASE DeinitLock
  BY <1>0, <1>28 DEF DeinitLock
<1>29. CASE DeinitUnlock
  BY <1>0, <1>29 DEF DeinitUnlock
<1>30. CASE UNCHANGED vars
  BY <1>0, <1>30 DEF vars
<1> QED
  BY <1>1, <1>2, <1>3, <1>4, <1>5, <1>6, <1>7, <1>8, <1>9, <1>10, <1>11,
     <1>12, <1>13, <1>14, <1>15, <1>16, <1>17, <1>18, <1>19, <1>20, <1>21,
     <1>22, <1>23, <1>24, <1>25, <1>26, <1>27, <1>28, <1>29, <1>30 DEF Next,
     Initialise, Send, Callback, Terminated

(***************************************************************************)
(* While the counter exists each accepted message is counted once.         *)
(***************************************************************************)
LEMMA CountedStep == Inv /\ [Next]_vars => MessagesCounted'
<1> SUFFICES ASSUME Inv, [Next]_vars PROVE MessagesCounted'
  OBVIOUS
<1> USE DEF Inv, Control, Handle, Unrenewed, Fresh, MessagesCounted,
   MainLocations, MainHolds, PublisherHolds, Working, Setting, Cleaning,
   Connecting, Counting, Threads, Initialisers, TypeOK, Counts, NoCount, At,
   Goto, CleanUp, fields, counters, client, locals, history
<1>0. pc \in [Threads -> Locations] /\ after \in [Threads -> {"create", "failed", "free"}]
  BY DEF TypeOK
<1>1. ASSUME NEW t \in Initialisers, CreateClient(t) PROVE MessagesCounted'
  BY <1>0, <1>1 DEF CreateClient
<1>2. ASSUME NEW t \in Initialisers, SetOptions(t) PROVE MessagesCounted'
  BY <1>0, <1>2 DEF SetOptions
<1>3. ASSUME NEW t \in Initialisers, SetTwinCallback(t) PROVE MessagesCounted'
  BY <1>0, <1>3 DEF SetTwinCallback
<1>4. ASSUME NEW t \in Initialisers, InitCounter(t) PROVE MessagesCounted'
  <2>1. CASE t = "main"
    <3>1. /\ accepted = 0 /\ failures = 0 /\ reported = NoCount
          /\ pc["publisher"] = "idle" /\ pc'["publisher"] = "idle"
      BY <1>0, <1>4, <2>1 DEF InitCounter
    <3>2. counter' = NoCount /\ UNCHANGED <<accepted, failures, reported>>
      BY <1>4 DEF InitCounter
    <3> QED
      BY <3>1, <3>2
  <2>2. CASE t = "publisher"
    BY <1>0, <1>4, <2>2 DEF InitCounter
  <2> QED
    BY <2>1, <2>2
<1>5. ASSUME NEW t \in Initialisers, DeinitCounter(t) PROVE MessagesCounted'
  BY <1>0, <1>5 DEF DeinitCounter, NotInitiated
<1>6. ASSUME NEW t \in Initialisers, DestroyClient(t) PROVE MessagesCounted'
  BY <1>0, <1>6 DEF DestroyClient, RemoveClient
<1>7. ASSUME NEW t \in Initialisers, InitFailed(t) PROVE MessagesCounted'
  BY <1>0, <1>7 DEF InitFailed
<1>8. ASSUME NEW t \in Initialisers, Poll(t) PROVE MessagesCounted'
  BY <1>0, <1>8 DEF Poll
<1>9. ASSUME NEW t \in Initialisers, Verdict(t) PROVE MessagesCounted'
  BY <1>0, <1>9 DEF Verdict, Connected
<1>10. CASE SendMessageAsync
  BY <1>0, <1>10 DEF SendMessageAsync
<1>11. CASE SendLock
  BY <1>0, <1>11 DEF SendLock
<1>12. CASE SendTest
  BY <1>0, <1>12 DEF SendTest
<1>13. CASE Renew
  BY <1>0, <1>13 DEF Renew, AfterFailedRenewal
<1>14. CASE SendEventAsync
  BY <1>0, <1>14 DEF SendEventAsync
<1>15. CASE CountSmall
  BY <1>0, <1>15 DEF CountSmall, IncreaseBy
<1>16. CASE CountSent
  BY <1>0, <1>16 DEF CountSent, IncreaseBy
<1>17. CASE SendUnlock
  BY <1>0, <1>17 DEF SendUnlock
<1>18. CASE SetReportedPropertiesAsync
  BY <1>0, <1>18 DEF SetReportedPropertiesAsync
<1>19. CASE SendReportedState
  BY <1>0, <1>19 DEF SendReportedState
<1>20. CASE SnapshotLock
  BY <1>0, <1>20 DEF SnapshotLock
<1>21. CASE Snapshot
  BY <1>0, <1>21 DEF Snapshot, ResetCounter
<1>22. CASE StatusReason
  BY <1>0, <1>22 DEF StatusReason, Calls
<1>23. CASE StatusConnected
  BY <1>0, <1>23 DEF StatusConnected
<1>24. CASE TwinPush
  BY <1>0, <1>24 DEF TwinPush, TwinDropped, TwinItems, Calls
<1>25. CASE TwinPushed
  BY <1>0, <1>25 DEF TwinPushed
<1>26. CASE SendConfirm
  <2>1. pc' = pc /\ counterLock' = counterLock /\ renewals' = renewals
        /\ reported' = reported /\ accepted' = accepted
    BY <1>26 DEF SendConfirm, IncreaseBy
  <2>2. CASE UNCHANGED <<counters, failures>>
    BY <1>26, <2>1, <2>2
  <2>3. CASE IncreaseBy("failed") /\ failures' = failures + 1
    <3>1. /\ counter'.sent = counter.sent
          /\ counterLock => counter'.failed = counter.failed + 1
      BY <2>3, Increased
    <3>2. counter.failed \in Nat /\ reported.failed \in Nat /\ failures \in Nat
      OBVIOUS
    <3> QED
      BY <2>1, <2>3, <3>1, <3>2
  <2> QED
    BY <1>26, <2>2, <2>3 DEF SendConfirm
<1>27. CASE Stop
  BY <1>0, <1>27 DEF Stop, TasksJoined
<1>28. CASE DeinitLock
  BY <1>0, <1>28 DEF DeinitLock
<1>29. CASE DeinitUnlock
  BY <1>0, <1>29 DEF DeinitUnlock
<1>30. CASE UNCHANGED vars
  BY <1>0, <1>30 DEF vars
<1> QED
  BY <1>1, <1>2, <1>3, <1>4, <1>5, <1>6, <1>7, <1>8, <1>9, <1>10, <1>11,
     <1>12, <1>13, <1>14, <1>15, <1>16, <1>17, <1>18, <1>19, <1>20, <1>21,
     <1>22, <1>23, <1>24, <1>25, <1>26, <1>27, <1>28, <1>29, <1>30 DEF Next,
     Initialise, Send, Callback, Terminated

(***************************************************************************)
(* Every step stores values of the fields' types.                          *)
(***************************************************************************)
LEMMA TypeStep == Inv /\ [Next]_vars => TypeOK'
<1> SUFFICES ASSUME Inv, [Next]_vars PROVE TypeOK'
  OBVIOUS
<1> USE HubAdapterAssumption DEF Inv, TypeOK, Handles, Locations, Threads,
   Initialisers, NoThread, NULL, Reasons, At, Goto, CleanUp, fields, counters,
   client, locals, history
<1>0. pc \in [Threads -> Locations] /\ after \in [Threads -> {"create", "failed", "free"}]
  BY DEF TypeOK
<1>1. ASSUME NEW t \in Initialisers, CreateClient(t) PROVE TypeOK'
  <2>1. pc' \in [Threads -> Locations] /\ after' \in [Threads -> {"create", "failed", "free"}]
    BY <1>0, <1>1 DEF CreateClient
  <2>2. clients' \in 0 .. MaxClients /\ moduleHandle' \in 0 .. MaxClients
    BY <1>1 DEF CreateClient
  <2>3. clients < MaxClients => clients + 1 \in 1 .. MaxClients
    OBVIOUS
  <2>4. alive' \subseteq 1 .. MaxClients
    BY <1>1, <2>3 DEF CreateClient
  <2>5. counter' \in Counts
    BY <1>1 DEF CreateClient, NoCount, Counts
  <2> QED
    BY <1>1, <2>1, <2>2, <2>3, <2>4, <2>5 DEF CreateClient
<1>2. ASSUME NEW t \in Initialisers, SetOptions(t) PROVE TypeOK'
  <2>1. pc' \in [Threads -> Locations] /\ after' \in [Threads -> {"create", "failed", "free"}]
    BY <1>0, <1>2 DEF SetOptions
  <2>2. callbacks' \subseteq {"status", "twin"}
    BY <1>2 DEF SetOptions
  <2> QED
    BY <1>2, <2>1, <2>2 DEF SetOptions
<1>3. ASSUME NEW t \in Initialisers, SetTwinCallback(t) PROVE TypeOK'
  <2>1. pc' \in [Threads -> Locations] /\ after' \in [Threads -> {"create", "failed", "free"}]
    BY <1>0, <1>3 DEF SetTwinCallback
  <2>2. callbacks' \subseteq {"status", "twin"}
    BY <1>3 DEF SetTwinCallback
  <2> QED
    BY <1>3, <2>1, <2>2 DEF SetTwinCallback
<1>4. ASSUME NEW t \in Initialisers, InitCounter(t) PROVE TypeOK'
  <2>1. pc' \in [Threads -> Locations] /\ after' \in [Threads -> {"create", "failed", "free"}]
    BY <1>0, <1>4 DEF InitCounter
  <2>2. lock' \in Initialisers \cup {NoThread} /\ elapsed' \in 0 .. Polls
    BY <1>4 DEF InitCounter
  <2>3. counterLock' \in BOOLEAN /\ hubInitiated' \in BOOLEAN
    BY <1>4 DEF InitCounter
  <2>4. counter' \in Counts
    BY <1>4 DEF InitCounter, NoCount, Counts
  <2> QED
    BY <1>4, <2>1, <2>2, <2>3, <2>4 DEF InitCounter
<1>5. ASSUME NEW t \in Initialisers, DeinitCounter(t) PROVE TypeOK'
  <2>1. pc' \in [Threads -> Locations] /\ after' \in [Threads -> {"create", "failed", "free"}]
    BY <1>0, <1>5 DEF DeinitCounter, NotInitiated
  <2>2. counterLock' \in BOOLEAN /\ hubInitiated' \in BOOLEAN
    BY <1>5 DEF DeinitCounter, NotInitiated
  <2> QED
    BY <1>5, <2>1, <2>2 DEF DeinitCounter, NotInitiated
<1>6. ASSUME NEW t \in Initialisers, DestroyClient(t) PROVE TypeOK'
  BY <1>0, <1>6 DEF DestroyClient, RemoveClient
<1>7. ASSUME NEW t \in Initialisers, InitFailed(t) PROVE TypeOK'
  BY <1>0, <1>7 DEF InitFailed
<1>8. ASSUME NEW t \in Initialisers, Poll(t) PROVE TypeOK'
  <2>1. pc' \in [Threads -> Locations] /\ after' \in [Threads -> {"create", "failed", "free"}]
    BY <1>0, <1>8 DEF Poll
  <2>2. elapsed' \in 0 .. Polls
    BY <1>8 DEF Poll, TimeLeft
  <2> QED
    BY <1>8, <2>1, <2>2 DEF Poll
<1>9. ASSUME NEW t \in Initialisers, Verdict(t) PROVE TypeOK'
  BY <1>0, <1>9 DEF Verdict, Connected
<1>10. CASE SendMessageAsync
  BY <1>0, <1>10 DEF SendMessageAsync
<1>11. CASE SendLock
  BY <1>0, <1>11 DEF SendLock
<1>12. CASE SendTest
  BY <1>0, <1>12 DEF SendTest
<1>13. CASE Renew
  <2>1. pc' \in [Threads -> Locations] /\ after' \in [Threads -> {"create", "failed", "free"}]
    BY <1>0, <1>13 DEF Renew, AfterFailedRenewal
  <2>2. renewals' \in 0 .. MaxClients
    BY <1>13 DEF Renew, AfterFailedRenewal, Handle, Bounds
  <2> QED
    BY <1>13, <2>1, <2>2 DEF Renew, AfterFailedRenewal
<1>14. CASE SendEventAsync
  <2>1. pc' \in [Threads -> Locations] /\ after' \in [Threads -> {"create", "failed", "free"}]
    BY <1>0, <1>14 DEF SendEventAsync
  <2>2. accepted' \in 0 .. MaxMessages /\ inFlight' \in 0 .. MaxMessages
    BY <1>14 DEF SendEventAsync, Bounds
  <2> QED
    BY <1>14, <2>1, <2>2 DEF SendEventAsync
<1>15. CASE CountSmall
  <2>1. pc' \in [Threads -> Locations] /\ after' \in [Threads -> {"create", "failed", "free"}]
    BY <1>0, <1>15 DEF CountSmall, IncreaseBy
  <2>2. counter' \in Counts /\ counterLock' = counterLock
    BY <1>15, Increased DEF CountSmall, IncreaseBy
  <2> QED
    BY <1>15, <2>1, <2>2 DEF CountSmall, IncreaseBy
<1>16. CASE CountSent
  <2>1. pc' \in [Threads -> Locations] /\ after' \in [Threads -> {"create", "failed", "free"}]
    BY <1>0, <1>16 DEF CountSent, IncreaseBy
  <2>2. counter' \in Counts /\ counterLock' = counterLock
    BY <1>16, Increased DEF CountSent, IncreaseBy
  <2> QED
    BY <1>16, <2>1, <2>2 DEF CountSent, IncreaseBy
<1>17. CASE SendUnlock
  BY <1>0, <1>17 DEF SendUnlock
<1>18. CASE SetReportedPropertiesAsync
  BY <1>0, <1>18 DEF SetReportedPropertiesAsync
<1>19. CASE SendReportedState
  BY <1>0, <1>19 DEF SendReportedState
<1>20. CASE SnapshotLock
  BY <1>0, <1>20 DEF SnapshotLock
<1>21. CASE Snapshot
  <2>1. pc' \in [Threads -> Locations] /\ after' \in [Threads -> {"create", "failed", "free"}]
    BY <1>0, <1>21 DEF Snapshot, ResetCounter
  <2>2. counter' \in Counts
    BY <1>21 DEF Snapshot, ResetCounter, NoCount, Counts
  <2>3. reported' \in Counts
    BY <1>21, Reported DEF Snapshot, ResetCounter
  <2> QED
    BY <1>21, <2>1, <2>2, <2>3 DEF Snapshot, ResetCounter
<1>22. CASE StatusReason
  BY <1>0, <1>22 DEF StatusReason, Calls
<1>23. CASE StatusConnected
  BY <1>0, <1>23 DEF StatusConnected
<1>24. CASE TwinPush
  BY <1>0, <1>24 DEF TwinPush, TwinDropped, TwinItems, Calls
<1>25. CASE TwinPushed
  BY <1>0, <1>25 DEF TwinPushed
<1>26. CASE SendConfirm
  <2>1. pc' \in [Threads -> Locations] /\ after' \in [Threads -> {"create", "failed", "free"}]
    BY <1>0, <1>26 DEF SendConfirm, IncreaseBy
  <2>2. counter' \in Counts /\ counterLock' = counterLock
    BY <1>26, Increased DEF SendConfirm, IncreaseBy
  <2>3. inFlight' \in 0 .. MaxMessages /\ failures' \in 0 .. MaxMessages
    BY <1>26 DEF SendConfirm, IncreaseBy, Bounds
  <2> QED
    BY <1>26, <2>1, <2>2, <2>3 DEF SendConfirm, IncreaseBy
<1>27. CASE Stop
  BY <1>0, <1>27 DEF Stop, TasksJoined
<1>28. CASE DeinitLock
  BY <1>0, <1>28 DEF DeinitLock
<1>29. CASE DeinitUnlock
  BY <1>0, <1>29 DEF DeinitUnlock
<1>30. CASE UNCHANGED vars
  BY <1>0, <1>30 DEF vars
<1> QED
  BY <1>1, <1>2, <1>3, <1>4, <1>5, <1>6, <1>7, <1>8, <1>9, <1>10, <1>11,
     <1>12, <1>13, <1>14, <1>15, <1>16, <1>17, <1>18, <1>19, <1>20, <1>21,
     <1>22, <1>23, <1>24, <1>25, <1>26, <1>27, <1>28, <1>29, <1>30 DEF Next,
     Initialise, Send, Callback, Terminated

-----------------------------------------------------------------------------
(***************************************************************************)
(* The invariant of the adapter holds in every state.                      *)
(***************************************************************************)
LEMMA InvCorrect == Spec => []Inv
<1>1. Inv /\ [Next]_vars => Inv'
  BY TypeStep, ControlStep, HandleStep, UnrenewedStep, TwinStep, FreshStep, CountedStep,
     BoundsStep DEF Inv
<1> QED
  BY InitInv, <1>1, PTL DEF Spec

(***************************************************************************)
(* The adapter's fields keep their types, Connect never polls past its     *)
(* timeout, and no more failures are confirmed than messages accepted.     *)
(***************************************************************************)
THEOREM TypeCorrect == Spec => []TypeOK
<1>1. Inv => TypeOK
  BY DEF Inv
<1> QED
  BY InvCorrect, <1>1, PTL

(***************************************************************************)
(* Renewals may fail anywhere: the flag is set only over a client that     *)
(* exists, a message is handed only to such a client, and no client is     *)
(* leaked.                                                                 *)
(***************************************************************************)
THEOREM HandleCorrect == Spec => []HandleTruthful
<1>1. Inv => HandleTruthful
  BY DEF Inv, Handle, HandleTruthful, At, Connecting, Counting, Initialisers
<1> QED
  BY InvCorrect, <1>1, PTL

(***************************************************************************)
(* The unlocked threads are safe until the publisher renews the            *)
(* connection string: nothing else takes the client or the counter away    *)
(* while they run.                                                         *)
(***************************************************************************)
THEOREM DanglingCorrect == Spec => []DanglingOnlyAfterRenewal
<1>1. Inv => DanglingOnlyAfterRenewal
  <2> SUFFICES ASSUME Inv, renewals = 0
               PROVE  /\ pc["updater"] = "report" => reportHandle \in alive
                      /\ pc["monitor"] = "snapshot" => counterLock
                      /\ \A t \in Initialisers : pc[t] = "destroy" => moduleHandle \in alive
    BY DEF DanglingOnlyAfterRenewal, At
  <2>1. pc["main"] = "up" => moduleHandle \in alive /\ counterLock
    BY DEF Inv, Unrenewed, Handle
  <2>2. pc["updater"] = "report" \/ pc["monitor"] = "snapshot" => pc["main"] = "up"
    BY DEF Inv, Control
  <2>3. \A t \in Initialisers : pc[t] = "destroy" => moduleHandle \in alive
    BY DEF Inv, Unrenewed, Handle, Working, Cleaning, Initialisers
  <2> QED
    BY <2>1, <2>2, <2>3 DEF Inv, Unrenewed
<1> QED
  BY InvCorrect, <1>1, PTL

(***************************************************************************)
(* The tasks start with an item in the twin queue, and with an update      *)
(* unless memory ran out while one was received.                           *)
(***************************************************************************)
THEOREM TwinCorrect == Spec => []ConnectedMeansTwinQueued
<1>1. Inv => ConnectedMeansTwinQueued
  BY DEF Inv, TwinKnown, TwinItems, ConnectedMeansTwinQueued, At
<1> QED
  BY InvCorrect, <1>1, PTL

(***************************************************************************)
(* Three threads count and reset without losing or repeating a message,    *)
(* until a renewal or the shutdown.                                        *)
(***************************************************************************)
THEOREM CountCorrect == Spec => []MessagesCounted
<1>1. Inv => MessagesCounted
  BY DEF Inv
<1> QED
  BY InvCorrect, <1>1, PTL

=============================================================================

------------------------ MODULE AgentLifecycleProofs ------------------------
(***************************************************************************)
(* The agent's start and exit for any number of waiting twin updates: what *)
(* a thread calls is up while it runs, and every thread is joined once.    *)
(***************************************************************************)
EXTENDS AgentLifecycle, TLAPS

-----------------------------------------------------------------------------
(***************************************************************************)
(* The positions of a thread, and of its task, in the steps of the code:   *)
(* SecurityAgent_Wait and SecurityAgent_Deinit have the same order.        *)
(***************************************************************************)
Order(t) == IF t = "publisher" THEN 1 ELSE IF t = "monitor" THEN 2 ELSE 3
StartAt(t) == IF t = "publisher" THEN 4 ELSE IF t = "monitor" THEN 6 ELSE 7
TaskAt(t) == IF t = "publisher" THEN 3 ELSE IF t = "monitor" THEN 5 ELSE 1

Looping == {"test", "task"}
Started(t) ==
    async[t].thread \in Looping /\ async[t].continueRunning
    /\ async[t].state = "started"

(***************************************************************************)
(* A step is one of the function that runs, and only Deinit waits for a    *)
(* thread between two of its steps.                                        *)
(***************************************************************************)
Positions ==
    /\ pc = "init" => step <= 14
    /\ pc = "start" => step <= 7
    /\ pc = "wait" => step <= 3
    /\ joining => pc = "deinit" /\ step <= 3

(***************************************************************************)
(* Which components are up: a beginning of the list of Init, all of them   *)
(* while the agent runs, and an end of the list of Deinit; an update that  *)
(* ran out of memory is the only exception.                                *)
(***************************************************************************)
Components ==
    /\ pc = "init" =>
          \A i \in 1..14 : IF i < step THEN InitSteps[i] \in Live \cup NothingToDeinit
                                     ELSE InitSteps[i] \notin up
    /\ pc \in {"start", "started", "wait"} =>
          \A i \in 1..14 : InitSteps[i] \in Live \cup NothingToDeinit
    /\ pc = "deinit" => \A i \in 4..16 : i < step => DeinitSteps[i] \notin up

(***************************************************************************)
(* Which tasks are up: all but the monitor's are deinitiated in the step   *)
(* of their thread.                                                        *)
(***************************************************************************)
Tasks ==
    \A t \in Threads :
        /\ TaskOf[t] \in up => async[t].taskInitiated \/ t = "monitor"
        /\ pc = "start" /\ TaskAt(t) < step => TaskOf[t] \in up
        /\ pc \in {"started", "wait"} => TaskOf[t] \in up
        /\ pc = "deinit" /\ Order(t) < step => TaskOf[t] \notin up \/ t = "monitor"

(***************************************************************************)
(* What a thread is doing before Deinit, and how often it was joined.      *)
(***************************************************************************)
Working ==
    \A t \in Threads :
        /\ pc = "init" =>
              /\ joins[t] = 0 /\ async[t].thread = "none"
              /\ async[t].state = "created"
        /\ pc = "start" =>
              /\ joins[t] = 0
              /\ async[t].thread = "none" =>
                    step <= StartAt(t) /\ async[t].state = "created"
              /\ async[t].thread # "none" =>
                    /\ async[t].thread \in Looping /\ async[t].continueRunning
                    /\ StartAt(t) <= step
              /\ StartAt(t) < step => async[t].state = "started"
        /\ pc = "started" => joins[t] = 0 /\ Started(t)
        /\ pc = "wait" =>
              /\ joins[t] = IF Order(t) < step THEN 1 ELSE 0
              /\ async[t].thread # "none"
              /\ Order(t) < step => async[t].thread = "ended"
              /\ async[t].state = "started" <=> async[t].thread # "ended"

(***************************************************************************)
(* In Deinit: a thread that is not joined yet is one of a step to come and *)
(* marked as started, or the one that is being joined.                     *)
(***************************************************************************)
Stopping ==
    \A t \in Threads :
        /\ pc = "deinit" =>
              /\ joins[t] \in {0, 1}
              /\ async[t].thread = "none" =>
                    joins[t] = 0 /\ async[t].state = "created"
              /\ joins[t] = 1 =>
                    async[t].thread = "ended" /\ async[t].state # "started"
              /\ async[t].thread # "none" /\ joins[t] = 0 =>
                    /\ step <= Order(t)
                    /\ Started(t) \/ (joining /\ Order(t) = step)
              /\ joining /\ Order(t) = step =>
                    async[t].thread # "none" /\ joins[t] = 0
        /\ pc = "exited" =>
              \/ async[t].thread = "none" /\ joins[t] = 0
              \/ async[t].thread = "ended" /\ joins[t] = 1

(***************************************************************************)
(* While a thread runs everything is up, and its task.                     *)
(***************************************************************************)
AllUp ==
    \A t \in Threads : Running(t) =>
        /\ TaskOf[t] \in up
        /\ \A i \in 1..14 : InitSteps[i] \in Live \cup NothingToDeinit

(***************************************************************************)
(* What a component needs up to and including its own Deinit, which the    *)
(* order of Init and of Deinit respects.  It is not all that the component *)
(* calls: a push asks the twin configuration, which goes down before the   *)
(* queues, but then only their Deinit is left to call.                     *)
(***************************************************************************)
HubNeeds == {"logger", "iothub", "localConfiguration", "twinConfiguration",
             "twinQueue", "diagnosticCollector"}
Callees ==
    [diagnosticCollector |-> {"diagnosticQueue"},
     hubAdapter |-> HubNeeds,
     updaterTask |-> {"twinQueue", "hubAdapter"},
     publisherTask |-> {"hubAdapter"}]
Needs(c) == IF c \in Queues THEN {"memoryMonitor"}
            ELSE IF c \in DOMAIN Callees THEN Callees[c] ELSE {}

Closed == \A c \in up : Needs(c) \subseteq Live

Inv ==
    /\ TypeOK /\ Positions /\ Components /\ Tasks /\ Working /\ Stopping
    /\ AllUp /\ Closed

-----------------------------------------------------------------------------
(***************************************************************************)
(* The lists of the code, step by step.                                    *)
(***************************************************************************)
LEMMA InitNames ==
  /\ Len(InitSteps) = 14
  /\ InitSteps[1] = "logger" /\ InitSteps[2] = "iothub"
  /\ InitSteps[3] = "localConfiguration" /\ InitSteps[4] = "memoryMonitor"
  /\ InitSteps[5] = "twinConfiguration" /\ InitSteps[6] = "realUser"
  /\ InitSteps[7] = "diagnosticQueue" /\ InitSteps[8] = "operationalQueue"
  /\ InitSteps[9] = "highQueue" /\ InitSteps[10] = "lowQueue"
  /\ InitSteps[11] = "twinQueue" /\ InitSteps[12] = "diagnosticCollector"
  /\ InitSteps[13] = "telemetryProvider" /\ InitSteps[14] = "hubAdapter"
BY DEF InitSteps

(***************************************************************************)
(* The steps of SecurityAgent_Start.                                       *)
(***************************************************************************)
LEMMA StartNames ==
  /\ Len(StartSteps) = 7
  /\ StartSteps[1] = "updaterTask" /\ StartSteps[2] = "connect"
  /\ StartSteps[3] = "publisherTask" /\ StartSteps[4] = "publisher"
  /\ StartSteps[5] = "monitorTask" /\ StartSteps[6] = "monitor"
  /\ StartSteps[7] = "updater"
BY DEF StartSteps

(***************************************************************************)
(* The threads in the order in which SecurityAgent_Wait joins them.        *)
(***************************************************************************)
LEMMA WaitNames ==
  /\ Len(WaitSteps) = 3
  /\ WaitSteps[1] = "publisher" /\ WaitSteps[2] = "monitor"
  /\ WaitSteps[3] = "updater"
BY DEF WaitSteps

(***************************************************************************)
(* The steps of SecurityAgent_Deinit.                                      *)
(***************************************************************************)
LEMMA DeinitNames ==
  /\ Len(DeinitSteps) = 16
  /\ DeinitSteps[1] = "publisher" /\ DeinitSteps[2] = "monitor"
  /\ DeinitSteps[3] = "updater" /\ DeinitSteps[4] = "hubAdapter"
  /\ DeinitSteps[5] = "twinConfiguration"
  /\ DeinitSteps[6] = "telemetryProvider"
  /\ DeinitSteps[7] = "diagnosticCollector" /\ DeinitSteps[8] = "highQueue"
  /\ DeinitSteps[9] = "lowQueue" /\ DeinitSteps[10] = "twinQueue"
  /\ DeinitSteps[11] = "operationalQueue"
  /\ DeinitSteps[12] = "diagnosticQueue" /\ DeinitSteps[13] = "memoryMonitor"
  /\ DeinitSteps[14] = "localConfiguration" /\ DeinitSteps[15] = "iothub"
  /\ DeinitSteps[16] = "logger"
BY DEF DeinitSteps

(***************************************************************************)
(* The task of each thread.                                                *)
(***************************************************************************)
LEMMA TaskNames ==
  /\ TaskOf["publisher"] = "publisherTask" /\ TaskOf["monitor"] = "monitorTask"
  /\ TaskOf["updater"] = "updaterTask"
BY DEF TaskOf

(***************************************************************************)
(* The steps that run in each phase.                                       *)
(***************************************************************************)
LEMMA PhaseSteps ==
  /\ pc = "init" => Steps = InitSteps
  /\ pc = "start" => Steps = StartSteps
  /\ pc = "wait" => Steps = WaitSteps
  /\ pc = "deinit" => Steps = DeinitSteps
BY DEF Steps

(***************************************************************************)
(* Where a thread's steps are.                                             *)
(***************************************************************************)
LEMMA AtThread ==
  ASSUME TypeOK, Positions, NEW t \in Threads
  PROVE  /\ At("start", t) <=> pc = "start" /\ step = StartAt(t)
         /\ At("start", TaskOf[t]) <=> pc = "start" /\ step = TaskAt(t)
         /\ At("wait", t) <=> pc = "wait" /\ step = Order(t)
         /\ At("deinit", t) <=> pc = "deinit" /\ step = Order(t)
<1>1. step \in Nat /\ step >= 1 /\ step <= 16 /\ t \in {"publisher", "monitor", "updater"}
  BY DeinitNames DEF TypeOK, Threads
<1>2. pc = "start" => step \in 1..7
  BY <1>1 DEF Positions
<1>3. pc = "wait" => step \in 1..3
  BY <1>1 DEF Positions
<1>4. pc = "deinit" => step \in 1..16
  BY <1>1
<1>5. At("start", t) <=> pc = "start" /\ step = StartAt(t)
  BY <1>1, <1>2, StartNames, PhaseSteps DEF At, StartAt
<1>6. At("start", TaskOf[t]) <=> pc = "start" /\ step = TaskAt(t)
  BY <1>1, <1>2, StartNames, PhaseSteps, TaskNames DEF At, TaskAt
<1>7. At("wait", t) <=> pc = "wait" /\ step = Order(t)
  BY <1>1, <1>3, WaitNames, PhaseSteps DEF At, Order
<1>8. At("deinit", t) <=> pc = "deinit" /\ step = Order(t)
  BY <1>1, <1>4, DeinitNames, PhaseSteps DEF At, Order
<1> QED
  BY <1>5, <1>6, <1>7, <1>8

(***************************************************************************)
(* After the threads come the components.                                  *)
(***************************************************************************)
LEMMA AtComponent ==
  ASSUME TypeOK, Positions, DeinitComponent
  PROVE  /\ pc = "deinit" /\ step \in 4..16 /\ Steps = DeinitSteps /\ ~joining
         /\ DeinitSteps[step] \notin Threads
<1>1. /\ pc = "deinit" /\ Steps = DeinitSteps /\ DeinitSteps[step] \notin Threads
      /\ step \in 1..16
  BY PhaseSteps, DeinitNames DEF DeinitComponent, TypeOK
<1>2. step \notin {1, 2, 3}
  BY <1>1, DeinitNames DEF Threads
<1> QED
  BY <1>1, <1>2 DEF Positions

(***************************************************************************)
(* Where a step leads: to the next one, or out of the function.            *)
(***************************************************************************)
LEMMA Advances ==
  ASSUME NEW phase, Advance(phase)
  PROVE  /\ pc = "init" => IF step = 14 THEN pc' = phase /\ step' = 1
                           ELSE pc' = pc /\ step' = step + 1
         /\ pc = "start" => IF step = 7 THEN pc' = phase /\ step' = 1
                            ELSE pc' = pc /\ step' = step + 1
         /\ pc = "wait" => IF step = 3 THEN pc' = phase /\ step' = 1
                           ELSE pc' = pc /\ step' = step + 1
         /\ pc = "deinit" => IF step = 16 THEN pc' = phase /\ step' = 1
                             ELSE pc' = pc /\ step' = step + 1
<1>1. CASE pc = "init"
  BY <1>1, PhaseSteps, InitNames DEF Advance, Goto
<1>2. CASE pc = "start"
  BY <1>2, PhaseSteps, StartNames DEF Advance, Goto
<1>3. CASE pc = "wait"
  BY <1>3, PhaseSteps, WaitNames DEF Advance, Goto
<1>4. CASE pc = "deinit"
  BY <1>4, PhaseSteps, DeinitNames DEF Advance, Goto
<1> QED
  BY <1>1, <1>2, <1>3, <1>4

(***************************************************************************)
(* The type invariant in parts, one for each group of variables.           *)
(***************************************************************************)
Async == [taskInitiated : BOOLEAN, taskThreadInitiated : BOOLEAN,
          state : {"created", "started", "stopped"}, continueRunning : BOOLEAN,
          thread : {"none", "test", "task", "leaving", "ended"}]

PcType ==
    /\ pc \in {"init", "start", "started", "wait", "deinit", "exited"}
    /\ step \in 1..16 /\ joining \in BOOLEAN

ItemsType == items \in 0..MaxItems /\ dropped \in 0..MaxItems

ThreadsType ==
    /\ async \in [Threads -> Async] /\ joins \in [Threads -> Nat]
    /\ \A t \in Threads : async[t].thread # "none" => async[t].taskThreadInitiated

UpType ==
    up \subseteq Range(InitSteps) \cup Range(TaskOf)
    /\ torn \subseteq {"twinConfiguration"}

(***************************************************************************)
(* The type invariant in four parts.                                       *)
(***************************************************************************)
LEMMA TypeParts == TypeOK <=> PcType /\ ItemsType /\ ThreadsType /\ UpType
BY DeinitNames DEF TypeOK, PcType, ItemsType, ThreadsType, UpType, Async

(***************************************************************************)
(* An update takes nothing down but the twin configuration, and records    *)
(* that it did.                                                            *)
(***************************************************************************)
LEMMA Updates ==
  ASSUME UpType, ExecuteUpdate
  PROVE  /\ up' \subseteq up /\ Live \subseteq Live'
         /\ up \ {"twinConfiguration"} \subseteq up'
         /\ items' = Popped(items) /\ torn' \subseteq {"twinConfiguration"}
BY DEF UpType, ExecuteUpdate, Live

(***************************************************************************)
(* Of the threads only the updater has an update to execute.               *)
(***************************************************************************)
LEMMA RunTaskUp ==
  ASSUME UpType, NEW t \in Threads, RunTask(t)
  PROVE  /\ up' \subseteq up /\ Live \subseteq Live'
         /\ up \ {"twinConfiguration"} \subseteq up'
         /\ items' = items \/ items' = Popped(items)
         /\ torn' \subseteq {"twinConfiguration"}
<1>1. CASE t = "updater"
  BY <1>1, Updates DEF RunTask
<1>2. CASE t # "updater"
  BY <1>2 DEF RunTask, Live, UpType
<1> QED
  BY <1>1, <1>2

(***************************************************************************)
(* The position is one of the running function.                            *)
(***************************************************************************)
LEMMA PositionsStep == Inv /\ [Next]_vars => (PcType /\ Positions)'
<1> SUFFICES ASSUME Inv, [Next]_vars PROVE (PcType /\ Positions)'
  OBVIOUS
<1> USE TypeParts, DeinitNames DEF Inv, TypeOK, PcType, Positions, Goto, Order
<1>1. CASE InitStep
  BY <1>1, AtThread, Advances DEF InitStep
<1>2. CASE InitFails
  BY <1>2 DEF InitFails
<1>3. ASSUME NEW t \in Threads, InitTask(t) PROVE (PcType /\ Positions)'
  BY <1>3, AtThread, Advances DEF InitTask
<1>4. ASSUME NEW t \in Threads, CreateThread(t) PROVE (PcType /\ Positions)'
  BY <1>4 DEF CreateThread
<1>5. ASSUME NEW t \in Threads, MarkStarted(t) PROVE (PcType /\ Positions)'
  BY <1>5, AtThread, Advances DEF MarkStarted
<1>6. CASE ConnectAndUpdateConfiguration
  <2>1. pc = "start" /\ joining' = joining /\ ~joining
    BY <1>6 DEF ConnectAndUpdateConfiguration, At
  <2>2. IF step = 7 THEN pc' = "started" /\ step' = 1
        ELSE pc' = "start" /\ step' = step + 1
    BY <1>6, <2>1, Advances DEF ConnectAndUpdateConfiguration
  <2>3. step \in 1..7
    BY <2>1
  <2> QED
    BY <2>1, <2>2, <2>3
<1>7. CASE StartFails
  BY <1>7 DEF StartFails
<1>8. CASE Wait
  BY <1>8 DEF Wait
<1>9. CASE WaitStop
  BY <1>9 DEF WaitStop, At
<1>10. ASSUME NEW t \in Threads, WaitJoin(t) PROVE (PcType /\ Positions)'
  BY <1>10, AtThread, Advances DEF WaitJoin
<1>11. ASSUME NEW t \in Threads, DeinitStop(t) PROVE (PcType /\ Positions)'
  BY <1>11, AtThread, Advances DEF DeinitStop
<1>12. ASSUME NEW t \in Threads, DeinitTask(t) PROVE (PcType /\ Positions)'
  <2>1. pc = "deinit" /\ step = Order(t) /\ joining' = FALSE
    BY <1>12, AtThread DEF DeinitTask
  <2>2. pc' = "deinit" /\ step' = step + 1 /\ step \in 1..3
    BY <1>12, <2>1, Advances DEF DeinitTask
  <2>3. ~joining' /\ joining' \in BOOLEAN
    BY <2>1
  <2>4. pc' \in {"deinit", "exited"} /\ step' \in 1..16
    BY <2>1, <2>2
  <2> QED
    BY <2>3, <2>4
<1>13. CASE DeinitComponent
  <2>1. pc = "deinit" /\ step \in 4..16 /\ joining' = FALSE
    BY <1>13, AtComponent DEF DeinitComponent
  <2>2. IF step = 16 THEN pc' = "exited" /\ step' = 1
        ELSE pc' = pc /\ step' = step + 1
    BY <1>13, <2>1, Advances DEF DeinitComponent
  <2>3. ~joining' /\ joining' \in BOOLEAN
    BY <2>1
  <2>4. pc' \in {"deinit", "exited"} /\ step' \in 1..16
    BY <2>1, <2>2
  <2> QED
    BY <2>3, <2>4
<1>14. CASE Stop
  BY <1>14 DEF Stop
<1>15. ASSUME NEW t \in Threads, TestContinue(t) PROVE (PcType /\ Positions)'
  BY <1>15 DEF TestContinue
<1>16. ASSUME NEW t \in Threads, RunTask(t) PROVE (PcType /\ Positions)'
  BY <1>16 DEF RunTask
<1>17. ASSUME NEW t \in Threads, EndThread(t) PROVE (PcType /\ Positions)'
  BY <1>17 DEF EndThread
<1>18. CASE DeviceTwinCallback
  BY <1>18 DEF DeviceTwinCallback
<1>19. CASE UNCHANGED vars
  BY <1>19 DEF vars
<1> QED
  BY <1>1, <1>2, <1>3, <1>4, <1>5, <1>6, <1>7, <1>8, <1>9, <1>10, <1>11,
     <1>12, <1>13, <1>14, <1>15, <1>16, <1>17, <1>18, <1>19 DEF Next, Main,
     ThreadStep

(***************************************************************************)
(* The twin updates that wait are bounded.                                 *)
(***************************************************************************)
LEMMA ItemsStep == Inv /\ [Next]_vars => ItemsType'
<1> SUFFICES ASSUME Inv, [Next]_vars PROVE ItemsType'
  OBVIOUS
<1> USE TypeParts, LifecycleAssumption DEF Inv, ItemsType, Popped
<1>1. CASE InitStep
  BY <1>1 DEF InitStep
<1>2. CASE InitFails
  BY <1>2 DEF InitFails
<1>3. ASSUME NEW t \in Threads, InitTask(t) PROVE ItemsType'
  BY <1>3 DEF InitTask
<1>4. ASSUME NEW t \in Threads, CreateThread(t) PROVE ItemsType'
  BY <1>4 DEF CreateThread
<1>5. ASSUME NEW t \in Threads, MarkStarted(t) PROVE ItemsType'
  BY <1>5 DEF MarkStarted
<1>6. CASE ConnectAndUpdateConfiguration
  BY <1>6, Updates DEF ConnectAndUpdateConfiguration
<1>7. CASE StartFails
  BY <1>7 DEF StartFails
<1>8. CASE Wait
  BY <1>8 DEF Wait
<1>9. CASE WaitStop
  BY <1>9 DEF WaitStop
<1>10. ASSUME NEW t \in Threads, WaitJoin(t) PROVE ItemsType'
  BY <1>10 DEF WaitJoin
<1>11. ASSUME NEW t \in Threads, DeinitStop(t) PROVE ItemsType'
  BY <1>11 DEF DeinitStop
<1>12. ASSUME NEW t \in Threads, DeinitTask(t) PROVE ItemsType'
  BY <1>12 DEF DeinitTask
<1>13. CASE DeinitComponent
  BY <1>13 DEF DeinitComponent
<1>14. CASE Stop
  BY <1>14 DEF Stop
<1>15. ASSUME NEW t \in Threads, TestContinue(t) PROVE ItemsType'
  BY <1>15 DEF TestContinue
<1>16. ASSUME NEW t \in Threads, RunTask(t) PROVE ItemsType'
  <2>1. dropped' = dropped
    BY <1>16 DEF RunTask
  <2> QED
    BY <1>16, <2>1, RunTaskUp
<1>17. ASSUME NEW t \in Threads, EndThread(t) PROVE ItemsType'
  BY <1>17 DEF EndThread
<1>18. CASE DeviceTwinCallback
  BY <1>18 DEF DeviceTwinCallback
<1>19. CASE UNCHANGED vars
  BY <1>19 DEF vars
<1> QED
  BY <1>1, <1>2, <1>3, <1>4, <1>5, <1>6, <1>7, <1>8, <1>9, <1>10, <1>11,
     <1>12, <1>13, <1>14, <1>15, <1>16, <1>17, <1>18, <1>19 DEF Next, Main,
     ThreadStep

(***************************************************************************)
(* What an assignment to the fields of a thread leaves.                    *)
(***************************************************************************)
LEMMA SetThread ==
  ASSUME ThreadsType, NEW t \in Threads, NEW a \in Async,
         async' = [async EXCEPT ![t] = a]
  PROVE  /\ async' \in [Threads -> Async] /\ async'[t] = a
         /\ \A u \in Threads \ {t} : async'[u] = async[u]
BY DEF ThreadsType

(***************************************************************************)
(* The fields that InitTask sets.                                          *)
(***************************************************************************)
LEMMA InitTaskSets ==
  ASSUME ThreadsType, NEW t \in Threads, InitTask(t)
  PROVE  /\ async' \in [Threads -> Async]
         /\ async'[t].taskInitiated = (t # "monitor")
         /\ async'[t].taskThreadInitiated = async[t].taskThreadInitiated
         /\ async'[t].state = async[t].state
         /\ async'[t].continueRunning = async[t].continueRunning
         /\ async'[t].thread = async[t].thread
         /\ \A u \in Threads \ {t} : async'[u] = async[u]
<1> DEFINE a == [async[t] EXCEPT !.taskInitiated = (t # "monitor")]
<1>1. async' = [async EXCEPT ![t] = a]
  BY DEF InitTask
<1>2. async[t] \in Async
  BY DEF ThreadsType
<1>3. a \in Async
  BY <1>2 DEF Async
<1>4. /\ a.taskInitiated = (t # "monitor") /\ a.taskThreadInitiated = async[t].taskThreadInitiated
      /\ a.state = async[t].state /\ a.continueRunning = async[t].continueRunning
      /\ a.thread = async[t].thread
  BY <1>2 DEF Async
<1> HIDE DEF a
<1> QED
  BY <1>1, <1>3, <1>4, SetThread

(***************************************************************************)
(* The fields that CreateThread sets.                                      *)
(***************************************************************************)
LEMMA CreateThreadSets ==
  ASSUME ThreadsType, NEW t \in Threads, CreateThread(t)
  PROVE  /\ async' \in [Threads -> Async]
         /\ async'[t].taskInitiated = async[t].taskInitiated
         /\ async'[t].taskThreadInitiated = TRUE
         /\ async'[t].state = async[t].state
         /\ async'[t].continueRunning = TRUE
         /\ async'[t].thread = "test"
         /\ \A u \in Threads \ {t} : async'[u] = async[u]
<1> DEFINE a == [async[t] EXCEPT !.taskThreadInitiated = TRUE, !.continueRunning = TRUE, !.thread = "test"]
<1>1. async' = [async EXCEPT ![t] = a]
  BY DEF CreateThread
<1>2. async[t] \in Async
  BY DEF ThreadsType
<1>3. a \in Async
  BY <1>2 DEF Async
<1>4. /\ a.taskInitiated = async[t].taskInitiated /\ a.taskThreadInitiated = TRUE
      /\ a.state = async[t].state /\ a.continueRunning = TRUE
      /\ a.thread = "test"
  BY <1>2 DEF Async
<1> HIDE DEF a
<1> QED
  BY <1>1, <1>3, <1>4, SetThread

(***************************************************************************)
(* The fields that MarkStarted sets.                                       *)
(***************************************************************************)
LEMMA MarkStartedSets ==
  ASSUME ThreadsType, NEW t \in Threads, MarkStarted(t)
  PROVE  /\ async' \in [Threads -> Async]
         /\ async'[t].taskInitiated = async[t].taskInitiated
         /\ async'[t].taskThreadInitiated = async[t].taskThreadInitiated
         /\ async'[t].state = "started"
         /\ async'[t].continueRunning = async[t].continueRunning
         /\ async'[t].thread = async[t].thread
         /\ \A u \in Threads \ {t} : async'[u] = async[u]
<1> DEFINE a == [async[t] EXCEPT !.state = "started"]
<1>1. async' = [async EXCEPT ![t] = a]
  BY DEF MarkStarted
<1>2. async[t] \in Async
  BY DEF ThreadsType
<1>3. a \in Async
  BY <1>2 DEF Async
<1>4. /\ a.taskInitiated = async[t].taskInitiated /\ a.taskThreadInitiated = async[t].taskThreadInitiated
      /\ a.state = "started" /\ a.continueRunning = async[t].continueRunning
      /\ a.thread = async[t].thread
  BY <1>2 DEF Async
<1> HIDE DEF a
<1> QED
  BY <1>1, <1>3, <1>4, SetThread

(***************************************************************************)
(* The fields that DeinitStop sets.                                        *)
(***************************************************************************)
LEMMA DeinitStopSets ==
  ASSUME ThreadsType, NEW t \in Threads, DeinitStop(t)
  PROVE  /\ async' \in [Threads -> Async]
         /\ async'[t].taskInitiated = async[t].taskInitiated
         /\ async'[t].taskThreadInitiated = async[t].taskThreadInitiated
         /\ async'[t].state = async[t].state
         /\ async'[t].continueRunning = FALSE
         /\ async'[t].thread = async[t].thread
         /\ \A u \in Threads \ {t} : async'[u] = async[u]
<1> DEFINE a == [async[t] EXCEPT !.continueRunning = FALSE]
<1>1. async' = [async EXCEPT ![t] = a]
  BY DEF DeinitStop, StopThread
<1>2. async[t] \in Async
  BY DEF ThreadsType
<1>3. a \in Async
  BY <1>2 DEF Async
<1>4. /\ a.taskInitiated = async[t].taskInitiated /\ a.taskThreadInitiated = async[t].taskThreadInitiated
      /\ a.state = async[t].state /\ a.continueRunning = FALSE
      /\ a.thread = async[t].thread
  BY <1>2 DEF Async
<1> HIDE DEF a
<1> QED
  BY <1>1, <1>3, <1>4, SetThread

(***************************************************************************)
(* The fields that DeinitTask sets.                                        *)
(***************************************************************************)
LEMMA DeinitTaskSets ==
  ASSUME ThreadsType, NEW t \in Threads, DeinitTask(t)
  PROVE  /\ async' \in [Threads -> Async]
         /\ async'[t].taskInitiated = async[t].taskInitiated
         /\ async'[t].taskThreadInitiated = async[t].taskThreadInitiated
         /\ async'[t].state = "created"
         /\ async'[t].continueRunning = FALSE
         /\ async'[t].thread = async[t].thread
         /\ \A u \in Threads \ {t} : async'[u] = async[u]
<1> DEFINE a == [async[t] EXCEPT !.state = "created", !.continueRunning = FALSE]
<1>1. async' = [async EXCEPT ![t] = a]
  BY DEF DeinitTask
<1>2. async[t] \in Async
  BY DEF ThreadsType
<1>3. a \in Async
  BY <1>2 DEF Async
<1>4. /\ a.taskInitiated = async[t].taskInitiated /\ a.taskThreadInitiated = async[t].taskThreadInitiated
      /\ a.state = "created" /\ a.continueRunning = FALSE
      /\ a.thread = async[t].thread
  BY <1>2 DEF Async
<1> HIDE DEF a
<1> QED
  BY <1>1, <1>3, <1>4, SetThread

(***************************************************************************)
(* The fields that RunTask sets.                                           *)
(***************************************************************************)
LEMMA RunTaskSets ==
  ASSUME ThreadsType, NEW t \in Threads, RunTask(t)
  PROVE  /\ async' \in [Threads -> Async]
         /\ async'[t].taskInitiated = async[t].taskInitiated
         /\ async'[t].taskThreadInitiated = async[t].taskThreadInitiated
         /\ async'[t].state = async[t].state
         /\ async'[t].continueRunning = async[t].continueRunning
         /\ async'[t].thread = "test"
         /\ \A u \in Threads \ {t} : async'[u] = async[u]
<1> DEFINE a == [async[t] EXCEPT !.thread = "test"]
<1>1. async' = [async EXCEPT ![t] = a]
  BY DEF RunTask, Move
<1>2. async[t] \in Async
  BY DEF ThreadsType
<1>3. a \in Async
  BY <1>2 DEF Async
<1>4. /\ a.taskInitiated = async[t].taskInitiated /\ a.taskThreadInitiated = async[t].taskThreadInitiated
      /\ a.state = async[t].state /\ a.continueRunning = async[t].continueRunning
      /\ a.thread = "test"
  BY <1>2 DEF Async
<1> HIDE DEF a
<1> QED
  BY <1>1, <1>3, <1>4, SetThread

(***************************************************************************)
(* The fields that EndThread sets.                                         *)
(***************************************************************************)
LEMMA EndThreadSets ==
  ASSUME ThreadsType, NEW t \in Threads, EndThread(t)
  PROVE  /\ async' \in [Threads -> Async]
         /\ async'[t].taskInitiated = async[t].taskInitiated
         /\ async'[t].taskThreadInitiated = async[t].taskThreadInitiated
         /\ async'[t].state = "stopped"
         /\ async'[t].continueRunning = async[t].continueRunning
         /\ async'[t].thread = "ended"
         /\ \A u \in Threads \ {t} : async'[u] = async[u]
<1> DEFINE a == [async[t] EXCEPT !.state = "stopped", !.thread = "ended"]
<1>1. async' = [async EXCEPT ![t] = a]
  BY DEF EndThread, StateAtEnd
<1>2. async[t] \in Async
  BY DEF ThreadsType
<1>3. a \in Async
  BY <1>2 DEF Async
<1>4. /\ a.taskInitiated = async[t].taskInitiated /\ a.taskThreadInitiated = async[t].taskThreadInitiated
      /\ a.state = "stopped" /\ a.continueRunning = async[t].continueRunning
      /\ a.thread = "ended"
  BY <1>2 DEF Async
<1> HIDE DEF a
<1> QED
  BY <1>1, <1>3, <1>4, SetThread

(***************************************************************************)
(* TestContinue moves a thread into its task, or out of its loop.          *)
(***************************************************************************)
LEMMA TestContinueSets ==
  ASSUME ThreadsType, NEW t \in Threads, TestContinue(t)
  PROVE  /\ async' \in [Threads -> Async] /\ async[t].thread = "test"
         /\ async'[t].thread = IF async[t].continueRunning THEN "task" ELSE "leaving"
         /\ async'[t].taskInitiated = async[t].taskInitiated
         /\ async'[t].taskThreadInitiated = async[t].taskThreadInitiated
         /\ async'[t].state = async[t].state
         /\ async'[t].continueRunning = async[t].continueRunning
         /\ \A u \in Threads \ {t} : async'[u] = async[u]
<1> DEFINE to == IF async[t].continueRunning THEN "task" ELSE "leaving"
           a == [async[t] EXCEPT !.thread = to]
<1>1. async' = [async EXCEPT ![t] = a] /\ async[t].thread = "test"
  BY DEF TestContinue, Move
<1>2. async[t] \in Async /\ to \in {"task", "leaving"}
  BY DEF ThreadsType
<1> HIDE DEF to
<1>3. a \in Async
  BY <1>2 DEF Async
<1>4. /\ a.taskInitiated = async[t].taskInitiated /\ a.thread = to
      /\ a.taskThreadInitiated = async[t].taskThreadInitiated
      /\ a.state = async[t].state /\ a.continueRunning = async[t].continueRunning
  BY <1>2 DEF Async
<1> HIDE DEF a
<1> QED
  BY <1>1, <1>3, <1>4, SetThread DEF to

(***************************************************************************)
(* SchedulerThread_Stop changes continueRunning and nothing else.          *)
(***************************************************************************)
LEMMA StopThreadSets ==
  ASSUME NEW a \in Async
  PROVE  /\ StopThread(a) \in Async /\ StopThread(a).thread = a.thread
         /\ StopThread(a).state = a.state
         /\ StopThread(a).taskInitiated = a.taskInitiated
         /\ StopThread(a).taskThreadInitiated = a.taskThreadInitiated
BY DEF StopThread, Async

(***************************************************************************)
(* Stop and WaitStop tell threads to stop; they change nothing else of     *)
(* any thread.                                                             *)
(***************************************************************************)
LEMMA StopSets ==
  ASSUME ThreadsType, Stop \/ WaitStop
  PROVE  /\ async' \in [Threads -> Async]
         /\ \A u \in Threads :
               /\ async'[u].thread = async[u].thread
               /\ async'[u].state = async[u].state
               /\ async'[u].taskInitiated = async[u].taskInitiated
               /\ async'[u].taskThreadInitiated = async[u].taskThreadInitiated
<1>1. \A u \in Threads : async[u] \in Async
  BY DEF ThreadsType
<1>2. CASE Stop
  <2>1. async' = [t \in Threads |-> IF t \in Stops THEN StopThread(async[t])
                                    ELSE async[t]]
    BY <1>2 DEF Stop
  <2> QED
    BY <1>1, <2>1, StopThreadSets
<1>3. CASE WaitStop
  <2>1. async' = [async EXCEPT !["updater"] = StopThread(async["updater"])]
    BY <1>3 DEF WaitStop
  <2>2. "updater" \in Threads
    BY DEF Threads
  <2>3. StopThread(async["updater"]) \in Async
    BY <1>1, <2>2, StopThreadSets
  <2> QED
    BY <1>1, <2>1, <2>2, <2>3, StopThreadSets, SetThread
<1> QED
  BY <1>2, <1>3

(***************************************************************************)
(* A step of Start that fails has created no thread of its own; its        *)
(* scheduler may be initiated.                                             *)
(***************************************************************************)
LEMMA StartFailsSets ==
  ASSUME TypeOK, Positions, ThreadsType, StartFails
  PROVE  /\ pc = "start" /\ pc' = "deinit" /\ step' = 1
         /\ async' \in [Threads -> Async]
         /\ \A u \in Threads :
               /\ async'[u].thread = async[u].thread
               /\ async'[u].state = async[u].state
               /\ async'[u].taskInitiated = async[u].taskInitiated
               /\ async[u].taskThreadInitiated => async'[u].taskThreadInitiated
               /\ async[u].continueRunning => async'[u].continueRunning
               /\ step = StartAt(u) => async[u].thread = "none"
<1> DEFINE n == StartSteps[step]
           a == [async[n] EXCEPT !.taskThreadInitiated = TRUE, !.continueRunning = TRUE]
<1>1. pc = "start" /\ pc' = "deinit" /\ step' = 1 /\ Steps = StartSteps
  BY PhaseSteps DEF StartFails, Goto
<1>2. /\ n \in Threads => async[n].thread = "none"
      /\ async' = IF n \in Threads THEN [async EXCEPT ![n] = a] ELSE async
  BY <1>1 DEF StartFails
<1>3. \A u \in Threads : step = StartAt(u) => n = u
  BY StartNames DEF Threads, StartAt
<1>4. \A u \in Threads : async[u] \in Async
  BY DEF ThreadsType
<1> HIDE DEF n
<1>5. n \in Threads => /\ a \in Async /\ a.taskThreadInitiated /\ a.continueRunning
                       /\ a.thread = async[n].thread /\ a.state = async[n].state
                       /\ a.taskInitiated = async[n].taskInitiated
  BY <1>4 DEF Async
<1> HIDE DEF a
<1>6. CASE n \in Threads
  BY <1>1, <1>2, <1>3, <1>5, <1>6, SetThread
<1>7. CASE n \notin Threads
  BY <1>1, <1>2, <1>3, <1>7 DEF ThreadsType
<1> QED
  BY <1>6, <1>7

(***************************************************************************)
(* The threads keep their types.                                           *)
(***************************************************************************)
LEMMA ThreadsTypeStep == Inv /\ [Next]_vars => ThreadsType'
<1> SUFFICES ASSUME Inv, [Next]_vars PROVE ThreadsType'
  OBVIOUS
<1> USE TypeParts DEF Inv, ThreadsType
<1>1. CASE InitStep
  BY <1>1 DEF InitStep
<1>2. CASE InitFails
  BY <1>2 DEF InitFails
<1>3. ASSUME NEW t \in Threads, InitTask(t) PROVE ThreadsType'
  BY <1>3, InitTaskSets DEF InitTask
<1>4. ASSUME NEW t \in Threads, CreateThread(t) PROVE ThreadsType'
  BY <1>4, CreateThreadSets DEF CreateThread
<1>5. ASSUME NEW t \in Threads, MarkStarted(t) PROVE ThreadsType'
  BY <1>5, MarkStartedSets DEF MarkStarted
<1>6. CASE ConnectAndUpdateConfiguration
  BY <1>6 DEF ConnectAndUpdateConfiguration
<1>7. CASE StartFails
  BY <1>7, StartFailsSets DEF StartFails
<1>8. CASE Wait
  BY <1>8 DEF Wait
<1>9. CASE WaitStop
  BY <1>9, StopSets DEF WaitStop
<1>10. ASSUME NEW t \in Threads, WaitJoin(t) PROVE ThreadsType'
  BY <1>10 DEF WaitJoin, Joined
<1>11. ASSUME NEW t \in Threads, DeinitStop(t) PROVE ThreadsType'
  BY <1>11, DeinitStopSets DEF DeinitStop
<1>12. ASSUME NEW t \in Threads, DeinitTask(t) PROVE ThreadsType'
  <2>1. joins' \in [Threads -> Nat]
    BY <1>12 DEF DeinitTask
  <2> QED
    BY <1>12, <2>1, DeinitTaskSets
<1>13. CASE DeinitComponent
  BY <1>13 DEF DeinitComponent
<1>14. CASE Stop
  BY <1>14, StopSets DEF Stop
<1>15. ASSUME NEW t \in Threads, TestContinue(t) PROVE ThreadsType'
  BY <1>15, TestContinueSets DEF TestContinue
<1>16. ASSUME NEW t \in Threads, RunTask(t) PROVE ThreadsType'
  BY <1>16, RunTaskSets DEF RunTask, Move
<1>17. ASSUME NEW t \in Threads, EndThread(t) PROVE ThreadsType'
  BY <1>17, EndThreadSets DEF EndThread
<1>18. CASE DeviceTwinCallback
  BY <1>18 DEF DeviceTwinCallback
<1>19. CASE UNCHANGED vars
  BY <1>19 DEF vars
<1> QED
  BY <1>1, <1>2, <1>3, <1>4, <1>5, <1>6, <1>7, <1>8, <1>9, <1>10, <1>11,
     <1>12, <1>13, <1>14, <1>15, <1>16, <1>17, <1>18, <1>19 DEF Next, Main,
     ThreadStep

(***************************************************************************)
(* Only components and tasks are up.                                       *)
(***************************************************************************)
LEMMA UpTypeStep == Inv /\ [Next]_vars => UpType'
<1> SUFFICES ASSUME Inv, [Next]_vars PROVE UpType'
  OBVIOUS
<1> USE TypeParts DEF Inv, UpType
<1>1. CASE InitStep
  <2>1. Steps[step] \in Range(InitSteps)
    <3>1. Steps = InitSteps /\ step \in 1..14
      BY <1>1, PhaseSteps DEF InitStep, PcType, Positions
    <3>2. DOMAIN InitSteps = 1..14
      BY DEF InitSteps
    <3> QED
      BY <3>1, <3>2 DEF Range
  <2> QED
    BY <1>1, <2>1 DEF InitStep
<1>2. CASE InitFails
  BY <1>2 DEF InitFails
<1>3. ASSUME NEW t \in Threads, InitTask(t) PROVE UpType'
  <2>1. TaskOf[t] \in Range(TaskOf)
    BY DEF Range, TaskOf, Threads
  <2> QED
    BY <1>3, <2>1 DEF InitTask
<1>4. ASSUME NEW t \in Threads, CreateThread(t) PROVE UpType'
  BY <1>4 DEF CreateThread
<1>5. ASSUME NEW t \in Threads, MarkStarted(t) PROVE UpType'
  BY <1>5 DEF MarkStarted
<1>6. CASE ConnectAndUpdateConfiguration
  BY <1>6, Updates DEF ConnectAndUpdateConfiguration
<1>7. CASE StartFails
  BY <1>7 DEF StartFails
<1>8. CASE Wait
  BY <1>8 DEF Wait
<1>9. CASE WaitStop
  BY <1>9 DEF WaitStop
<1>10. ASSUME NEW t \in Threads, WaitJoin(t) PROVE UpType'
  BY <1>10 DEF WaitJoin
<1>11. ASSUME NEW t \in Threads, DeinitStop(t) PROVE UpType'
  BY <1>11 DEF DeinitStop
<1>12. ASSUME NEW t \in Threads, DeinitTask(t) PROVE UpType'
  BY <1>12 DEF DeinitTask
<1>13. CASE DeinitComponent
  BY <1>13 DEF DeinitComponent
<1>14. CASE Stop
  BY <1>14 DEF Stop
<1>15. ASSUME NEW t \in Threads, TestContinue(t) PROVE UpType'
  BY <1>15 DEF TestContinue
<1>16. ASSUME NEW t \in Threads, RunTask(t) PROVE UpType'
  BY <1>16, RunTaskUp
<1>17. ASSUME NEW t \in Threads, EndThread(t) PROVE UpType'
  BY <1>17 DEF EndThread
<1>18. CASE DeviceTwinCallback
  BY <1>18 DEF DeviceTwinCallback
<1>19. CASE UNCHANGED vars
  BY <1>19 DEF vars
<1> QED
  BY <1>1, <1>2, <1>3, <1>4, <1>5, <1>6, <1>7, <1>8, <1>9, <1>10, <1>11,
     <1>12, <1>13, <1>14, <1>15, <1>16, <1>17, <1>18, <1>19 DEF Next, Main,
     ThreadStep

(***************************************************************************)
(* Types are kept by every step.                                           *)
(***************************************************************************)
LEMMA TypeStep == Inv /\ [Next]_vars => TypeOK' /\ Positions'
<1>1. Inv /\ [Next]_vars => PcType' /\ ItemsType' /\ ThreadsType' /\ UpType' /\ Positions'
  BY PositionsStep, ItemsStep, ThreadsTypeStep, UpTypeStep
<1> QED
  BY <1>1, DeinitNames DEF TypeOK, PcType, ItemsType, ThreadsType, UpType, Async

(***************************************************************************)
(* The components go up and down in the order of the lists.                *)
(***************************************************************************)
LEMMA ComponentsStep == Inv /\ [Next]_vars => Components'
<1> SUFFICES ASSUME Inv, [Next]_vars PROVE Components'
  OBVIOUS
<1> USE TypeParts DEF Inv, Components, Live, PcType, Positions, Goto
<1>1. CASE InitStep
  <2>1. /\ pc = "init" /\ step \in 1..14 /\ Steps = InitSteps
        /\ up' = up \cup ({InitSteps[step]} \ NothingToDeinit) /\ torn' = torn
    BY <1>1, PhaseSteps DEF InitStep, PcType, Positions
  <2>2. IF step = 14 THEN pc' = "start" /\ step' = 1
        ELSE pc' = "init" /\ step' = step + 1
    BY <1>1, <2>1, Advances DEF InitStep
  <2>3. \A i, j \in 1..14 : InitSteps[i] = InitSteps[j] => i = j
    BY InitNames
  <2> QED
    BY <2>1, <2>2, <2>3
<1>2. CASE InitFails
  BY <1>2 DEF InitFails
<1>3. ASSUME NEW t \in Threads, InitTask(t) PROVE Components'
  <2>1. pc = "start" /\ Live \subseteq Live'
    BY <1>3 DEF InitTask, At
  <2>2. IF step = 7 THEN pc' = "started" /\ step' = 1
        ELSE pc' = "start" /\ step' = step + 1
    BY <1>3, <2>1, Advances DEF InitTask
  <2> QED
    BY <2>1, <2>2
<1>4. ASSUME NEW t \in Threads, CreateThread(t) PROVE Components'
  BY <1>4 DEF CreateThread
<1>5. ASSUME NEW t \in Threads, MarkStarted(t) PROVE Components'
  <2>1. pc = "start" /\ Live \subseteq Live' /\ up' \subseteq up
    BY <1>5 DEF MarkStarted, At
  <2>2. IF step = 7 THEN pc' = "started" /\ step' = 1
        ELSE pc' = "start" /\ step' = step + 1
    BY <1>5, <2>1, Advances DEF MarkStarted
  <2> QED
    BY <2>1, <2>2
<1>6. CASE ConnectAndUpdateConfiguration
  <2>1. pc = "start" /\ Live \subseteq Live' /\ up' \subseteq up
    BY <1>6, Updates DEF ConnectAndUpdateConfiguration, At
  <2>2. IF step = 7 THEN pc' = "started" /\ step' = 1
        ELSE pc' = "start" /\ step' = step + 1
    BY <1>6, <2>1, Advances DEF ConnectAndUpdateConfiguration
  <2> QED
    BY <2>1, <2>2
<1>7. CASE StartFails
  BY <1>7, StartFailsSets DEF StartFails
<1>8. CASE Wait
  BY <1>8 DEF Wait
<1>9. CASE WaitStop
  BY <1>9 DEF WaitStop, At
<1>10. ASSUME NEW t \in Threads, WaitJoin(t) PROVE Components'
  <2>1. pc = "wait" /\ up' = up /\ torn' = torn
    BY <1>10 DEF WaitJoin, At
  <2>2. \/ pc' = "deinit" /\ step' = 1
        \/ pc' = "wait"
    BY <1>10, <2>1, Advances DEF WaitJoin
  <2> QED
    BY <2>1, <2>2
<1>11. ASSUME NEW t \in Threads, DeinitStop(t) PROVE Components'
  BY <1>11 DEF DeinitStop
<1>12. ASSUME NEW t \in Threads, DeinitTask(t) PROVE Components'
  <2>1. pc = "deinit" /\ step = Order(t) /\ step \in 1..3
    BY <1>12, AtThread DEF DeinitTask, Order
  <2>2. pc' = "deinit" /\ step' = step + 1
    BY <1>12, <2>1, Advances DEF DeinitTask
  <2> QED
    BY <2>1, <2>2
<1>13. CASE DeinitComponent
  <2>1. pc = "deinit" /\ step \in 4..16 /\ up' = up \ {DeinitSteps[step]}
    BY <1>13, AtComponent DEF DeinitComponent
  <2>2. IF step = 16 THEN pc' = "exited" /\ step' = 1
        ELSE pc' = pc /\ step' = step + 1
    BY <1>13, <2>1, Advances DEF DeinitComponent
  <2> QED
    BY <2>1, <2>2
<1>14. CASE Stop
  BY <1>14 DEF Stop
<1>15. ASSUME NEW t \in Threads, TestContinue(t) PROVE Components'
  BY <1>15 DEF TestContinue
<1>16. ASSUME NEW t \in Threads, RunTask(t) PROVE Components'
  <2>1. UNCHANGED <<pc, step>> /\ up' \subseteq up /\ Live \subseteq Live'
    BY <1>16, RunTaskUp DEF RunTask
  <2> QED
    BY <2>1
<1>17. ASSUME NEW t \in Threads, EndThread(t) PROVE Components'
  BY <1>17 DEF EndThread
<1>18. CASE DeviceTwinCallback
  BY <1>18 DEF DeviceTwinCallback
<1>19. CASE UNCHANGED vars
  BY <1>19 DEF vars
<1> QED
  BY <1>1, <1>2, <1>3, <1>4, <1>5, <1>6, <1>7, <1>8, <1>9, <1>10, <1>11,
     <1>12, <1>13, <1>14, <1>15, <1>16, <1>17, <1>18, <1>19 DEF Next, Main,
     ThreadStep

(***************************************************************************)
(* Every thread has a task of its own, which is no component.              *)
(***************************************************************************)
LEMMA TaskDistinct ==
  /\ \A t, u \in Threads : TaskOf[t] = TaskOf[u] => t = u
  /\ \A t \in Threads, i \in 1..14 : TaskOf[t] # InitSteps[i]
  /\ \A t \in Threads, i \in 4..16 : TaskOf[t] # DeinitSteps[i]
<1>1. \A t \in Threads, i \in 1..14 : TaskOf[t] # InitSteps[i]
  BY TaskNames, InitNames DEF Threads
<1>2. \A t \in Threads, i \in 4..16 : TaskOf[t] # DeinitSteps[i]
  BY TaskNames, DeinitNames DEF Threads
<1> QED
  BY <1>1, <1>2, TaskNames DEF Threads

(***************************************************************************)
(* The tasks go up before their threads, and down with them.               *)
(***************************************************************************)
LEMMA TasksStep == Inv /\ [Next]_vars => Tasks'
<1> SUFFICES ASSUME Inv, [Next]_vars PROVE Tasks'
  OBVIOUS
<1> USE TypeParts DEF Inv, Tasks, PcType, Positions, Goto
<1>1. CASE InitStep
  <2>1. /\ pc = "init" /\ step \in 1..14 /\ Steps = InitSteps
        /\ up' = up \cup ({InitSteps[step]} \ NothingToDeinit)
    BY <1>1, PhaseSteps DEF InitStep, PcType, Positions
  <2>2. IF step = 14 THEN pc' = "start" /\ step' = 1
        ELSE pc' = "init" /\ step' = step + 1
    BY <1>1, <2>1, Advances DEF InitStep
  <2>3. \A u \in Threads : TaskOf[u] \in up' <=> TaskOf[u] \in up
    BY <2>1, TaskDistinct
  <2> QED
    BY <1>1, <2>1, <2>2, <2>3 DEF InitStep, TaskAt
<1>2. CASE InitFails
  BY <1>2 DEF InitFails, Order
<1>3. ASSUME NEW t \in Threads, InitTask(t) PROVE Tasks'
  <2>1. pc = "start" /\ up \subseteq up'
    BY <1>3 DEF InitTask, At
  <2>2. IF step = 7 THEN pc' = "started" /\ step' = 1
        ELSE pc' = "start" /\ step' = step + 1
    BY <1>3, <2>1, Advances DEF InitTask
  <2>3. step = TaskAt(t) /\ up' = up \cup {TaskOf[t]}
    BY <1>3, AtThread DEF InitTask
  <2>4. /\ async'[t].taskInitiated = (t # "monitor")
        /\ \A u \in Threads \ {t} : async'[u] = async[u]
    BY <1>3, InitTaskSets
  <2>5. t # "monitor" => async'[t].taskInitiated
    BY <2>4
  <2>6. \A u \in Threads : TaskOf[u] \in up' <=> TaskOf[u] \in up \/ u = t
    BY <2>3, TaskDistinct
  <2>7. \A u \in Threads : u # t /\ TaskAt(u) < step' /\ pc' = "start" => TaskAt(u) < step
    BY <2>2, <2>3 DEF TaskAt, Threads
  <2>8. step # 7
    BY <2>3 DEF TaskAt
  <2> QED
    BY <2>1, <2>2, <2>3, <2>4, <2>5, <2>6, <2>7, <2>8
<1>4. ASSUME NEW t \in Threads, CreateThread(t) PROVE Tasks'
  <2>1. UNCHANGED <<up, pc, step>>
    BY <1>4 DEF CreateThread
  <2>2. \A u \in Threads : async'[u].taskInitiated = async[u].taskInitiated
    BY <1>4, CreateThreadSets
  <2> QED
    BY <2>1, <2>2
<1>5. ASSUME NEW t \in Threads, MarkStarted(t) PROVE Tasks'
  <2>1. pc = "start" /\ up \subseteq up'
    BY <1>5 DEF MarkStarted, At
  <2>2. IF step = 7 THEN pc' = "started" /\ step' = 1
        ELSE pc' = "start" /\ step' = step + 1
    BY <1>5, <2>1, Advances DEF MarkStarted
  <2>3. up' = up /\ \A u \in Threads : async'[u].taskInitiated = async[u].taskInitiated
    BY <1>5, MarkStartedSets DEF MarkStarted
  <2>4. step = StartAt(t)
    BY <1>5, AtThread DEF MarkStarted
  <2>5. \A u \in Threads : TaskAt(u) # step /\ TaskAt(u) < 7
    BY <2>4 DEF TaskAt, StartAt, Threads
  <2>6. \A u \in Threads : TaskAt(u) \in Nat
    BY DEF TaskAt
  <2> QED
    BY <2>1, <2>2, <2>3, <2>5, <2>6
<1>6. CASE ConnectAndUpdateConfiguration
  <2>1. pc = "start"
    BY <1>6 DEF ConnectAndUpdateConfiguration, At
  <2>2. IF step = 7 THEN pc' = "started" /\ step' = 1
        ELSE pc' = "start" /\ step' = step + 1
    BY <1>6, <2>1, Advances DEF ConnectAndUpdateConfiguration
  <2>3. step = 2 /\ async' = async
    BY <1>6, <2>1, StartNames, PhaseSteps DEF ConnectAndUpdateConfiguration, At
  <2>5. \A u \in Threads : TaskOf[u] \in up' <=> TaskOf[u] \in up
    BY <1>6, Updates, TaskNames DEF ConnectAndUpdateConfiguration, Threads
  <2>4. \A u \in Threads : TaskAt(u) # 2 /\ TaskAt(u) \in Nat
    BY DEF TaskAt
  <2> QED
    BY <2>1, <2>2, <2>3, <2>4, <2>5
<1>7. CASE StartFails
  <2>1. up' = up /\ pc' = "deinit" /\ step' = 1
    BY <1>7, StartFailsSets DEF StartFails
  <2>2. \A u \in Threads : async'[u].taskInitiated = async[u].taskInitiated
    BY <1>7, StartFailsSets
  <2> QED
    BY <2>1, <2>2 DEF Order
<1>8. CASE Wait
  BY <1>8 DEF Wait
<1>9. CASE WaitStop
  <2>1. UNCHANGED <<up, pc, step>>
    BY <1>9 DEF WaitStop
  <2>2. \A u \in Threads : async'[u].taskInitiated = async[u].taskInitiated
    BY <1>9, StopSets
  <2> QED
    BY <2>1, <2>2
<1>10. ASSUME NEW t \in Threads, WaitJoin(t) PROVE Tasks'
  <2>1. pc = "wait" /\ up' = up /\ async' = async
    BY <1>10 DEF WaitJoin, At
  <2>2. \/ pc' = "deinit" /\ step' = 1
        \/ pc' = "wait"
    BY <1>10, <2>1, Advances DEF WaitJoin
  <2> QED
    BY <2>1, <2>2 DEF Order
<1>11. ASSUME NEW t \in Threads, DeinitStop(t) PROVE Tasks'
  <2>1. UNCHANGED <<up, pc, step>>
    BY <1>11 DEF DeinitStop
  <2>2. \A u \in Threads : async'[u].taskInitiated = async[u].taskInitiated
    BY <1>11, DeinitStopSets
  <2> QED
    BY <2>1, <2>2
<1>12. ASSUME NEW t \in Threads, DeinitTask(t) PROVE Tasks'
  <2>1. pc = "deinit" /\ step = Order(t) /\ step \in 1..3
    BY <1>12, AtThread DEF DeinitTask, Order
  <2>2. pc' = "deinit" /\ step' = step + 1
    BY <1>12, <2>1, Advances DEF DeinitTask
  <2>3. /\ up' = IF async[t].taskInitiated THEN up \ {TaskOf[t]} ELSE up
        /\ \A u \in Threads : async'[u].taskInitiated = async[u].taskInitiated
    BY <1>12, DeinitTaskSets DEF DeinitTask
  <2>4. \A u \in Threads : u # t /\ Order(u) < step' => Order(u) < step
    BY <2>1, <2>2 DEF Order, Threads
  <2>5. TaskOf[t] \in up => async[t].taskInitiated \/ t = "monitor"
    OBVIOUS
  <2> QED
    BY <2>1, <2>2, <2>3, <2>4, <2>5, TaskDistinct
<1>13. CASE DeinitComponent
  <2>1. pc = "deinit" /\ step \in 4..16 /\ up' = up \ {DeinitSteps[step]}
    BY <1>13, AtComponent DEF DeinitComponent
  <2>2. IF step = 16 THEN pc' = "exited" /\ step' = 1
        ELSE pc' = pc /\ step' = step + 1
    BY <1>13, <2>1, Advances DEF DeinitComponent
  <2>3. async' = async /\ \A u \in Threads : Order(u) < step
    BY <1>13, <2>1 DEF DeinitComponent, Order
  <2> QED
    BY <2>1, <2>2, <2>3
<1>14. CASE Stop
  <2>1. up' = up /\ pc = "started" /\ pc' = "wait"
    BY <1>14 DEF Stop
  <2>2. \A u \in Threads : async'[u].taskInitiated = async[u].taskInitiated
    BY <1>14, StopSets
  <2> QED
    BY <2>1, <2>2
<1>15. ASSUME NEW t \in Threads, TestContinue(t) PROVE Tasks'
  <2>1. UNCHANGED <<up, pc, step>>
    BY <1>15 DEF TestContinue
  <2>2. \A u \in Threads : async'[u].taskInitiated = async[u].taskInitiated
    BY <1>15, TestContinueSets
  <2> QED
    BY <2>1, <2>2
<1>16. ASSUME NEW t \in Threads, RunTask(t) PROVE Tasks'
  <2>1. UNCHANGED <<pc, step>>
    BY <1>16 DEF RunTask
  <2>3. \A u \in Threads : TaskOf[u] \in up' <=> TaskOf[u] \in up
    BY <1>16, RunTaskUp, TaskNames DEF Threads
  <2>2. \A u \in Threads : async'[u].taskInitiated = async[u].taskInitiated
    BY <1>16, RunTaskSets
  <2> QED
    BY <2>1, <2>2, <2>3
<1>17. ASSUME NEW t \in Threads, EndThread(t) PROVE Tasks'
  <2>1. UNCHANGED <<up, pc, step>>
    BY <1>17 DEF EndThread
  <2>2. \A u \in Threads : async'[u].taskInitiated = async[u].taskInitiated
    BY <1>17, EndThreadSets
  <2> QED
    BY <2>1, <2>2
<1>18. CASE DeviceTwinCallback
  BY <1>18 DEF DeviceTwinCallback
<1>19. CASE UNCHANGED vars
  BY <1>19 DEF vars
<1> QED
  BY <1>1, <1>2, <1>3, <1>4, <1>5, <1>6, <1>7, <1>8, <1>9, <1>10, <1>11,
     <1>12, <1>13, <1>14, <1>15, <1>16, <1>17, <1>18, <1>19 DEF Next, Main,
     ThreadStep

(***************************************************************************)
(* The threads before Deinit.                                              *)
(***************************************************************************)
LEMMA WorkingStep == Inv /\ [Next]_vars => Working'
<1> SUFFICES ASSUME Inv, [Next]_vars PROVE Working'
  OBVIOUS
<1> USE TypeParts DEF Inv, Working, PcType, Positions, Goto, Started
<1>1. CASE InitStep
  <2>1. /\ pc = "init" /\ step \in 1..14 /\ Steps = InitSteps
        /\ up' = up \cup ({InitSteps[step]} \ NothingToDeinit)
    BY <1>1, PhaseSteps DEF InitStep, PcType, Positions
  <2>2. IF step = 14 THEN pc' = "start" /\ step' = 1
        ELSE pc' = "init" /\ step' = step + 1
    BY <1>1, <2>1, Advances DEF InitStep
  <2>3. UNCHANGED <<async, joins>> /\ \A u \in Threads : StartAt(u) \in 4..7
    BY <1>1 DEF InitStep, StartAt
  <2> QED
    BY <2>1, <2>2, <2>3
<1>2. CASE InitFails
  BY <1>2 DEF InitFails
<1>3. ASSUME NEW t \in Threads, InitTask(t) PROVE Working'
  <2>1. pc = "start" /\ up \subseteq up'
    BY <1>3 DEF InitTask, At
  <2>2. IF step = 7 THEN pc' = "started" /\ step' = 1
        ELSE pc' = "start" /\ step' = step + 1
    BY <1>3, <2>1, Advances DEF InitTask
  <2>3. /\ joins' = joins
        /\ \A u \in Threads : /\ async'[u].thread = async[u].thread
                               /\ async'[u].state = async[u].state
                               /\ async'[u].continueRunning = async[u].continueRunning
    BY <1>3, InitTaskSets DEF InitTask
  <2>4. step = TaskAt(t)
    BY <1>3, AtThread DEF InitTask
  <2>5. step # 7 /\ \A u \in Threads : StartAt(u) # step /\ StartAt(u) \in Nat
    BY <2>4 DEF TaskAt, StartAt, Threads
  <2> QED
    BY <2>1, <2>2, <2>3, <2>5
<1>4. ASSUME NEW t \in Threads, CreateThread(t) PROVE Working'
  <2>1. UNCHANGED <<pc, step, joins>> /\ pc = "start" /\ step = StartAt(t)
    BY <1>4, AtThread DEF CreateThread
  <2>2. /\ async'[t].thread = "test" /\ async'[t].continueRunning
        /\ \A u \in Threads \ {t} : async'[u] = async[u]
    BY <1>4, CreateThreadSets
  <2> QED
    BY <2>1, <2>2 DEF Looping
<1>5. ASSUME NEW t \in Threads, MarkStarted(t) PROVE Working'
  <2>1. pc = "start" /\ up \subseteq up'
    BY <1>5 DEF MarkStarted, At
  <2>2. IF step = 7 THEN pc' = "started" /\ step' = 1
        ELSE pc' = "start" /\ step' = step + 1
    BY <1>5, <2>1, Advances DEF MarkStarted
  <2>3. step = StartAt(t) /\ joins' = joins /\ async[t].thread # "none"
    BY <1>5, AtThread DEF MarkStarted
  <2>4. /\ async'[t].thread = async[t].thread /\ async'[t].state = "started"
        /\ async'[t].continueRunning = async[t].continueRunning
        /\ \A u \in Threads \ {t} : async'[u] = async[u]
    BY <1>5, MarkStartedSets
  <2>5. \A u \in Threads : StartAt(u) \in 4..7 /\ (u # t => StartAt(u) # step)
    BY <2>3 DEF StartAt, Threads
  <2>6. step = 7 => \A u \in Threads \ {t} : Started(u)
    BY <2>1, <2>5 DEF Started
  <2>7. Started(t)'
    BY <2>1, <2>3, <2>4 DEF Started
  <2>8. step = 7 => \A u \in Threads : Started(u)'
    BY <2>4, <2>6, <2>7 DEF Started
  <2>9. step # 7 => Working'
    BY <2>1, <2>2, <2>3, <2>4, <2>5
  <2> QED
    BY <2>1, <2>2, <2>3, <2>8, <2>9
<1>6. CASE ConnectAndUpdateConfiguration
  <2>1. pc = "start"
    BY <1>6 DEF ConnectAndUpdateConfiguration, At
  <2>2. IF step = 7 THEN pc' = "started" /\ step' = 1
        ELSE pc' = "start" /\ step' = step + 1
    BY <1>6, <2>1, Advances DEF ConnectAndUpdateConfiguration
  <2>3. step = 2 /\ UNCHANGED <<joins, async>>
    BY <1>6, <2>1, StartNames, PhaseSteps DEF ConnectAndUpdateConfiguration, At
  <2>4. \A u \in Threads : StartAt(u) # 2 /\ StartAt(u) \in Nat
    BY DEF StartAt
  <2> QED
    BY <2>1, <2>2, <2>3, <2>4
<1>7. CASE StartFails
  BY <1>7, StartFailsSets
<1>8. CASE Wait
  <2>1. pc = "started" /\ pc' = "wait" /\ step' = 1 /\ UNCHANGED <<async, joins>>
    BY <1>8 DEF Wait
  <2> QED
    BY <2>1 DEF Started, Order, Looping
<1>9. CASE WaitStop
  <2>1. UNCHANGED <<pc, step, joins>> /\ pc = "wait"
    BY <1>9 DEF WaitStop, At
  <2>2. \A u \in Threads : async'[u].thread = async[u].thread /\ async'[u].state = async[u].state
    BY <1>9, StopSets
  <2> QED
    BY <2>1, <2>2
<1>10. ASSUME NEW t \in Threads, WaitJoin(t) PROVE Working'
  <2>1. /\ pc = "wait" /\ async' = async /\ step = Order(t) /\ async[t].thread = "ended"
        /\ joins' = [joins EXCEPT ![t] = joins[t] + 1] /\ step \in 1..3
    BY <1>10, AtThread DEF WaitJoin, Joined, Order
  <2>2. \/ pc' = "deinit"
        \/ pc' = "wait" /\ step' = step + 1
    BY <1>10, <2>1, Advances DEF WaitJoin
  <2>3. \A u \in Threads : Order(u) \in 1..3 /\ (u # t => Order(u) # step)
    BY <2>1 DEF Order, Threads
  <2>4. joins'[t] = joins[t] + 1 /\ \A u \in Threads \ {t} : joins'[u] = joins[u]
    BY <2>1 DEF ThreadsType
  <2> QED
    BY <2>1, <2>2, <2>3, <2>4
<1>11. ASSUME NEW t \in Threads, DeinitStop(t) PROVE Working'
  <2>1. pc = "deinit" /\ pc' \in {"deinit", "exited"}
    BY <1>11, AtThread, Advances DEF DeinitStop
  <2> QED
    BY <2>1
<1>12. ASSUME NEW t \in Threads, DeinitTask(t) PROVE Working'
  <2>1. pc = "deinit" /\ pc' \in {"deinit", "exited"}
    BY <1>12, AtThread, Advances DEF DeinitTask
  <2> QED
    BY <2>1
<1>13. CASE DeinitComponent
  <2>1. pc = "deinit" /\ pc' \in {"deinit", "exited"}
    BY <1>13, Advances DEF DeinitComponent
  <2> QED
    BY <2>1
<1>14. CASE Stop
  <2>1. pc = "started" /\ pc' = "wait" /\ step' = 1 /\ joins' = joins
    BY <1>14 DEF Stop
  <2>2. \A u \in Threads : async'[u].thread = async[u].thread /\ async'[u].state = async[u].state
    BY <1>14, StopSets
  <2> QED
    BY <2>1, <2>2 DEF Started, Order, Looping
<1>15. ASSUME NEW t \in Threads, TestContinue(t) PROVE Working'
  <2>1. UNCHANGED <<pc, step, joins>>
    BY <1>15 DEF TestContinue
  <2>2. /\ async[t].thread = "test" /\ async'[t].state = async[t].state
        /\ async'[t].thread = IF async[t].continueRunning THEN "task" ELSE "leaving"
        /\ async'[t].continueRunning = async[t].continueRunning
        /\ \A u \in Threads \ {t} : async'[u] = async[u]
    BY <1>15, TestContinueSets
  <2> QED
    BY <2>1, <2>2 DEF Started, Looping
<1>16. ASSUME NEW t \in Threads, RunTask(t) PROVE Working'
  <2>1. UNCHANGED <<pc, step, joins>> /\ async[t].thread = "task"
    BY <1>16 DEF RunTask, Move
  <2>2. /\ async'[t].thread = "test" /\ async'[t].state = async[t].state
        /\ async'[t].continueRunning = async[t].continueRunning
        /\ \A u \in Threads \ {t} : async'[u] = async[u]
    BY <1>16, RunTaskSets
  <2> QED
    BY <2>1, <2>2 DEF Started, Looping
<1>17. ASSUME NEW t \in Threads, EndThread(t) PROVE Working'
  <2>1. UNCHANGED <<pc, step, joins>> /\ async[t].thread = "leaving"
    BY <1>17 DEF EndThread
  <2>2. /\ async'[t].thread = "ended" /\ async'[t].state = "stopped"
        /\ \A u \in Threads \ {t} : async'[u] = async[u]
    BY <1>17, EndThreadSets
  <2> QED
    BY <2>1, <2>2 DEF Started, Looping
<1>18. CASE DeviceTwinCallback
  BY <1>18 DEF DeviceTwinCallback
<1>19. CASE UNCHANGED vars
  BY <1>19 DEF vars
<1> QED
  BY <1>1, <1>2, <1>3, <1>4, <1>5, <1>6, <1>7, <1>8, <1>9, <1>10, <1>11,
     <1>12, <1>13, <1>14, <1>15, <1>16, <1>17, <1>18, <1>19 DEF Next, Main,
     ThreadStep

(***************************************************************************)
(* The threads in Deinit.                                                  *)
(***************************************************************************)
LEMMA StoppingStep == Inv /\ [Next]_vars => Stopping'
<1> SUFFICES ASSUME Inv, [Next]_vars PROVE Stopping'
  OBVIOUS
<1> USE TypeParts DEF Inv, Stopping, PcType, Positions, Goto, Started, Looping
<1>1. CASE InitStep
  <2>1. /\ pc = "init" /\ step \in 1..14 /\ Steps = InitSteps
        /\ up' = up \cup ({InitSteps[step]} \ NothingToDeinit)
    BY <1>1, PhaseSteps DEF InitStep, PcType, Positions
  <2>2. IF step = 14 THEN pc' = "start" /\ step' = 1
        ELSE pc' = "init" /\ step' = step + 1
    BY <1>1, <2>1, Advances DEF InitStep
  <2> QED
    BY <2>2
<1>2. CASE InitFails
  <2>1. /\ pc = "init" /\ pc' = "deinit" /\ step' = 1 /\ UNCHANGED <<async, joins, joining>>
    BY <1>2 DEF InitFails
  <2>2. ~joining
    BY <2>1
  <2> QED
    BY <2>1, <2>2 DEF Working
<1>3. ASSUME NEW t \in Threads, InitTask(t) PROVE Stopping'
  <2>1. pc = "start" /\ up \subseteq up'
    BY <1>3 DEF InitTask, At
  <2>2. IF step = 7 THEN pc' = "started" /\ step' = 1
        ELSE pc' = "start" /\ step' = step + 1
    BY <1>3, <2>1, Advances DEF InitTask
  <2> QED
    BY <2>2
<1>4. ASSUME NEW t \in Threads, CreateThread(t) PROVE Stopping'
  <2>1. pc' = "start"
    BY <1>4 DEF CreateThread, At
  <2> QED
    BY <2>1
<1>5. ASSUME NEW t \in Threads, MarkStarted(t) PROVE Stopping'
  <2>1. pc = "start" /\ up \subseteq up'
    BY <1>5 DEF MarkStarted, At
  <2>2. IF step = 7 THEN pc' = "started" /\ step' = 1
        ELSE pc' = "start" /\ step' = step + 1
    BY <1>5, <2>1, Advances DEF MarkStarted
  <2> QED
    BY <2>2
<1>6. CASE ConnectAndUpdateConfiguration
  <2>1. pc = "start"
    BY <1>6 DEF ConnectAndUpdateConfiguration, At
  <2>2. IF step = 7 THEN pc' = "started" /\ step' = 1
        ELSE pc' = "start" /\ step' = step + 1
    BY <1>6, <2>1, Advances DEF ConnectAndUpdateConfiguration
  <2> QED
    BY <2>2
<1>7. CASE StartFails
  <2>1. /\ pc = "start" /\ pc' = "deinit" /\ step' = 1 /\ UNCHANGED <<joins, joining>>
    BY <1>7, StartFailsSets DEF StartFails
  <2>2. ~joining /\ \A u \in Threads : Order(u) \in 1..3
    BY <2>1 DEF Order
  <2>3. \A u \in Threads :
           /\ async'[u].thread = async[u].thread /\ async'[u].state = async[u].state
           /\ async[u].continueRunning => async'[u].continueRunning
           /\ step = StartAt(u) => async[u].thread = "none"
    BY <1>7, StartFailsSets
  <2>4. \A u \in Threads : StartAt(u) \in 4..7
    BY DEF StartAt
  <2>5. \A u \in Threads : async[u].thread # "none" => Started(u)
    BY <2>1, <2>3, <2>4 DEF Working
  <2> QED
    BY <2>1, <2>2, <2>3, <2>5 DEF Working
<1>8. CASE Wait
  <2>1. pc' = "wait"
    BY <1>8 DEF Wait
  <2> QED
    BY <2>1
<1>9. CASE WaitStop
  <2>1. pc' = "wait"
    BY <1>9 DEF WaitStop, At
  <2> QED
    BY <2>1
<1>10. ASSUME NEW t \in Threads, WaitJoin(t) PROVE Stopping'
  <2>1. /\ pc = "wait" /\ UNCHANGED <<async, joining>> /\ step = Order(t)
        /\ async[t].thread = "ended" /\ joins' = [joins EXCEPT ![t] = joins[t] + 1]
    BY <1>10, AtThread DEF WaitJoin, Joined
  <2>2. \/ pc' = "wait"
        \/ step = 3 /\ pc' = "deinit" /\ step' = 1
    BY <1>10, <2>1, Advances DEF WaitJoin
  <2>3. joins'[t] = joins[t] + 1 /\ \A u \in Threads \ {t} : joins'[u] = joins[u]
    BY <2>1 DEF ThreadsType
  <2>4. step = 3 => \A u \in Threads \ {t} : Order(u) < step
    BY <2>1 DEF Order, Threads
  <2>5. step = 3 => \A u \in Threads :
                       joins'[u] = 1 /\ async[u].thread = "ended" /\ async[u].state # "started"
    <3>1. /\ joins[t] = 0
          /\ \A u \in Threads \ {t} : Order(u) < step =>
                joins[u] = 1 /\ async[u].thread = "ended"
      BY <2>1 DEF Working, Order
    <3>2. \A u \in Threads : async[u].thread = "ended" => async[u].state # "started"
      BY <2>1 DEF Working
    <3> QED
      BY <2>1, <2>3, <2>4, <3>1, <3>2
  <2> QED
    BY <2>1, <2>2, <2>5
<1>11. ASSUME NEW t \in Threads, DeinitStop(t) PROVE Stopping'
  <2>1. /\ pc = "deinit" /\ step = Order(t) /\ UNCHANGED <<pc, step, joins>>
        /\ async[t].state = "started" /\ joining' /\ ~joining
    BY <1>11, AtThread DEF DeinitStop
  <2>2. /\ async'[t].thread = async[t].thread /\ async'[t].state = async[t].state
        /\ \A u \in Threads \ {t} : async'[u] = async[u]
    BY <1>11, DeinitStopSets
  <2>3. \A u \in Threads : Order(u) = step => u = t
    BY <2>1 DEF Order, Threads
  <2>4. async[t].thread # "none" /\ joins[t] = 0
    BY <2>1
  <2> QED
    BY <2>1, <2>2, <2>3, <2>4
<1>12. ASSUME NEW t \in Threads, DeinitTask(t) PROVE Stopping'
  <2>1. pc = "deinit" /\ step = Order(t) /\ step \in 1..3
    BY <1>12, AtThread DEF DeinitTask, Order
  <2>2. pc' = "deinit" /\ step' = step + 1
    BY <1>12, <2>1, Advances DEF DeinitTask
  <2>3. /\ async'[t].thread = async[t].thread /\ async'[t].state = "created"
        /\ \A u \in Threads \ {t} : async'[u] = async[u]
    BY <1>12, DeinitTaskSets
  <2>4. \A u \in Threads \ {t} : Order(u) # step /\ Order(u) \in 1..3
    BY <2>1 DEF Order, Threads
  <2>5. /\ MayDeinit(t) /\ ~joining'
        /\ joins' = IF joining THEN [joins EXCEPT ![t] = joins[t] + 1] ELSE joins
    BY <1>12 DEF DeinitTask
  <2>6. \A u \in Threads \ {t} : joins'[u] = joins[u]
    BY <2>5 DEF ThreadsType
  <2>7. \/ async[t].thread = "ended" /\ joins'[t] = 1
        \/ async[t].thread = "none" /\ joins'[t] = 0
    <3>1. CASE joining
      BY <2>1, <2>5, <3>1 DEF MayDeinit, ThreadsType
    <3>2. CASE ~joining
      BY <2>1, <2>5, <3>2 DEF MayDeinit, ThreadsType
    <3> QED
      BY <3>1, <3>2
  <2>8. \A u \in Threads \ {t} : step <= Order(u) => step' <= Order(u)
    BY <2>1, <2>2, <2>4
  <2> QED
    BY <2>1, <2>2, <2>3, <2>4, <2>5, <2>6, <2>7, <2>8
<1>13. CASE DeinitComponent
  <2>1. pc = "deinit" /\ step \in 4..16 /\ up' = up \ {DeinitSteps[step]}
    BY <1>13, AtComponent DEF DeinitComponent
  <2>2. IF step = 16 THEN pc' = "exited" /\ step' = 1
        ELSE pc' = pc /\ step' = step + 1
    BY <1>13, <2>1, Advances DEF DeinitComponent
  <2>3. UNCHANGED <<async, joins, joining>> /\ ~joining
    BY <1>13, AtComponent DEF DeinitComponent
  <2>4. \A u \in Threads : Order(u) < step /\ Order(u) \in 1..3
    BY <2>1 DEF Order
  <2>5. \A u \in Threads : async[u].thread = "none" \/ joins[u] = 1
    BY <2>1, <2>4
  <2> QED
    BY <2>1, <2>2, <2>3, <2>4, <2>5
<1>14. CASE Stop
  <2>1. pc' = "wait"
    BY <1>14 DEF Stop
  <2> QED
    BY <2>1
<1>15. ASSUME NEW t \in Threads, TestContinue(t) PROVE Stopping'
  <2>1. UNCHANGED <<pc, step, joins, joining>>
    BY <1>15 DEF TestContinue
  <2>2. /\ async[t].thread = "test" /\ async'[t].state = async[t].state
        /\ async'[t].thread = IF async[t].continueRunning THEN "task" ELSE "leaving"
        /\ async'[t].continueRunning = async[t].continueRunning
        /\ \A u \in Threads \ {t} : async'[u] = async[u]
    BY <1>15, TestContinueSets
  <2> QED
    BY <2>1, <2>2
<1>16. ASSUME NEW t \in Threads, RunTask(t) PROVE Stopping'
  <2>1. UNCHANGED <<pc, step, joins, joining>> /\ async[t].thread = "task"
    BY <1>16 DEF RunTask, Move
  <2>2. /\ async'[t].thread = "test" /\ async'[t].state = async[t].state
        /\ async'[t].continueRunning = async[t].continueRunning
        /\ \A u \in Threads \ {t} : async'[u] = async[u]
    BY <1>16, RunTaskSets
  <2> QED
    BY <2>1, <2>2
<1>17. ASSUME NEW t \in Threads, EndThread(t) PROVE Stopping'
  <2>1. UNCHANGED <<pc, step, joins, joining>> /\ async[t].thread = "leaving"
    BY <1>17 DEF EndThread
  <2>2. /\ async'[t].thread = "ended" /\ async'[t].state = "stopped"
        /\ \A u \in Threads \ {t} : async'[u] = async[u]
    BY <1>17, EndThreadSets
  <2> QED
    BY <2>1, <2>2
<1>18. CASE DeviceTwinCallback
  BY <1>18 DEF DeviceTwinCallback
<1>19. CASE UNCHANGED vars
  BY <1>19 DEF vars
<1> QED
  BY <1>1, <1>2, <1>3, <1>4, <1>5, <1>6, <1>7, <1>8, <1>9, <1>10, <1>11,
     <1>12, <1>13, <1>14, <1>15, <1>16, <1>17, <1>18, <1>19 DEF Next, Main,
     ThreadStep

(***************************************************************************)
(* Nothing is taken down while a thread runs.                              *)
(***************************************************************************)
LEMMA AllUpStep == Inv /\ [Next]_vars => AllUp'
<1> SUFFICES ASSUME Inv, [Next]_vars PROVE AllUp'
  OBVIOUS
<1> USE TypeParts DEF Inv, AllUp, Live, PcType, ThreadsType, Positions, Running
<1>1. CASE InitStep
  <2>1. \A u \in Threads : async'[u].thread = async[u].thread
    BY <1>1 DEF InitStep
  <2>2. up \subseteq up' /\ Live \subseteq Live'
    BY <1>1 DEF InitStep
  <2> QED
    BY <2>1, <2>2
<1>2. CASE InitFails
  <2>1. \A u \in Threads : async'[u].thread = async[u].thread
    BY <1>2 DEF InitFails
  <2>2. up \subseteq up' /\ Live \subseteq Live'
    BY <1>2 DEF InitFails
  <2> QED
    BY <2>1, <2>2
<1>3. ASSUME NEW t \in Threads, InitTask(t) PROVE AllUp'
  <2>1. \A u \in Threads : async'[u].thread = async[u].thread
    BY <1>3, InitTaskSets DEF InitTask
  <2>2. up \subseteq up' /\ Live \subseteq Live'
    BY <1>3 DEF InitTask
  <2> QED
    BY <2>1, <2>2
<1>4. ASSUME NEW t \in Threads, CreateThread(t) PROVE AllUp'
  <2>1. pc = "start" /\ step = StartAt(t) /\ up' = up /\ torn' = torn
    BY <1>4, AtThread DEF CreateThread
  <2>2. TaskOf[t] \in up
    BY <2>1 DEF Tasks, StartAt, TaskAt, Threads
  <2>3. \A i \in 1..14 : InitSteps[i] \in Live \cup NothingToDeinit
    BY <2>1 DEF Components
  <2>4. \A u \in Threads \ {t} : async'[u] = async[u]
    BY <1>4, CreateThreadSets
  <2> QED
    BY <2>1, <2>2, <2>3, <2>4
<1>5. ASSUME NEW t \in Threads, MarkStarted(t) PROVE AllUp'
  <2>1. \A u \in Threads : async'[u].thread = async[u].thread
    BY <1>5, MarkStartedSets DEF MarkStarted
  <2>2. up \subseteq up' /\ Live \subseteq Live'
    BY <1>5 DEF MarkStarted
  <2> QED
    BY <2>1, <2>2
<1>6. CASE ConnectAndUpdateConfiguration
  <2>1. \A u \in Threads : async'[u].thread = async[u].thread
    BY <1>6 DEF ConnectAndUpdateConfiguration
  <2>2. Live \subseteq Live' /\ \A u \in Threads : TaskOf[u] \in up => TaskOf[u] \in up'
    BY <1>6, Updates, TaskNames DEF ConnectAndUpdateConfiguration, Threads
  <2> QED
    BY <2>1, <2>2
<1>7. CASE StartFails
  <2>1. \A u \in Threads : async'[u].thread = async[u].thread
    BY <1>7, StartFailsSets DEF StartFails
  <2>2. up \subseteq up' /\ Live \subseteq Live'
    BY <1>7 DEF StartFails
  <2> QED
    BY <2>1, <2>2
<1>8. CASE Wait
  <2>1. \A u \in Threads : async'[u].thread = async[u].thread
    BY <1>8 DEF Wait
  <2>2. up \subseteq up' /\ Live \subseteq Live'
    BY <1>8 DEF Wait
  <2> QED
    BY <2>1, <2>2
<1>9. CASE WaitStop
  <2>1. \A u \in Threads : async'[u].thread = async[u].thread
    BY <1>9, StopSets DEF WaitStop
  <2>2. up \subseteq up' /\ Live \subseteq Live'
    BY <1>9 DEF WaitStop
  <2> QED
    BY <2>1, <2>2
<1>10. ASSUME NEW t \in Threads, WaitJoin(t) PROVE AllUp'
  <2>1. \A u \in Threads : async'[u].thread = async[u].thread
    BY <1>10 DEF WaitJoin
  <2>2. up \subseteq up' /\ Live \subseteq Live'
    BY <1>10 DEF WaitJoin
  <2> QED
    BY <2>1, <2>2
<1>11. ASSUME NEW t \in Threads, DeinitStop(t) PROVE AllUp'
  <2>1. \A u \in Threads : async'[u].thread = async[u].thread
    BY <1>11, DeinitStopSets DEF DeinitStop
  <2>2. up \subseteq up' /\ Live \subseteq Live'
    BY <1>11 DEF DeinitStop
  <2> QED
    BY <2>1, <2>2
<1>12. ASSUME NEW t \in Threads, DeinitTask(t) PROVE AllUp'
  <2>1. pc = "deinit" /\ step = Order(t) /\ step \in 1..3
    BY <1>12, AtThread DEF DeinitTask, Order
  <2>2. pc' = "deinit" /\ step' = step + 1
    BY <1>12, <2>1, Advances DEF DeinitTask
  <2>3. \A u \in Threads : Running(u)' => Running(u) /\ u # t
    <3>1. \A u \in Threads : async'[u].thread = async[u].thread
      BY <1>12, DeinitTaskSets
    <3>2. async[t].thread \in {"none", "ended"}
      BY <1>12, <2>1 DEF DeinitTask, MayDeinit, Stopping, Started
    <3> QED
      BY <3>1, <3>2
  <2>4. up \ {TaskOf[t]} \subseteq up' /\ torn' = torn
    BY <1>12 DEF DeinitTask
  <2>5. \A u \in Threads \ {t} : TaskOf[u] # TaskOf[t]
    BY TaskDistinct
  <2>6. \A i \in 1..14 : InitSteps[i] # TaskOf[t]
    BY TaskDistinct
  <2> QED
    BY <2>3, <2>4, <2>5, <2>6
<1>13. CASE DeinitComponent
  <2>1. pc = "deinit" /\ step \in 4..16 /\ ~joining /\ async' = async
    BY <1>13, AtComponent DEF DeinitComponent
  <2>2. \A u \in Threads : Order(u) \in 1..3
    BY DEF Order
  <2>3. \A u \in Threads : async[u].thread \in {"none", "ended"}
    BY <2>1, <2>2 DEF Stopping
  <2> QED
    BY <2>1, <2>3
<1>14. CASE Stop
  <2>1. \A u \in Threads : async'[u].thread = async[u].thread
    BY <1>14, StopSets DEF Stop
  <2>2. up \subseteq up' /\ Live \subseteq Live'
    BY <1>14 DEF Stop
  <2> QED
    BY <2>1, <2>2
<1>15. ASSUME NEW t \in Threads, TestContinue(t) PROVE AllUp'
  <2>1. async[t].thread \in {"test", "task", "leaving"} /\ up' = up /\ torn' = torn
    BY <1>15, TestContinueSets DEF TestContinue, Move
  <2>2. \A u \in Threads \ {t} : async'[u] = async[u]
    BY <1>15, TestContinueSets
  <2> QED
    BY <2>1, <2>2
<1>16. ASSUME NEW t \in Threads, RunTask(t) PROVE AllUp'
  <2>1. async[t].thread \in {"test", "task", "leaving"}
    BY <1>16, RunTaskSets DEF RunTask, Move
  <2>2. \A u \in Threads \ {t} : async'[u] = async[u]
    BY <1>16, RunTaskSets
  <2>3. Live \subseteq Live' /\ \A u \in Threads : TaskOf[u] \in up => TaskOf[u] \in up'
    BY <1>16, RunTaskUp, TaskNames DEF Threads
  <2> QED
    BY <2>1, <2>2, <2>3
<1>17. ASSUME NEW t \in Threads, EndThread(t) PROVE AllUp'
  <2>1. async[t].thread \in {"test", "task", "leaving"} /\ up' = up /\ torn' = torn
    BY <1>17, EndThreadSets DEF EndThread, Move
  <2>2. \A u \in Threads \ {t} : async'[u] = async[u]
    BY <1>17, EndThreadSets
  <2> QED
    BY <2>1, <2>2
<1>18. CASE DeviceTwinCallback
  <2>1. \A u \in Threads : async'[u].thread = async[u].thread
    BY <1>18 DEF DeviceTwinCallback
  <2>2. up \subseteq up' /\ Live \subseteq Live'
    BY <1>18 DEF DeviceTwinCallback
  <2> QED
    BY <2>1, <2>2
<1>19. CASE UNCHANGED vars
  BY <1>19 DEF vars
<1> QED
  BY <1>1, <1>2, <1>3, <1>4, <1>5, <1>6, <1>7, <1>8, <1>9, <1>10, <1>11,
     <1>12, <1>13, <1>14, <1>15, <1>16, <1>17, <1>18, <1>19 DEF Next, Main,
     ThreadStep

(***************************************************************************)
(* Who needs whom, as a relation.                                          *)
(***************************************************************************)
LEMMA NeedsOf ==
  ASSUME NEW c, NEW d
  PROVE  d \in Needs(c) <=>
           \/ c \in Queues /\ d = "memoryMonitor"
           \/ c = "diagnosticCollector" /\ d = "diagnosticQueue"
           \/ c = "hubAdapter" /\ d \in HubNeeds
           \/ c = "updaterTask" /\ d \in {"twinQueue", "hubAdapter"}
           \/ c = "publisherTask" /\ d = "hubAdapter"
<1>1. /\ DOMAIN Callees = {"diagnosticCollector", "hubAdapter", "updaterTask",
                           "publisherTask"}
      /\ Callees["diagnosticCollector"] = {"diagnosticQueue"}
      /\ Callees["hubAdapter"] = HubNeeds
      /\ Callees["updaterTask"] = {"twinQueue", "hubAdapter"}
      /\ Callees["publisherTask"] = {"hubAdapter"}
  BY DEF Callees
<1>2. CASE c \in Queues
  BY <1>2 DEF Needs, Queues
<1>3. CASE c \notin Queues /\ c \in DOMAIN Callees
  BY <1>1, <1>3 DEF Needs
<1>4. CASE c \notin Queues /\ c \notin DOMAIN Callees
  BY <1>1, <1>4 DEF Needs
<1> QED
  BY <1>2, <1>3, <1>4

(***************************************************************************)
(* Init initiates what a component needs before the component, and all of  *)
(* what a task needs; nothing needs a task.                                *)
(***************************************************************************)
LEMMA NeedsBefore ==
  /\ \A i \in 1..14 : \A d \in Needs(InitSteps[i]) :
        d # "realUser" /\ \E j \in 1..14 : j < i /\ InitSteps[j] = d
  /\ \A t \in Threads : \A d \in Needs(TaskOf[t]) :
        d # "realUser" /\ \E j \in 1..14 : InitSteps[j] = d
  /\ \A c : \A t \in Threads : TaskOf[t] \notin Needs(c)
<1>1. ASSUME NEW i \in 1..14, NEW d \in Needs(InitSteps[i])
      PROVE  d # "realUser" /\ \E j \in 1..14 : j < i /\ InitSteps[j] = d
  <2>1. \/ i \in 7..11 /\ d = InitSteps[4]
        \/ i = 12 /\ d = InitSteps[7]
        \/ i = 14 /\ \E j \in {1, 2, 3, 5, 11, 12} : d = InitSteps[j]
    <3>1. \/ InitSteps[i] \in Queues /\ d = "memoryMonitor"
          \/ InitSteps[i] = "diagnosticCollector" /\ d = "diagnosticQueue"
          \/ InitSteps[i] = "hubAdapter"
             /\ d \in HubNeeds
          \/ InitSteps[i] \in {"updaterTask", "publisherTask"}
      BY NeedsOf
    <3>2. InitSteps[i] \notin {"updaterTask", "publisherTask"}
      BY InitNames
    <3>3. InitSteps[i] \in Queues => i \in 7..11
      BY InitNames DEF Queues
    <3>4. /\ InitSteps[i] = "diagnosticCollector" => i = 12
          /\ InitSteps[i] = "hubAdapter" => i = 14
      BY InitNames
    <3>5. d \in HubNeeds => \E j \in {1, 2, 3, 5, 11, 12} : d = InitSteps[j]
      BY InitNames DEF HubNeeds
    <3> QED
      BY <3>1, <3>2, <3>3, <3>4, <3>5, InitNames
  <2> QED
    BY <2>1, InitNames
<1>2. ASSUME NEW t \in Threads, NEW d \in Needs(TaskOf[t])
      PROVE  d # "realUser" /\ \E j \in 1..14 : InitSteps[j] = d
  <2>1. d = InitSteps[11] \/ d = InitSteps[14]
    BY NeedsOf, TaskNames, InitNames DEF Threads, Queues
  <2> QED
    BY <2>1, InitNames
<1>3. ASSUME NEW c, NEW t \in Threads PROVE TaskOf[t] \notin Needs(c)
  BY NeedsOf, TaskNames DEF Threads, HubNeeds
<1> QED
  BY <1>1, <1>2, <1>3

(***************************************************************************)
(* Deinit takes a component down after the components that need it: the    *)
(* only others are two tasks, which go with their threads.                 *)
(***************************************************************************)
LEMMA NeededBefore ==
  ASSUME NEW i \in 4..16, NEW c, DeinitSteps[i] \in Needs(c)
  PROVE  \/ c = TaskOf["updater"] \/ c = TaskOf["publisher"]
         \/ \E j \in 4..16 : j < i /\ DeinitSteps[j] = c
<1>1. \/ c \in Queues /\ DeinitSteps[i] = "memoryMonitor"
      \/ c = "diagnosticCollector" /\ DeinitSteps[i] = "diagnosticQueue"
      \/ c = "hubAdapter" /\ DeinitSteps[i] \in HubNeeds
      \/ c \in {"updaterTask", "publisherTask"}
  BY NeedsOf
<1>2. CASE c \in Queues /\ DeinitSteps[i] = "memoryMonitor"
  <2>1. i = 13
    BY <1>2, DeinitNames
  <2>2. c \in {DeinitSteps[8], DeinitSteps[9], DeinitSteps[10], DeinitSteps[11],
               DeinitSteps[12]}
    BY <1>2, DeinitNames DEF Queues
  <2> QED
    BY <2>1, <2>2
<1>3. CASE c = "diagnosticCollector" /\ DeinitSteps[i] = "diagnosticQueue"
  <2>1. i = 12 /\ c = DeinitSteps[7]
    BY <1>3, DeinitNames
  <2> QED
    BY <2>1
<1>4. CASE c = "hubAdapter"
           /\ DeinitSteps[i] \in HubNeeds
  <2>1. i # 4 /\ c = DeinitSteps[4]
    BY <1>4, DeinitNames DEF HubNeeds
  <2> QED
    BY <2>1
<1>5. CASE c \in {"updaterTask", "publisherTask"}
  BY <1>5, TaskNames
<1> QED
  BY <1>1, <1>2, <1>3, <1>4, <1>5

(***************************************************************************)
(* A component goes up after what it needs, and down before it.            *)
(***************************************************************************)
LEMMA ClosedStep == Inv /\ [Next]_vars => Closed'
<1> SUFFICES ASSUME Inv, [Next]_vars PROVE Closed'
  OBVIOUS
<1> USE TypeParts DEF Inv, Closed, Live
<1>1. CASE InitStep
  <2>1. /\ pc = "init" /\ step \in 1..14
        /\ up' = up \cup ({InitSteps[step]} \ NothingToDeinit) /\ torn' = torn
    BY <1>1, PhaseSteps DEF InitStep, PcType, Positions
  <2>2. \A i \in 1..14 : i < step /\ InitSteps[i] # "realUser" => InitSteps[i] \in Live
    BY <2>1 DEF Components, NothingToDeinit
  <2>3. Needs(InitSteps[step]) \subseteq Live
    BY <2>1, <2>2, NeedsBefore
  <2> QED
    BY <2>1, <2>3
<1>2. CASE InitFails
  <2>1. up' = up /\ torn' = torn
    BY <1>2 DEF InitFails
  <2> QED
    BY <2>1
<1>3. ASSUME NEW t \in Threads, InitTask(t) PROVE Closed'
  <2>1. pc = "start" /\ up' = up \cup {TaskOf[t]} /\ torn' = torn
    BY <1>3 DEF InitTask, At
  <2>2. \A i \in 1..14 : InitSteps[i] # "realUser" => InitSteps[i] \in Live
    BY <2>1 DEF Components, NothingToDeinit
  <2>3. Needs(TaskOf[t]) \subseteq Live
    BY <2>2, NeedsBefore
  <2> QED
    BY <2>1, <2>3
<1>4. ASSUME NEW t \in Threads, CreateThread(t) PROVE Closed'
  <2>1. up' = up /\ torn' = torn
    BY <1>4 DEF CreateThread
  <2> QED
    BY <2>1
<1>5. ASSUME NEW t \in Threads, MarkStarted(t) PROVE Closed'
  <2>1. up' = up /\ torn' = torn
    BY <1>5 DEF MarkStarted
  <2> QED
    BY <2>1
<1>6. CASE ConnectAndUpdateConfiguration
  <2>1. up' \subseteq up /\ Live \subseteq Live'
    BY <1>6, Updates DEF ConnectAndUpdateConfiguration
  <2> QED
    BY <2>1
<1>7. CASE StartFails
  <2>1. up' = up /\ torn' = torn
    BY <1>7 DEF StartFails
  <2> QED
    BY <2>1
<1>8. CASE Wait
  <2>1. up' = up /\ torn' = torn
    BY <1>8 DEF Wait
  <2> QED
    BY <2>1
<1>9. CASE WaitStop
  <2>1. up' = up /\ torn' = torn
    BY <1>9 DEF WaitStop
  <2> QED
    BY <2>1
<1>10. ASSUME NEW t \in Threads, WaitJoin(t) PROVE Closed'
  <2>1. up' = up /\ torn' = torn
    BY <1>10 DEF WaitJoin
  <2> QED
    BY <2>1
<1>11. ASSUME NEW t \in Threads, DeinitStop(t) PROVE Closed'
  <2>1. up' = up /\ torn' = torn
    BY <1>11 DEF DeinitStop
  <2> QED
    BY <2>1
<1>12. ASSUME NEW t \in Threads, DeinitTask(t) PROVE Closed'
  <2>1. up \ {TaskOf[t]} \subseteq up' /\ up' \subseteq up /\ torn' = torn
    BY <1>12 DEF DeinitTask
  <2>2. \A c : TaskOf[t] \notin Needs(c)
    BY NeedsBefore
  <2> QED
    BY <2>1, <2>2
<1>13. CASE DeinitComponent
  <2>1. pc = "deinit" /\ step \in 4..16 /\ up' = up \ {DeinitSteps[step]} /\ torn' = torn
    BY <1>13, AtComponent DEF DeinitComponent
  <2>2. \A i \in 4..16 : i < step => DeinitSteps[i] \notin up
    BY <2>1 DEF Components
  <2>3. TaskOf["updater"] \notin up /\ TaskOf["publisher"] \notin up
    BY <2>1 DEF Tasks, Order, Threads
  <2>4. \A c \in up : DeinitSteps[step] \notin Needs(c)
    BY <2>1, <2>2, <2>3, NeededBefore
  <2> QED
    BY <2>1, <2>4
<1>14. CASE Stop
  <2>1. up' = up /\ torn' = torn
    BY <1>14 DEF Stop
  <2> QED
    BY <2>1
<1>15. ASSUME NEW t \in Threads, TestContinue(t) PROVE Closed'
  <2>1. up' = up /\ torn' = torn
    BY <1>15 DEF TestContinue
  <2> QED
    BY <2>1
<1>16. ASSUME NEW t \in Threads, RunTask(t) PROVE Closed'
  <2>1. up' \subseteq up /\ Live \subseteq Live'
    BY <1>16, RunTaskUp
  <2> QED
    BY <2>1
<1>17. ASSUME NEW t \in Threads, EndThread(t) PROVE Closed'
  <2>1. up' = up /\ torn' = torn
    BY <1>17 DEF EndThread
  <2> QED
    BY <2>1
<1>18. CASE DeviceTwinCallback
  <2>1. up' = up /\ torn' = torn
    BY <1>18 DEF DeviceTwinCallback
  <2> QED
    BY <2>1
<1>19. CASE UNCHANGED vars
  <2>1. up' = up /\ torn' = torn
    BY <1>19 DEF vars
  <2> QED
    BY <2>1
<1> QED
  BY <1>1, <1>2, <1>3, <1>4, <1>5, <1>6, <1>7, <1>8, <1>9, <1>10, <1>11,
     <1>12, <1>13, <1>14, <1>15, <1>16, <1>17, <1>18, <1>19 DEF Next, Main,
     ThreadStep

-----------------------------------------------------------------------------
(***************************************************************************)
(* The invariant is inductive.                                             *)
(***************************************************************************)
LEMMA InvInit == Init => Inv
<1> SUFFICES ASSUME Init PROVE Inv
  OBVIOUS
<1> USE DEF Init
<1>1. async = [t \in Threads |-> NoThread]
  OBVIOUS
<1>2. NoThread \in Async
  BY DEF NoThread, Async
<1>3. ThreadsType
  BY <1>1, <1>2 DEF ThreadsType, Async, NoThread
<1>4. TypeOK
  <2>1. PcType
    <3>1. joining \in BOOLEAN
      BY Zenon
    <3>2. step \in 1..16
      OBVIOUS
    <3> QED
      BY <3>1, <3>2, Zenon DEF PcType
  <2>2. ItemsType
    BY LifecycleAssumption DEF ItemsType
  <2>3. UpType
    BY DEF UpType
  <2> QED
    BY <1>3, <2>1, <2>2, <2>3, TypeParts
<1>5. \A t \in Threads : ~ Running(t)
  BY <1>1 DEF NoThread, Running
<1>6. Working
  BY <1>1 DEF Working, NoThread
<1> QED
  BY <1>4, <1>5, <1>6
     DEF Inv, Positions, Components, Tasks, Stopping, AllUp, Closed, Live

(***************************************************************************)
(* Every step of main, of a thread and of the hub preserves it.            *)
(***************************************************************************)
LEMMA InvStep == Inv /\ [Next]_vars => Inv'
BY TypeStep, ComponentsStep, TasksStep, WorkingStep, StoppingStep, AllUpStep,
   ClosedStep DEF Inv

(***************************************************************************)
(* It holds in every reachable state.                                      *)
(***************************************************************************)
LEMMA InvAlways == Spec => []Inv
BY InvInit, InvStep, PTL DEF Spec

-----------------------------------------------------------------------------
(***************************************************************************)
(* The variables of SecurityAgent and of the scheduler threads keep their  *)
(* types, and a thread exists only when its scheduler was initiated.       *)
(***************************************************************************)
THEOREM TypeCorrect == Spec => []TypeOK
<1>1. Inv => TypeOK
  BY DEF Inv
<1> QED
  BY <1>1, InvAlways, PTL

(***************************************************************************)
(* What is up before a step of Init, and everything else afterwards.       *)
(***************************************************************************)
LEMMA UpBefore ==
  ASSUME Inv
  PROVE  /\ pc = "init" => \A i \in 1..14 :
                i < step /\ InitSteps[i] # "realUser" => InitSteps[i] \in Live
         /\ pc = "init" => \A i \in 1..14 : ~(i < step) => InitSteps[i] \notin up
         /\ pc = "start" => \A i \in 1..14 :
                InitSteps[i] # "realUser" => InitSteps[i] \in Live
BY DEF Inv, Components, NothingToDeinit

(***************************************************************************)
(* What a log entry takes: nothing but the logger while the collector of   *)
(* diagnostic events is down, and else its queue, the memory monitor and   *)
(* the twin configuration.                                                 *)
(***************************************************************************)
LEMMA LogCalls ==
  ASSUME Inv, "logger" \in Live,
         "diagnosticCollector" \in up => "twinConfiguration" \in Live
  PROVE  Log \subseteq Live
<1>1. ASSUME "diagnosticCollector" \in up
      PROVE  {"diagnosticCollector", "diagnosticQueue", "memoryMonitor"} \subseteq Live
  <2>1. "diagnosticQueue" \in up
    <3>1. "diagnosticQueue" \in Needs("diagnosticCollector")
      BY NeedsOf
    <3>2. "diagnosticQueue" \in Live
      BY <1>1, <3>1 DEF Inv, Closed
    <3> QED
      BY <3>2, TypeParts DEF Inv, Live, UpType
  <2>2. "memoryMonitor" \in Needs("diagnosticQueue")
    BY NeedsOf DEF Queues
  <2>3. "memoryMonitor" \in Live
    BY <2>1, <2>2 DEF Inv, Closed
  <2> QED
    BY <1>1, <2>1, <2>3 DEF Live
<1> QED
  BY <1>1 DEF Log, Push, Pop

(***************************************************************************)
(* While the adapter is up it finds what its Deinit, and the callback of   *)
(* its client, call.                                                       *)
(***************************************************************************)
LEMMA HubCalls ==
  ASSUME Inv, "hubAdapter" \in up
  PROVE  {"iothub"} \cup Log \cup CallbackCalls \subseteq Live
<1>1. HubNeeds \subseteq Live
  <2>1. \A d \in HubNeeds : d \in Needs("hubAdapter")
    BY NeedsOf
  <2> QED
    BY <2>1 DEF Inv, Closed
<1>2. Log \subseteq Live
  BY <1>1, LogCalls DEF HubNeeds
<1>3. "memoryMonitor" \in Live
  <2>1. "twinQueue" \in up
    BY <1>1, TypeParts DEF HubNeeds, Inv, Live, UpType
  <2>2. "memoryMonitor" \in Needs("twinQueue")
    BY NeedsOf DEF Queues
  <2> QED
    BY <2>1, <2>2 DEF Inv, Closed
<1> QED
  BY <1>1, <1>2, <1>3 DEF CallbackCalls, Push, Pop, HubNeeds

(***************************************************************************)
(* The main thread finds what the step it executes calls.                  *)
(***************************************************************************)
LEMMA MainLive ==
  ASSUME Inv
  PROVE  MainCalls \subseteq Live
<1> DEFINE c == Steps[step]
<1>0. step \in Nat /\ step >= 1 /\ torn \subseteq {"twinConfiguration"}
  BY TypeParts DEF Inv, PcType, UpType
<1>1. CASE pc = "init"
  <2>0. MainCalls = InitCalls(c)
    BY <1>1 DEF MainCalls
  <2>1. c = InitSteps[step] /\ step \in 1..14
    BY <1>0, <1>1, PhaseSteps DEF Inv, Positions
  <2> HIDE DEF c
  <2>2. step >= 2 => "logger" \in Live
    BY <1>1, <2>1, UpBefore, InitNames
  <2>3. "diagnosticCollector" \in up => "twinConfiguration" \in Live
    BY <1>1, <2>1, UpBefore, InitNames
  <2>4. step >= 2 => Log \subseteq Live
    BY <2>2, <2>3, LogCalls
  <2>5. CASE c = "localConfiguration"
    <3>0. \A i \in 1..14 : InitSteps[i] = "localConfiguration" => i = 3
      BY InitNames
    <3>1. step = 3
      BY <2>1, <2>5, <3>0
    <3>2. "iothub" \in Live
      BY <1>1, <3>1, UpBefore, InitNames
    <3> QED
      BY <2>0, <2>4, <2>5, <3>1, <3>2 DEF InitCalls
  <2>6. CASE c = "twinConfiguration"
    <3>0. \A i \in 1..14 : InitSteps[i] = "twinConfiguration" => i = 5
      BY InitNames
    <3>1. step = 5
      BY <2>1, <2>6, <3>0
    <3>2. "localConfiguration" \in Live
      BY <1>1, <3>1, UpBefore, InitNames
    <3> QED
      BY <2>0, <2>6, <3>2 DEF InitCalls
  <2>7. CASE c = "hubAdapter"
    <3>0. \A i \in 1..14 : InitSteps[i] = "hubAdapter" => i = 14
      BY InitNames
    <3>1. step = 14
      BY <2>1, <2>7, <3>0
    <3>2. "localConfiguration" \in Live /\ "iothub" \in Live
      BY <1>1, <3>1, UpBefore, InitNames
    <3> QED
      BY <2>0, <2>4, <2>7, <3>1, <3>2 DEF InitCalls
  <2>8. CASE c \notin {"localConfiguration", "twinConfiguration", "hubAdapter"}
    BY <2>0, <2>8 DEF InitCalls
  <2> QED
    BY <2>5, <2>6, <2>7, <2>8
<1>2. CASE pc = "start"
  <2>0. MainCalls = StartCalls(c)
    BY <1>2 DEF MainCalls
  <2>1. c = StartSteps[step] /\ step \in 1..7
    BY <1>0, <1>2, PhaseSteps DEF Inv, Positions
  <2> HIDE DEF c
  <2>2. \A i \in 1..14 : InitSteps[i] # "realUser" => InitSteps[i] \in Live
    BY <1>2, UpBefore
  <2>3. {"iothub", "localConfiguration", "hubAdapter", "twinConfiguration",
         "twinQueue", "memoryMonitor", "logger"} \subseteq Live
    BY <2>2, InitNames
  <2>4. Log \subseteq Live
    BY <2>3, LogCalls
  <2>5. CASE c = "connect"
    <3>0. \A i \in 1..7 : StartSteps[i] = "connect" => i = 2
      BY StartNames
    <3>1. step = 2
      BY <2>1, <2>5, <3>0
    <3>2. "updaterTask" \in up
      BY <1>2, <3>1, TaskNames DEF Inv, Tasks, TaskAt, Threads
    <3> QED
      BY <2>0, <2>3, <2>4, <2>5, <3>2 DEF StartCalls, Pop, Live
  <2>6. CASE c # "connect"
    BY <2>0, <2>4, <2>6 DEF StartCalls
  <2> QED
    BY <2>5, <2>6
<1>3. CASE pc = "deinit"
  <2>1. MainCalls = DeinitCalls(c)
    BY <1>3 DEF MainCalls
  <2>2. \A q \in Queues : "memoryMonitor" \in Needs(q)
    BY NeedsOf
  <2>3. \A q \in Queues \cap up : "memoryMonitor" \in Live
    BY <2>2 DEF Inv, Closed
  <2>4. "updaterTask" \in up => Pop("twinQueue") \subseteq Live
    <3>1. "twinQueue" \in Needs("updaterTask")
      BY NeedsOf
    <3>2. "updaterTask" \in up => "twinQueue" \in up
      BY <1>0, <3>1 DEF Inv, Closed, Live
    <3> QED
      BY <2>3, <3>2 DEF Pop, Queues, Live
  <2>5. "diagnosticCollector" \in up => Pop("diagnosticQueue") \subseteq Live
    <3>1. "diagnosticQueue" \in Needs("diagnosticCollector")
      BY NeedsOf
    <3>2. "diagnosticCollector" \in up => "diagnosticQueue" \in up
      BY <1>0, <3>1 DEF Inv, Closed, Live
    <3> QED
      BY <2>3, <3>2 DEF Pop, Queues, Live
  <2>6. "hubAdapter" \in up => {"iothub"} \cup Log \subseteq Live
    BY HubCalls
  <2> QED
    BY <2>1, <2>3, <2>4, <2>5, <2>6 DEF DeinitCalls, Queues
<1>4. CASE pc \notin {"init", "start", "deinit"}
  BY <1>4 DEF MainCalls
<1> QED
  BY <1>1, <1>2, <1>3, <1>4

(***************************************************************************)
(* Whichever step of SecurityAgent_Init or SecurityAgent_Start fails, and  *)
(* however the threads interleave with SecurityAgent_Deinit, nothing is    *)
(* deinitiated that a running thread, the step of the main thread or the   *)
(* callback of the hub's client calls, but by an update that runs out of   *)
(* memory.                                                                 *)
(***************************************************************************)
THEOREM LiveCorrect == Spec => []LiveWhileUsed
<1>1. ASSUME AllUp, NEW t \in Threads, Running(t) PROVE Uses(t) \subseteq Live
  <2>1. \A i \in 1..14 : InitSteps[i] # "realUser" => InitSteps[i] \in Live
    BY <1>1 DEF AllUp, NothingToDeinit
  <2>2. UsedByAll \subseteq Live
    BY <2>1, InitNames DEF UsedByAll
  <2>3. UsedBy[t] \subseteq Live
    BY <2>1, InitNames DEF UsedBy, Threads
  <2>4. TaskOf[t] \in Live
    BY <1>1 DEF AllUp, Live
  <2> QED
    BY <2>2, <2>3, <2>4 DEF Uses
<1>2. Inv => LiveWhileUsed
  BY <1>1, HubCalls, MainLive DEF Inv, LiveWhileUsed
<1> QED
  BY <1>2, InvAlways, PTL

(***************************************************************************)
(* SecurityAgent_Wait and StopAsyncTask join no thread twice, and main     *)
(* returns from SecurityAgent_Deinit only when every thread that was       *)
(* created has been joined.                                                *)
(***************************************************************************)
THEOREM JoinCorrect == Spec => []JoinedOnce
<1>1. ASSUME Inv, NEW t \in Threads
      PROVE  /\ joins[t] <= 1
             /\ pc = "exited" /\ async[t].thread # "none" => joins[t] = 1
  <2>1. pc \in {"init", "start", "started", "wait", "deinit", "exited"}
    BY <1>1 DEF Inv, TypeOK
  <2>2. joins[t] \in {0, 1}
    BY <1>1, <2>1 DEF Inv, Working, Stopping
  <2>3. pc = "exited" /\ async[t].thread # "none" => joins[t] = 1
    BY <1>1 DEF Inv, Stopping
  <2> QED
    BY <2>2, <2>3
<1>2. Inv => JoinedOnce
  BY <1>1 DEF JoinedOnce
<1> QED
  BY <1>2, InvAlways, PTL

=============================================================================

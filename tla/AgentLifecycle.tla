--------------------------- MODULE AgentLifecycle ---------------------------
(***************************************************************************)
(* The security agent from main to exit: the order in which its components *)
(* are initiated and deinitiated, the three scheduler threads, and what    *)
(* happens when a step of Init or of Start fails.  The threads read        *)
(* continueRunning and write their state without a lock.                   *)
(***************************************************************************)
EXTENDS Integers, Sequences, Functions

CONSTANT MaxItems     \* bound of the twin updates waiting in their queue

ASSUME LifecycleAssumption == MaxItems \in Nat \ {0}

Threads == {"publisher", "monitor", "updater"}

VARIABLES
    pc,        \* "init", "start", "started", "wait", "deinit", "exited"
    step,      \* position in the steps of Init, Start, Wait or Deinit
    up,        \* what is initiated: components and tasks
    async,     \* SecurityAgentAsyncTask and the thread behind its handle
    joining,   \* Deinit told the thread of this step to stop and joins it
    items,     \* twin updates in twinUpdatesQueue
    torn,      \* history: what an update that ran out of memory took down
    joins,     \* history: how often a thread was joined
    dropped    \* history: updates still in the queue when it was freed

vars == <<pc, step, up, async, joining, items, torn, joins, dropped>>

NoThread == [taskInitiated |-> FALSE, taskThreadInitiated |-> FALSE,
             state |-> "created", continueRunning |-> FALSE,
             thread |-> "none"]

---------------------------------------------------------------------------
(* The steps of the agent's functions, in the order of the code.           *)

InitSteps ==
    <<"logger", "iothub", "localConfiguration", "memoryMonitor",
      "twinConfiguration", "realUser", "diagnosticQueue", "operationalQueue",
      "highQueue", "lowQueue", "twinQueue", "diagnosticCollector",
      "telemetryProvider", "hubAdapter">>
NeverFails == {"diagnosticCollector", "telemetryProvider"}
NothingToDeinit == {"realUser"}

StartSteps ==
    <<"updaterTask", "connect", "publisherTask", "publisher", "monitorTask",
      "monitor", "updater">>
TaskOf == [publisher |-> "publisherTask", monitor |-> "monitorTask",
           updater |-> "updaterTask"]

WaitSteps == <<"publisher", "monitor", "updater">>

DeinitSteps ==
    <<"publisher", "monitor", "updater", "hubAdapter", "twinConfiguration",
      "telemetryProvider", "diagnosticCollector", "highQueue", "lowQueue",
      "twinQueue", "operationalQueue", "diagnosticQueue", "memoryMonitor",
      "localConfiguration", "iothub", "logger">>

Steps == [init |-> InitSteps, start |-> StartSteps, wait |-> WaitSteps,
          deinit |-> DeinitSteps][pc]
At(phase, what) == pc = phase /\ step <= Len(Steps) /\ Steps[step] = what

---------------------------------------------------------------------------
(* Who calls whom.  A push is charged to the memory monitor, which asks    *)
(* the twin configuration for the limit; what a pop or a freed queue gives *)
(* back is only subtracted.  A log entry becomes a diagnostic event as     *)
(* long as its collector is initiated.                                     *)

Queues == {"diagnosticQueue", "operationalQueue", "highQueue", "lowQueue",
           "twinQueue"}
Pop(q) == {q, "memoryMonitor"}
Push(q) == Pop(q) \cup {"twinConfiguration"}
Log == {"logger"} \cup
       IF "diagnosticCollector" \in up
       THEN {"diagnosticCollector"} \cup Push("diagnosticQueue") ELSE {}

InitCalls(c) ==
    CASE c = "localConfiguration" -> {"iothub"} \cup Log
      [] c = "twinConfiguration" -> {"localConfiguration"}
      [] c = "hubAdapter" -> {"iothub", "localConfiguration"} \cup Log
      [] OTHER -> {}

(* A task's Init stores pointers; the monitor's initiates the collectors.  *)
StartCalls(c) ==
    CASE c = "connect" -> Pop("twinQueue") \cup Log \cup
            {"iothub", "localConfiguration", "hubAdapter", "updaterTask",
             "twinConfiguration"}
      [] c \in Threads \cup {"monitorTask"} -> Log
      [] OTHER -> {}

(* Of what is initiated; the updater's Deinit empties its queue.           *)
DeinitCalls(c) ==
    CASE c = "updater" /\ "updaterTask" \in up -> Pop("twinQueue")
      [] c = "hubAdapter" /\ c \in up -> {"iothub"} \cup Log
      [] c = "diagnosticCollector" /\ c \in up -> Pop("diagnosticQueue")
      [] c \in Queues \cap up -> {"memoryMonitor"}
      [] OTHER -> {}

(* The step that the main thread executes.                                 *)
MainCalls ==
    CASE pc = "init" -> InitCalls(Steps[step])
      [] pc = "start" -> StartCalls(Steps[step])
      [] pc = "deinit" -> DeinitCalls(Steps[step])
      [] OTHER -> {}

(* The execution of a thread's task; the monitor reads the counters of the *)
(* queues and of the adapter through the telemetry provider.               *)
UsedByAll ==
    {"logger", "twinConfiguration", "localConfiguration", "memoryMonitor",
     "diagnosticCollector", "diagnosticQueue"}
UsedBy ==
    [publisher |-> {"highQueue", "lowQueue", "operationalQueue", "hubAdapter",
                    "iothub"},
     monitor |-> {"highQueue", "lowQueue", "operationalQueue",
                  "telemetryProvider", "hubAdapter"},
     updater |-> {"twinQueue", "hubAdapter", "iothub"}]
Uses(t) == UsedByAll \cup UsedBy[t] \cup {TaskOf[t]}

(* The hub's thread, in IoTHubAdapter_DeviceTwinCallback.                  *)
CallbackCalls == Push("twinQueue") \cup Log

Init ==
    /\ pc = "init"
    /\ step = 1
    /\ up = {}
    /\ async = [t \in Threads |-> NoThread]
    /\ joining = FALSE
    /\ items = 0
    /\ torn = {}
    /\ joins = [t \in Threads |-> 0]
    /\ dropped = 0

---------------------------------------------------------------------------
(* SecurityAgent_Init and SecurityAgent_Start.                             *)

Goto(phase) == pc' = phase /\ step' = 1
Advance(phase) ==
    IF step = Len(Steps) THEN Goto(phase) ELSE pc' = pc /\ step' = step + 1

InitStep ==
    /\ pc = "init"
    /\ up' = up \cup ({Steps[step]} \ NothingToDeinit)
    /\ Advance("start")
    /\ UNCHANGED <<async, joining, items, torn, joins, dropped>>

(* Init deinitiates the agent itself; main does so when Start fails.       *)
InitFails ==
    /\ pc = "init"
    /\ Steps[step] \notin NeverFails
    /\ Goto("deinit")
    /\ UNCHANGED <<up, async, joining, items, torn, joins, dropped>>

(* The task of the monitor is never marked as initiated.                   *)
InitTask(t) ==
    /\ At("start", TaskOf[t])
    /\ up' = up \cup {TaskOf[t]}
    /\ async' = [async EXCEPT ![t].taskInitiated = (t # "monitor")]
    /\ Advance("started")
    /\ UNCHANGED <<joining, items, torn, joins, dropped>>

(* UpdateTwinTask_Init does not fail.                                      *)
StartFails ==
    /\ pc = "start"
    /\ Steps[step] # "updaterTask"
    /\ Steps[step] \in Threads => async[Steps[step]].thread = "none"
    /\ async' = IF Steps[step] \in Threads
                THEN [async EXCEPT ![Steps[step]].taskThreadInitiated = TRUE,
                                   ![Steps[step]].continueRunning = TRUE]
                ELSE async
    /\ Goto("deinit")
    /\ UNCHANGED <<up, joining, items, torn, joins, dropped>>

(* UpdateTwinTask_Execute: one update, if there is one.  An update that    *)
(* runs out of memory deinitiates the twin configuration, and nobody       *)
(* looks at the result.                                                    *)
Popped(n) == IF n > 0 THEN n - 1 ELSE n

ExecuteUpdate ==
    /\ items' = Popped(items)
    /\ \/ UNCHANGED <<up, torn>>
       \/ /\ items > 0
          /\ up' = up \ {"twinConfiguration"}
          /\ torn' = {"twinConfiguration"}

(* SecurityAgent_ConnectAndUpdateConfiguration: without a twin it fails,   *)
(* and the first update is executed by the main thread.                    *)
ConnectAndUpdateConfiguration ==
    /\ At("start", "connect")
    /\ items > 0
    /\ ExecuteUpdate
    /\ Advance("started")
    /\ UNCHANGED <<async, joining, joins, dropped>>

(* SchedulerThread_Init and ThreadAPI_Create: the thread may run before    *)
(* its creator marks it as started.                                        *)
CreateThread(t) ==
    /\ At("start", t)
    /\ async[t].thread = "none"
    /\ async' = [async EXCEPT ![t].taskThreadInitiated = TRUE,
                              ![t].continueRunning = TRUE,
                              ![t].thread = "test"]
    /\ UNCHANGED <<pc, step, up, joining, items, torn, joins, dropped>>

MarkStarted(t) ==
    /\ At("start", t)
    /\ async[t].thread # "none"
    /\ async' = [async EXCEPT ![t].state = "started"]
    /\ Advance("started")
    /\ UNCHANGED <<up, joining, items, torn, joins, dropped>>

---------------------------------------------------------------------------
(* SecurityAgent_Wait, as main calls it, and SecurityAgent_Stop.           *)

StopThread(a) == [a EXCEPT !.continueRunning = FALSE]

Wait ==
    /\ pc = "started"
    /\ Goto("wait")
    /\ UNCHANGED <<up, async, joining, items, torn, joins, dropped>>

(* Mutant: the monitor is not told to stop.                                *)
StopsPublisher == {"publisher"}

Stops == {"publisher", "monitor"}

Stop ==
    /\ pc = "started"
    /\ async' = [t \in Threads |-> IF t \in Stops THEN StopThread(async[t])
                                                  ELSE async[t]]
    /\ Goto("wait")
    /\ UNCHANGED <<up, joining, items, torn, joins, dropped>>

Joined(t) == joins' = [joins EXCEPT ![t] = @ + 1]

(* Wait stops the updater itself.                                          *)
WaitStop ==
    /\ At("wait", "updater")
    /\ async["updater"].continueRunning
    /\ async' = [async EXCEPT !["updater"] = StopThread(@)]
    /\ UNCHANGED <<pc, step, up, joining, items, torn, joins, dropped>>

WaitJoin(t) ==
    /\ At("wait", t)
    /\ async[t].thread = "ended"
    /\ Joined(t)
    /\ Advance("deinit")
    /\ UNCHANGED <<up, async, joining, items, torn, dropped>>

---------------------------------------------------------------------------
(* SecurityAgent_Deinit.                                                   *)

(* StopAsyncTask: a thread that is not started is not joined.              *)
DeinitStop(t) ==
    /\ At("deinit", t)
    /\ ~joining
    /\ async[t].taskThreadInitiated
    /\ async[t].state = "started"
    /\ joining' = TRUE
    /\ async' = [async EXCEPT ![t] = StopThread(@)]
    /\ UNCHANGED <<pc, step, up, items, torn, joins, dropped>>

(* Mutant: the thread is told to stop and not waited for.                  *)
MayDeinitSignalled(t) ==
    joining \/ ~async[t].taskThreadInitiated \/ async[t].state # "started"

MayDeinit(t) ==
    IF joining THEN async[t].thread = "ended"
    ELSE ~async[t].taskThreadInitiated \/ async[t].state # "started"

(* ... after the join the scheduler is cleared and the task deinitiated:   *)
(* the updater's empties its queue.                                        *)
DeinitTask(t) ==
    /\ At("deinit", t)
    /\ MayDeinit(t)
    /\ joins' = IF joining THEN [joins EXCEPT ![t] = @ + 1] ELSE joins
    /\ joining' = FALSE
    /\ async' = [async EXCEPT ![t].state = "created",
                              ![t].continueRunning = FALSE]
    /\ up' = IF async[t].taskInitiated THEN up \ {TaskOf[t]} ELSE up
    /\ items' = IF t = "updater" /\ async[t].taskInitiated THEN 0 ELSE items
    /\ Advance("exited")
    /\ UNCHANGED <<torn, dropped>>

DeinitComponent ==
    /\ pc = "deinit"
    /\ Steps[step] \notin Threads
    /\ up' = up \ {Steps[step]}
    /\ dropped' = IF Steps[step] = "twinQueue" THEN items ELSE dropped
    /\ items' = IF Steps[step] = "twinQueue" THEN 0 ELSE items
    /\ Advance("exited")
    /\ UNCHANGED <<async, joining, torn, joins>>

Main ==
    \/ InitStep \/ InitFails
    \/ \E t \in Threads : InitTask(t) \/ CreateThread(t) \/ MarkStarted(t)
    \/ ConnectAndUpdateConfiguration \/ StartFails
    \/ Wait \/ WaitStop
    \/ \E t \in Threads : WaitJoin(t) \/ DeinitStop(t) \/ DeinitTask(t)
    \/ DeinitComponent

---------------------------------------------------------------------------
(* SchedulerThread_MainFunc, and the hub's own thread.                     *)

Move(t, from, to) ==
    /\ async[t].thread \in from
    /\ async' = [async EXCEPT ![t].thread = to]

TestContinue(t) ==
    /\ IF async[t].continueRunning THEN Move(t, {"test"}, "task")
                                   ELSE Move(t, {"test"}, "leaving")
    /\ UNCHANGED <<pc, step, up, joining, items, torn, joins, dropped>>

RunTask(t) ==
    /\ Move(t, {"task"}, "test")
    /\ IF t = "updater" THEN ExecuteUpdate ELSE UNCHANGED <<items, up, torn>>
    /\ UNCHANGED <<pc, step, joining, joins, dropped>>

(* Mutant: the state is left as it was.                                    *)
StateAtEndKept(t) == async[t].state

StateAtEnd(t) == "stopped"

EndThread(t) ==
    /\ async[t].thread = "leaving"
    /\ async' = [async EXCEPT ![t].state = StateAtEnd(t),
                              ![t].thread = "ended"]
    /\ UNCHANGED <<pc, step, up, joining, items, torn, joins, dropped>>

ThreadStep(t) == TestContinue(t) \/ RunTask(t) \/ EndThread(t)

(* The hub delivers a twin update for as long as there is a client.        *)
DeviceTwinCallback ==
    /\ "hubAdapter" \in up
    /\ items < MaxItems
    /\ items' = items + 1
    /\ UNCHANGED <<pc, step, up, async, joining, torn, joins, dropped>>

Next == Main \/ Stop \/ (\E t \in Threads : ThreadStep(t)) \/ DeviceTwinCallback

Spec == Init /\ [][Next]_vars

FairSpec == Spec /\ WF_vars(Main) /\ \A t \in Threads : WF_vars(ThreadStep(t))

---------------------------------------------------------------------------
(* Properties.                                                             *)

Running(t) == async[t].thread \in {"test", "task", "leaving"}

(***************************************************************************)
(* Types.  A thread exists only when its scheduler was initiated.          *)
(***************************************************************************)
TypeOK ==
    /\ pc \in {"init", "start", "started", "wait", "deinit", "exited"}
    /\ step \in 1..Len(DeinitSteps)
    /\ up \subseteq Range(InitSteps) \cup Range(TaskOf)
    /\ async \in [Threads -> [taskInitiated : BOOLEAN,
                             taskThreadInitiated : BOOLEAN,
                             state : {"created", "started", "stopped"},
                             continueRunning : BOOLEAN,
                             thread : {"none", "test", "task", "leaving",
                                       "ended"}]]
    /\ joining \in BOOLEAN
    /\ items \in 0..MaxItems
    /\ torn \subseteq {"twinConfiguration"}
    /\ joins \in [Threads -> Nat]
    /\ dropped \in 0..MaxItems
    /\ \A t \in Threads : async[t].thread # "none" => async[t].taskThreadInitiated

(***************************************************************************)
(* Nothing that is in use is deinitiated, whichever step of Init or Start  *)
(* failed and however far the threads got: what a running thread calls is  *)
(* up, what the step of the main thread calls is up, and what the callback *)
(* of the hub's client calls is up for as long as there is a client.  The  *)
(* order of Init and Deinit alone does not give it: the memory monitor     *)
(* goes up before the twin configuration it asks and outlives it, and the  *)
(* telemetry provider has the counter of an adapter that is not initiated. *)
(* Except what an update that ran out of memory took down itself.          *)
(***************************************************************************)
Live == up \cup torn

LiveWhileUsed ==
    /\ \A t \in Threads : Running(t) => Uses(t) \subseteq Live
    /\ MainCalls \subseteq Live
    /\ "hubAdapter" \in up => CallbackCalls \subseteq Live

(***************************************************************************)
(* A thread is joined once, by Wait or by Deinit (joining it again is      *)
(* undefined), and has ended when the process exits.                       *)
(***************************************************************************)
JoinedOnce ==
    \A t \in Threads :
        /\ joins[t] <= 1
        /\ pc = "exited" /\ async[t].thread # "none" => joins[t] = 1

(***************************************************************************)
(* After SecurityAgent_Stop, and after a step of Init or Start that        *)
(* failed, the agent exits: no join waits for a thread nobody told to      *)
(* stop.  A task that runs returns here; a collector blocked on a mutex    *)
(* left locked (OperationsReturn of TwinCollectors) would keep the         *)
(* monitor's thread, and the agent, from it.                               *)
(***************************************************************************)
StopExits ==
    /\ pc = "deinit" ~> pc = "exited"
    /\ pc = "wait" /\ ~async["publisher"].continueRunning ~> pc = "exited"

(***************************************************************************)
(* event_monitor_task.h has a Deinit that "Deinitiates the task", and      *)
(* SecurityAgent_Deinit calls it.  Violated: only when taskInitiated is    *)
(* set, which SecurityAgent_Start never does for the monitor; its          *)
(* collectors are not deinitiated.                                         *)
(***************************************************************************)
EverythingDeinited == pc = "exited" => up = {}

(***************************************************************************)
(* update_twin_task.h: UpdateTwinTask_Deinit "Deinitiates the task", with  *)
(* the items of its queue.  Violated: the hub's client still delivers      *)
(* updates afterwards, and freeing the queue drops what they point to.     *)
(***************************************************************************)
TwinItemsReleased == dropped = 0

(***************************************************************************)
(* twin_configuration.h: TwinConfiguration_Deinit has to "deinitiate the   *)
(* given twin configuration (free its memory)"; SecurityAgent_Deinit calls *)
(* it when the threads are gone.  Violated: an update that runs out of     *)
(* memory calls it while they run, and frees the lock they take.           *)
(***************************************************************************)
ConfigurationLive == \A t \in Threads : Running(t) => Uses(t) \subseteq up

=============================================================================

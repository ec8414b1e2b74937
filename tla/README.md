# TLA+ models of the Azure IoT security agent (C)

The agent (`src/src/agent`) collects security events on a device, caches them in
memory under a byte limit, and sends them in messages to an IoT Hub. Its
behaviour is configured remotely, by the twin of its module. It runs three
scheduler threads (event monitor, event publisher, twin updater) and the callback
thread of the hub's SDK, which share queues, a memory monitor, counters and the
configuration. This directory models the parts in which those threads meet, and the sequential
parts whose failures are hard to test, checks them with TLC on small instances,
and proves their safety properties with TLAPS for every instance.

Paths below are relative to `src/src/agent/src/`.

## The system

| Part | State | Operations | Meets |
|---|---|---|---|
| Queues (`queue.c`, `synchronized_queue.c`) | a linked list, its length, a lock, a counter, `shouldSendLogs` | PushBack, PopFront, PopFrontIf, GetSize | all threads; memory monitor; logger |
| Memory monitor (`internal/internal_memory_monitor.c`, `synchronized_memory_monitor.c`) | bytes consumed, a lock | Consume, Release, CurrentConsumption | every queue; the twin's limit |
| Telemetry counters (`agent_telemetry_counters.c`, `agent_telemetry_provider.c`) | per queue: collected, dropped; per hub: sent, small, failed | IncreaseBy, SnapshotAndReset | pushing threads, telemetry collector |
| Logger, diagnostic collector (`logger.c`, `collectors/diagnostic_event_collector.c`) | severities, the diagnostic queue | LogEvent, AddEvent, GetEvents | called with queue locks held |
| Twin configuration (`twin_configuration.c`) | the limits, frequencies, strings, a lock, the last update result | Update, getters, the JSON report | twin updater writes, everybody reads |
| Collectors configuration (`twin_configuration_event_collectors.c`) | priorities and aggregation settings, a lock, a flag `isLocked` | Update, GetPriority, GetAggregation*, GetPrioritiesJson | monitor thread, twin thread |
| Publisher and serializer (`tasks/event_publisher_task.c`, `message_serializer.c`) | times of the last executions; the message being built | Execute, SendEvents, CreateSecurityMessage | queues, twin, hub adapter |
| Twin update task (`tasks/update_twin_task.c`) | queue of updates | Execute | SDK callback pushes, twin configuration, hub adapter |
| Hub adapter (`iothub_adapter.c`), DPS (`authentication_manager.c`, `local_config.c`) | handle, connected, hubInitiated, hasTwinConfiguration, message counter; last DPS update time, connection string | Init, Reinit, Connect, SendMessageAsync, SetReportedPropertiesAsync, the callbacks, TryRenewConnectionString | publisher, twin updater, SDK thread |
| Monitor task (`tasks/event_monitor_task.c`) | times of the last cycles | Execute | collectors configuration, collectors, queues |
| Collectors, aggregator, audit (`collectors/`, `os_utils/linux/audit/`) | aggregated events and their hit counts; the audit checkpoint file | GetEvents, AggregateEvent, SetCheckpoint | queues, collectors configuration, the disk |
| Scheduler, agent (`scheduler_thread.c`, `security_agent.c`) | thread state, continueRunning; what was initialised | Init, Start, Stop, Wait, Deinit | owns all of the above |
| Time, JSON, certificates, OS utilities | none that lasts | pure functions, library calls, I/O | |

What is hard here: locks that nest because the logger is called from inside a
queue call; memory charged and released in critical sections other than the
list's; a limit that is read before the lock that protects it; a lock guarded
by a flag that is itself unprotected; message building that takes one event at
a time from queues that keep changing; a client, a connection string and a
configuration that are replaced while other threads use them; a clock squeezed
into 32 bits; a checkpoint written after the fact; failures (allocation,
parsing, sending) half way through each of these. `PROJECT.json` lists each hazard at its line.

What makes the parts correct: a buffer has one owner; the monitor's count is
what is really cached; the cache stays within its limit; queues are FIFO; every
push is counted once; calls return; a reported configuration is one that was
set; a message fits its limit; cached events are sent in the end; the key in
the connection string is the key of the module it names; a flag that says the
client is usable tells the truth; the configuration is one update, and the
result recorded for it is its result; a collector gives back privileges and
memory on every path; no audit record is passed over; nothing is deinitialised
while it is used, and the agent comes to its exit.

## Modules

| Module | What it models |
|---|---|
| `EventCache` | queues, memory monitor, queue counters and logger, step by step |
| `BoundedCache` | abstract: FIFO queues with one byte budget |
| `TwinCollectors` | the lock, flag and fields of the collectors configuration |
| `EventPublisher` | the publisher task and the message serializer |
| `Authentication` | local configuration, DPS, the connection string and its renewal |
| `HubAdapter` | the adapter to the hub's client, its threads and callbacks, the message counter |
| `TwinConfiguration` | the twin configuration, the twin update task, the configuration error collector |
| `CollectorPrograms` | every collector function as a program over the resources it holds |
| `Collectors` | the execution of those programs, with every call that may fail |
| `AuditCheckpoint` | the audit search, its checkpoint file and the event aggregator, over crashes |
| `AgentLifecycle` | `security_agent.c` and `scheduler_thread.c` from start to exit |
| `MonitorTask` | the event monitor task: when its cycles are due and how far they get |
| `Durations` | ISO 8601 durations, parsed and written back |
| `EventCacheProofs` | types, locks, counters, ownership, accounting, budget and refinement of `EventCache`, proved |
| `TwinCollectorsProofs` | types and consistency of the report of `TwinCollectors`; types and `NotEarly` of `MonitorTask`; proved |
| `TwinConfigurationProofs` | types and every safety invariant of `TwinConfiguration`; types, `ParsedIsValue` and `ReportFaithful` of `Durations`; proved |
| `EventPublisherProofs`, `AuthenticationProofs`, `HubAdapterProofs`, `AuditCheckpointProofs`, `AgentLifecycleProofs` | the type invariant and every safety invariant of their component's run, proved |
| `MC*` | the instances TLC checks |

The component modules have a `TypeOK` that documents their state. It holds on
every instance; the runs list it only for `EventCache`, where it is the base of
the proofs of the other properties. `MonitorTask` and `Durations` are proved
about in a module that extends another component too, so the names of their
specification have a prefix (`MonitorSpec`, `DurationTypeOK`).

### EventCache

A thread runs one call at a time. `cur[t]` is the frame of the running call
(queue, data pointer, result) and `outer[t]` the frame of a push that is
suspended while the logger pushes on the diagnostic queue. A step is the code
between two points at which the thread can block or another can overtake it:
the queue's lock (`AcquireLock`), the monitor's lock together with the read of
the limit (`ConsumeLock`), the twin's lock and the comparison (`Consume`), the
allocation (`LinkItem`, `LinkFails`), the undo (`UndoConsume`), the log line
(`LogRefusal`, `SkipLog`), the two increments, the unlock; and for a pop the
lock, `PopNothing` or `UnlinkItem`, `ReleaseItem`, the unlock. `PopNothing`
allows the condition of PopFrontIf to fail on any item. `TwinLock` and
`TwinEnds` are an update of the twin, of which the cache sees the lock and the
new limit (an update that is rejected keeps it); `TwinOutOfMemory` is the
update that ends in `TwinConfiguration_Deinit`.

Data: an event is a buffer with a size. `Bytes` gives the size of a set of
buffers, `sizeof(QueueItem)` included; it is a constant that is assumed
additive and monotonic. `peakLimit`, `outcome` and `reported` are history
variables: they are written and never read by a guard, except for the bound
`MaxPushes`. `Lock` and `Unlock` of the C shared utility do not fail on a valid
handle. The condition passed to PopFrontIf runs under the queue's lock.

### TwinCollectors

The flag and the mutex are two variables, every read and write of the flag is a
step, and a mutex is released by whoever calls `Unlock`, as pthread's default
mutex is on the supported platforms. The fields are abstracted to two that one
update sets to the same value, so that a reader can see half of a memcpy, and
the priority of operational events, which `SetValues` also writes while it is
still parsing. `Update` and the JSON report run under the lock of
`twin_configuration.c` (`twinLock`), the getters do not. The aggregation
getters have the control of GetPriority (the default branch, which returns with
the lock held, has no caller).

### EventPublisher

One pass of `EventPublisherTask_Execute` is `Execute` and then three stages,
each of which is skipped (`SkipStage`), finds its main queue empty
(`MainQueueEmpty`), cannot start its message (`CannotStart`) or builds it with
one queue operation per step (`StartMessage`, `AddEvent`, `LoseEvent`,
`NextQueue`, `FinishMessage`). The passes in which Execute returns early,
because a setting or the consumption cannot be read, change nothing and are
stuttering steps. Times are the ages of the remembered times, so that the model
is finite; beyond `MaxAge` ages are not told apart. `highDiff` and `lowDiff`
are the differences the code computes from one reading of the clock, zeroed
when a stage stores that reading. Collectors push and the twin changes the
maximum message size between any two steps. The two frequencies are constants.
`size` is what the serializer counts, the data of the events; `length` is the
text it sends, which starts with the agent's version and id and the schema's
version (`Envelope`) and has a comma between two events. Nothing counts those.

### Authentication

The statics of `local_config.c` and `authentication_manager.c` and the one
thread that runs them. `ReadSettings` to `AskHub` are `LocalConfiguration_Init`
through the module, the device or DPS, each early return a disjunct;
`TryRenewConnectionString`, `RenewAskDps` and `RenewAskHub` are the renewal,
with the fields of the manager written in the order of the code. `Reprovision`
is the service that moves the device to another hub or name. `strings` counts
the connection strings that are allocated: `Utils_CreateStringCopy` overwrites
the pointer of the old one, and `overwritten` counts those. `Restart` is
systemd's. A request, a signature or a certificate succeeds or fails. Files are
every combination of identity, method and presence of the settings.

### HubAdapter

Five threads: main (Init, Connect, Deinit), publisher (send, renew, reinit),
updater (reported properties, without the lock), monitor (snapshot of the
counters, without the lock) and the SDK's worker with the three callbacks. A
handle is a number, so that a use after a destruction can be seen; `alive` are
the clients that exist, `counterLock` whether the lock of the message counter
does. Destroying a client waits for the callback that runs, fails the messages
in flight and drops their confirmation, as the SDK does. The renewal itself is
one step that succeeds or fails; `Authentication` has its inside. The twin
callback ignores the result of `UpdateTwinTask_InitUpdateTwinTaskItem`: what it
queues (`TwinItems`) is an update, or nothing usable when the memory ran out.

### TwinConfiguration

The updater pops one update per execution, parses, locks, updates the
collectors' part, frees the strings, copies numbers and strings, records
status, result and time one by one, unlocks and reports; each of these is a
step, and each early return leads where the code goes. An update is a record
with a value, `Absent` or `Mismatch` per key. An update whose collectors'
section is rejected after its priorities were read has by then normalised the
operational priority of the configuration in force (`Normalised`); the history
variable `rewritten` says so, and `ConfigurationWhole` allows for that and
nothing else. `taken` says that the update handled last was applied to the end,
which is what `OK` must mean, and only that. The monitor runs the
configuration error collector (three unlocked reads of the last result, then
pairs of getters) and the baseline collector (a string it uses after the
getter returned). Strings are pointers into `heap`. `overtaken` is a history
variable: an update changed the configuration or its result since the running
read began.

### CollectorPrograms and Collectors

The collectors are sequential and what is hard in them is cleanup. Each C
function is a record: its body, a sequence of instructions (acquire, check,
attach, hand over, change to root, call, loop, free), and what its `cleanup`
label releases. `Collectors` runs them on a stack with an owner per object:
JSON values that were attached are not freed by their writer (`shouldFree`),
root is given up by the record that took it (`wasSet`). Every instruction that
can fail may fail, with the results the code gives it.

The property `ReleasedExactlyOnce` has exceptions, named in the module.
`Abandoned` is leaked: the copies of the executable's hash and of the system
call's name, an aggregated event the queue had no room for, and the
configuration serialised for the report of a type mismatch
(`agent_configuration_error_collector.c:268`). `KnownFaults`
are freed or used wrongly: the iterators of a failed Init of the groups and of
the listening ports (`groups_iterator.c:44`, `listening_ports_iterator.c:87`
store the pointer they free, and the caller frees it again), the correlation id
of a diagnostic event that failed before it was set, the iptables rule and the
aggregator that are used without a check.

### AuditCheckpoint

Records happen, are written to the log by auditd later and in the order of their
stamps, and are searched for from the second in the checkpoint file. A cycle of
a collector opens the search, takes each record into the queue or the
aggregator, or skips it (it has errors or is filtered; counted among the
faults), flushes
the aggregator when it is due and writes the time of its search to the file,
also when it was aborted. `Crash` kills the process between any two steps, also
between the truncation of the file and its writing; the file and the log are
what is left. History variables tell what became of each record.

### AgentLifecycle

`InitSteps`, `StartSteps`, `WaitSteps` and `DeinitSteps` are the sequences of
`security_agent.c`; each step succeeds or fails and Deinit undoes what `up`
says is up. The three threads test `continueRunning`, run their task and leave
(`scheduler_thread.c`); the SDK's callback pushes twin updates as long as the
adapter is up. `InitCalls`, `StartCalls` and `DeinitCalls` say which components
the function of a step calls, `Uses` what a thread's task and `CallbackCalls`
what the SDK's callback calls; a push (`Push`) reaches the twin configuration
through the memory monitor, and a log line (`Log`) is a push on the diagnostic
queue while its collector is up. The order of Init and Deinit does not respect
all of these calls: the memory monitor is up before the twin configuration and
after it, and the telemetry provider is given the counter of an adapter that is
initiated later. `LiveWhileUsed` therefore asks for what is called when it is
called. An update that runs out of memory deinitiates the twin configuration
while the threads run (`ExecuteUpdate`); `torn` records it, `LiveWhileUsed`
excepts what is in it, and `ConfigurationLive` (below) does not.

### MonitorTask

Times are ages, and `Word` is the modulus of the unsigned difference. A
difference that does not fit the signed integer is one of the values compilers
give. `Begin`, `Collect` and `PriorityFails` (which cuts the cycle short) are
steps. `PriorityBlocks` is the wait for the collectors mutex that
`TwinCollectorsProgress` shows to be left locked: it may happen whenever a
priority is read, and the task takes no step after it. `CyclesComplete` excepts
this end, and `CyclesAlwaysComplete` (below) does not. The collectors themselves are in `Collectors`. The clock may be set back;
the history variable `waited` is then `Word`, which is more than every period.

### Durations

A text is two sequences of fields, each a number and a letter. The parser takes
one unit at a time with the guards of the code, the writer fills its buffer
with the count of the code; the reference (`Accepted`, `Value`) is defined on
the text as a whole: `InOrder` for the units, `Total` for the seconds, a
recursive function over the fields. Written durations are parsed again; `fields`
keeps what is written of the date and of the time apart, as the text does. A
text without a T has no time (`DurationsAssumption`).

## Runs

| Run | Checks | Result |
|---|---|---|
| `EventCache` | `TypeOK`, `BuffersOwnedOnce`, `MemoryExact`, `BudgetRespected`, `QueueLockProtects`, `CountersComplete`, `ImplementsBoundedCache` (refinement), `CallsReturn` | hold |
| `TwinCollectors` | `ReportIsOneConfiguration` | holds |
| `TwinCollectorsProgress` | `OperationsReturn` | **violated** |
| `EventPublisher` | `MessageAccounted`, `OneHighMessagePerPass`, `EventsDequeued`, `OperationalDequeued` | hold |
| `Authentication` | `KeyOfNamedModule`, `SecretsReleased`, `StaleOnlyAfterFailure` | hold |
| `HubAdapter` | `HandleTruthful`, `DanglingOnlyAfterRenewal`, `ConnectedMeansTwinQueued`, `MessagesCounted`, `SendReturns` | hold |
| `TwinConfiguration` | `ConfigurationWhole`, `ResultTruthful`, `HubViewCurrent`, `ReadsSpoiltOnlyByUpdate` | hold |
| `Collectors` | `PrivilegesGivenBack`, `ReleasedExactlyOnce`, `OkMeansHandedOver` | hold, with the named exceptions |
| `AuditCheckpoint` | `NothingSkipped`, `RepeatedOnlyAfterSearch`, `AggregationExact`, `EveryRecordTaken`, `FlushedWhenOff` | hold |
| `AgentLifecycle` | `LiveWhileUsed`, `JoinedOnce`, `StopExits` | hold |
| `MonitorTask` | `NotEarly`, `CyclesComplete` | hold, the second but for a mutex left locked |
| `Durations` | `ParsedIsValue`, `ReportFaithful` | hold |

`TwinCollectorsProgress` is the one run that is expected to fail: `_Unlock`
clears the flag after it has released the mutex. A thread that locked in
between finds the flag cleared, does not unlock, and the mutex stays locked;
the next user waits for ever.

Several properties say when something bad may happen rather than never, because
it does happen: `StaleOnlyAfterFailure`, `DanglingOnlyAfterRenewal`,
`ReadsSpoiltOnlyByUpdate`, `RepeatedOnlyAfterSearch`. Their unconditional forms
are below.

### Known deviations

Where the code does not do what its comments and headers say. Each has a
definition in the module, or an instance, that TLC refutes: put the property
into the module's cfg in place of the others, or change the constants as told.

| Refuted | Code | What happens | What is written |
|---|---|---|---|
| `EventCache` `BudgetRespected`, with `UintMod = 8`, `Limits = {3, 7}`, `MaxPushes = 2` | `internal/internal_memory_monitor.c:27` | `currentConsumptionInBytes + size` wraps when the limit is near 2^32; the limit is read as a signed integer, so -1 is such a limit | `memory_monitor.h:28`: OK "in case there is enough memory" |
| `TwinCollectors` `SectionExclusive` | `twin_configuration_event_collectors.c:186` | a caller that found `isLocked` set still calls `_Unlock`, which releases the mutex of the thread in the section | line 125: "only after the config lock is locked" |
| `TwinCollectors` `OperationalClamped` | `twin_configuration_event_collectors.c:352` | the clamp is applied to the configuration in force instead of the new one | line 351: "Operational events can be off/operational prio" |
| `EventPublisher` `MessageWithinLimit` | `message_serializer.c:204` | the envelope and the commas are not counted, so a message exceeds the maximum by them | `consts.h:31`: "Agent's max message size" |
| `EventPublisher` `MemoryStageSends` | `tasks/event_publisher_task.c:98` | the memory stage returns when the high priority queue is empty | lines 68-69: "even if there weren't any actual high priority events" |
| `EventPublisher` `EventsDequeued`, with `MessageSizes = {2, 3}` | `message_serializer.c:67` | an event as large as a message stays first for ever | `tasks/event_publisher_task.c:16`: "Dequeue all the events" |
| `Authentication` `UnchangedTimeMeansCurrent` | `authentication_manager.c:668` | the update time is stored before the rest of the answer is used; after a failure the string stays stale | line 661: "there was no re-provisioning" |
| `Authentication` `InitReturns` | `local_config.c:256` | a setting that could not be read is compared | line 80: OK "on success", EXCEPTION "otherwise" |
| `Authentication` `StringsReleased` | `local_config.c:168` | a renewal overwrites the pointer to the old connection string, which is never freed | `local_config.h:29`: "deinitialize the local configuration" |
| `Authentication` `DeinitReleasesAll` | `local_config.c:438` | `agentId` is freed instead of the object name | `local_config.h:29` |
| `HubAdapter` `ConnectedMeansUpdate` | `iothub_adapter.c:387` | the result of the item's allocation is ignored: NULL is queued and the flag is set | line 391, on the push only: "how to handlebad allocation?" |
| `TwinConfiguration` `RejectedChangesNothing` | `twin_configuration_event_collectors.c:352` | an update rejected at an aggregation key has normalised the operational priority in force | line 375: the settings are copied `if (result == TWIN_OK)` |
| `TwinConfiguration` `StringStillAllocated` | `twin_configuration.c:454` | the pointer is used after an update freed the string | `twin_configuration.h:100`: "thread safe" |
| `TwinConfiguration` `UpdateDataWhole` | `twin_configuration.c:463` | the result is read while an update writes it | `twin_configuration.h:128`: "the result of the last twin update" |
| `TwinConfiguration` `ConflictReal` | `collectors/agent_configuration_error_collector.c:157` | the sizes compared are of two configurations | line 151 |
| `TwinConfiguration` `DeinitReturns` | `tasks/update_twin_task.c:41` | an update left in the queue is released through a pointer of the wrong level | `update_twin_task.h:66` |
| `Collectors` `ConnectionsQueued` | `collectors/linux/connection_create_collector.c:292` | a failed serialisation becomes OK | `connection_create_collector.h:17` |
| `Collectors` `InitMeansUsable` | `collectors/linux/connection_create_collector.c:428` | OK without an aggregator | `connection_create_collector.h:28` |
| `AuditCheckpoint` `CollectedOnce` | `os_utils/linux/audit/audit_search.c:119` | records of the second in which a search starts are found twice | `process_creation_collector.h:14`: "since the last time" |
| `AuditCheckpoint` `NoneLostByUpdate` | `collectors/event_aggregator.c:180` | an update in a cycle aborts it, and the checkpoint passes over the rest | `process_creation_collector.h:15`: "for each process" |
| `AgentLifecycle` `EverythingDeinited` | `security_agent.c:152` | `taskInitiated` of the monitor is never set, so its collectors are not deinitialised | `event_monitor_task.h:42` |
| `AgentLifecycle` `ConfigurationLive` | `twin_configuration.c:255` | an update that runs out of memory deinitiates the twin configuration, and frees its locks, while the threads use it; the agent goes on with it | `twin_configuration.h:41`: "deinitiate the given twin configuration (free its memory)" |
| `AgentLifecycle` `TwinItemsReleased` | `security_agent.c:158` | an update delivered after the task emptied its queue is dropped with its payload | `update_twin_task.h:66` |
| `MonitorTask` `CyclesAlwaysComplete` | `twin_configuration_event_collectors.c:186` | a mutex left locked by `_Unlock` blocks the monitor task, and nothing is collected any more | `event_monitor_task.h:35`: "Executes the given task" |
| `MonitorTask` `CyclesComplete`, with `Frequencies = {4}` | `internal/time_utils.c:20` | a frequency above 2^31 ms never comes due | `time_utils.h:22`, `event_monitor_task.c:28` |
| `Durations` `ParsedIsValue`, with `Texts <- MCLongTexts` | `internal/time_utils.c:153` | `%u` wraps a longer number before the overflow guard | line 160: "Overflow guard" |

### Bounds

* EventCache: two threads, the high priority queue and the diagnostic queue,
  three buffers of sizes 2, 3 and 3, limits 3 and 6, one push started per queue
  and the pushes of the logger on top. The default limit admits one event and
  refuses the second; the higher one admits two; a push can therefore be
  refused, log, and have the diagnostic push refused as well, with the other
  thread in the middle of a pop or another push and the twin changing the limit
  at any point. All but the liveness is also proved for every instance.
* TwinCollectors: the two threads of the agent that use this lock, each with the
  operations it calls, and two values per field. There is no other bound.
* EventPublisher: three events, one of them larger; maximum sizes at which two
  or three events fit; frequencies of 0 and 1 ticks (the comparison is strict)
  and ages up to 2, so that every comparison takes both values.
* Authentication: two hubs, two devices and two re-provisionings, so that either
  name changes, or both, and the service moves again during a renewal.
* HubAdapter: two clients, so one renewal that succeeds or fails half way; one
  message in flight across it; one poll in a Connect. The twin updates are not bounded.
* TwinConfiguration: nine updates, one for each way an update can end, two of
  them sent in any order, and two seconds; allocations may fail.
* Collectors: none; all collectors, each run on its own.
* AuditCheckpoint: two records with equal or different payloads, two ticks to a
  second, one failing call and one kill. The searches are not bounded.
* AgentLifecycle: two twin updates waiting. Everything else is the agent's.
* MonitorTask: a word of 8 ticks, frequencies 1 and 3 (the longest that comes
  due), a triggered interval of 2, the clock set back by one tick in all.
* Durations: up to two fields in each part; every unit with 0, 1, its largest
  number and one more, and the seconds that make the longest report. The second
  counter has its real range (times are whole seconds).

Deadlock is not checked where the system stops or is known to block:
TwinCollectors (what `OperationsReturn` is about), Collectors (the process may
crash on a pointer it did not check), AgentLifecycle (the process exits) and
Durations (a parse ends).

### Fairness

* EventCache and TwinCollectors: strong fairness of each thread's steps inside a
  call. The threads are operating system threads that are always scheduled, and
  a mutex that is released again and again is granted in the end, because its
  other users sleep `SCHEDULER_INTERVAL` between two tasks. Nothing is assumed
  of threads that are idle. The twin's update ends (weak fairness).
* EventPublisher: the publisher thread runs and the clock advances (weak), and a
  stage that wants to send does not fail for ever to create its JSON writers
  (strong). Nothing is assumed of collectors, of the twin or of parsing.
* HubAdapter: threads inside a call and callbacks that have begun go on (weak);
  a lock, and the end of the callbacks a destruction waits for, are obtained
  when they are possible again and again (strong). Nothing is assumed of the
  network, of the confirmations or of who starts a call.
* AuditCheckpoint: the monitor thread goes on with its cycles (weak), which
  leaves out the mutex left locked (`PriorityBlocks` of MonitorTask). Faults and
  kills are bounded: they stop some time.
* AgentLifecycle: main and each thread are scheduled (weak); no step of Init
  need succeed, and nobody need call `SecurityAgent_Stop`.
* MonitorTask: the thread runs and the clock advances (weak); a collector that
  is reached again and again does not find the collectors lock taken every time
  (strong), because the twin's updates hold it for a moment and come seldom.
  Nothing is assumed of the mutex being left locked: `PriorityBlocks` is not
  under fairness, may be taken at every read, and disables `Collect` for good.

## Proofs

All obligations are checked by `tlapm`; the only assumptions are the named
`ASSUME`s of the modules, which TLC evaluates on the instances.

Each proof module states one inductive invariant as a conjunction of named
parts, shows part by part that every action preserves it, and derives the
theorems from it. In all of them the properties are too weak to be inductive;
what has to be added is where the argument is.

* `EventCacheProofs`. `TypeCorrect` and `LocksCorrect` rest on `ControlInv`,
  which adds to the type invariant what a thread's location says about its
  frames: when it has a buffer, which results are possible, that a frame is
  suspended only by a refused push on another queue under a push on the
  diagnostic queue, and that the memory lock is held exactly between
  `ConsumeLock` and `Consume`. Without the third part a returning log call could
  release the lock of its own suspended push.
  `CountersCorrect`: `CountersExact` gives, for each queue at every step, what a
  running push still owes each counter; that at most one thread owes anything
  follows from `LocksCorrect`'s invariant, since a push keeps its queue's lock
  until it has counted.
  `CacheInv` is `ControlInv` with `Ownership` (as `BuffersOwnedOnce`, and the
  event of a suspended push is not the one its log line is made of) and
  `MemoryInv` (the count is the size of the charged buffers and is at most the
  peak limit; a limit that was read is at most the peak). From it follow
  `OwnershipCorrect`, `MemoryCorrect`, `BudgetCorrect`, and `RefinementCorrect`:
  `LinkItem` is `Enqueue`, `UnlinkItem` is `Dequeue`, an update with a larger
  limit is `RaiseBudget`, and every other step is a stutter. The last three
  assume `NoWrap`, that no limit plus an item reaches 2^32; the wrap
  among the known deviations shows that they need it.
* `TwinCollectorsProofs`. `ReportCorrect`: threads whose operation runs under
  the twin's lock hold it one at a time, the fields are whole unless an update is
  between the two halves of its copy, and a reader which is half way read the
  first field of the configuration that is still in force. The invariant does not
  mention the flag or the mutex: the report is protected by the outer lock alone.
  The second half of the module is about the task that reads under that lock,
  `MonitorTask`, from its `MonitorAssumption`. `NotEarlyCorrect`, an action property, follows from two facts: a
  remembered reading is as old as the time that passed unless the clock was set
  back (`AgesTrue`), and the unsigned 32-bit difference of a time that passed
  never exceeds it, also when it does not fit (`DifferenceOfAge`).
* `TwinConfigurationProofs`. `Settings` says where the settings are those of the
  update installed last: everywhere (`Settled`) but between the first and the
  last setting that an update replaces, and after one that ran out of memory,
  which takes the lock down. Rejected updates may have normalised the operational
  priority, any number of times, which is as good as once (`NormalisedTwice`).
  `Control` ties that stretch to the lock (`ConfigurationCorrect`), `Truth` follows the result through the three steps
  that record it (`ResultCorrect`), `Told` excludes the stretch in which the
  report is due (`HubViewCorrect`), and `Reading` says what the monitor has read
  so far if nothing overtook it (`ReadsCorrect`).
  The second half is about `Durations`, for texts of any length. What the
  reference's sums are takes induction over the fields. The induction principle
  of the library has an operator as its parameter, which the provers cannot
  instantiate; `SetInduction` is the same for a set, from the order of the
  natural numbers being well founded. `SumsExist` shows with it that a function
  satisfies the recursion, `SumsStep` that `Sums` therefore does, `SumsGrow` that
  a part of a text is not worth more than the whole, `TotalAppend` what one more
  field adds. `InOrderIs` replaces the reference's choice of places by the
  position of each letter.
  `DurationInv` is inductive: while a part is parsed, the consumed fields are in
  order, none is of a unit still to be tested, the next field of a text that is
  in order is of such a unit (so that a text is refused at the end of the units
  only if it is out of order), and `result` is the sum so far (`Consumed`,
  `Added`). A guard then refuses only what exceeds the total too
  (`RefusedByOverflow`). While a report is written (`Writing`), what is left is
  less than the unit written last, which bounds the digits of the next number and
  keeps room for the rest, and what is written and what is left are the value.
  `ParsedCorrect` has a hypothesis: every number of the texts fits 32 bits. The
  last of the known deviations above shows that the property is false
  without it. `ReportFaithfulCorrect` needs no such hypothesis, since what the
  writer writes is short whatever was parsed.
* `EventPublisherProofs`. `LimitCorrect` needs `Separate`: an event is once in
  one queue or once in the message, otherwise the size of a message would not be
  the sum over the set of its events. It says what the code limits, the data, and
  by how much the text is longer. `PassCorrect` needs `Pass`: a stage sends
  after the stages before it, and once the memory stage has sent, the difference
  the high priority stage looks at is zero.
* `AuthenticationProofs`. `Manager`: when the hub is about to be asked for a key,
  the host, the device and the URL are those of the last accepted answer
  (`KeyCorrect`). `Control`: what is to be freed is marked as initialised;
  `Allocated`: the strings allocated are the one in use and those that were
  overwritten, which are all that a shutdown leaves (`ReleaseCorrect`). `Connection` and `Dated`: unless a renewal failed, the
  string names the last accepted answer, and the service dates its assignments
  (`StaleCorrect`).
* `HubAdapterProofs`. `Control` says who holds the lock at which location and
  that main joins the tasks before it leaves; `Handle` relates flag, handle and
  client for both threads that initialise (`HandleCorrect`); `Unrenewed` says
  that before the first renewal only main has worked on the adapter
  (`DanglingCorrect`); `TwinKnown` is the order in the callback, queue first and
  flag later, with an item that may be spoilt (`TwinCorrect`); `Fresh` that nothing is counted before main has
  connected (`CountCorrect`).
* `AuditCheckpointProofs`. `Forward` (the file is never ahead of the searches),
  `Stepped` (a search began at the file's time or at the beginning of the log and
  skipped nothing that was to be taken) and `Passed` (before the checkpoint is
  written nothing is left behind it) give `CheckpointCorrect`; `GoodFile` follows
  what earlier cycles took across an intact checkpoint and gives `RepeatCorrect`;
  `AggregationCorrect` needs only that the log has a record once. The clock is
  compared in whole seconds: `SecondsMonotone`.
* `AgentLifecycleProofs`. `Components` and `Tasks` say which beginning of the
  list of Init, and which end of that of Deinit, is up; `Working` and `Stopping`
  where each thread is in every phase and how often it was joined
  (`JoinCorrect`). `Stopping` is the point: in Deinit a thread that is not joined
  yet belongs to a step to come and is marked as started, so `StopAsyncTask` will
  join it, although the flag is set by its creator after the thread began to
  run. `LiveCorrect` combines this with `Closed`: what is up has what it needs up
  to its own Deinit, from two facts about the lists alone (Init brings a
  component up after what it needs, `NeedsBefore`, and Deinit takes it down
  before, `NeededBefore`). The call of the memory monitor to the twin
  configuration is not among these needs, since the lists do not respect it;
  that nobody pushes in that window follows step by step (`MainLive`,
  `HubCalls`): with the adapter and the threads gone, what is left of Deinit
  pops and frees. `torn` is carried through all of it.

Assumptions. They are about the constants only: sets that are not empty, bounds
that are natural numbers, placeholders (`NoThread`, `NoString`) outside the sets
they stand beside, frequencies below the age at which `EventPublisher` stops
telling ages apart, an additive size (`Bytes`, `Payload`). Limits, frequencies,
message sizes, updates, records, threads, clients, faults and kills are
arbitrary, and so are the texts of `Durations`: in `ParsedCorrect` up to numbers
of 32 bits, otherwise without a bound.

Only model-checked:

* Liveness (`CallsReturn`, `EventsDequeued`, `OperationalDequeued`,
  `SendReturns`, `EveryRecordTaken`, `FlushedWhenOff`, `StopExits`,
  `CyclesComplete`): fairness and ENABLED are out of the prover's reach.
* The three invariants of `Collectors`. The module's only constant is the set of
  collectors, and the run executes all of them without any bound: TLC's search
  is already exhaustive, and a theorem would say nothing more.

## Plan

Done: all modules of the table above, and a theorem for each of their safety
properties except those just named. What could be added: static conditions on
the programs of `CollectorPrograms` (what a function raises or acquires, its own
cleanup releases) that imply the invariants of `Collectors` for programs still
to be written.

The modules have no RECURSIVE operator, and their invariants are conjunctions
of named parts, so that they can be proved about as they are.

## Not modelled

* Parsing and formatting: the fields of audit records, iptables rules, addresses
  and ports, the text of JSON documents. They are sequential functions of their
  input without state; that they may fail, and what is released then, is in
  `Collectors`.
* The JSON readers, the certificate functions, HTTP and the hub's SDK: thin
  wrappers over libraries, or libraries. They appear as calls that succeed or
  fail.
* syslog, log formatting and correlation ids; the numeric settings of the local
  configuration, which are read once and then constant.
* Hazards that are in the models without a property of their own: the counters
  that a failed telemetry event loses (`collectors/agent_telemetry_collector.c:85`),
  the events of a message that could not be sent (`tasks/event_publisher_task.c:110`,
  a FIXME of the code), an update in the second of the one validated last
  (`collectors/agent_configuration_error_collector.c:289`). No document promises
  otherwise.

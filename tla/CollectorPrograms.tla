------------------------- MODULE CollectorPrograms -------------------------
(***************************************************************************)
(* The collectors as programs over the resources they hold.  Every C       *)
(* function is a record: its body, a sequence of instructions, and what    *)
(* its cleanup label releases.  A failing instruction jumps to the label   *)
(* (goto cleanup) with a result.  Resources bear the names of the source's *)
(* variables.  What is written into the JSON text is left out; that the    *)
(* write may fail is not.  Module Collectors executes the programs.        *)
(***************************************************************************)
EXTENDS Sequences

Failure == {"EXCEPTION"}
Results == {"OK", "EXCEPTION", "RECORD_HAS_ERRORS", "RECORD_FILTERED",
            "OUT_OF_MEM"}

---------------------------------------------------------------------------
(* Instructions.                                                           *)

(* A call that sets pointer r, or fails and leaves it NULL.                *)
Acquire(r) == [op |-> "acquire", r |-> r, failing |-> {"null"},
               fields |-> {}]

(* ... or fails and leaves it pointing at what it freed.                   *)
AcquireDangling(r) == [Acquire(r) EXCEPT !.failing = {"null", "dangling"}]

(* ... or fails, and the caller uses the NULL it got; an old pointer used. *)
AcquireUnchecked(r) == [Acquire(r) EXCEPT !.failing = {}]
Use(r) == [op |-> "use", r |-> r]

(* malloc of a structure whose pointer fields nobody sets to NULL.         *)
AcquireRaw(r, fields) == [Acquire(r) EXCEPT !.fields = fields]

(* A step that may jump to the label with one of these results.            *)
Check(results) == [op |-> "check", results |-> results]

(* ProcessInfoHandler_ChangeToRoot(&r).                                    *)
ChangeToRoot(r) == [op |-> "root", r |-> r]

(* The JSON value of r becomes part of another one.                        *)
Attach(r) == [op |-> "attach", r |-> r]

(* The objects rs get a new owner, or the step fails with a result.        *)
HandOver(rs, results) == [op |-> "handOver", rs |-> rs, results |-> results]
SyncQueue_PushBack(r, full) == HandOver({r}, {"EXCEPTION", full})

Free(r) == [op |-> "free", r |-> r]

(* Calls of one of fs; any result but OK or a tolerated one is the         *)
(* caller's result too.  A loop over an iterator, which may fail itself;   *)
(* one that goes on after a failure but keeps it as its result.            *)
Call(f, tolerated) ==
    [op |-> "call", fs |-> {f}, tolerated |-> tolerated, kept |-> {}]
CallOneOf(fs) ==
    [op |-> "call", fs |-> fs, tolerated |-> {}, kept |-> {}]
Each(fs, tolerated, iterator) ==
    [op |-> "each", fs |-> fs, tolerated |-> tolerated, kept |-> {},
     results |-> iterator]
EachKeeping(f, kept) == [Each({f}, {}, {}) EXCEPT !.kept = kept]

(* A function: releases says what the label releases, onFailure what it    *)
(* releases only when the result is not OK, mayFail that the release can   *)
(* turn OK into a failure.                                                 *)
Function(body, releases, onFailure) ==
    [body |-> body, releases |-> releases, onFailure |-> onFailure,
     mayFail |-> FALSE]
Simple(results) == Function(<<Check(results)>>, {}, {})

---------------------------------------------------------------------------
(* Generic events and JSON writers.                                        *)

JsonObjectWriter_Init(r) == Acquire(r)
JsonArrayWriter_Init(r) == Acquire(r)
JsonObjectWriter_Serialize(r) == Acquire(r)
JsonArrayWriter_AddObject(r) == Attach(r)
JsonObjectWriter_WriteObject(r) == Attach(r)
WriteFields == Check(Failure)
GenericEvent_AddMetadata == Check(Failure)
GenericEvent_AddPayload(array) == <<Check(Failure), Attach(array)>>

---------------------------------------------------------------------------
(* Local users.                                                            *)

LocalUsersCollector_CalculateSizeOfGroups == Simple(Failure)
LocalUsersCollector_GenerateGroupNamesAndIds == Simple(Failure)

LocalUsersCollector_AddGroupsForUser ==
    Function(<<AcquireDangling("groupsIterator"),
               Call("LocalUsersCollector_CalculateSizeOfGroups", {}),
               Acquire("combinedGroupNames"),
               Acquire("combinedGroupIds"),
               Call("LocalUsersCollector_GenerateGroupNamesAndIds", {}),
               WriteFields>>,
             {"groupsIterator", "combinedGroupIds", "combinedGroupNames"},
             {})

LocalUsersCollector_AddSingleUser ==
    Function(<<JsonObjectWriter_Init("userObject"),
               WriteFields,
               Call("LocalUsersCollector_AddGroupsForUser", Failure),
               JsonArrayWriter_AddObject("userObject")>>,
             {"userObject"}, {})

LocalUsersCollector_GetEvents ==
    Function(<<JsonObjectWriter_Init("usersEventWriter"),
               GenericEvent_AddMetadata,
               JsonArrayWriter_Init("usersPayloadArray"),
               Acquire("usersIterator"),
               Each({"LocalUsersCollector_AddSingleUser"}, Failure, Failure)>>
             \o GenericEvent_AddPayload("usersPayloadArray")
             \o <<JsonObjectWriter_Serialize("messageBuffer"),
                  SyncQueue_PushBack("messageBuffer", "EXCEPTION")>>,
             {"usersIterator", "usersPayloadArray", "usersEventWriter"},
             {"messageBuffer"})

---------------------------------------------------------------------------
(* Listening ports.                                                        *)

(* One line of "ls -l /proc/<pid>/fd": no inode, or one put in the map.    *)
ListeningPortCollector_SearchInode ==
    Function(<<Check({"OK", "EXCEPTION"}),
               Acquire("inode"),
               Check(Failure),
               Free("inode")>>,
             {}, {})

ListeningPortCollector_PopulateProcessToInodesMap ==
    Function(<<Acquire("command"),
               Acquire("fp"),
               Each({"ListeningPortCollector_SearchInode"}, {}, {})>>,
             {"fp", "command", "inode"}, {})

ListeningPortCollector_PopulateInodesMap ==
    Function(<<Acquire("dir"),
               Each({"ListeningPortCollector_PopulateProcessToInodesMap"},
                    {}, {})>>,
             {"dir"}, {})

ListeningPortCollector_AddPidToExtraDetails == Simple(Failure)

ListeningPortCollector_AddSingleRecord ==
    Function(<<JsonObjectWriter_Init("payloadWriter"),
               JsonObjectWriter_Init("extraDetails"),
               WriteFields,
               Call("ListeningPortCollector_AddPidToExtraDetails", {}),
               Call("ListeningPortCollector_AttachExtraDetails", {}),
               JsonArrayWriter_AddObject("payloadWriter")>>,
             {"payloadWriter", "extraDetails"}, {})

(* The object of extra details is attached when it is not empty.           *)
ListeningPortCollector_AttachExtraDetails ==
    Function(<<Check({"OK"}), JsonObjectWriter_WriteObject("extraDetails")>>,
             {}, {})

ListeningPortCollector_AddPortsByType ==
    Function(<<AcquireDangling("portsIterator"),
               Each({"ListeningPortCollector_AddSingleRecord"}, {},
                    Failure)>>,
             {"portsIterator"}, {})

ListeningPortCollector_AddPorts ==
    Function(<<Acquire("inodesMap"),
               Call("ListeningPortCollector_PopulateInodesMap", {}),
               JsonArrayWriter_Init("listeningPortsPayloadArray"),
               Each({"ListeningPortCollector_AddPortsByType"}, {}, {})>>
             \o GenericEvent_AddPayload("listeningPortsPayloadArray"),
             {"listeningPortsPayloadArray", "inodesMap"}, {})

ListeningPortCollector_GetEvents ==
    Function(<<JsonObjectWriter_Init("listeningPortsEventWriter"),
               GenericEvent_AddMetadata,
               Call("ListeningPortCollector_AddPorts", {}),
               JsonObjectWriter_Serialize("messageBuffer"),
               SyncQueue_PushBack("messageBuffer", "EXCEPTION")>>,
             {"listeningPortsEventWriter"}, {"messageBuffer"})

---------------------------------------------------------------------------
(* Firewall rules.                                                         *)

FirewallCollector_WriteAction == Simple(Failure)
FirewallCollector_WriteRuleStringElement == Simple(Failure)
FirewallCollector_WriteRuleDirectionAndChainElements == Simple(Failure)

FirewallCollector_WriteRules ==
    Function(<<JsonObjectWriter_Init("ruleWriter"),
               WriteFields,
               Call("FirewallCollector_WriteRuleDirectionAndChainElements",
                    {}),
               Each({"FirewallCollector_WriteRuleStringElement"}, {}, {}),
               Call("FirewallCollector_WriteAction", {}),
               JsonArrayWriter_AddObject("ruleWriter")>>,
             {"ruleWriter"}, {})

FirewallCollector_WritePolicyRule ==
    Function(<<JsonObjectWriter_Init("ruleWriter"),
               WriteFields,
               Call("FirewallCollector_WriteRuleDirectionAndChainElements",
                    {}),
               Call("FirewallCollector_WriteAction", {}),
               JsonArrayWriter_AddObject("ruleWriter")>>,
             {"ruleWriter"}, {})

FirewallCollector_IterateRules ==
    Function(<<Acquire("rulesIterator"),
               Each({"FirewallCollector_WriteRules"}, {}, Failure),
               Call("FirewallCollector_WritePolicyRule", {})>>,
             {"rulesIterator"}, {})

(* Mutant: the privileges are given back only on success.                  *)
FirewallCollector_IterateChainsRoot ==
    Function(<<ChangeToRoot("firewallProcessInfo"),
               Check({"OK"}),
               Acquire("chainIterator"),
               Each({"FirewallCollector_IterateRules"}, {}, Failure),
               Free("firewallProcessInfo")>>,
             {"chainIterator"}, {})

(* Check({"OK"}) is IPTABLES_NO_DATA: no iptables on this device.          *)
FirewallCollector_IterateChains ==
    Function(<<ChangeToRoot("firewallProcessInfo"),
               Check({"OK"}),
               Acquire("chainIterator"),
               Each({"FirewallCollector_IterateRules"}, {}, Failure)>>,
             {"chainIterator", "firewallProcessInfo"}, {})

FirewallCollector_GetEvents ==
    Function(<<JsonObjectWriter_Init("firewallRulesWriter"),
               GenericEvent_AddMetadata,
               JsonArrayWriter_Init("rulesPayloadArray"),
               Call("FirewallCollector_IterateChains", {})>>
             \o GenericEvent_AddPayload("rulesPayloadArray")
             \o <<JsonObjectWriter_Serialize("messageBuffer"),
                  SyncQueue_PushBack("messageBuffer", "EXCEPTION")>>,
             {"rulesPayloadArray", "firewallRulesWriter"}, {"messageBuffer"})

---------------------------------------------------------------------------
(* System information.                                                     *)

SystemInformationCollector_WriteFullKernelVersion ==
    Function(<<Acquire("kernelVersionSummary"), WriteFields>>,
             {"kernelVersionSummary"}, {})

SystemInformationCollector_AddMemoryInformation == Simple(Failure)

SystemInformationCollector_AddOsInformation ==
    Function(<<WriteFields,
               Call("SystemInformationCollector_WriteFullKernelVersion", {}),
               WriteFields>>,
             {}, {})

SystemInformationCollector_GeneratePayload ==
    Function(<<JsonObjectWriter_Init("sysinfoPayloadWriter"),
               Call("SystemInformationCollector_AddOsInformation", {}),
               Call("SystemInformationCollector_AddMemoryInformation", {}),
               JsonArrayWriter_AddObject("sysinfoPayloadWriter")>>,
             {"sysinfoPayloadWriter"}, {})

SystemInformationCollector_GetEvents ==
    Function(<<JsonObjectWriter_Init("sysinfoEventWriter"),
               GenericEvent_AddMetadata,
               JsonArrayWriter_Init("sysinfoPayloadArray"),
               Call("SystemInformationCollector_GeneratePayload", {})>>
             \o GenericEvent_AddPayload("sysinfoPayloadArray")
             \o <<JsonObjectWriter_Serialize("messageBuffer"),
                  SyncQueue_PushBack("messageBuffer", "EXCEPTION")>>,
             {"sysinfoPayloadArray", "sysinfoEventWriter"}, {"messageBuffer"})

---------------------------------------------------------------------------
(* Baseline.                                                               *)

BaselineCollector_CopyStringValue == Simple(Failure)

(* A check that passed is filtered.                                        *)
BaselineCollector_AddSingleResult ==
    Function(<<Check({"EXCEPTION", "RECORD_FILTERED"}),
               JsonObjectWriter_Init("itemWriter"),
               WriteFields,
               Each({"BaselineCollector_CopyStringValue"}, {}, {}),
               JsonArrayWriter_AddObject("itemWriter")>>,
             {"itemWriter"}, {})

(* One turn of the loop over the results.                                  *)
BaselineCollector_AddResult ==
    Function(<<Acquire("item"),
               Call("BaselineCollector_AddSingleResult",
                    {"RECORD_FILTERED"})>>,
             {"item"}, {})

(* The pipe's exit status may still fail the command when it is closed.    *)
ProcessUtils_Execute ==
    [Function(<<Acquire("commandStream"), Check(Failure)>>,
              {"commandStream"}, {}) EXCEPT !.mayFail = TRUE]

BaselineCollector_RunOmsbaseline ==
    Function(<<ChangeToRoot("baselineProcessInfo"),
               Call("ProcessUtils_Execute", {})>>,
             {"baselineProcessInfo"}, {})

(* Check({"OK"}) is an empty output.                                       *)
BaselineCollector_AddPayloads ==
    Function(<<Acquire("buffer"),
               Call("BaselineCollector_RunOmsbaseline", {}),
               Check({"OK"}),
               Acquire("baselineResultHandle"),
               Acquire("resultsListHandle"),
               Each({"BaselineCollector_AddResult"}, {}, {})>>,
             {"resultsListHandle", "baselineResultHandle", "buffer"}, {})

(* Its result is not looked at, and it returns none.                       *)
BaselineCollector_AddBaselineCustomChecksPayload ==
    Function(<<Check({"OK"}),
               Acquire("baselineCommand"),
               Call("BaselineCollector_AddPayloads", {})>>,
             {"baselineCommand"}, {})

BaselineCollector_GetEvents ==
    Function(<<JsonObjectWriter_Init("baselineEventWriter"),
               GenericEvent_AddMetadata,
               JsonArrayWriter_Init("baselinePayloadArray"),
               Call("BaselineCollector_AddPayloads", {}),
               Call("BaselineCollector_AddBaselineCustomChecksPayload",
                    Failure)>>
             \o GenericEvent_AddPayload("baselinePayloadArray")
             \o <<JsonObjectWriter_Serialize("messageBuffer"),
                  SyncQueue_PushBack("messageBuffer", "EXCEPTION")>>,
             {"baselinePayloadArray", "baselineEventWriter"},
             {"messageBuffer"})

---------------------------------------------------------------------------
(* Agent telemetry.                                                        *)

AgentTelemetryCollector_AddDroppedEventsStatsPayload ==
    Function(<<JsonObjectWriter_Init("payloadObject"),
               WriteFields,
               JsonArrayWriter_AddObject("payloadObject")>>,
             {"payloadObject"}, {})

AgentTelemetryCollector_AddMessageStatisticsPayload ==
    Function(<<JsonObjectWriter_Init("payloadObject"),
               WriteFields,
               JsonArrayWriter_AddObject("payloadObject")>>,
             {"payloadObject"}, {})

AgentTelemetryCollector_AddQueueCounterPayload ==
    Function(<<Check(Failure),
               Call("AgentTelemetryCollector_AddDroppedEventsStatsPayload",
                    {})>>,
             {}, {})

(* Mutant: a full queue is not a failure.                                  *)
AgentTelemetryCollector_PushEventFull ==
    Function(<<JsonObjectWriter_Serialize("buffer"),
               SyncQueue_PushBack("buffer", "OK")>>,
             {}, {"buffer"})

AgentTelemetryCollector_PushEvent ==
    Function(<<JsonObjectWriter_Serialize("buffer"),
               SyncQueue_PushBack("buffer", "EXCEPTION")>>,
             {}, {"buffer"})

AgentTelemetryCollector_AddDroppedEventsEvent ==
    Function(<<JsonObjectWriter_Init("eventHandle"),
               GenericEvent_AddMetadata,
               JsonArrayWriter_Init("payloadHandle"),
               Call("AgentTelemetryCollector_AddQueueCounterPayload", {}),
               Call("AgentTelemetryCollector_AddQueueCounterPayload", {})>>
             \o GenericEvent_AddPayload("payloadHandle")
             \o <<Call("AgentTelemetryCollector_PushEvent", {})>>,
             {"payloadHandle", "eventHandle"}, {})

AgentTelemetryCollector_AddMessageStatisticsEvent ==
    Function(<<JsonObjectWriter_Init("eventHandle"),
               GenericEvent_AddMetadata,
               JsonArrayWriter_Init("payloadHandle"),
               Check(Failure),
               Call("AgentTelemetryCollector_AddMessageStatisticsPayload",
                    {})>>
             \o GenericEvent_AddPayload("payloadHandle")
             \o <<Call("AgentTelemetryCollector_PushEvent", {})>>,
             {"payloadHandle", "eventHandle"}, {})

AgentTelemetryCollector_GetEvents ==
    Function(<<Call("AgentTelemetryCollector_AddDroppedEventsEvent", {}),
               Call("AgentTelemetryCollector_AddMessageStatisticsEvent",
                    {})>>,
             {}, {})

---------------------------------------------------------------------------
(* Errors of the twin configuration.                                       *)

AgentConfigurationErrorCollector_AddPayload ==
    Function(<<JsonObjectWriter_Init("payloadObject"),
               WriteFields,
               JsonArrayWriter_AddObject("payloadObject")>>,
             {"payloadObject"}, {})

(* Each of the three: the getters, nothing wrong (OK), the used value as   *)
(* text, the payload.                                                      *)
AgentConfigurationErrorCollector_ValidateOne ==
    Function(<<Check(Failure),
               Check({"OK", "EXCEPTION"}),
               Call("AgentConfigurationErrorCollector_AddPayload", {})>>,
             {}, {})

AgentConfigurationErrorCollector_ValidateAll ==
    Function(<<Call("AgentConfigurationErrorCollector_ValidateOne", {}),
               Call("AgentConfigurationErrorCollector_ValidateOne", {}),
               Call("AgentConfigurationErrorCollector_ValidateOne", {})>>,
             {}, {})

(* Nothing is released: the serialised configuration is abandoned.         *)
AgentConfigurationErrorCollector_CreateTypeMismatchPayload ==
    Function(<<Check(Failure),
               Acquire("currentConfiguration"),
               Call("AgentConfigurationErrorCollector_AddPayload", {})>>,
             {}, {})

(* The update failed otherwise: the payload stays empty.                   *)
AgentConfigurationErrorCollector_NoPayload == Simple({})

AgentConfigurationErrorCollector_PushEvent ==
    Function(<<JsonObjectWriter_Serialize("buffer"),
               SyncQueue_PushBack("buffer", "EXCEPTION")>>,
             {}, {"buffer"})

(* Check({"OK"}) is an update that was reported already.                   *)
AgentConfigurationErrorCollector_GetEvents ==
    Function(<<Check({"OK"}),
               JsonObjectWriter_Init("eventHandle"),
               GenericEvent_AddMetadata,
               JsonArrayWriter_Init("payloadHandle"),
               CallOneOf({"AgentConfigurationErrorCollector_ValidateAll",
                   "AgentConfigurationErrorCollector_CreateTypeMismatchPayload",
                   "AgentConfigurationErrorCollector_NoPayload"})>>
             \o GenericEvent_AddPayload("payloadHandle")
             \o <<Call("AgentConfigurationErrorCollector_PushEvent", {})>>,
             {"payloadHandle", "eventHandle"}, {})

---------------------------------------------------------------------------
(* Diagnostic events.                                                      *)

(* The two strings of the new event hold what malloc left in them.         *)
DiagnosticEventCollector_InitDiagnosticEvent ==
    Function(<<AcquireRaw("event", {"message", "correlationId"}),
               Acquire("message"),
               Acquire("correlationId")>>,
             {}, {"message", "correlationId", "event"})

DiagnosticEventCollector_AddEvent ==
    Function(<<Call("DiagnosticEventCollector_InitDiagnosticEvent", {}),
               HandOver({"event", "message", "correlationId"}, Failure)>>,
             {}, {"event", "message", "correlationId"})

DiagnosticEventCollector_AddPayload ==
    Function(<<JsonObjectWriter_Init("eventObject"),
               WriteFields,
               JsonArrayWriter_AddObject("eventObject")>>,
             {"eventObject"}, {})

DiagnosticEventCollector_GetSingleEvent ==
    Function(<<JsonObjectWriter_Init("rootObject"),
               GenericEvent_AddMetadata,
               JsonArrayWriter_Init("diagnosticEventsArray"),
               Call("DiagnosticEventCollector_AddPayload", {})>>
             \o GenericEvent_AddPayload("diagnosticEventsArray")
             \o <<JsonObjectWriter_Serialize("buffer"),
                  SyncQueue_PushBack("buffer", "EXCEPTION")>>,
             {"diagnosticEventsArray", "rootObject"}, {"buffer"})

(* One turn: a popped event is its collector's until it is freed.          *)
DiagnosticEventCollector_TransferEvent ==
    Function(<<Check({"OK", "EXCEPTION"}),
               Acquire("poppedEvent"),
               Call("DiagnosticEventCollector_GetSingleEvent", {})>>,
             {"poppedEvent"}, {})

DiagnosticEventCollector_GetEvents ==
    Function(<<Check(Failure),
               Each({"DiagnosticEventCollector_TransferEvent"}, {}, {})>>,
             {}, {})

---------------------------------------------------------------------------
(* Audit: the search and the control connection hold root privileges from  *)
(* their Init to their Deinit.                                             *)

Search == {"checkpointFile", "audit", "searchProcessInfo"}
Control == {"auditControl", "controlProcessInfo", "cpuArchitectureFilter"}

AuditSearch_InitMultipleSearchCriteria ==
    Function(<<ChangeToRoot("searchProcessInfo"),
               Acquire("audit"),
               Check(Failure),
               Acquire("checkpointFile"),
               Check(Failure)>>,
             {}, Search)

AuditControl_Init ==
    Function(<<ChangeToRoot("controlProcessInfo"),
               Acquire("auditControl"),
               Acquire("cpuArchitectureFilter")>>,
             {}, Control)

(* One turn of the loop over the system calls: the copy is not freed.      *)
AuditControl_AddSyscall ==
    Function(<<Acquire("msgTypeCopy"), Check(Failure)>>, {}, {})

AuditControl_AddRule ==
    Function(<<AcquireUnchecked("rule"),
               Check(Failure),
               Each({"AuditControl_AddSyscall"}, {}, {}),
               Acquire("extraFilterCopy"),
               Check(Failure)>>,
             {"extraFilterCopy", "msgTypeCopy", "rule"}, {})

(* The three handlers of one field differ in how they read it.             *)
GenericAuditEvent_HandleValue == Simple({"EXCEPTION", "RECORD_HAS_ERRORS"})

---------------------------------------------------------------------------
(* Event aggregator.                                                       *)

Aggregator == {"aggregatorObj", "event_name", "payload_schema_version",
               "event_type", "aggregatedEvents"}

EventAggregator_Init ==
    Function(<<Acquire("aggregatorObj"),
               Acquire("event_name"),
               Acquire("payload_schema_version"),
               Acquire("event_type"),
               Acquire("aggregatedEvents")>>,
             {}, Aggregator)

EventAggregator_AddNewEvent ==
    Function(<<Acquire("newItem"),
               Acquire("newItemJson"),
               HandOver({"newItem", "newItemJson"}, Failure)>>,
             {}, {"newItem", "newItemJson"})

(* Check({"OK", ...}): the event is in the list already, or the aggregation*)
(* is off by now, which the callers take for a failure.                    *)
EventAggregator_AggregateEvent ==
    Function(<<Check({"OK", "EXCEPTION"}),
               Call("EventAggregator_AddNewEvent", {})>>,
             {}, {})

(* Check({"OK", ...}): the payload has extra details to write into.        *)
EventAggregator_AddAggregationMetadata ==
    Function(<<Check({"OK", "EXCEPTION"}),
               JsonObjectWriter_Init("metadata"),
               WriteFields,
               JsonObjectWriter_WriteObject("metadata")>>,
             {"metadata"}, {})

(* nodeJson is the list's; clearing the list after the events is releasing *)
(* it after its own event.                                                 *)
EventAggregator_CreateSingleAggregatedEvent ==
    Function(<<Acquire("nodeJson"),
               JsonObjectWriter_Init("event"),
               GenericEvent_AddMetadata,
               JsonArrayWriter_Init("payloads"),
               Call("EventAggregator_AddAggregationMetadata", {}),
               JsonArrayWriter_AddObject("nodeJson")>>
             \o GenericEvent_AddPayload("payloads")
             \o <<JsonObjectWriter_Serialize("aggregatedOutput"),
                  SyncQueue_PushBack("aggregatedOutput", "OK")>>,
             {"payloads", "event", "nodeJson"}, {"aggregatedOutput"})

(* Check({"OK", ...}): the interval has not passed, or its setting cannot  *)
(* be read.                                                                *)
EventAggregator_GetAggregatedEvents ==
    Function(<<Check({"OK", "EXCEPTION"}),
               EachKeeping("EventAggregator_CreateSingleAggregatedEvent",
                           Failure)>>,
             {}, {})

---------------------------------------------------------------------------
(* Process creation.                                                       *)

(* The copy of the hash is put in the map, which copies it again.          *)
ProcessCreationCollector_AddEntryToExecutableHashMap ==
    Function(<<Check({"OK", "EXCEPTION"}),
               Acquire("Hash"),
               Check(Failure)>>,
             {}, {})

ProcessCreationCollector_PopulateExecutableHashMap ==
    Function(<<Acquire("executableHashMap"),
               Call("AuditSearch_InitMultipleSearchCriteria", {}),
               Each({"ProcessCreationCollector_AddEntryToExecutableHashMap"},
                    {}, {})>>,
             Search, {})

ProcessCreationCollector_ReadCommandLine ==
    Function(<<Check(Failure),
               Acquire("commandLineBuffer"),
               Check(Failure)>>,
             {"commandLineBuffer"}, {})

ProcessCreationCollector_GeneratePayload ==
    Function(<<Check(Failure),
               Call("ProcessCreationCollector_ReadCommandLine", {}),
               Each({"GenericAuditEvent_HandleValue"}, {}, {}),
               Call("ProcessCreationCollector_AddEntryToExecutableHashMap",
                    {}),
               JsonObjectWriter_Init("extraDetails"),
               WriteFields,
               JsonObjectWriter_WriteObject("extraDetails")>>,
             {"extraDetails"}, {})

ProcessCreationCollector_CreateEventForAgrregation ==
    Function(<<JsonObjectWriter_Init("processEventPayload"),
               Call("ProcessCreationCollector_GeneratePayload", {}),
               WriteFields,
               Call("EventAggregator_AggregateEvent", {})>>,
             {"processEventPayload"}, {})

(* Mutant: the event's buffer is always freed.                             *)
ProcessCreationCollector_CreateSingleEventFreed ==
    Function(<<JsonObjectWriter_Init("processEvent"),
               Check({"RECORD_HAS_ERRORS"}),
               JsonObjectWriter_Serialize("output"),
               SyncQueue_PushBack("output", "OUT_OF_MEM")>>,
             {"output", "processEvent"}, {})

ProcessCreationCollector_CreateSingleEvent ==
    Function(<<JsonObjectWriter_Init("processEvent"),
               Check({"RECORD_HAS_ERRORS"}),
               GenericEvent_AddMetadata,
               JsonObjectWriter_Init("processEventPayload"),
               Call("ProcessCreationCollector_GeneratePayload", {}),
               JsonArrayWriter_Init("payloads"),
               JsonArrayWriter_AddObject("processEventPayload")>>
             \o GenericEvent_AddPayload("payloads")
             \o <<JsonObjectWriter_Serialize("output"),
                  SyncQueue_PushBack("output", "OUT_OF_MEM")>>,
             {"processEventPayload", "processEvent", "payloads"}, {"output"})

(* Setting the checkpoint, in the cleanup, may fail too.                   *)
ProcessCreationCollector_GetEvents ==
    [Function(<<Call("AuditSearch_InitMultipleSearchCriteria", {}),
                Use("aggregatorObj"),
                Each({"ProcessCreationCollector_CreateEventForAgrregation",
                      "ProcessCreationCollector_CreateSingleEvent"},
                     {"RECORD_HAS_ERRORS", "OUT_OF_MEM"}, Failure),
                Call("EventAggregator_GetAggregatedEvents", {})>>,
              Search, {}) EXCEPT !.mayFail = TRUE]

ProcessCreationCollector_Init ==
    Function(<<Call("AuditControl_Init", {}),
               Call("AuditControl_AddRule", Failure),
               Call("EventAggregator_Init", Failure),
               Call("ProcessCreationCollector_PopulateExecutableHashMap", {}),
               Check(Failure)>>,
             Control, {})

ProcessCreationCollector_Deinit ==
    Function(<<Use("aggregatorObj")>>,
             Aggregator \cup {"executableHashMap"}, {})

---------------------------------------------------------------------------
(* Connection creation.                                                    *)

ConnectionCreationCollector_GetDirection == Simple(Failure)
ConnectionCreateEventCollector_GetRemoteInformation ==
    Simple({"EXCEPTION", "RECORD_HAS_ERRORS", "RECORD_FILTERED"})

ConnectionCreateEventCollector_GeneratePayload ==
    Function(<<Call("ConnectionCreationCollector_GetDirection", {}),
               Call("ConnectionCreateEventCollector_GetRemoteInformation",
                    {}),
               Check({"EXCEPTION", "RECORD_HAS_ERRORS"}),
               Each({"GenericAuditEvent_HandleValue"}, {}, {})>>,
             {}, {})

ConnectionCreationCollector_CreateEventForAggregation ==
    Function(<<JsonObjectWriter_Init("connectionCreateEventPayload"),
               Call("ConnectionCreateEventCollector_GeneratePayload", {}),
               Check({"EXCEPTION", "RECORD_HAS_ERRORS"}),
               Call("EventAggregator_AggregateEvent", {})>>,
             {"connectionCreateEventPayload"}, {})

(* Check({"OK"}): an event that cannot be serialised is a success.         *)
ConnectionCreateEventCollector_CreateSingleEvent ==
    Function(<<JsonObjectWriter_Init("connectionCreationEvent"),
               Check(Failure),
               GenericEvent_AddMetadata,
               JsonObjectWriter_Init("connectionCreationEventPayload"),
               Call("ConnectionCreateEventCollector_GeneratePayload", {}),
               JsonArrayWriter_Init("payloads"),
               JsonArrayWriter_AddObject("connectionCreationEventPayload")>>
             \o GenericEvent_AddPayload("payloads")
             \o <<Check({"OK"}),
                  JsonObjectWriter_Serialize("output"),
                  SyncQueue_PushBack("output", "OUT_OF_MEM")>>,
             {"connectionCreationEventPayload", "connectionCreationEvent",
              "payloads"}, {"output"})

ConnectionCreateEventCollector_GetEvents ==
    [Function(<<Call("AuditSearch_InitMultipleSearchCriteria", {}),
                Use("aggregatorObj"),
                Each({"ConnectionCreationCollector_CreateEventForAggregation",
                      "ConnectionCreateEventCollector_CreateSingleEvent"},
                     {"RECORD_HAS_ERRORS", "RECORD_FILTERED", "OUT_OF_MEM"},
                     Failure),
                Call("EventAggregator_GetAggregatedEvents", {})>>,
              Search, {}) EXCEPT !.mayFail = TRUE]

ConnectionCreateEventCollector_Init ==
    Function(<<Call("AuditControl_Init", {}),
               Call("AuditControl_AddRule", Failure),
               Call("EventAggregator_Init", Failure)>>,
             Control, {})

ConnectionCreateEventCollector_Deinit ==
    Function(<<Use("aggregatorObj")>>, Aggregator, {})

---------------------------------------------------------------------------
(* User login.                                                             *)

UserLoginEvent_GeneratePayload ==
    Function(<<Each({"GenericAuditEvent_HandleValue"}, {}, {}),
               Check({"EXCEPTION", "RECORD_HAS_ERRORS"}),
               Call("GenericAuditEvent_HandleValue", {})>>,
             {}, {})

UserLoginEvent_CreateSingleEvent ==
    Function(<<JsonObjectWriter_Init("userLoginEvent"),
               Check({"RECORD_HAS_ERRORS"}),
               GenericEvent_AddMetadata,
               JsonObjectWriter_Init("userLoginEventPayload"),
               Call("UserLoginEvent_GeneratePayload", {}),
               JsonArrayWriter_Init("payloads"),
               JsonArrayWriter_AddObject("userLoginEventPayload")>>
             \o GenericEvent_AddPayload("payloads")
             \o <<JsonObjectWriter_Serialize("output"),
                  SyncQueue_PushBack("output", "OUT_OF_MEM")>>,
             {"userLoginEventPayload", "userLoginEvent", "payloads"},
             {"output"})

UserLoginCollector_GetEvents ==
    [Function(<<Call("AuditSearch_InitMultipleSearchCriteria", {}),
                Each({"UserLoginEvent_CreateSingleEvent"},
                     {"RECORD_HAS_ERRORS", "OUT_OF_MEM"}, Failure)>>,
              Search, {}) EXCEPT !.mayFail = TRUE]

---------------------------------------------------------------------------
(* The functions by name, and the collectors by the functions the monitor  *)
(* task calls.                                                             *)

Program ==
    [LocalUsersCollector_CalculateSizeOfGroups |->
        LocalUsersCollector_CalculateSizeOfGroups,
     LocalUsersCollector_GenerateGroupNamesAndIds |->
        LocalUsersCollector_GenerateGroupNamesAndIds,
     LocalUsersCollector_AddGroupsForUser |->
        LocalUsersCollector_AddGroupsForUser,
     LocalUsersCollector_AddSingleUser |-> LocalUsersCollector_AddSingleUser,
     LocalUsersCollector_GetEvents |-> LocalUsersCollector_GetEvents,
     ListeningPortCollector_SearchInode |->
        ListeningPortCollector_SearchInode,
     ListeningPortCollector_PopulateProcessToInodesMap |->
        ListeningPortCollector_PopulateProcessToInodesMap,
     ListeningPortCollector_PopulateInodesMap |->
        ListeningPortCollector_PopulateInodesMap,
     ListeningPortCollector_AddPidToExtraDetails |->
        ListeningPortCollector_AddPidToExtraDetails,
     ListeningPortCollector_AddSingleRecord |->
        ListeningPortCollector_AddSingleRecord,
     ListeningPortCollector_AttachExtraDetails |->
        ListeningPortCollector_AttachExtraDetails,
     ListeningPortCollector_AddPortsByType |->
        ListeningPortCollector_AddPortsByType,
     ListeningPortCollector_AddPorts |-> ListeningPortCollector_AddPorts,
     ListeningPortCollector_GetEvents |-> ListeningPortCollector_GetEvents,
     FirewallCollector_WriteAction |-> FirewallCollector_WriteAction,
     FirewallCollector_WriteRuleStringElement |->
        FirewallCollector_WriteRuleStringElement,
     FirewallCollector_WriteRuleDirectionAndChainElements |->
        FirewallCollector_WriteRuleDirectionAndChainElements,
     FirewallCollector_WriteRules |-> FirewallCollector_WriteRules,
     FirewallCollector_WritePolicyRule |-> FirewallCollector_WritePolicyRule,
     FirewallCollector_IterateRules |-> FirewallCollector_IterateRules,
     FirewallCollector_IterateChains |-> FirewallCollector_IterateChains,
     FirewallCollector_GetEvents |-> FirewallCollector_GetEvents,
     SystemInformationCollector_WriteFullKernelVersion |->
        SystemInformationCollector_WriteFullKernelVersion,
     SystemInformationCollector_AddMemoryInformation |->
        SystemInformationCollector_AddMemoryInformation,
     SystemInformationCollector_AddOsInformation |->
        SystemInformationCollector_AddOsInformation,
     SystemInformationCollector_GeneratePayload |->
        SystemInformationCollector_GeneratePayload,
     SystemInformationCollector_GetEvents |->
        SystemInformationCollector_GetEvents,
     BaselineCollector_CopyStringValue |-> BaselineCollector_CopyStringValue,
     BaselineCollector_AddSingleResult |-> BaselineCollector_AddSingleResult,
     BaselineCollector_AddResult |-> BaselineCollector_AddResult,
     ProcessUtils_Execute |-> ProcessUtils_Execute,
     BaselineCollector_RunOmsbaseline |-> BaselineCollector_RunOmsbaseline,
     BaselineCollector_AddPayloads |-> BaselineCollector_AddPayloads,
     BaselineCollector_AddBaselineCustomChecksPayload |->
        BaselineCollector_AddBaselineCustomChecksPayload,
     BaselineCollector_GetEvents |-> BaselineCollector_GetEvents,
     AgentTelemetryCollector_AddDroppedEventsStatsPayload |->
        AgentTelemetryCollector_AddDroppedEventsStatsPayload,
     AgentTelemetryCollector_AddMessageStatisticsPayload |->
        AgentTelemetryCollector_AddMessageStatisticsPayload,
     AgentTelemetryCollector_AddQueueCounterPayload |->
        AgentTelemetryCollector_AddQueueCounterPayload,
     AgentTelemetryCollector_PushEvent |-> AgentTelemetryCollector_PushEvent,
     AgentTelemetryCollector_AddDroppedEventsEvent |->
        AgentTelemetryCollector_AddDroppedEventsEvent,
     AgentTelemetryCollector_AddMessageStatisticsEvent |->
        AgentTelemetryCollector_AddMessageStatisticsEvent,
     AgentTelemetryCollector_GetEvents |-> AgentTelemetryCollector_GetEvents,
     AgentConfigurationErrorCollector_AddPayload |->
        AgentConfigurationErrorCollector_AddPayload,
     AgentConfigurationErrorCollector_ValidateOne |->
        AgentConfigurationErrorCollector_ValidateOne,
     AgentConfigurationErrorCollector_ValidateAll |->
        AgentConfigurationErrorCollector_ValidateAll,
     AgentConfigurationErrorCollector_CreateTypeMismatchPayload |->
        AgentConfigurationErrorCollector_CreateTypeMismatchPayload,
     AgentConfigurationErrorCollector_NoPayload |->
        AgentConfigurationErrorCollector_NoPayload,
     AgentConfigurationErrorCollector_PushEvent |->
        AgentConfigurationErrorCollector_PushEvent,
     AgentConfigurationErrorCollector_GetEvents |->
        AgentConfigurationErrorCollector_GetEvents,
     DiagnosticEventCollector_InitDiagnosticEvent |->
        DiagnosticEventCollector_InitDiagnosticEvent,
     DiagnosticEventCollector_AddEvent |-> DiagnosticEventCollector_AddEvent,
     DiagnosticEventCollector_AddPayload |->
        DiagnosticEventCollector_AddPayload,
     DiagnosticEventCollector_GetSingleEvent |->
        DiagnosticEventCollector_GetSingleEvent,
     DiagnosticEventCollector_TransferEvent |->
        DiagnosticEventCollector_TransferEvent,
     DiagnosticEventCollector_GetEvents |->
        DiagnosticEventCollector_GetEvents,
     AuditSearch_InitMultipleSearchCriteria |->
        AuditSearch_InitMultipleSearchCriteria,
     AuditControl_Init |-> AuditControl_Init,
     AuditControl_AddSyscall |-> AuditControl_AddSyscall,
     AuditControl_AddRule |-> AuditControl_AddRule,
     GenericAuditEvent_HandleValue |-> GenericAuditEvent_HandleValue,
     EventAggregator_Init |-> EventAggregator_Init,
     EventAggregator_AddNewEvent |-> EventAggregator_AddNewEvent,
     EventAggregator_AggregateEvent |-> EventAggregator_AggregateEvent,
     EventAggregator_AddAggregationMetadata |->
        EventAggregator_AddAggregationMetadata,
     EventAggregator_CreateSingleAggregatedEvent |->
        EventAggregator_CreateSingleAggregatedEvent,
     EventAggregator_GetAggregatedEvents |->
        EventAggregator_GetAggregatedEvents,
     ProcessCreationCollector_AddEntryToExecutableHashMap |->
        ProcessCreationCollector_AddEntryToExecutableHashMap,
     ProcessCreationCollector_PopulateExecutableHashMap |->
        ProcessCreationCollector_PopulateExecutableHashMap,
     ProcessCreationCollector_ReadCommandLine |->
        ProcessCreationCollector_ReadCommandLine,
     ProcessCreationCollector_GeneratePayload |->
        ProcessCreationCollector_GeneratePayload,
     ProcessCreationCollector_CreateEventForAgrregation |->
        ProcessCreationCollector_CreateEventForAgrregation,
     ProcessCreationCollector_CreateSingleEvent |->
        ProcessCreationCollector_CreateSingleEvent,
     ProcessCreationCollector_GetEvents |->
        ProcessCreationCollector_GetEvents,
     ProcessCreationCollector_Init |-> ProcessCreationCollector_Init,
     ProcessCreationCollector_Deinit |-> ProcessCreationCollector_Deinit,
     ConnectionCreationCollector_GetDirection |->
        ConnectionCreationCollector_GetDirection,
     ConnectionCreateEventCollector_GetRemoteInformation |->
        ConnectionCreateEventCollector_GetRemoteInformation,
     ConnectionCreateEventCollector_GeneratePayload |->
        ConnectionCreateEventCollector_GeneratePayload,
     ConnectionCreationCollector_CreateEventForAggregation |->
        ConnectionCreationCollector_CreateEventForAggregation,
     ConnectionCreateEventCollector_CreateSingleEvent |->
        ConnectionCreateEventCollector_CreateSingleEvent,
     ConnectionCreateEventCollector_GetEvents |->
        ConnectionCreateEventCollector_GetEvents,
     ConnectionCreateEventCollector_Init |->
        ConnectionCreateEventCollector_Init,
     ConnectionCreateEventCollector_Deinit |->
        ConnectionCreateEventCollector_Deinit,
     UserLoginEvent_GeneratePayload |-> UserLoginEvent_GeneratePayload,
     UserLoginEvent_CreateSingleEvent |-> UserLoginEvent_CreateSingleEvent,
     UserLoginCollector_GetEvents |-> UserLoginCollector_GetEvents]

NoFunction == "none"
Collector(init, events, deinit) ==
    [init |-> init, events |-> events, deinit |-> deinit]
Plain(events) == Collector(NoFunction, events, NoFunction)

AllCollectors ==
    {Plain("LocalUsersCollector_GetEvents"),
     Plain("ListeningPortCollector_GetEvents"),
     Plain("FirewallCollector_GetEvents"),
     Plain("SystemInformationCollector_GetEvents"),
     Plain("BaselineCollector_GetEvents"),
     Plain("AgentTelemetryCollector_GetEvents"),
     Plain("AgentConfigurationErrorCollector_GetEvents"),
     Plain("DiagnosticEventCollector_GetEvents"),
     Plain("DiagnosticEventCollector_AddEvent"),
     Plain("UserLoginCollector_GetEvents"),
     Collector("ProcessCreationCollector_Init",
               "ProcessCreationCollector_GetEvents",
               "ProcessCreationCollector_Deinit"),
     Collector("ConnectionCreateEventCollector_Init",
               "ConnectionCreateEventCollector_GetEvents",
               "ConnectionCreateEventCollector_Deinit")}

=============================================================================

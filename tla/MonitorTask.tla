----------------------------- MODULE MonitorTask ----------------------------
(***************************************************************************)
(* The event monitor task: when its periodic and its triggered cycle are   *)
(* due, by a clock that may be set back and a difference that is squeezed  *)
(* into 32 bits, and how far a cycle gets while the collectors lock may be *)
(* taken by the twin.  What a collector does is in Collectors.             *)
(***************************************************************************)
EXTENDS Integers, Sequences

CONSTANTS
    Word,           \* 2^32: the modulus of the unsigned difference
    Frequencies,    \* snapshot frequencies the twin may configure
    Interval,       \* LocalConfiguration_GetTriggeredEventInterval
    MaxSetBacks     \* bound of the ticks the clock is set back in total

Half == Word \div 2

ASSUME MonitorAssumption ==
    /\ Word \in Nat /\ Word % 2 = 0 /\ Word > 0
    /\ Frequencies \subseteq 1..(Word - 1) /\ Frequencies # {}
    /\ Interval \in 1..(Word - 1)
    /\ MaxSetBacks \in Nat

Cycles == {"periodic", "triggered"}

(* Times are kept as ages: the clock minus the remembered time.  An age    *)
(* above Half - 1 does not fit the signed difference, and the clock cannot *)
(* be set back by so much that an age at the bound fits again.             *)
MaxAge == Half + MaxSetBacks
Ages == (-MaxSetBacks)..MaxAge
Older(a) == IF a = MaxAge THEN a ELSE a + 1

VARIABLES
    cycle,      \* "idle", the cycle the task is about to test or runs, or
                \* "blocked": the task waits for a lock nobody will release
    at,         \* 0, or the position in the cycle that runs
    age,        \* of lastPeriodicExecution and lastTriggeredExecution
    timeDiff,   \* the ages when currentTime was read
    lag,        \* age of currentTime itself
    frequency,  \* the snapshot frequency in force
    periodicFrequency,  \* ... as read by this execution
    setBacks,   \* bound: how far the clock was set back so far
    elapsed,    \* history: the time that really passed since the remembered
                \* readings of the clock, and since the last reading
    moved,      \* history: the clock was set back since then
    waited      \* history: what elapsed showed at the last reading, or Word,
                \* more than every period, when the clock was set back

monitorVars == <<cycle, at, age, timeDiff, lag, frequency, periodicFrequency,
                 setBacks, elapsed, moved, waited>>

Collectors(c) ==
    IF c = "periodic"
    THEN <<"telemetry", "localUsers", "systemInformation", "listeningPorts",
           "firewall", "baseline", "diagnostic">>
    ELSE <<"configurationError", "processCreate", "userLogin",
           "connectionCreate", "diagnostic">>

(* There is a reading of the clock in currentTime that is still used.      *)
Executing == cycle \in Cycles

(* EventMonitorTask_Init: the times are zero, decades ago.                 *)
MonitorInit ==
    /\ cycle = "idle" /\ at = 0
    /\ age = [c \in Cycles |-> MaxAge]
    /\ timeDiff = [c \in Cycles |-> 0]
    /\ lag = 0
    /\ frequency \in Frequencies
    /\ periodicFrequency = 0
    /\ setBacks = 0
    /\ elapsed = [c \in Cycles \cup {"now"} |-> IF c = "now" THEN 0 ELSE MaxAge]
    /\ moved = [c \in Cycles \cup {"now"} |-> FALSE]
    /\ waited = [c \in Cycles |-> 0]

---------------------------------------------------------------------------
(* The clock and the twin.                                                 *)

Tick ==
    /\ age' = [c \in Cycles |-> Older(age[c])]
    /\ elapsed' = [c \in DOMAIN elapsed |->
                       IF c = "now" /\ ~Executing THEN 0
                                                  ELSE Older(elapsed[c])]
    /\ lag' = IF Executing THEN Older(lag) ELSE 0
    /\ UNCHANGED <<cycle, at, timeDiff, frequency, periodicFrequency, setBacks,
                   moved, waited>>

SetClockBack ==
    /\ setBacks < MaxSetBacks
    /\ setBacks' = setBacks + 1
    /\ age' = [c \in Cycles |-> age[c] - 1]
    /\ lag' = IF Executing THEN lag - 1 ELSE 0
    /\ moved' = [c \in DOMAIN moved |-> c # "now" \/ Executing]
    /\ UNCHANGED <<cycle, at, timeDiff, frequency, periodicFrequency, elapsed,
                   waited>>

SetFrequency ==
    /\ frequency' \in Frequencies
    /\ UNCHANGED <<cycle, at, age, timeDiff, lag, periodicFrequency, setBacks,
                   elapsed, moved, waited>>

---------------------------------------------------------------------------
(* EventMonitorTask_Execute.                                               *)

(* TimeUtils_GetTimeDiff: a double that is converted to int32_t.  What     *)
(* does not fit becomes the smallest integer on some processors and the    *)
(* largest one on others.                                                  *)
GetTimeDiff(a) == IF a \in (-Half)..(Half - 1) THEN {a} ELSE {-Half, Half - 1}

AsUInt32(d) == d % Word

Execute ==
    /\ cycle = "idle"
    /\ cycle' = "periodic"
    /\ periodicFrequency' = frequency
    /\ \E p \in GetTimeDiff(age["periodic"]),
          t \in GetTimeDiff(age["triggered"]) :
           timeDiff' = [periodic |-> AsUInt32(p), triggered |-> AsUInt32(t)]
    /\ lag' = 0
    /\ waited' = [c \in Cycles |-> IF moved[c] THEN Word ELSE elapsed[c]]
    /\ elapsed' = [elapsed EXCEPT !["now"] = 0]
    /\ moved' = [moved EXCEPT !["now"] = FALSE]
    /\ UNCHANGED <<at, age, frequency, setBacks>>

Period(c) == IF c = "periodic" THEN periodicFrequency ELSE Interval
Due(c) == timeDiff[c] >= Period(c)
After(c) == IF c = "periodic" THEN "triggered" ELSE "idle"

(* The locals of the test of c are not looked at again.                    *)
Tested(c) ==
    /\ timeDiff' = [timeDiff EXCEPT ![c] = 0]
    /\ periodicFrequency' = IF c = "periodic" THEN 0 ELSE periodicFrequency
    /\ waited' = [waited EXCEPT ![c] = 0]

NotDue(c) ==
    /\ cycle = c /\ at = 0
    /\ ~Due(c)
    /\ cycle' = After(c)
    /\ lag' = IF After(c) = "idle" THEN 0 ELSE lag
    /\ Tested(c)
    /\ UNCHANGED <<at, age, frequency, setBacks, elapsed, moved>>

(* Mutant: the time of the execution is not remembered.                    *)
RememberedNot(c) == age
(* Mutant: the time of an execution is remembered in both.                 *)
RememberedBoth(c) == [d \in Cycles |-> lag]
Remembered(c) == [age EXCEPT ![c] = lag]

(* The time is remembered before anything is collected.                    *)
Begin(c) ==
    /\ cycle = c /\ at = 0
    /\ Due(c)
    /\ at' = 1
    /\ age' = Remembered(c)
    /\ elapsed' = [elapsed EXCEPT ![c] = elapsed["now"]]
    /\ moved' = [moved EXCEPT ![c] = moved["now"]]
    /\ Tested(c)
    /\ UNCHANGED <<cycle, lag, frequency, setBacks>>

End(c) ==
    /\ at' = 0
    /\ cycle' = After(c)
    /\ lag' = IF After(c) = "idle" THEN 0 ELSE lag

(* EventMonitorTask_MonitorSingleEvents: the collector is called with the  *)
(* queue of the priority, or with none when the priority is off, and the   *)
(* cycle goes on whatever it returns.                                      *)
Collect(c, i) ==
    /\ cycle = c /\ at = i
    /\ IF i = Len(Collectors(c))
       THEN End(c)
       ELSE at' = i + 1 /\ UNCHANGED <<cycle, lag>>
    /\ UNCHANGED <<age, timeDiff, frequency, periodicFrequency, setBacks,
                   elapsed, moved, waited>>

(* TwinConfigurationEventCollectors_GetPriority fails when the twin has    *)
(* the lock: the cycle ends, and its time is remembered all the same.      *)
PriorityFails(c) ==
    /\ cycle = c /\ at > 0
    /\ End(c)
    /\ UNCHANGED <<age, timeDiff, frequency, periodicFrequency, setBacks,
                   elapsed, moved, waited>>

(* ... and never returns when the mutex was left locked, with nobody to    *)
(* release it: TwinCollectors shows how _Unlock does that                  *)
(* (OperationsReturn).  The aggregators of a collector can meet it too.    *)
PriorityBlocks(c) ==
    /\ cycle = c /\ at > 0
    /\ cycle' = "blocked" /\ at' = 0 /\ lag' = 0
    /\ UNCHANGED <<age, timeDiff, frequency, periodicFrequency, setBacks,
                   elapsed, moved, waited>>

Task ==
    \/ Execute
    \/ \E c \in Cycles : NotDue(c) \/ Begin(c) \/ PriorityFails(c)
    \/ \E c \in Cycles : \E i \in 1..Len(Collectors(c)) : Collect(c, i)

MonitorNext ==
    \/ Tick \/ SetClockBack \/ SetFrequency
    \/ Task
    \/ \E c \in Cycles : PriorityBlocks(c)

MonitorSpec == MonitorInit /\ [][MonitorNext]_monitorVars

(* The thread runs and the clock advances.  A collector that is reached    *)
(* again and again does not find the lock taken every time, for its other  *)
(* users hold it for a moment.  This says nothing of a mutex that is never *)
(* released: PriorityBlocks may happen whenever a priority is read.  The   *)
(* twin sets the frequency and somebody the clock finitely often.          *)
MonitorFairSpec ==
    /\ MonitorSpec
    /\ WF_monitorVars(Task) /\ WF_monitorVars(Tick)
    /\ \A c \in Cycles : \A i \in 1..Len(Collectors(c)) :
           SF_monitorVars(Collect(c, i))

---------------------------------------------------------------------------
(* Properties.                                                             *)

(***************************************************************************)
(* Ages stay in the range in which they are told apart, the difference is  *)
(* an unsigned word, and a position is one of the running cycle.           *)
(***************************************************************************)
MonitorTypeOK ==
    /\ cycle \in {"idle", "blocked"} \cup Cycles
    /\ at \in 0..(IF Executing THEN Len(Collectors(cycle)) ELSE 0)
    /\ age \in [Cycles -> Ages]
    /\ timeDiff \in [Cycles -> 0..(Word - 1)]
    /\ lag \in Ages
    /\ frequency \in Frequencies
    /\ periodicFrequency \in Frequencies \cup {0}
    /\ setBacks \in 0..MaxSetBacks
    /\ elapsed \in [Cycles \cup {"now"} -> 0..MaxAge]
    /\ moved \in [Cycles \cup {"now"} -> BOOLEAN]
    /\ waited \in [Cycles -> Nat]

(***************************************************************************)
(* Between the readings of the clock that start a cycle and start it again *)
(* its period has really passed, unless the clock was set back meanwhile.  *)
(* The reading is older than the cycle: a triggered cycle that waited for  *)
(* a long periodic one is due again that much earlier.                     *)
(***************************************************************************)
NotEarly == [][\A c \in Cycles : Begin(c) => waited[c] >= Period(c)]_monitorVars

(***************************************************************************)
(* Both cycles are completed again and again, so every collector runs: a   *)
(* cycle cut short by the collectors lock, a clock set back and the        *)
(* difference of the first execution, which does not fit 32 bits, stop     *)
(* none of them for ever.  The one thing that does is the collectors mutex *)
(* left locked, which blocks the whole task.                               *)
(***************************************************************************)
CyclesComplete ==
    \A c \in Cycles :
        \/ []<><<Collect(c, Len(Collectors(c)))>>_monitorVars
        \/ <>(cycle = "blocked")

(***************************************************************************)
(* Deviation: the task completes its cycles whatever happens.  It does not *)
(* after PriorityBlocks.                                                   *)
(***************************************************************************)
CyclesAlwaysComplete ==
    \A c \in Cycles : []<><<Collect(c, Len(Collectors(c)))>>_monitorVars

=============================================================================

------------------------ MODULE MCTwinConfiguration ------------------------
(* TwinConfiguration with one update for every way an update can end: in   *)
(* full, with a string, with sizes of its own, without the object, with a  *)
(* key, a priority or an aggregation key of the wrong type, without        *)
(* "desired", unreadable.                                                  *)
EXTENDS TwinConfiguration

Plain ==
    [form |-> "object", cache |-> Absent, message |-> Absent, high |-> Absent,
     low |-> Absent, path |-> Absent, priorities |-> Absent,
     operational |-> Absent, aggregation |-> Absent]

MCUpdates ==
    {[Plain EXCEPT !.cache = 8, !.message = 6, !.low = 9],
     [Plain EXCEPT !.path = 1, !.priorities = 2, !.operational = 1],
     [Plain EXCEPT !.message = 3, !.path = 2],
     [Plain EXCEPT !.high = 5, !.low = 1, !.message = Mismatch],
     [Plain EXCEPT !.cache = 7, !.priorities = Mismatch],
     [Plain EXCEPT !.high = 1, !.aggregation = Mismatch],
     [Plain EXCEPT !.form = "absent"],
     [Plain EXCEPT !.form = "noDesired"],
     [Plain EXCEPT !.form = "bad"]}

MCDefaultNumbers ==
    [k \in NumericKeys |-> CASE k = "cache" -> 4
                             [] k = "message" -> 2
                             [] k = "high" -> 2
                             [] k = "low" -> 3]

MCDefaultCollectors ==
    [k \in CollectorKeys |-> IF k = "operational" THEN Operational ELSE 1]

=============================================================================

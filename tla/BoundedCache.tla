---------------------------- MODULE BoundedCache ----------------------------
(***************************************************************************)
(* What the event cache promises its users: FIFO queues that share one     *)
(* byte budget.  An event enters at the back of one queue, and only if     *)
(* everything cached still fits the budget; it leaves from the front of    *)
(* that queue; nothing is reordered, duplicated or lost in between.  The   *)
(* budget is the largest limit configured so far, so it only grows.        *)
(***************************************************************************)
EXTENDS Naturals, Sequences

CONSTANTS Queues, Buffers, Bytes, Limits, DefaultLimit

VARIABLES contents, budget

Cached(c) == UNION {{c[q][i] : i \in 1 .. Len(c[q])} : q \in Queues}

Init ==
    /\ contents = [q \in Queues |-> << >>]
    /\ budget = DefaultLimit

Enqueue(q, b) ==
    /\ b \notin Cached(contents)
    /\ Bytes[Cached(contents) \cup {b}] <= budget
    /\ contents' = [contents EXCEPT ![q] = Append(@, b)]
    /\ UNCHANGED budget

Dequeue(q) ==
    /\ contents[q] # << >>
    /\ contents' = [contents EXCEPT ![q] = Tail(@)]
    /\ UNCHANGED budget

RaiseBudget(l) ==
    /\ l > budget
    /\ budget' = l
    /\ UNCHANGED contents

Next ==
    \/ \E q \in Queues : Dequeue(q) \/ \E b \in Buffers : Enqueue(q, b)
    \/ \E l \in Limits : RaiseBudget(l)

Spec == Init /\ [][Next]_<<contents, budget>>

=============================================================================

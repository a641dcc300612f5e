----------------------------- MODULE LatestValue -----------------------------
(***************************************************************************)
(* What the watch channel promises its receivers (src/src/watch.rs): a     *)
(* register of which every receiver is handed the value of the moment.     *)
(* Values may be skipped, and handed out twice, but never out of order.    *)
(***************************************************************************)
EXTENDS Naturals

CONSTANTS Receivers

VARIABLES
    latest,   \* version of the published value
    seen,     \* version each receiver was last handed
    open      \* the sender exists

Init ==
    /\ latest = 1
    /\ seen = [r \in Receivers |-> 0]
    /\ open = TRUE

Publish == open /\ latest' = latest + 1 /\ UNCHANGED <<seen, open>>

Deliver(r) == seen' = [seen EXCEPT ![r] = latest] /\ UNCHANGED <<latest, open>>

Close == open /\ open' = FALSE /\ UNCHANGED <<latest, seen>>

Next == Publish \/ Close \/ \E r \in Receivers : Deliver(r)

Spec == Init /\ [][Next]_<<latest, seen, open>>
=============================================================================

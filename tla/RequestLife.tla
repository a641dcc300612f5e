----------------------------- MODULE RequestLife -----------------------------
(***************************************************************************)
(* What a connection promises for the AiRequests it comes across           *)
(* (src/src/client/grpc.rs): each is taken in once, run alone on the       *)
(* engine, and answered at most once, and only when it has been run.       *)
(***************************************************************************)
EXTENDS Naturals

CONSTANTS Requests

VARIABLES
    life,      \* 0 not met, 1 waiting, 2 running, 3 over
    answers    \* AiResponses submitted for each

Init ==
    /\ life = [r \in Requests |-> 0]
    /\ answers = [r \in Requests |-> 0]

\* Several requests may advance at once, each by any number of stages, and a
\* request that was running may end with an answer.
Advance ==
    /\ life' \in [Requests -> 0..3]
    /\ \A r \in Requests : life[r] <= life'[r]
    /\ \A r, s \in Requests : life'[r] = 2 /\ life'[s] = 2 => r = s
    /\ answers' \in [Requests -> Nat]
    /\ \A r \in Requests :
          \/ answers'[r] = answers[r]
          \/ answers'[r] = answers[r] + 1 /\ life[r] = 2 /\ life'[r] = 3

\* A new connection knows nothing of the requests of the last one.
Reconnect ==
    /\ life' = [r \in Requests |-> 0]
    /\ answers' = [r \in Requests |-> 0]

Next == Advance \/ Reconnect

Spec == Init /\ [][Next]_<<life, answers>>
=============================================================================

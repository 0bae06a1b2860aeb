-------------------------- MODULE RequestResponse --------------------------
(***************************************************************************)
(* What an Interest pipeline promises to the consumers: a request that was *)
(* accepted gets one response, Data or an error, and it gets it eventually *)
(* unless the pipeline stops; a stopped pipeline accepts and answers       *)
(* nothing.  Queues, tokens, windows, retries and the network are not part *)
(* of it.                                                                  *)
(***************************************************************************)
CONSTANT Requests

VARIABLES
    status,   \* per request: "idle", "pending", or its response
    running   \* FALSE for good once the pipeline is closed

abstractVars == <<status, running>>

Responses == {"data", "null"}

Start == status = [r \in Requests |-> "idle"] /\ running = TRUE

Submit(R) ==
    /\ running
    /\ R # {}
    /\ \A r \in R : status[r] = "idle"
    /\ status' = [r \in Requests |-> IF r \in R THEN "pending" ELSE status[r]]
    /\ UNCHANGED running

Respond(r, response) ==
    /\ running
    /\ status[r] = "pending"
    /\ status' = [status EXCEPT ![r] = response]
    /\ UNCHANGED running

Stop == running /\ running' = FALSE /\ UNCHANGED status

AbstractNext ==
    \/ \E R \in SUBSET Requests : Submit(R)
    \/ \E r \in Requests, response \in Responses : Respond(r, response)
    \/ Stop

\* An accepted request is answered or the pipeline stops.
Settle(r) == Stop \/ \E response \in Responses : Respond(r, response)

AbstractSafety == Start /\ [][AbstractNext]_abstractVars

AbstractSpec ==
    AbstractSafety /\ \A r \in Requests : WF_abstractVars(status[r] = "pending" /\ Settle(r))

=============================================================================

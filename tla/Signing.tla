------------------------------- MODULE Signing -------------------------------
(***************************************************************************)
(* Threshold signing: the settlement engine's SigningClient posts a        *)
(* transaction to the signing gateway, which asks the MPC nodes for their  *)
(* partial signatures, one after the other, and answers with the combined  *)
(* signature if at least mpc_threshold of them gave one.                   *)
(*                                                                         *)
(* Time matters, because both the client (urlopen) and the gateway (httpx) *)
(* wait 30 seconds: Timeout ticks here.  A node that works answers within  *)
(* the tick, and a time-out that is due comes before the next tick; when   *)
(* both are due the client's comes first, whose timer started first.       *)
(*                                                                         *)
(* The handler is a coroutine: requests interleave at every await.  A      *)
(* client that gives up does not stop the handler.                         *)
(***************************************************************************)
EXTENDS Naturals, FiniteSets

CONSTANTS
    Requests,
    mpc_total_nodes, mpc_threshold,
    Timeout,        \* both 30-second time-outs, in ticks
    ChainIds,       \* JSON types of the chain_id that a request may carry
    MaxFaults       \* bound on changes of the nodes and restarts

ASSUME SigningAssumption ==
    /\ mpc_total_nodes \in Nat /\ mpc_threshold \in Nat
    /\ Timeout \in Nat \ {0}
    /\ ChainIds \subseteq {"number", "string"}
    /\ MaxFaults \in Nat

Nodes == 1..mpc_total_nodes     \* MPC_NODE_URLS, in order

VARIABLES
    health,         \* health[n]: "up", "down" (unreachable or not 200), "slow"
    chain_id,       \* chain_id[r]: the JSON type of the field
    client,         \* client[r]: "idle", "waiting", "answered" or "failed"
    age,            \* age[r]: ticks since the client sent r
    handler,        \* handler[r]: "none", "asking" or "ended"
    asked,          \* asked[r]: the node being asked; beyond the last: none
    wait,           \* wait[r]: ticks since that node was asked
    partial_signatures,     \* partial_signatures[r]: {<<node, request>>}
    faults,
    \* --- history, read by properties only ---
    answer,         \* answer[r]: the signatures the client received
    notUp, slow,    \* nodes that were not up, or slow, while r was waiting
    killed          \* requests that a restart of the gateway ended

clientVars == <<client, age, answer>>
handlerVars == <<handler, asked, wait, partial_signatures>>
ghosts == <<notUp, slow, killed>>
vars == <<health, chain_id, clientVars, handlerVars, faults, ghosts>>

Health == {"up", "down", "slow"}

TypeOK ==
    /\ health \in [Nodes -> Health]
    /\ chain_id \in [Requests -> ChainIds]
    /\ client \in [Requests -> {"idle", "waiting", "answered", "failed"}]
    /\ age \in [Requests -> 0..Timeout]
    /\ handler \in [Requests -> {"none", "asking", "ended"}]
    /\ asked \in [Requests -> 1..mpc_total_nodes + 1]
    /\ wait \in [Requests -> 0..Timeout]
    /\ partial_signatures \in [Requests -> SUBSET (Nodes \X Requests)]
    /\ answer \in [Requests -> SUBSET (Nodes \X Requests)]
    /\ faults \in 0..MaxFaults
    /\ notUp \in [Requests -> SUBSET Nodes]
    /\ slow \in [Requests -> SUBSET Nodes]
    /\ killed \subseteq Requests

Init ==
    /\ health \in [Nodes -> Health]
    /\ chain_id \in [Requests -> ChainIds]
    /\ client = [r \in Requests |-> "idle"]
    /\ age = [r \in Requests |-> 0]
    /\ handler = [r \in Requests |-> "none"]
    /\ asked = [r \in Requests |-> 1]
    /\ wait = [r \in Requests |-> 0]
    /\ partial_signatures = [r \in Requests |-> {}]
    /\ answer = [r \in Requests |-> {}]
    /\ faults = 0
    /\ notUp = [r \in Requests |-> {}]
    /\ slow = [r \in Requests |-> {}]
    /\ killed = {}

-----------------------------------------------------------------------------
(* SigningClient.sign, and what pydantic makes of the request.             *)

Accept(r) ==
    /\ client[r] = "idle"
    /\ chain_id[r] = "string"
    /\ client' = [client EXCEPT ![r] = "waiting"]
    /\ handler' = [handler EXCEPT ![r] = "asking"]
    /\ notUp' = [notUp EXCEPT ![r] = {n \in Nodes : health[n] # "up"}]
    /\ slow' = [slow EXCEPT ![r] = {n \in Nodes : health[n] = "slow"}]
    /\ UNCHANGED <<health, chain_id, age, answer, asked, wait,
                   partial_signatures, faults, killed>>

(* SignRequest wants a string, SigningRequest sends a number: 422. *)
RefuseType(r) ==
    /\ client[r] = "idle"
    /\ chain_id[r] = "number"
    /\ client' = [client EXCEPT ![r] = "failed"]
    /\ handler' = [handler EXCEPT ![r] = "ended"]
    /\ UNCHANGED <<health, chain_id, age, answer, asked, wait,
                   partial_signatures, faults, ghosts>>

ClientDue(r) == client[r] = "waiting" /\ age[r] = Timeout

ClientTimesOut(r) ==
    /\ ClientDue(r)
    /\ client' = [client EXCEPT ![r] = "failed"]
    /\ UNCHANGED <<health, chain_id, age, answer, handlerVars, faults, ghosts>>

-----------------------------------------------------------------------------
(* sign_transaction, one action per answer it awaits.                      *)

Asking(r) == handler[r] = "asking" /\ asked[r] \in Nodes
Collecting(r) == handler[r] = "asking" /\ asked[r] \notin Nodes

StopAsking(r) ==                \* mutant: an exception ends the loop
    /\ asked' = [asked EXCEPT ![r] = mpc_total_nodes + 1]
    /\ wait' = [wait EXCEPT ![r] = 0]
AskNext(r) ==
    /\ asked' = [asked EXCEPT ![r] = @ + 1]
    /\ wait' = [wait EXCEPT ![r] = 0]

(* partial_sign: 200, from a node that works or is late. *)
NodeSigns(r) ==
    /\ Asking(r)
    /\ health[asked[r]] \in {"up", "slow"}
    /\ partial_signatures' = [partial_signatures EXCEPT
                                ![r] = @ \cup {<<asked[r], r>>}]
    /\ asked' = [asked EXCEPT ![r] = @ + 1]
    /\ wait' = [wait EXCEPT ![r] = 0]
    /\ UNCHANGED <<health, chain_id, clientVars, handler, faults, ghosts>>

(* Another status, or httpx.RequestError at once. *)
NodeRefuses(r) ==
    /\ Asking(r)
    /\ health[asked[r]] = "down"
    /\ AskNext(r)
    /\ UNCHANGED <<health, chain_id, clientVars, handler, partial_signatures,
                   faults, ghosts>>

(* httpx.ReadTimeout, a RequestError too. *)
NoTimeout(r) == FALSE           \* mutant: AsyncClient(timeout=None)
NodeDue(r) == Asking(r) /\ wait[r] = Timeout

NodeTimesOut(r) ==
    /\ NodeDue(r)
    /\ ~ClientDue(r)
    /\ AskNext(r)
    /\ UNCHANGED <<health, chain_id, clientVars, handler, partial_signatures,
                   faults, ghosts>>

SharedList(r) ==                \* mutant: one list for all requests
    UNION {partial_signatures[q] : q \in Requests}
Collected(r) == partial_signatures[r]

threshold_met(r) == Cardinality(Collected(r)) >= mpc_threshold

(* The response, 200 or 503, which nobody may wait for any more. *)
Respond(r) ==
    /\ Collecting(r)
    /\ handler' = [handler EXCEPT ![r] = "ended"]
    /\ \/ /\ client[r] = "waiting" /\ threshold_met(r)
          /\ client' = [client EXCEPT ![r] = "answered"]
          /\ answer' = [answer EXCEPT ![r] = Collected(r)]
       \/ /\ client[r] = "waiting" /\ ~threshold_met(r)
          /\ client' = [client EXCEPT ![r] = "failed"]
          /\ UNCHANGED answer
       \/ /\ client[r] # "waiting"
          /\ UNCHANGED <<client, answer>>
    /\ UNCHANGED <<health, chain_id, age, asked, wait, partial_signatures,
                   faults, ghosts>>

-----------------------------------------------------------------------------
(* Time and faults.                                                        *)

Prompt(r) == Asking(r) /\ health[asked[r]] # "slow"

Tick ==
    /\ \E r \in Requests : client[r] = "waiting" \/ handler[r] = "asking"
    /\ \A r \in Requests :
          ~ClientDue(r) /\ ~NodeDue(r) /\ ~Prompt(r) /\ ~Collecting(r)
    /\ age' = [r \in Requests |-> IF client[r] = "waiting" THEN age[r] + 1
                                  ELSE age[r]]
    /\ wait' = [r \in Requests |-> IF Asking(r) /\ wait[r] < Timeout
                                   THEN wait[r] + 1 ELSE wait[r]]
    /\ UNCHANGED <<health, chain_id, client, answer, handler, asked,
                   partial_signatures, faults, ghosts>>

Waiting == {r \in Requests : client[r] = "waiting"}

NodeBecomes(n, h) ==
    /\ faults < MaxFaults
    /\ faults' = faults + 1
    /\ h # health[n]
    /\ health' = [health EXCEPT ![n] = h]
    /\ notUp' = [r \in Requests |-> IF r \in Waiting /\ h # "up"
                                    THEN notUp[r] \cup {n} ELSE notUp[r]]
    /\ slow' = [r \in Requests |-> IF r \in Waiting /\ h = "slow"
                                   THEN slow[r] \cup {n} ELSE slow[r]]
    /\ UNCHANGED <<chain_id, clientVars, handlerVars, killed>>

(* The gateway's process dies, with every handler in it. *)
GatewayRestarts ==
    /\ faults < MaxFaults
    /\ faults' = faults + 1
    /\ \E r \in Requests : handler[r] = "asking"
    /\ handler' = [r \in Requests |-> IF handler[r] = "asking" THEN "ended"
                                      ELSE handler[r]]
    /\ client' = [r \in Requests |-> IF r \in Waiting THEN "failed"
                                     ELSE client[r]]
    /\ killed' = killed \cup Waiting
    /\ UNCHANGED <<health, chain_id, age, answer, asked, wait,
                   partial_signatures, notUp, slow>>

-----------------------------------------------------------------------------
Step(r) ==
    \/ ClientTimesOut(r)
    \/ NodeRefuses(r) \/ NodeTimesOut(r) \/ Respond(r)

(* What must happen when its time has come; a slow node need not answer. *)
Proceed(r) == Step(r) \/ (Prompt(r) /\ NodeSigns(r))

Next ==
    \/ Tick
    \/ \E r \in Requests :
          Accept(r) \/ RefuseType(r) \/ Step(r) \/ NodeSigns(r)
    \/ \E n \in Nodes, h \in Health : NodeBecomes(n, h)
    \/ GatewayRestarts

Spec == Init /\ [][Next]_vars

(* Time passes, and timers and sockets are served. *)
FairSpec ==
    /\ Spec
    /\ WF_vars(Tick)
    /\ \A r \in Requests : WF_vars(Proceed(r))

-----------------------------------------------------------------------------
(* Properties.                                                             *)

(* What the client takes for a signed transaction carries the partial      *)
(* signatures of at least mpc_threshold nodes on that very transaction,    *)
(* whatever other requests the coroutine is interleaved with               *)
(* (signing_gateway/main.py:46-88).                                        *)
SignedByThreshold ==
    \A r \in Requests : client[r] = "answered" =>
        Cardinality({n \in Nodes : <<n, r>> \in answer[r]}) >= mpc_threshold

(* Nodes that are down cost nothing while enough others work and none is   *)
(* slow: the loop goes on over a failed node (signing_gateway/main.py:67). *)
WorkingNodesSuffice ==
    \A r \in Requests \ killed :
        client[r] = "failed" /\ chain_id[r] = "string" /\ slow[r] = {} =>
            Cardinality(Nodes \ notUp[r]) < mpc_threshold

(* Every request that is sent ends, at the client and in the gateway: a    *)
(* node that hangs holds up neither for good (main.py:49, client.py:70).   *)
EveryRequestEnds ==
    \A r \in Requests :
        client[r] = "waiting" ~>
            client[r] \in {"answered", "failed"} /\ handler[r] = "ended"

-----------------------------------------------------------------------------
(* A statement of the documentation that the code does not keep; there are *)
(* configurations under which TLC refutes it.                              *)

(* README.md:239: "Fans out the signing payload to all nodes, collects     *)
(* partial signatures, and combines them when the 2-of-3 threshold is met":*)
(* as long as enough nodes work, the request is answered.                  *)
ThresholdSuffices ==
    \A r \in Requests \ killed :
        client[r] = "failed" =>
            Cardinality(Nodes \ notUp[r]) < mpc_threshold
=============================================================================

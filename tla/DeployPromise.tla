---------------------------- MODULE DeployPromise ----------------------------
(***************************************************************************)
(* What one Deployer promises whoever calls Deploy and Cancel, and all that*)
(* the deployers of deployments, networks, clusters and gateways rely on.  *)
(* Here a call is made, may look at what the nodes hold, and returns: there*)
(* are no versions, no hashes, no loops, no waiting and no second deploy,  *)
(* and the grid moves as it likes meanwhile.                               *)
(*                                                                         *)
(* A deployment is what it says, as a set of at most one content: {} is no *)
(* deployment.                                                             *)
(***************************************************************************)
CONSTANTS
  Node, ContractId,
  None               \* no contract

VARIABLES
  busy,              \* a call of Deploy has not returned
  ids,               \* the caller's map from nodes to contract ids
  request,           \* what the call is to deploy, node by node
  old,               \* what the call read on the nodes of ids
  outcome,           \* what the last call came to
  nodeOf, live,      \* the chain's contracts: for which node, and not ended
  holds,             \* what is deployed under each contract
  stray              \* contracts for which an abandoned request may yet arrive

vars == <<busy, ids, request, old, outcome, nodeOf, live, holds, stray>>
grid == <<nodeOf, live, holds, stray>>

Nobody == [n \in Node |-> {}]
Asked(m) == {n \in Node : m[n] # {}}
Known(m) == {n \in Node : m[n] # None}

\* As far as the client can see to it, d is deployed under contract c: a contract
\* that has ended and a request that was abandoned are out of its hands.
Has(c, d) == \/ c \in stray
             \/ holds[c] = d
             \/ holds[c] = {} /\ c \notin live

Init ==
  /\ ~ busy /\ outcome = "none"
  /\ ids = [n \in Node |-> None]
  /\ request = Nobody /\ old = Nobody
  /\ nodeOf = [c \in ContractId |-> None]
  /\ holds = [c \in ContractId |-> {}]
  /\ live = {} /\ stray = {}

Call ==
  /\ ~ busy /\ busy'
  /\ old' = Nobody /\ outcome' = "none"
  /\ UNCHANGED <<grid, ids>>

\* It reads a node, or gives up reading and knows nothing.
Read ==
  /\ busy
  /\ \/ \E n \in Known(ids) : old' = [old EXCEPT ![n] = holds[ids[n]]]
     \/ old' = Nobody
  /\ UNCHANGED <<grid, busy, ids, request, outcome>>

\* The caller cancels a contract and forgets it, or keeps it after an error.
Cancel(n) ==
  /\ ~ busy /\ ids[n] # None
  /\ live' = live \ {ids[n]}
  /\ ids' \in {ids, [ids EXCEPT ![n] = None]}
  /\ outcome' = "none"
  /\ UNCHANGED <<busy, request, old, nodeOf, holds, stray>>

\* Between calls only an ended contract or an abandoned request changes what a
\* node holds; a call writes where it was asked to, or where it has read.
MayChange(c) ==
  \/ c \in stray
  \/ holds'[c] = {} /\ c \notin live'
  \/ busy /\ nodeOf[c] \in Asked(request) \cup Asked(old)

\* The grid moves, the client's own steps on it included.
World ==
  /\ \A c \in ContractId : /\ nodeOf[c] # None => nodeOf'[c] = nodeOf[c]
                           /\ holds'[c] # holds[c] => MayChange(c)
  /\ stray \subseteq stray'
  /\ UNCHANGED <<busy, ids, request, old, outcome>>

-----------------------------------------------------------------------------
(* The return of a call, which is all that the caller sees of it.          *)

Created(n) == ids[n] = None /\ ids'[n] # None

\* The map that comes back has every id that was given, and new ones only for
\* nodes of the request, each of a contract for that node that has what was asked.
MapIsRight ==
  \A n \in Node :
    /\ ids[n] # None => ids'[n] = ids[n]
    /\ ids'[n] # None => nodeOf[ids'[n]] = n
    /\ Created(n) => n \in Asked(request) /\ Has(ids'[n], request[n])

\* No node that was read is left between the two: it has what it had, or what it
\* was asked to have.
NothingHalfway ==
  \A n \in Asked(old) : \/ Has(ids[n], old[n])
                        \/ n \in Asked(request) /\ Has(ids[n], request[n])

\* Nothing that was there is changed before all that is new is there.
CreationsFirst ==
  (\E n \in Asked(old) : ~ Has(ids[n], old[n])) => Asked(request) \subseteq Known(ids')

AllDeployed == \A n \in Asked(request) : ids'[n] # None /\ Has(ids'[n], request[n])
AllRestored == \A n \in Asked(old) : Has(ids[n], old[n])

Return ==
  /\ busy /\ ~ busy'
  /\ MapIsRight /\ NothingHalfway /\ CreationsFirst
  /\ \/ outcome' = "ok" /\ AllDeployed
     \/ outcome' = "reverted" /\ AllRestored
     \/ outcome' = "invalid" /\ ids' = ids /\ AllRestored
     \/ outcome' = "failed"
  /\ UNCHANGED <<grid, request, old>>

\* What the deployers above make of a return, in one step of theirs: some nodes were
\* served, with an update among them only if all the new ones were.
ServesSome ==
  \E S \in SUBSET Asked(request) :
    /\ S \cap Known(ids) = {} \/ Asked(request) \ Known(ids) \subseteq S
    /\ Known(ids') = Known(ids) \cup S
    /\ \A n \in S : Has(ids'[n], request[n])
    /\ \A n \in Asked(old) \ S : Has(ids'[n], old[n])

Next == Call \/ Read \/ (\E n \in Node : Cancel(n)) \/ World \/ Return

Spec == Init /\ [][Next]_vars
=============================================================================

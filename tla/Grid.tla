-------------------------------- MODULE Grid --------------------------------
(***************************************************************************)
(* What the client talks to: the chain, which keeps contracts, and the     *)
(* nodes, which hold one deployment per contract and provision its         *)
(* workloads.  Neither is in this repository.  Their operations are taken  *)
(* from how subi/substrate_manager.go and node/node.go use them.           *)
(*                                                                         *)
(* Every module about the client's use of contracts EXTENDS this one; its  *)
(* actions use the operators below for the effect a call has when it is    *)
(* served, and say themselves what happens when it, or its reply, is lost. *)
(***************************************************************************)
EXTENDS Deployments

CONSTANTS
  Node,          \* the nodes of the farm
  ContractId     \* contract ids in the order the chain hands them out: 1..n

ASSUME ContractIdIsPositive == ContractId \subseteq Nat \ {0}
ASSUME NoneIsNoContractId == None \notin ContractId
ASSUME NoneIsNoNode == None \notin Node

VARIABLES
  nodeOf,        \* on the chain: the node each contract is for
  hashOf,        \* on the chain: the hash of the deployment it pays for
  live,          \* on the chain: the contracts that have not ended
  held,          \* on its node: the deployment under each contract id
  state          \* on its node: the state of each workload of that deployment

chain == <<nodeOf, hashOf, live>>
nodes == <<held, state>>

WorkloadState == {"absent", "init", "ok", "error"}

\* The id the chain gives to the next contract.
Fresh(c) == /\ nodeOf[c] = None
            /\ \A b \in ContractId : b < c => nodeOf[b] # None

GridTypeOK ==
  /\ nodeOf \in [ContractId -> Node \cup {None}]
  /\ DOMAIN hashOf = ContractId
  /\ live \subseteq {c \in ContractId : nodeOf[c] # None}
  /\ held \in [ContractId -> Deployment \cup {None}]
  /\ state \in [ContractId -> [Name -> WorkloadState]]

GridInit ==
  /\ nodeOf = [c \in ContractId |-> None]
  /\ hashOf = [c \in ContractId |-> None]
  /\ live = {}
  /\ held = [c \in ContractId |-> None]
  /\ state = [c \in ContractId |-> [w \in Name |-> "absent"]]

-----------------------------------------------------------------------------
(* The chain.                                                              *)

CreateContract(c, n, hash) ==
  /\ Fresh(c)
  /\ nodeOf' = [nodeOf EXCEPT ![c] = n]
  /\ hashOf' = [hashOf EXCEPT ![c] = hash]
  /\ live' = live \cup {c}

\* A contract that is gone cannot be updated.
UpdateContract(c, hash) ==
  /\ c \in live
  /\ hashOf' = [hashOf EXCEPT ![c] = hash]
  /\ UNCHANGED <<nodeOf, live>>

\* Cancelling a contract that is gone is no error to the client.
CancelContract(c) ==
  /\ live' = live \ {c}
  /\ UNCHANGED <<nodeOf, hashOf>>

-----------------------------------------------------------------------------
(* The node.                                                               *)

\* A workload starts over whenever its version is new to the node.
StatesAfter(c, d) ==
  [w \in Name |->
     IF w \notin Names(d) THEN "absent"
     ELSE IF /\ held[c] # None
             /\ w \in Names(held[c])
             /\ held[c].workloads[w].version = d.workloads[w].version
          THEN state[c][w]
          ELSE "init"]

Hold(c, d) == /\ held' = [held EXCEPT ![c] = d]
              /\ state' = [state EXCEPT ![c] = StatesAfter(c, d)]

AcceptDeploy(c, d) == held[c] = None /\ Hold(c, d)

\* "deployment must be a valid update for a deployment that has been already
\* created via DeploymentDeploy": the node takes the next version only.
AcceptUpdate(c, d) == /\ held[c] # None
                      /\ d.version = held[c].version + 1
                      /\ Hold(c, d)

\* The node works on a workload and reports what became of it.
Provision(c, w) ==
  /\ state[c][w] = "init"
  /\ \E s \in {"ok", "error"} : state' = [state EXCEPT ![c][w] = s]
  /\ UNCHANGED <<chain, held>>

\* The chain ends a contract by itself (out of funds), or its owner ends it
\* with another tool.
LoseContract(c) ==
  /\ c \in live
  /\ live' = live \ {c}
  /\ UNCHANGED <<nodeOf, hashOf, nodes>>

\* The node removes what it holds under a contract that has ended.
Decommission(c) ==
  /\ c \notin live
  /\ held[c] # None
  /\ held' = [held EXCEPT ![c] = None]
  /\ state' = [state EXCEPT ![c] = [w \in Name |-> "absent"]]
  /\ UNCHANGED chain

GridNext == \E c \in ContractId :
  \/ \E w \in Name : Provision(c, w)
  \/ LoseContract(c)
  \/ Decommission(c)
=============================================================================

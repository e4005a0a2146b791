-------------------------------- MODULE K8s --------------------------------
(***************************************************************************)
(* deployer/k8s_deployer.go and workloads/k8s.go: a cluster of one master  *)
(* and some workers, spread over nodes, each node with one deployment; and *)
(* what State keeps of it for LoadK8sFromGrid.                             *)
(*                                                                         *)
(* The user calls Deploy, Cancel and UpdateFromRemote on one K8sCluster,   *)
(* one after the other, and edits it in between.  Deployer.Deploy appears  *)
(* by what module Deployer shows of it, in one step, and so does what a    *)
(* call does without changing anything remote.  An id is named by its      *)
(* number among the contracts made for its node; the address of a machine  *)
(* is its node and the subnet State gave it there, as getK8sFreeIP gives   *)
(* all machines of a cluster on one node the same last octet.  A call that *)
(* is refused before it changed anything is no step.                       *)
(*                                                                         *)
(* A contract in its grace period goes on; InvalidateBrokenAttributes      *)
(* takes it for one that has ended, UpdateFromRemote does not.  One that   *)
(* Deployer.Deploy made and could neither return nor cancel goes on too,   *)
(* and nobody knows it.                                                    *)
(***************************************************************************)
EXTENDS Integers, FiniteSets, Sequences, SequencesExt

CONSTANTS
  Node, Name,    \* nodes; names of machines
  Master,        \* the name of the master
  Zero, Nil,     \* K8sNode{}, which names node 0; the nil pointer
  None,
  MaxDeploys, MaxEdits, MaxLosses, MaxMoves   \* bounds

ASSUME MasterIsName == Master \in Name
ASSUME SpecialIsNoNode == Zero \notin Node /\ Nil \notin Node \cup {Zero} /\ None \notin Node
ASSUME MaxIsNat == {MaxDeploys, MaxEdits, MaxLosses, MaxMoves} \subseteq Nat

Worker == Name \ {Master}
Address == Node \X Nat
Machines == [Name -> Address \cup {None}]
Deployment == [ips : Machines, url : Address]   \* url: K3S_URL of the workers

VARIABLES
  master,      \* the node of k8sCluster.Master, or Zero or Nil
  workers,     \* the node of each of k8sCluster.Workers
  ip,          \* K8sNode.IP
  ids,         \* the nodes with an entry in NodeDeploymentID
  current,     \* State.CurrentNodeDeployments: this cluster's ids
  subnets,     \* State.networks: subnets of the cluster's network
  made, live,  \* on the chain: how many contracts so far; those that have not ended
  paused,      \* on the chain: nodes in ids whose contract is in its grace period
  held,        \* on the node: its deployment, under the contract that ids names
  pc, outcome, \* where a call is; what the last one came to
  asked, had,  \* workers and valid ids when Deploy began (history)
  released,    \* contracts dropped from ids in their grace period (history)
  leaked,      \* contracts Deployer.Deploy made and did not return (history)
  deploys, edits, losses, moves

cluster == <<master, workers, ip, ids>>
grid == <<made, live, paused, held>>
history == <<asked, had>>
strays == <<released, leaked>>
bounds == <<deploys, edits, losses, moves>>
vars == <<cluster, current, subnets, grid, pc, outcome, history, strays, bounds>>

TypeOK ==
  /\ master \in Node \cup {Zero, Nil}
  /\ {workers, asked} \subseteq [Worker -> Node \cup {None}]
  /\ ip \in Machines /\ ids \subseteq Node /\ had \subseteq Node
  /\ \A n \in Node : current[n] \in Seq(0..made[n])
  /\ subnets \in [Node -> Nat \cup {None}]
  /\ made \in [Node -> Nat] /\ {live, released, leaked} \subseteq SUBSET (Node \X Nat)
  /\ paused \subseteq Node
  /\ held \in [Node -> Deployment \cup {None}]
  /\ pc \in {"idle", "deploy", "cancel", "crashed"}
  /\ outcome \in {"none", "failed", "deployed", "cancelled", "updated"}
  /\ deploys \in 0..MaxDeploys /\ edits \in 0..MaxEdits
  /\ losses \in 0..MaxLosses /\ moves \in 0..MaxMoves

Init ==
  /\ master \in Node /\ workers \in [Worker -> Node \cup {None}]
  /\ ip = [v \in Name |-> None] /\ ids = {}
  /\ current = [n \in Node |-> <<>>] /\ subnets = [n \in Node |-> 1]
  /\ made = [n \in Node |-> 0] /\ live = {} /\ paused = {} /\ held = [n \in Node |-> None]
  /\ pc = "idle" /\ outcome = "none"
  /\ asked = [w \in Worker |-> None] /\ had = {}
  /\ released = {} /\ leaked = {}
  /\ deploys = 0 /\ edits = 0 /\ losses = 0 /\ moves = 0

\* The contract that ids names for a node is the last one made for it.
IdOf(n) == <<n, made[n]>>
Going == {n \in ids : IdOf(n) \in live}
Valid == Going \ paused    \* contract.State.IsCreated

Forget == asked' = [w \in Worker |-> None] /\ had' = {}
Return(o) == pc' = "idle" /\ outcome' = o
Fail == Return("failed") /\ Forget

Place(v) == IF v = Master THEN master ELSE workers[v]
On(n) == {v \in Name : Place(v) = n}
ClusterNodes == {Place(v) : v \in Name} \ {None}

\* Mutant: a node without a subnet goes unnoticed.
RangesKnownUnparsed == \A n \in ClusterNodes : n \in Node

\* assignNodeIPRange, which comes first in all calls but UpdateFromRemote, and fails
\* when a node of the cluster is not in the network; Zero never is.
RangesKnown == \A n \in ClusterNodes : n \in Node /\ subnets[n] # None

-----------------------------------------------------------------------------
(* Deploy, up to Deployer.Deploy: InvalidateBrokenAttributes and Validate. *)

Drop(gone) ==
  /\ ids' = ids \ gone /\ paused' = paused \ gone
  /\ released' = released \cup {IdOf(n) : n \in gone \cap Going}
  /\ held' = [n \in Node |-> IF n \in gone THEN None ELSE held[n]]

Call ==
  /\ pc = "idle" /\ master # Nil /\ RangesKnown
  /\ deploys < MaxDeploys /\ deploys' = deploys + 1
  /\ UNCHANGED <<ip, current, subnets, made, live, leaked, edits, losses, moves>>

\* With any id set, what is on a node without a valid contract goes: a new worker
\* too, and a master there becomes Zero.  State is left as it is.
Invalidate ==
  /\ Call
  /\ Drop(ids \ Valid)
  /\ master' = IF ids # {} /\ master \notin Valid THEN Zero ELSE master
  /\ workers' = [w \in Worker |-> IF ids # {} /\ workers[w] \notin Valid THEN None
                                  ELSE workers[w]]
  /\ IF master' = Zero THEN Fail
     ELSE /\ pc' = "deploy" /\ outcome' = "none"
          /\ asked' = workers /\ had' = Valid

\* GetContract fails when some have been dropped.
InvalidateFails ==
  /\ Call
  /\ \E gone \in SUBSET (ids \ Valid) : Drop(gone)
  /\ Fail
  /\ UNCHANGED <<master, workers>>

\* A node is not up, or GetFlistChecksum fails, after the attributes have changed.
ValidateFails ==
  /\ pc = "deploy"
  /\ Fail
  /\ UNCHANGED <<cluster, current, subnets, grid, strays, bounds>>

-----------------------------------------------------------------------------
(* Deploy: assignNodesIPs, Deployer.Deploy, and State.                     *)

\* Mutant: an address once given is kept.
AssignNodesIPsOnce ==
  [v \in Name |-> IF ip[v] # None \/ Place(v) = None THEN ip[v]
                  ELSE <<Place(v), subnets[Place(v)]>>]

\* An address outside the subnet of the machine's node is replaced.
AssignNodesIPs ==
  [v \in Name |-> IF Place(v) = None THEN ip[v] ELSE <<Place(v), subnets[Place(v)]>>]

NewDeployment(n) ==
  [ips |-> [v \in Name |-> IF v \in On(n) THEN AssignNodesIPs[v] ELSE None],
   url |-> AssignNodesIPs[Master]]

\* Contains, Append and Delete on a list of ContractIDs.
Note(s, c) == IF Contains(s, c) THEN s ELSE Append(s, c)
Strike(s, c) == RemoveFirst(s, c)

\* Mutant: the workers are noted only when Deploy has not failed for the master.
UpdateStateMaster ==
  current' = [n \in Node |-> IF n = master /\ n \in ids' THEN Note(current[n], made'[n])
                             ELSE current[n]]

\* A worker whose node got no contract is noted as 0; nothing is when the master's
\* did not.
UpdateState ==
  current' = [n \in Node |->
    IF master \in ids' /\ n \in ClusterNodes
    THEN Note(current[n], IF n \in ids' THEN made'[n] ELSE 0)
    ELSE current[n]]

\* Deployments on S are created or updated; more contracts are made and not returned.
DeployOn(S, unreturned) ==
  LET new == (S \ ids) \cup unreturned IN
  /\ ids' = ids \cup S
  /\ made' = [n \in Node |-> IF n \in new THEN made[n] + 1 ELSE made[n]]
  /\ live' = live \cup {<<n, made[n] + 1>> : n \in new}
  /\ leaked' = leaked \cup {<<n, made[n] + 1>> : n \in unreturned}
  /\ held' = [n \in Node |-> IF n \in S THEN NewDeployment(n) ELSE held[n]]
  /\ ip' = AssignNodesIPs
  /\ UpdateState
  /\ UNCHANGED <<master, workers, subnets, paused, released, bounds>>

\* A contract on a node the cluster has left is neither updated nor cancelled.
Deploy ==
  /\ pc = "deploy"
  /\ \A n \in ClusterNodes \cap ids : n \in Going \/ held[n] = NewDeployment(n)
  /\ DeployOn(ClusterNodes, {})
  /\ Return("deployed") /\ UNCHANGED history

\* It fails, or has gone back: what it created stays, and it updates only once all
\* is created.  The contract it could not create may be there all the same, when the
\* answer was lost, or the node refused and it could not be cancelled.
DeployFails ==
  /\ pc = "deploy"
  /\ \E S \in SUBSET (ClusterNodes \ (ids \ Going)) :
       \/ /\ S \cap ids = {} \/ ClusterNodes \ ids \subseteq S
          /\ DeployOn(S, {})
       \/ /\ S \cap ids = {}
          /\ \E n \in ClusterNodes \ (ids \cup S) : DeployOn(S, {n})
  /\ Fail

-----------------------------------------------------------------------------
(* Cancel.                                                                 *)

CancelBegins ==
  /\ pc = "idle" /\ master # Nil /\ RangesKnown
  /\ pc' = "cancel" /\ outcome' = "none" /\ Forget
  /\ UNCHANGED <<cluster, current, subnets, grid, strays, bounds>>

End(n) == live' = live \ {IdOf(n)} /\ paused' = paused \ {n}

CancelNode(n) ==
  /\ pc = "cancel" /\ n \in ids \cap ClusterNodes
  /\ End(n) /\ ids' = ids \ {n} /\ held' = [held EXCEPT ![n] = None]
  /\ current' = [current EXCEPT ![n] = Strike(@, made[n])]
  /\ UNCHANGED <<master, workers, ip, subnets, made, pc, outcome, history, strays, bounds>>

\* Mutant: the entry goes before the contract.
CancelFailsForgetful ==
  /\ pc = "cancel"
  /\ \E n \in ids \cap ClusterNodes : ids' = ids \ {n}
  /\ Fail
  /\ UNCHANGED <<master, workers, ip, current, subnets, grid, strays, bounds>>

\* The call, or its answer, is lost.
CancelFails ==
  /\ pc = "cancel"
  /\ ids \cap ClusterNodes # {}
  /\ \/ UNCHANGED <<live, paused>>
     \/ \E n \in ids \cap ClusterNodes : End(n)
  /\ Fail
  /\ UNCHANGED <<cluster, current, subnets, made, held, strays, bounds>>

CancelDone ==
  /\ pc = "cancel" /\ ids \cap ClusterNodes = {}
  /\ Return("cancelled")
  /\ UNCHANGED <<cluster, current, subnets, grid, history, strays, bounds>>

-----------------------------------------------------------------------------
(* UpdateFromRemote: the cluster as the nodes hold it.                     *)

\* When the chain still has a record of what has ended.  What is in its grace period
\* is not deleted.
RemoveDeletedContracts ==
  /\ pc = "idle" /\ master # Nil
  /\ ids' = Going
  /\ held' = [n \in Node |-> IF n \in Going THEN held[n] ELSE None]
  /\ Forget
  /\ UNCHANGED <<current, subnets, made, live, paused, strays, bounds>>

HoldersOf(v) == {n \in Going : held[n].ips[v] # None}
Remote == {v \in Name : HoldersOf(v) # {}}
\* A machine held on two nodes is where the iteration comes last.
Placements == {at \in [Remote -> Node] : \A v \in Remote : at[v] \in HoldersOf(v)}

MasterFound == master \in Node /\ Master \in Remote
\* What is no worker's name, and not the master's, is taken for one more worker.
Missing == {v \in Remote : IF v = Master THEN ~ MasterFound ELSE workers[v] = None}

\* Mutant: a worker the user removed is not looked for.
PlaceWorkersKnown(at) ==
  workers' = [w \in Worker |-> IF w \in Remote /\ workers[w] # None THEN at[w] ELSE None]

PlaceWorkers(at) == workers' = [w \in Worker |-> IF w \in Remote THEN at[w] ELSE None]

PlaceMaster(at) == master' = IF MasterFound THEN at[Master] ELSE Nil

UpdateFromRemote ==
  /\ RemoveDeletedContracts
  /\ MasterFound \/ Missing = {}
  /\ \E at \in Placements :
       /\ PlaceMaster(at)
       /\ PlaceWorkers(at)
       /\ ip' = [v \in Name |-> IF v \in Remote THEN held[at[v]].ips[v] ELSE None]
  /\ Return("updated")

\* GetDeployments fails, or the master cannot be made of its workload; or a worker
\* cannot, when the master has changed already.
UpdateFails ==
  /\ RemoveDeletedContracts
  /\ \/ UNCHANGED <<master, ip>>
     \/ /\ \E w \in Remote \ {Master} : MasterFound \/ workers[w] # None
        /\ \E at \in Placements :
             /\ PlaceMaster(at)
             /\ ip' = [ip EXCEPT ![Master] =
                         IF MasterFound THEN held[at[Master]].ips[Master] ELSE None]
  /\ Return("failed")
  /\ UNCHANGED workers

\* With no master, the name of a machine that is missing is compared with that of
\* a nil pointer.
UpdatePanics ==
  /\ RemoveDeletedContracts
  /\ ~ MasterFound /\ Missing # {}
  /\ master' = Nil
  /\ pc' = "crashed" /\ outcome' = "failed"
  /\ UNCHANGED <<workers, ip>>

-----------------------------------------------------------------------------
(* The user, between calls; the network's own deployer; and the grid.      *)

Edit ==
  /\ pc = "idle" /\ edits < MaxEdits
  /\ edits' = edits + 1
  /\ \/ \E w \in Worker, n \in Node \cup {None} :
          /\ workers' = [workers EXCEPT ![w] = n] /\ ip' = [ip EXCEPT ![w] = None]
        /\ UNCHANGED master
     \/ \E n \in Node : master' = n /\ ip' = [ip EXCEPT ![Master] = None]
        /\ UNCHANGED workers
  /\ outcome' = "none" /\ Forget
  /\ UNCHANGED <<ids, current, subnets, grid, strays, pc, deploys, losses, moves>>

\* The network is cancelled and deployed anew, or loses the node.
MoveNetwork(n) ==
  /\ pc = "idle" /\ moves < MaxMoves
  /\ moves' = moves + 1
  /\ subnets' = [subnets EXCEPT ![n] = IF @ = None THEN moves' + 1 ELSE None]
  /\ outcome' = "none" /\ Forget
  /\ UNCHANGED <<cluster, current, grid, strays, pc, deploys, edits, losses>>

Trouble == losses < MaxLosses /\ losses' = losses + 1

LoseContract(c) ==
  /\ c \in live /\ Trouble
  /\ live' = live \ {c} /\ paused' = {n \in paused : IdOf(n) # c}
  /\ UNCHANGED <<cluster, current, subnets, made, held, pc, outcome, history, strays,
                 deploys, edits, moves>>

\* A contract's grace period begins, or the user pays in time.
Pause(n) ==
  /\ \/ n \in Valid /\ Trouble /\ paused' = paused \cup {n}
     \/ n \in paused /\ paused' = paused \ {n} /\ UNCHANGED losses
  /\ UNCHANGED <<cluster, current, subnets, made, live, held, pc, outcome, history, strays,
                 deploys, edits, moves>>

Decommission(n) ==
  /\ n \notin Going /\ held[n] # None
  /\ held' = [held EXCEPT ![n] = None]
  /\ UNCHANGED <<cluster, current, subnets, made, live, paused, pc, outcome, history, strays,
                 bounds>>

Deploying == Invalidate \/ InvalidateFails \/ ValidateFails \/ Deploy \/ DeployFails
Cancelling == \/ CancelBegins \/ \E n \in Node : CancelNode(n)
              \/ CancelFails \/ CancelDone
Updating == UpdateFromRemote \/ UpdateFails \/ UpdatePanics
Environment == \/ \E n \in Node : MoveNetwork(n) \/ Pause(n) \/ Decommission(n)
               \/ \E c \in live : LoseContract(c)

Next == Deploying \/ Cancelling \/ Updating \/ Edit \/ Environment

Spec == Init /\ [][Next]_vars

-----------------------------------------------------------------------------
(* What is asked of it.                                                    *)

\* Every contract of the cluster that goes on is one the K8sCluster knows, so that a
\* later call can update or cancel it, however many nodes the cluster has left and
\* wherever a call failed.  The exceptions are the contracts that Deployer.Deploy made
\* and could neither return nor cancel, and those that InvalidateBrokenAttributes
\* dropped in their grace period (Deploy, Cancel, UpdateFromRemote).
LiveIsKnown == \A c \in live \ (leaked \cup released) : c[1] \in ids /\ c = IdOf(c[1])

\* A Deploy that returned nil has every worker that was asked for running on its
\* node, with an address in the subnet State has for it, and told where the master
\* is, whatever was deployed, moved or lost before; except the workers that
\* InvalidateBrokenAttributes dropped, those on nodes that had no contract when
\* others had one.
DeploysWhatWasAsked ==
  pc = "idle" /\ outcome = "deployed" =>
    \A w \in Worker :
      LET n == asked[w] IN
      n = None \/ held[n] = None \/ (had # {} /\ n \notin had)
      \/ /\ held[n].ips[w] = <<n, subnets[n]>>
         /\ held[master] # None => held[n].url = held[master].ips[Master]

\* GetWorkloadInDeployment on one node, as LoadK8sFromGrid uses it: the first id
\* whose deployment cannot be read is an error.
Readable(n, c) == n \in ids /\ c = made[n] /\ held[n] # None
Loads(n) == \E i \in DOMAIN current[n] :
              Readable(n, current[n][i]) /\ \A j \in 1..i : Readable(n, current[n][j])

\* A cluster that was deployed can be loaded again from all its nodes, unless one
\* of them got no contract in an earlier call, which State notes as 0, or had one
\* that ended by other means than Cancel or was dropped in its grace period, which
\* State still lists (State, GetWorkloadInDeployment).
LoadsCluster ==
  pc = "idle" /\ outcome = "deployed" =>
    \A n \in ClusterNodes :
      \/ Loads(n)
      \/ \E i \in DOMAIN current[n] : current[n][i] # made[n]
      \/ held[n] = None

\* After UpdateFromRemote the cluster has every machine that runs under one of the
\* contracts in NodeDeploymentID, those in their grace period included, each on a
\* node that holds it and with the address it has there, those the user had removed
\* and no call deleted included, so that the next Deploy counts them.
RemoteIsSeen ==
  pc = "idle" /\ outcome = "updated" =>
    \A n \in Going, v \in Name :
      held[n].ips[v] # None =>
        /\ Place(v) \in Node
        /\ Place(v) \in Going => held[Place(v)].ips[v] = ip[v]
=============================================================================

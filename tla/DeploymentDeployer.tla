------------------------- MODULE DeploymentDeployer -------------------------
(***************************************************************************)
(* deployer/deployment_deployer.go and deployer/network_state.go: VMs of   *)
(* several deployments in one network get their addresses from one         *)
(* NetworkState, which only Sync fills.                                    *)
(*                                                                         *)
(* The deployments are of one node, since addresses and NetworkState are   *)
(* per node; an address is its last byte, the host id.  The user calls     *)
(* Deploy, Cancel and Sync on the deployments in any order, one after the  *)
(* other, and edits their VMs between calls.  A call is one step, and the  *)
(* Deployer underneath appears by what module Deployer shows of it.        *)
(* Workloads other than VMs, and calls that Validate refuses, are left     *)
(* out.                                                                    *)
(*                                                                         *)
(* A contract in its grace period goes on, but is not valid to the code    *)
(* ("TODO: handle pause"), so that Sync forgets it in dl.ContractID.       *)
(***************************************************************************)
EXTENDS Integers, FiniteSets

CONSTANTS
  Dl,          \* the user's deployments
  Vm,          \* VMs, numbered in the order of dl.Vms
  LastHost,    \* 254
  Chosen,      \* the addresses in the node's subnet that users give to VMs
  ContractId,  \* in the order the chain hands them out
  None,        \* no contract, no deployment, no address
  Gone,        \* a VM the deployment does not have
  MaxDeploys, MaxEdits,  \* bounds: calls of Deploy, edits between calls
  MaxPaused    \* bound: contracts in their grace period at a time

ASSUME VmIsNat == Vm \subseteq Nat /\ IsFiniteSet(Vm)
ASSUME LastHostIsNat == LastHost \in Nat
ASSUME ChosenIsNat == Chosen \subseteq Nat
ASSUME ContractIdIsPositive == ContractId \subseteq Nat \ {0}
ASSUME NoneIsNoNumber == None \notin Nat /\ Gone \notin Nat \cup {None}
ASSUME MaxIsNat == MaxDeploys \in Nat /\ MaxEdits \in Nat

Host == 2..LastHost
Address == Host \cup Chosen

VARIABLES
  vms,         \* dl.Vms: the IP of each; None is "" or one outside the subnet
  contract,    \* dl.ContractID
  deployment,  \* dl.NodeDeploymentID[dl.NodeID]
  recorded,    \* NodeDeploymentHostIDs[node], by contract
  current,     \* State.CurrentNodeDeployments[node]
  created,     \* on the chain: the contracts there ever were
  live,        \* on the chain: those that have not ended
  paused,      \* on the chain: those in their grace period
  held,        \* on the node: the address of each VM, by contract
  ok,          \* on the node: the VMs that run, by contract
  leaked,      \* contracts Deployer.Deploy made and did not return (history)
  released,    \* contracts Sync forgot in their grace period (history)
  blind,       \* contracts deployed with addresses the code could not judge (history)
  deploys, edits

user == <<vms, edits>>
ids == <<contract, deployment, current>>
grid == <<created, live, paused, held, ok>>
vars == <<vms, contract, deployment, recorded, current, created, live, paused, held, ok,
          leaked, released, blind, deploys, edits>>

Vms == [Vm -> Address \cup {None, Gone}]
Running == [Vm -> Address \cup {Gone}]

TypeOK ==
  /\ vms \in [Dl -> Vms]
  /\ contract \in [Dl -> ContractId \cup {None}]
  /\ deployment \in [Dl -> ContractId \cup {None}]
  /\ recorded \in [ContractId -> SUBSET Address]
  /\ current \subseteq ContractId
  /\ created \subseteq ContractId /\ live \subseteq created
  /\ paused \subseteq live
  /\ held \in [ContractId -> Running \cup {None}]
  /\ ok \in [ContractId -> SUBSET Vm]
  /\ leaked \subseteq created /\ released \subseteq created /\ blind \subseteq created
  /\ deploys \in 0..MaxDeploys /\ edits \in 0..MaxEdits

Init ==
  /\ vms \in [Dl -> [Vm -> Chosen \cup {None, Gone}]]
  /\ contract = [d \in Dl |-> None] /\ deployment = [d \in Dl |-> None]
  /\ recorded = [c \in ContractId |-> {}]
  /\ current = {} /\ created = {} /\ live = {} /\ paused = {}
  /\ held = [c \in ContractId |-> None] /\ ok = [c \in ContractId |-> {}]
  /\ leaked = {} /\ released = {} /\ blind = {} /\ deploys = 0 /\ edits = 0

-----------------------------------------------------------------------------
(* assignNodesIPs.                                                         *)

Present(v) == {x \in Vm : v[x] # Gone}
On(c) == IF held[c] = None THEN {} ELSE {held[c][v] : v \in Present(held[c])}

\* net.ParseIP gives 16 bytes, and byte 3 of an IPv4 address among them is 0.
Byte3(a) == 0

\* Mutant: the ids of the deployment's own contract only.
UsedHostsOfContract(d) == IF contract[d] = None THEN {} ELSE recorded[contract[d]]

\* getUsedNetworkHostIDs and the addresses the VMs have.
UsedHosts(d) == UNION {recorded[c] : c \in ContractId}
                  \cup {Byte3(vms[d][v]) : v \in {x \in Vm : vms[d][x] \in Address}}

Rank(S, x) == Cardinality({y \in S : y < x})
Needing(d) == {v \in Vm : vms[d][v] = None}
Free(d) == Host \ UsedHosts(d)
Exhausted(d) == Cardinality(Needing(d)) > Cardinality(Free(d))

\* Mutant: the search does not stop at 254.
AssignedUnbounded(d) ==
  LET free == (2..(LastHost + 1)) \ UsedHosts(d)
  IN [v \in Vm |-> IF v \in Needing(d) /\ Rank(Needing(d), v) < Cardinality(free)
                   THEN CHOOSE h \in free : Rank(free, h) = Rank(Needing(d), v)
                   ELSE vms[d][v]]

\* One pass over the VMs and over the ids upward: the n-th VM that needs an id is
\* given the n-th free one, until there are none.
Assigned(d) ==
  [v \in Vm |-> IF v \in Needing(d) /\ Rank(Needing(d), v) < Cardinality(Free(d))
                THEN CHOOSE h \in Free(d) : Rank(Free(d), h) = Rank(Needing(d), v)
                ELSE vms[d][v]]

-----------------------------------------------------------------------------
(* Deploy.                                                                 *)

Call(d) == /\ deploys < MaxDeploys
           /\ deploys' = deploys + 1
           /\ vms' = [vms EXCEPT ![d] = Assigned(d)]
           /\ UNCHANGED <<recorded, edits>>

\* "all 253 ips of the network are exhausted"; those given out already stay.
AssignFails(d) ==
  /\ Exhausted(d)
  /\ Call(d)
  /\ UNCHANGED <<ids, grid, leaked, released, blind>>

Fresh(c) == c \notin created /\ \A b \in ContractId : b < c => b \in created

Record(d, c) == /\ deployment' = [deployment EXCEPT ![d] = c]
                /\ contract' = [contract EXCEPT ![d] = c]
                /\ current' = current \cup {c}
                /\ released' = released \ {c}

\* What the code cannot tell apart (history): a contract is deployed with an
\* address that is neither assigned now nor on the node under it, or while an
\* address on the node is not in NetworkState.
Blind(d, c) ==
  \/ \E v \in Vm : vms[d][v] \in Address /\ (held[c] = None \/ held[c][v] # vms[d][v])
  \/ ~ UNION {On(b) : b \in ContractId} \subseteq UNION {recorded[b] : b \in ContractId}

Hand(d, c) ==
  /\ held' = [held EXCEPT ![c] = Assigned(d)]
  /\ blind' = IF Blind(d, c) THEN blind \cup {c} ELSE blind

Create(c) == Fresh(c) /\ created' = created \cup {c} /\ live' = live \cup {c} /\ UNCHANGED paused

\* Mutant: the id of a deployment whose VMs do not all run is not recorded.
CreatesUntracked(d) ==
  /\ ~ Exhausted(d) /\ deployment[d] = None
  /\ Call(d)
  /\ \E c \in ContractId :
       /\ Create(c) /\ Hand(d, c)
       /\ \E s \in SUBSET Present(Assigned(d)) :
            /\ ok' = [ok EXCEPT ![c] = s]
            /\ IF s = Present(Assigned(d)) THEN Record(d, c) ELSE UNCHANGED <<ids, released>>
  /\ UNCHANGED leaked

\* Deployer.Deploy creates the deployment, and its VMs run or it returns an error.
Creates(d) ==
  /\ ~ Exhausted(d) /\ deployment[d] = None
  /\ Call(d)
  /\ \E c \in ContractId :
       /\ Create(c) /\ Hand(d, c)
       /\ \E s \in SUBSET Present(Assigned(d)) : ok' = [ok EXCEPT ![c] = s]
       /\ Record(d, c)
  /\ UNCHANGED leaked

\* It returns an error and no id: nothing was created, or a contract it could not
\* cancel, whose deployment may be on the node.
CreateFails(d) ==
  /\ ~ Exhausted(d) /\ deployment[d] = None
  /\ Call(d)
  /\ \/ UNCHANGED <<grid, leaked, blind>>
     \/ \E c \in ContractId :
          /\ Create(c)
          /\ leaked' = leaked \cup {c}
          /\ Hand(d, c) \/ UNCHANGED <<held, blind>>
          /\ UNCHANGED ok
  /\ UNCHANGED <<ids, released>>

\* It updates the deployment; an error leaves any of its VMs running.
Updates(d) ==
  LET c == deployment[d] IN
  /\ ~ Exhausted(d) /\ c # None
  /\ c \in live /\ held[c] # None
  /\ Call(d)
  /\ Hand(d, c)
  /\ \E s \in SUBSET Present(Assigned(d)) : ok' = [ok EXCEPT ![c] = s]
  /\ Record(d, c)
  /\ UNCHANGED <<created, live, paused, leaked>>

\* It fails before it sent anything, or has gone back to what was there; or the
\* node has what is asked for, and it returns nil.
UpdateComesToNothing(d) ==
  LET c == deployment[d] IN
  /\ ~ Exhausted(d) /\ c # None
  /\ Call(d)
  /\ \/ UNCHANGED ok
     \/ /\ c \in live /\ held[c] # None
        /\ \E s \in SUBSET Present(held[c]) : ok' = [ok EXCEPT ![c] = s]
  /\ Record(d, c)
  /\ UNCHANGED <<created, live, paused, held, leaked, blind>>

-----------------------------------------------------------------------------
(* Cancel and Sync.                                                        *)

End(c) == live' = live \ {c} /\ paused' = paused \ {c}

\* Cancel(dl.ContractID); contract 0 is no error.
Cancel(d) ==
  /\ End(contract[d])
  /\ current' = current \ {contract[d]}
  /\ contract' = [contract EXCEPT ![d] = None]
  /\ deployment' = [deployment EXCEPT ![d] = None]
  /\ UNCHANGED <<user, recorded, created, held, ok, leaked, released, blind, deploys>>

\* It was served all the same.
CancelFails(d) ==
  /\ End(contract[d])
  /\ UNCHANGED <<user, ids, recorded, created, held, ok, leaked, released, blind, deploys>>

\* syncContract; the id of a contract in its grace period is 0 from then on.
Synced(d) == IF contract[d] \in live \ paused THEN contract[d] ELSE None
Release(d) == /\ contract' = [contract EXCEPT ![d] = Synced(d)]
              /\ released' = released \cup (paused \cap {contract[d]})

\* What does not run is dropped from dl, and from NetworkState.
Sync(d) ==
  LET c == Synced(d) IN
  /\ c # None /\ held[c] # None
  /\ recorded' = [recorded EXCEPT ![c] = {held[c][v] : v \in ok[c]}]
  /\ vms' = [vms EXCEPT ![d] = [v \in Vm |-> IF v \in ok[c] THEN held[c][v] ELSE Gone]]
  /\ UNCHANGED <<edits, ids, grid, leaked, released, blind, deploys>>

\* Nullify
SyncNothing(d) ==
  /\ Synced(d) = None
  /\ deployment[d] # None => held[deployment[d]] # None
  /\ vms' = [vms EXCEPT ![d] = [v \in Vm |-> Gone]]
  /\ Release(d)
  /\ UNCHANGED <<edits, deployment, current, recorded, grid, leaked, blind, deploys>>

\* GetDeployments fails when the contract was looked at already.
SyncFails(d) ==
  /\ deployment[d] # None
  /\ Release(d)
  /\ UNCHANGED <<user, deployment, current, recorded, grid, leaked, blind, deploys>>

-----------------------------------------------------------------------------
(* What else happens.                                                      *)

\* UpdateNetwork, in every Deploy of the network, starts NetworkState anew.
UpdateNetwork ==
  /\ recorded' = [c \in ContractId |-> {}]
  /\ UNCHANGED <<user, ids, grid, leaked, released, blind, deploys>>

\* The user adds a VM to dl, or removes one, or gives one another address.
Edit(d, v, a) ==
  /\ edits < MaxEdits /\ edits' = edits + 1
  /\ vms' = [vms EXCEPT ![d][v] = a]
  /\ UNCHANGED <<ids, recorded, grid, leaked, released, blind, deploys>>

\* A contract ends, and the node clears what it holds under it.
LoseContract(c) ==
  /\ c \in live /\ End(c)
  /\ UNCHANGED <<user, ids, recorded, created, held, ok, leaked, released, blind, deploys>>

Decommission(c) ==
  /\ c \notin live /\ held[c] # None
  /\ held' = [held EXCEPT ![c] = None] /\ ok' = [ok EXCEPT ![c] = {}]
  /\ UNCHANGED <<user, ids, recorded, created, live, paused, leaked, released, blind, deploys>>

\* A contract's grace period begins, or the user pays in time.
Pause(c) ==
  /\ \/ c \in live /\ Cardinality(paused) < MaxPaused /\ paused' = paused \cup {c}
     \/ c \in paused /\ paused' = paused \ {c}
  /\ UNCHANGED <<user, ids, recorded, created, live, held, ok, leaked, released, blind, deploys>>

Next == \/ \E d \in Dl :
             \/ AssignFails(d) \/ Creates(d) \/ CreateFails(d)
             \/ Updates(d) \/ UpdateComesToNothing(d)
             \/ Cancel(d) \/ CancelFails(d)
             \/ Sync(d) \/ SyncNothing(d) \/ SyncFails(d)
             \/ \E v \in Vm, a \in Chosen \cup {None, Gone} : Edit(d, v, a)
        \/ UpdateNetwork
        \/ \E c \in ContractId : LoseContract(c) \/ Decommission(c) \/ Pause(c)

Spec == Init /\ [][Next]_vars
-----------------------------------------------------------------------------
(* What is asked of it.                                                    *)

\* No two VMs of the network on the node have one address, through failures,
\* retries, cancellations and edits, but for contracts deployed blindly: with an
\* address the user gave or an earlier failed Deploy left in dl, or while
\* NetworkState did not know what runs (assignNodesIPs, Sync).
AddressesDistinct ==
  \A b, c \in ContractId : \A u, v \in Vm :
    /\ <<b, u>> # <<c, v>> /\ {b, c} \cap blind = {}
    /\ held[b] # None /\ held[c] # None
    /\ u \in Present(held[b]) /\ v \in Present(held[c])
    => held[b][u] # held[c][v]

\* Each contract that costs money is in State, and is its deployment's ContractID and
\* NodeDeploymentID.  The exceptions are those Deployer.Deploy could not return, which
\* are in neither, and those in whose grace period Sync made ContractID 0, which are in
\* State alone once Cancel was called with that 0; a Deploy in between records them
\* again (Deploy, Cancel, syncContract).
LiveIsTracked ==
  \A c \in live \ leaked :
    /\ c \in current
    /\ c \in released \/ \E d \in Dl : contract[d] = c /\ deployment[d] = c
=============================================================================

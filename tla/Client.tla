------------------------------- MODULE Client -------------------------------
(***************************************************************************)
(* What one TFPluginClient keeps and does for several gateways: the FQDN   *)
(* gateways of deployer/gateway_fqdn_deployer.go, with Deploy, Cancel and  *)
(* Sync; State.CurrentNodeDeployments and the loaders that search it       *)
(* (deployer/state.go); and CancelByProjectName, with the contracts it     *)
(* lists (deployer/tf_plugin_client_projects.go, graphql/contracts.go).    *)
(*                                                                         *)
(* A name gateway is there with Deploy and the names the user sets, as      *)
(* module GatewayName shows them, and without Cancel and Sync; no two have  *)
(* the same name.  Deployer.Deploy appears by what module Deployer shows of *)
(* it, in one step, but for contracts it cannot return.  The indexer        *)
(* answers as the chain stands.  A call that fails before it changed        *)
(* anything is no step; such is ListContractsOfProjectName if the chain     *)
(* takes from an update the empty body it is given, and with it the project *)
(* of the contract.                                                         *)
(***************************************************************************)
EXTENDS Integers, Sequences, SequencesExt

CONSTANTS
  Node, Gateway,
  NodeOf,         \* the node of each gateway
  NameGateways,   \* those with a name contract
  Project,        \* those of the project that is cancelled
  Label,          \* what the user may call a name gateway
  None,
  MaxContracts    \* bound

ASSUME NodeOfIsNode == NodeOf \in [Gateway -> Node]
ASSUME GatewaysAreGateways == NameGateways \subseteq Gateway /\ Project \subseteq Gateway
ASSUME NoneIsNoName == None \notin Label /\ None \notin NameGateways \X Label
ASSUME MaxContractsIsNat == MaxContracts \in Nat

VARIABLES
  owner,          \* of each contract, in the order they were made
  live, paused,   \* contracts that have not ended; those in their grace period
  names,          \* the names of the name contracts that have not ended
  held,           \* contracts whose node has the deployment
  serves,         \* of each contract: the name its node serves, or served
  id,             \* gw.NodeDeploymentID of its node, and gw.ContractID; 0 for none
  named,          \* gateways whose Name is set
  label,          \* gw.Name of a name gateway
  nameId,         \* the name that gw.NameContractID is for
  current,        \* State.CurrentNodeDeployments
  pc, outcome,
  qNames, qNodes, \* contractsSlice: what CancelByProjectName has yet to cancel
  released,       \* contracts Sync dropped in their grace period (history)
  lost,           \* contracts the chain ended (history)
  elsewhere,      \* contracts that ended by other means than Cancel (history)
  alone           \* gateways whose Deploy got no further than the name (history)

chain == <<owner, live, paused, names>>
nodes == <<held, serves>>
gws == <<id, named, label, nameId>>
call == <<pc, outcome, qNames, qNodes>>
history == <<released, lost, elsewhere, alone>>
vars == <<chain, nodes, gws, current, call, history>>

Contract == 1..Len(owner)
Listed(n) == ToSet(current[n])
Current(g) == current[NodeOf[g]]
Names == NameGateways \X Label
NameOf(g) == <<g, label[g]>>
Serving(c) == <<owner[c], serves[c]>>

TypeOK ==
  /\ owner \in Seq(Gateway) /\ Len(owner) <= MaxContracts
  /\ paused \subseteq live /\ live \subseteq Contract
  /\ names \subseteq Names
  /\ held \subseteq Contract /\ serves \in [1..MaxContracts -> Label \cup {None}]
  /\ id \in [Gateway -> Contract \cup {0}] /\ named \subseteq Gateway
  /\ label \in [NameGateways -> Label] /\ nameId \in [NameGateways -> Names \cup {None}]
  /\ \A n \in Node : current[n] \in Seq(Contract) /\ IsInjective(current[n])
  /\ pc \in {"idle", "project"} /\ outcome \in {"none", "project cancelled"}
  /\ qNames \subseteq Names /\ qNodes \subseteq Contract
  /\ released \subseteq Contract /\ lost \subseteq elsewhere /\ elsewhere \subseteq Contract
  /\ alone \subseteq NameGateways

Init ==
  /\ owner = <<>> /\ live = {} /\ paused = {} /\ names = {}
  /\ held = {} /\ serves = [c \in 1..MaxContracts |-> None]
  /\ id = [g \in Gateway |-> 0] /\ named = Gateway
  /\ label \in [NameGateways -> Label] /\ nameId = [g \in NameGateways |-> None]
  /\ current = [n \in Node |-> <<>>]
  /\ pc = "idle" /\ outcome = "none" /\ qNames = {} /\ qNodes = {}
  /\ released = {} /\ lost = {} /\ elsewhere = {} /\ alone = {}

\* The gateway's own calls come one at a time, between those on the project.
Call == pc = "idle" /\ outcome' = "none" /\ UNCHANGED <<pc, qNames, qNodes>>

-----------------------------------------------------------------------------
(* Deploy.                                                                 *)

\* Mutant: the test of Contains is gone.
NoteAgain(g, c) == current' = [current EXCEPT ![NodeOf[g]] = Append(@, c)]

Note(g, c) == current' = [current EXCEPT ![NodeOf[g]] =
                            IF Contains(@, c) THEN @ ELSE Append(@, c)]

\* InvalidateNameContract: what there is afterwards, and what gw.NameContractID is for.
\* A contract for another name is cancelled; one in its grace period is forgotten, and
\* any is on an error.
Invalidated(g) ==
  LET m == nameId[g] IN
  IF m \notin names THEN {[names |-> names, for |-> None]}
  ELSE {[names |-> names, for |-> None],
        IF m = NameOf(g) THEN [names |-> names, for |-> m]
                         ELSE [names |-> names \ {m}, for |-> None]}

\* The name contract of a name gateway comes first.  A name is registered once.
EnsureName(g) ==
  \E r \in Invalidated(g) :
    /\ r.for = None => NameOf(g) \notin r.names
    /\ names' = r.names \cup {NameOf(g)}
    /\ nameId' = [nameId EXCEPT ![g] = NameOf(g)]

\* The name contract is not made, or is and the answer lost.
EnsureNameFails(g) ==
  \E r \in Invalidated(g) :
    /\ r.for = None
    /\ names' \in {r.names, r.names \cup {NameOf(g)}}
    /\ nameId' = [nameId EXCEPT ![g] = None]

NameContract(g) == IF g \in NameGateways THEN EnsureName(g) ELSE UNCHANGED <<names, nameId>>

\* The node of contract c has the deployment as it is asked for now.
Serve(g, c) ==
  serves' = [serves EXCEPT ![c] = IF g \in NameGateways THEN label[g] ELSE None]

\* A contract is made and returned, also when the workload then fails.
Deploy(g) ==
  LET c == Len(owner) + 1 IN
  /\ Call /\ g \in named /\ id[g] = 0
  /\ c <= MaxContracts
  /\ NameContract(g)
  /\ owner' = Append(owner, g)
  /\ live' = live \cup {c} /\ held' = held \cup {c} /\ Serve(g, c)
  /\ id' = [id EXCEPT ![g] = c]
  /\ Note(g, c)
  /\ alone' = alone \ {g}
  /\ UNCHANGED <<paused, named, label, released, lost, elsewhere>>

\* An update, which the node takes only under a contract that goes on.
Redeploy(g) ==
  /\ Call /\ g \in named /\ id[g] \in live
  /\ NameContract(g)
  /\ Serve(g, id[g])
  /\ Note(g, id[g])
  /\ alone' = alone \ {g}
  /\ UNCHANGED <<owner, live, paused, held, id, named, label, released, lost, elsewhere>>

\* The node gets no contract, or its contract has ended, or the update fails: there
\* the node goes back to what it had, or does not.
DeployFails(g) ==
  /\ Call /\ g \in named \cap NameGateways
  /\ EnsureName(g)
  /\ UNCHANGED serves \/ (id[g] \in live /\ Serve(g, id[g]))
  /\ alone' = IF id[g] \in live /\ serves'[id[g]] = label[g] THEN alone \ {g} ELSE alone \cup {g}
  /\ UNCHANGED <<owner, live, paused, held, id, named, label, current, released, lost, elsewhere>>

NameFails(g) ==
  /\ Call /\ g \in named \cap NameGateways
  /\ EnsureNameFails(g)
  /\ UNCHANGED <<owner, live, paused, nodes, id, named, label, current, history>>

-----------------------------------------------------------------------------
(* Cancel and Sync of an FQDN gateway.                                     *)

\* Mutant: the contract stays in State.
StrikeNothing(g, c) == UNCHANGED current

Strike(g, c) == current' = [current EXCEPT ![NodeOf[g]] = RemoveFirst(@, c)]

Cancel(g) ==
  /\ Call /\ g \in named \ NameGateways
  /\ live' = live \ {id[g]} /\ paused' = paused \ {id[g]}
  /\ id' = [id EXCEPT ![g] = 0]
  /\ Strike(g, id[g])
  /\ UNCHANGED <<owner, names, nodes, named, label, nameId, history>>

\* The answer is lost.
CancelFails(g) ==
  /\ Call /\ g \in named \ NameGateways /\ id[g] \in live
  /\ live' = live \ {id[g]} /\ paused' = paused \ {id[g]}
  /\ elsewhere' = elsewhere \cup {id[g]}
  /\ UNCHANGED <<owner, names, nodes, gws, current, released, lost, alone>>

Valid(c) == c \in live \ paused

\* Mutant: State forgets the contract, too.
SyncContractsStrikes(g) ==
  /\ Call /\ g \notin NameGateways
  /\ IF Valid(id[g]) THEN UNCHANGED <<id, current, released>>
     ELSE id' = [id EXCEPT ![g] = 0] /\ Strike(g, id[g])
          /\ released' = released \cup ({id[g]} \cap live)

\* syncContracts: a contract in its grace period is not valid either, and State
\* keeps what the gateway forgets.
SyncContracts(g) ==
  /\ Call /\ g \notin NameGateways
  /\ id' = [id EXCEPT ![g] = IF Valid(@) THEN @ ELSE 0]
  /\ released' = released \cup ({id[g]} \cap paused)
  /\ UNCHANGED current

\* The name is that of the workload if it is there, under that name, and ok, as it
\* may be or not; and else empty.
Sync(g) ==
  /\ SyncContracts(g)
  /\ id'[g] # 0 => id[g] \in held
  /\ named' \in IF id'[g] # 0 THEN {named, named \ {g}} ELSE {named \ {g}}
  /\ UNCHANGED <<chain, nodes, label, nameId, lost, elsewhere, alone>>

\* GetDeployments fails.
SyncFails(g) ==
  /\ SyncContracts(g)
  /\ UNCHANGED <<chain, nodes, named, label, nameId, lost, elsewhere, alone>>

-----------------------------------------------------------------------------
(* CancelByProjectName.                                                    *)

\* Mutant: contracts in their grace period are not listed.
ListedContractsCreated == {c \in live \ paused : owner[c] \in Project}

ListedContracts == {c \in live : owner[c] \in Project}

\* The name contracts are those whose names the nodes serve under the listed contracts;
\* each of these has to be read from its node.
ListContractsOfProjectName ==
  /\ pc = "idle"
  /\ ListedContracts \subseteq held
  /\ qNodes' = ListedContracts
  /\ qNames' = {n \in names : \E c \in ListedContracts : Serving(c) = n}
  /\ pc' = "project" /\ outcome' = "none"
  /\ UNCHANGED <<chain, nodes, gws, current, history>>

CancelName(n) ==
  /\ pc = "project" /\ n \in qNames
  /\ names' = names \ {n} /\ qNames' = qNames \ {n}
  /\ UNCHANGED <<owner, live, paused, nodes, gws, current, pc, outcome, qNodes, history>>

\* Mutant: the node contracts do not wait for the name contracts.
CancelContractAnyTime(c) ==
  /\ pc = "project" /\ c \in qNodes
  /\ live' = live \ {c} /\ paused' = paused \ {c} /\ qNodes' = qNodes \ {c}
  /\ elsewhere' = elsewhere \cup {c}
  /\ UNCHANGED <<owner, names, nodes, gws, current, pc, outcome, qNames, released, lost, alone>>

\* After the names.  Neither State nor the gateways hear of it.
CancelContract(c) ==
  /\ pc = "project" /\ qNames = {} /\ c \in qNodes
  /\ live' = live \ {c} /\ paused' = paused \ {c} /\ qNodes' = qNodes \ {c}
  /\ elsewhere' = elsewhere \cup {c}
  /\ UNCHANGED <<owner, names, nodes, gws, current, pc, outcome, qNames, released, lost, alone>>

\* The first failure ends it, and the call may have been served.
ProjectFails ==
  /\ pc = "project"
  /\ \/ /\ \E n \in qNames : names' \in {names, names \ {n}}
        /\ UNCHANGED <<live, paused, elsewhere>>
     \/ /\ qNames = {}
        /\ \E c \in qNodes : \/ UNCHANGED <<live, paused, elsewhere>>
                             \/ /\ live' = live \ {c} /\ paused' = paused \ {c}
                                /\ elsewhere' = elsewhere \cup {c}
        /\ UNCHANGED names
  /\ pc' = "idle" /\ qNames' = {} /\ qNodes' = {}
  /\ UNCHANGED <<owner, nodes, gws, current, outcome, released, lost, alone>>

ProjectDone ==
  /\ pc = "project" /\ qNames = {} /\ qNodes = {}
  /\ pc' = "idle" /\ outcome' = "project cancelled"
  /\ UNCHANGED <<chain, nodes, gws, current, qNames, qNodes, history>>

-----------------------------------------------------------------------------
(* The user, who sets names, and the grid.                                 *)

SetName(g) ==
  /\ Call /\ g \notin named
  /\ named' = named \cup {g}
  /\ UNCHANGED <<chain, nodes, id, label, nameId, current, history>>

Rename(g) ==
  /\ Call /\ g \in NameGateways
  /\ \E l \in Label : label' = [label EXCEPT ![g] = l]
  /\ UNCHANGED <<chain, nodes, id, named, nameId, current, history>>

\* Out of funds, and in funds again.
Pause(c) ==
  /\ c \in live
  /\ paused' = IF c \in paused THEN paused \ {c} ELSE paused \cup {c}
  /\ UNCHANGED <<owner, live, names, nodes, gws, current, call, history>>

LoseContract(c) ==
  /\ c \in live
  /\ live' = live \ {c} /\ paused' = paused \ {c}
  /\ lost' = lost \cup {c} /\ elsewhere' = elsewhere \cup {c}
  /\ UNCHANGED <<owner, names, nodes, gws, current, call, released, alone>>

LoseName(n) ==
  /\ n \in names
  /\ names' = names \ {n}
  /\ UNCHANGED <<owner, live, paused, nodes, gws, current, call, history>>

Decommission(c) ==
  /\ c \in held \ live
  /\ held' = held \ {c}
  /\ UNCHANGED <<chain, serves, gws, current, call, history>>

Gateways == \E g \in Gateway : \/ Deploy(g) \/ Redeploy(g) \/ DeployFails(g) \/ NameFails(g)
                               \/ Cancel(g) \/ CancelFails(g) \/ Sync(g) \/ SyncFails(g)
                               \/ SetName(g) \/ Rename(g)
Projects == \/ ListContractsOfProjectName \/ ProjectFails \/ ProjectDone
            \/ \E n \in Names : CancelName(n)
            \/ \E c \in Contract : CancelContract(c)
Environment == \/ \E c \in Contract : Pause(c) \/ LoseContract(c) \/ Decommission(c)
               \/ \E n \in Names : LoseName(n)

Next == Gateways \/ Projects \/ Environment

Spec == Init /\ [][Next]_vars

-----------------------------------------------------------------------------
(* What is asked of it.                                                    *)

\* No contract that goes on is out of sight: State lists it for its node, and its
\* gateway has its id, unless Sync dropped that while the contract was in its grace
\* period (Deploy, Cancel, syncContracts, each also where it fails).
LiveIsTracked ==
  \A c \in live : /\ c \in Listed(NodeOf[owner[c]])
                  /\ id[owner[c]] = c \/ c \in released

\* GetWorkloadInDeployment: the first id that cannot be read, or that has the name.
Found(g, n) == SelectInSeq(Current(g), LAMBDA c : c \notin held \/ Serving(c) = n)

\* A gateway that is up can be found through State by the name it goes by on its node,
\* and with the contract it has, as long as all contracts of its node were ended by
\* Cancel, and none dropped by Sync (GetWorkloadInDeployment, which reads the listed
\* contracts one by one).
LoadsWhatIsThere ==
  \A g \in Gateway :
    id[g] \in live /\ Listed(NodeOf[g]) \cap (elsewhere \cup released) = {} =>
      Current(g)[Found(g, Serving(id[g]))] = id[g] /\ id[g] \in held

\* Nothing leads CancelByProjectName to it: no contract of a gateway's goes on under
\* which the node serves the name, nor did when the chain ended it.
Stranded(n) == \A c \in live \cup lost : Serving(c) # n

\* The name contracts that the deployer keeps in step with the node: those its gateway
\* knows, of gateways whose node followed suit.
InStep == {n \in names : n = nameId[n[1]] /\ n[1] \notin alone}

\* A name contract does not outlive the gateway it is for, nor the name that its node
\* serves, as nothing would lead CancelByProjectName to it again: that fails half way
\* with the names gone first, at worst, and Deploy cancels the contract of the old
\* name.  Left out are gateways whose node contract the chain ended; those whose
\* Deploy made the name contract and did not bring the node to serve that name; and
\* name contracts that gw.NameContractID is not for: they were in their grace period,
\* or InvalidateNameContract failed, or the creation was not acknowledged.
NamesNotStranded == \A n \in InStep : ~ Stranded(n)

\* CancelByProjectName that returns nil leaves the project no contract, paused ones
\* included, however often it failed before and whatever Sync forgot; and no name
\* contract but those left out above.
ProjectLeavesNothing ==
  outcome = "project cancelled" =>
    /\ \A c \in live : owner[c] \notin Project
    /\ \A n \in InStep : n[1] \in Project => \E c \in lost : Serving(c) = n
=============================================================================

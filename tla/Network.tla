------------------------------ MODULE Network ------------------------------
(***************************************************************************)
(* deployer/network_deployer.go and workloads/network.go: one wireguard    *)
(* network over several nodes, some of them hidden behind a public one,    *)
(* with the subnets, keys and peers the client chooses and reads back.     *)
(*                                                                         *)
(* The user calls Deploy and Cancel on one ZNet, one after the other, and  *)
(* changes its nodes and AddWGAccess in between.  Deployer.Deploy appears  *)
(* by what module Deployer shows of it, in one step.  A node has had       *)
(* made[n] contracts of this network, and an id is named by its number; a  *)
(* subnet is its third octet; a key stands for the key and the port, which *)
(* are chosen, read and dropped together.  Left out: contracts Deployer    *)
(* cannot return, grace periods, and a new IPRange.                        *)
(***************************************************************************)
EXTENDS Integers, FiniteSets, Functions

CONSTANTS
  Node,
  Kinds,       \* what GetNodeEndpoint may find: functions from Node to Kind
  LastOctet,   \* 254
  User,        \* the peer outside the grid
  None,        \* no octet, no node, no deployment, no configuration
  MaxDeploys, MaxEdits, MaxLosses   \* bounds: calls of Deploy, changes in between,
                                    \* contracts the chain ends by itself

Kind == {"hidden", "ipv4", "ipv6"}

ASSUME KindsAreKinds == Kinds \subseteq [Node -> Kind]
ASSUME LastOctetIsNat == LastOctet \in Nat
ASSUME NodesAreFinite == IsFiniteSet(Node)
ASSUME UserIsNoNode == User \notin Node \cup {None}
ASSUME NoneIsNothing == None \notin Nat \cup Node
ASSUME MaxIsNat == {MaxDeploys, MaxEdits, MaxLosses} \subseteq Nat

VARIABLES
  kind,        \* of each node
  nodes, wg,   \* znet.Nodes, znet.AddWGAccess
  external, public, access,   \* znet.ExternalIP, PublicNodeID, AccessWGConfig
  ranges, keys, \* znet.NodesIPRange; znet.Keys and WGPort
  ids,         \* the nodes with an entry in znet.NodeDeploymentID
  subnets,     \* State.networks: the node subnets of this network
  listed,      \* State.CurrentNodeNetworks: made[n] at the time, duplicates aside
  made, live,  \* on the chain: contracts so far, nodes whose last one has not ended
  held,        \* on the node: its network, under the contract that ids names
  pc, hidden, accessible, \* where a call is; the nodes it deploys on
  outcome,     \* what the last call came to
  asked,       \* AddWGAccess when it began (history)
  forgot,      \* nodes whose range was dropped under a live contract (history)
  taken,       \* nodes whose range was given to the user when octets ran out (history)
  deploys, edits, losses

znet == <<nodes, wg, external, public, access, ranges, keys, ids>>
state == <<subnets, listed>>
grid == <<made, live, held>>
local == <<hidden, accessible>>
bounds == <<deploys, edits, losses>>
history == <<forgot, taken>>
vars == <<kind, znet, state, grid, pc, local, outcome, asked, history, bounds>>

Peers == Node \cup {User}
Octet == 2..LastOctet
Whole == 0     \* stands for the whole IPRange
Peer == [key : Nat, allowed : SUBSET (Octet \cup {Whole}), endpoint : BOOLEAN]
Deployment == [subnet : Octet, key : Nat, peers : [Peers -> Peer \cup {None}]]
Access == [external : Octet, public : Node, key : Nat]

ASSUME NoneIsNoRecord == None \notin Deployment /\ None \notin Peer /\ None \notin Access

Members == hidden \cup accessible

TypeOK ==
  /\ kind \in Kinds
  /\ nodes \subseteq Node /\ wg \in BOOLEAN /\ ids \subseteq Node
  /\ external \in Octet \cup {None} /\ public \in Node \cup {None}
  /\ access \in Access \cup {None}
  /\ ranges \in [Node -> Octet \cup {None}] /\ keys \in [Node -> Nat]
  /\ subnets \in [Node -> Octet \cup {None}] /\ listed \in [Node -> SUBSET Nat]
  /\ made \in [Node -> Nat] /\ live \subseteq Node
  /\ held \in [Node -> Deployment \cup {None}]
  /\ pc \in {"idle", "generate", "deploy", "cancel", "read"}
  /\ hidden \subseteq Node /\ accessible \subseteq Node
  /\ outcome \in {"none", "failed", "deployed", "cancelled"}
  /\ asked \in BOOLEAN /\ forgot \subseteq Node /\ taken \subseteq Node
  /\ deploys \in 0..MaxDeploys /\ edits \in 0..MaxEdits
  /\ losses \in 0..MaxLosses

Nothing == [n \in Node |-> None]

Init ==
  /\ kind \in Kinds
  /\ nodes \in (SUBSET Node) \ {{}} /\ wg \in BOOLEAN /\ ids = {}
  /\ external = None /\ public = None /\ access = None
  /\ ranges = Nothing /\ keys = [n \in Node |-> 0]
  /\ subnets = Nothing /\ listed = [n \in Node |-> {}]
  /\ made = [n \in Node |-> 0] /\ live = {} /\ held = Nothing
  /\ pc = "idle" /\ hidden = {} /\ accessible = {}
  /\ outcome = "none" /\ asked = FALSE /\ forgot = {} /\ taken = {}
  /\ deploys = 0 /\ edits = 0 /\ losses = 0

\* What the last call worked with is kept for as long as its outcome stands.
Forget == hidden' = {} /\ accessible' = {} /\ asked' = FALSE

Fail == pc' = "idle" /\ outcome' = "failed" /\ Forget

-----------------------------------------------------------------------------
(* Validate, in Deploy and in Cancel: InvalidateBrokenAttributes.          *)

Call(step) ==
  /\ pc = "idle"
  /\ IF step = "generate" THEN deploys < MaxDeploys /\ deploys' = deploys + 1
                          ELSE UNCHANGED deploys
  /\ UNCHANGED <<kind, nodes, wg, access, state, made, live, history, edits, losses>>

Drop(gone) ==
  /\ ids' = ids \ gone
  /\ ranges' = [n \in Node |-> IF n \in gone THEN None ELSE ranges[n]]
  /\ keys' = [n \in Node |-> IF n \in gone THEN 0 ELSE keys[n]]
  /\ held' = [n \in Node |-> IF n \in gone THEN None ELSE held[n]]

\* Contracts that have ended are dropped, the public node unless it is up.
Invalidate(step) ==
  /\ Call(step)
  /\ Drop(ids \ live)
  /\ external' = IF wg THEN external ELSE None
  /\ public' \in {public, None}
  /\ pc' = step /\ outcome' = "none"
  /\ asked' = (wg /\ step = "generate") /\ hidden' = {} /\ accessible' = {}

\* Mutant: a contract that cannot be read is taken to be gone.
InvalidateFailsHasty(step) ==
  /\ Call(step)
  /\ \E gone \in SUBSET ids : Drop(gone)
  /\ Fail
  /\ UNCHANGED <<external, public>>

\* GetContract fails when some have been dropped.
InvalidateFails(step) ==
  /\ Call(step)
  /\ \E gone \in SUBSET (ids \ live) : Drop(gone)
  /\ Fail
  /\ UNCHANGED <<external, public>>

-----------------------------------------------------------------------------
(* Deploy: which nodes, and which of them is public.                       *)

Hidden == {n \in nodes : kind[n] = "hidden"}
NeedsIPv4Access == wg \/ (Hidden # {} /\ Cardinality(nodes) > 1)

\* The public node that is set, or the last of the user's nodes with an IPv4
\* address, or any other that has one (GetPublicNode).
PublicNodes ==
  LET own == {n \in nodes : kind[n] = "ipv4"}
  IN CASE ~ NeedsIPv4Access \/ public # None -> {public}
       [] own # {} -> own
       [] OTHER -> {n \in Node : kind[n] = "ipv4"}

\* The nodes to deploy on when p is public.
Accessible(p) == (nodes \ Hidden) \cup (IF NeedsIPv4Access THEN {p} ELSE {})
AllNodes(p) == Hidden \cup Accessible(p)

\* AssignNodesIPs counts the ranges of the nodes it is given, and no others.
Kept(all) == {n \in all : ranges[n] # None}

\* Mutant: one octet too many.
FreeTooMany(all) == (Octet \cup {LastOctet + 1}) \ {ranges[n] : n \in Kept(all)}

\* Mutant: the ranges the nodes have are given out again.
FreeAnyOctet(all) == Octet \ {external}

Free(all) == Octet \ ({ranges[n] : n \in Kept(all)} \cup (IF wg THEN {external} ELSE {}))

\* The k octets of S that nextFreeIP comes to first.
FirstOf(S, k) == {h \in S : Cardinality({g \in S : g < h}) < k}

NeedsExternal == wg /\ external = None

\* Mutant: every call starts afresh.
AssignNodesIPsAfresh(all) ==
  /\ external' = IF NeedsExternal THEN 2 ELSE external
  /\ \E f \in Bijection(all, FirstOf(Octet \ {external'}, Cardinality(all))) :
       ranges' = [n \in Node |-> IF n \in all THEN f[n] ELSE None]
  /\ forgot' = forgot

\* The user's peer first, then the nodes without a range, the hidden ones before the
\* others and else in the user's order.
AssignNodesIPs(all) ==
  LET given == IF NeedsExternal THEN FirstOf(Free(all), 1) ELSE {}
      fresh == all \ Kept(all)
  IN /\ external' \in IF NeedsExternal THEN given ELSE {external}
     /\ \E f \in Bijection(fresh, FirstOf(Free(all) \ given, Cardinality(fresh))) :
          /\ \A h \in fresh \cap Hidden, a \in fresh \ Hidden : f[h] < f[a]
          /\ ranges' = [n \in Node |-> IF n \in fresh THEN f[n]
                                      ELSE IF n \in all THEN ranges[n] ELSE None]
     /\ forgot' = forgot \cup {n \in (ids \cap live) \ all : ranges[n] # None}

\* AssignNodesWGKey and AssignNodesWGPort.
AssignKeys(all) ==
  keys' = [n \in Node |-> IF n \in all /\ keys[n] = 0 THEN made[n] + 1 ELSE keys[n]]

GenerateVersionlessDeployments ==
  /\ pc = "generate"
  /\ public' \in PublicNodes
  /\ hidden' = Hidden /\ accessible' = Accessible(public')
  /\ AssignNodesIPs(AllNodes(public')) /\ AssignKeys(AllNodes(public'))
  /\ access' = IF wg THEN [external |-> external', public |-> public', key |-> keys'[public']]
               ELSE access
  /\ pc' = "deploy"
  /\ UNCHANGED <<kind, nodes, wg, ids, state, grid, outcome, asked, taken, bounds>>

\* No node is public, or one does not answer, before or after it was chosen.
GenerateFails ==
  /\ pc = "generate"
  /\ public' \in PublicNodes \cup {public}
  /\ Fail
  /\ UNCHANGED <<kind, nodes, wg, external, access, ranges, keys, ids, state, grid,
                 history, bounds>>

\* There are not enough octets; the user's peer has one by then, or there was none.
AssignFails ==
  /\ pc = "generate"
  /\ \E p \in PublicNodes :
       LET free == Free(AllNodes(p))
           given == IF NeedsExternal THEN FirstOf(free, 1) ELSE {}
       IN /\ Cardinality(free \ given) < Cardinality(AllNodes(p) \ Kept(AllNodes(p)))
          /\ public' = p
          /\ external' \in IF given # {} THEN given ELSE {external}
          /\ taken' = taken \cup {n \in Node \ AllNodes(p) : ranges[n] \in given}
  /\ Fail
  /\ UNCHANGED <<kind, nodes, wg, access, ranges, keys, ids, state, grid, forgot, bounds>>

\* A node does not tell its ports; the keys are all there, and the ports that are
\* not will be asked for again.
KeysFail ==
  /\ pc = "generate"
  /\ public' \in PublicNodes
  /\ AssignNodesIPs(AllNodes(public')) /\ AssignKeys(AllNodes(public'))
  /\ Fail
  /\ UNCHANGED <<kind, nodes, wg, access, ids, state, grid, taken, bounds>>

-----------------------------------------------------------------------------
(* The deployments.                                                        *)

PeerOf(n, allowed, endpoint) ==
  [key |-> keys[n], allowed |-> allowed, endpoint |-> endpoint]

\* What only the public node can reach.
NonAccessible == {ranges[n] : n \in hidden} \cup (IF wg THEN {external} ELSE {})

\* Mutant: the others are not told what the public node can reach.
AccessiblePeersDirect(n) ==
  [p \in Peers |->
     CASE p \in accessible \ {n} -> PeerOf(p, {ranges[p]}, TRUE)
       [] n = public /\ p = User /\ wg -> [key |-> 0, allowed |-> {external}, endpoint |-> FALSE]
       [] n = public /\ p \in hidden -> PeerOf(p, {ranges[p]}, FALSE)
       [] OTHER -> None]

AccessiblePeers(n) ==
  [p \in Peers |->
     CASE p \in accessible \ {n} ->
            PeerOf(p, {ranges[p]} \cup (IF p = public THEN NonAccessible ELSE {}), TRUE)
       [] n = public /\ p = User /\ wg -> [key |-> 0, allowed |-> {external}, endpoint |-> FALSE]
       [] n = public /\ p \in hidden -> PeerOf(p, {ranges[p]}, FALSE)
       [] OTHER -> None]

HiddenPeers == [p \in Peers |-> IF p = public THEN PeerOf(p, {Whole}, TRUE) ELSE None]

NewDeployment(n) == [subnet |-> ranges[n], key |-> keys[n],
                     peers |-> IF n \in hidden THEN HiddenPeers ELSE AccessiblePeers(n)]

\* Mutant: UpdateNetwork adds to what is there.
UpdateNetworkAdds == [n \in Node |-> IF subnets[n] # None THEN subnets[n] ELSE ranges[n]]

UpdateNetwork == ranges

\* S is deployed, created where ids has no entry, and State told of the user's nodes.
DeployOn(S) ==
  /\ ids' = ids \cup S
  /\ made' = [n \in Node |-> IF n \in S \ ids THEN made[n] + 1 ELSE made[n]]
  /\ live' = live \cup (S \ ids)
  /\ held' = [n \in Node |-> IF n \in S THEN NewDeployment(n) ELSE held[n]]
  /\ subnets' = IF nodes \cap ids' # {} THEN UpdateNetwork ELSE subnets
  /\ listed' = [n \in Node |-> IF n \in nodes \cap ids' THEN listed[n] \cup {made'[n]}
                               ELSE listed[n]]
  /\ UNCHANGED <<kind, nodes, wg, external, public, access, ranges, keys, history, bounds>>

\* Deployer.Deploy updates what is live, and skips what the node holds already.
Deploy ==
  /\ pc = "deploy"
  /\ \A n \in Members \cap ids : n \in live \/ held[n] = NewDeployment(n)
  /\ DeployOn(Members)
  /\ pc' = "read" /\ outcome' = "deployed"
  /\ UNCHANGED <<local, asked>>

\* It fails, or has gone back: what it created stays, and it updates only once all
\* is created.
DeployFails ==
  /\ pc = "deploy"
  /\ \E S \in SUBSET (Members \ (ids \ live)) :
       /\ S \cap ids = {} \/ Members \ ids \subseteq S
       /\ DeployOn(S)
  /\ Fail

-----------------------------------------------------------------------------
(* Cancel: one contract after the other, in any order.                     *)

CancelNode(n) ==
  /\ pc = "cancel" /\ n \in ids \cap nodes
  /\ live' = live \ {n} /\ ids' = ids \ {n} /\ held' = [held EXCEPT ![n] = None]
  /\ UNCHANGED <<kind, nodes, wg, external, public, access, ranges, keys, state, made, pc,
                 local, outcome, asked, history, bounds>>

\* Mutant: the entry goes before the contract.
CancelFailsForgetful ==
  /\ pc = "cancel"
  /\ \E n \in ids \cap nodes : ids' = ids \ {n}
  /\ Fail
  /\ UNCHANGED <<kind, nodes, wg, external, public, access, ranges, keys, state, grid,
                 history, bounds>>

\* The call, or its answer, is lost.
CancelFails ==
  /\ pc = "cancel"
  /\ \E n \in ids \cap nodes : live' \in {live, live \ {n}}
  /\ Fail
  /\ UNCHANGED <<kind, znet, state, made, held, history, bounds>>

\* Contracts on nodes the user did not name, or no longer names, stay.
CancelDone ==
  /\ pc = "cancel" /\ ids \cap nodes = {}
  /\ subnets' = Nothing
  /\ pc' = "read" /\ outcome' = "cancelled"
  /\ UNCHANGED <<kind, znet, listed, grid, local, asked, history, bounds>>

-----------------------------------------------------------------------------
(* ReadNodesConfig, at the end of both.                                    *)

\* Any peer without an endpoint is taken for the user's access.
ReadNodesConfig ==
  /\ pc = "read"
  /\ \A n \in ids : held[n] # None
  /\ ranges' = [n \in Node |-> IF n \in ids THEN held[n].subnet ELSE None]
  /\ keys' = [n \in Node |-> IF n \in ids THEN held[n].key ELSE 0]
  /\ wg' = \E n \in ids, p \in Peers : held[n].peers[p] # None /\ ~ held[n].peers[p].endpoint
  /\ access' = IF wg' THEN access ELSE None
  /\ pc' = "idle" /\ UNCHANGED outcome
  /\ UNCHANGED <<kind, nodes, external, public, ids, state, grid, local, asked,
                 history, bounds>>

ReadFails ==
  /\ pc = "read"
  /\ Fail
  /\ UNCHANGED <<kind, znet, state, grid, history, bounds>>

-----------------------------------------------------------------------------
(* The user, between calls, and the grid, at any time.                     *)

Edit ==
  /\ pc = "idle" /\ edits < MaxEdits
  /\ edits' = edits + 1
  /\ \/ \E n \in Node : nodes' = (nodes \ {n}) \cup ({n} \ nodes)
        /\ UNCHANGED wg
     \/ wg' = ~ wg /\ UNCHANGED nodes
  /\ nodes' # {} /\ outcome' = "none" /\ Forget
  /\ UNCHANGED <<kind, external, public, access, ranges, keys, ids, state, grid, pc,
                 history, deploys, losses>>

LoseContract(n) ==
  /\ n \in live /\ losses < MaxLosses
  /\ losses' = losses + 1
  /\ live' = live \ {n}
  /\ UNCHANGED <<kind, znet, state, made, held, pc, local, outcome, asked, history, deploys, edits>>

Decommission(n) ==
  /\ n \notin live /\ held[n] # None
  /\ held' = [held EXCEPT ![n] = None]
  /\ UNCHANGED <<kind, znet, state, made, live, pc, local, outcome, asked, history, bounds>>

Calling == \E step \in {"generate", "cancel"} : Invalidate(step) \/ InvalidateFails(step)
Generating == \/ GenerateVersionlessDeployments
              \/ GenerateFails \/ AssignFails \/ KeysFail
Deploying == Deploy \/ DeployFails
Cancelling == (\E n \in Node : CancelNode(n)) \/ CancelFails \/ CancelDone
Reading == ReadNodesConfig \/ ReadFails
Environment == \E n \in Node : LoseContract(n) \/ Decommission(n)

Next == \/ Calling \/ Generating \/ Deploying \/ Cancelling \/ Reading
        \/ Edit \/ Environment

Spec == Init /\ [][Next]_vars

-----------------------------------------------------------------------------
(* What is asked of it.                                                    *)

\* A Deploy has returned nil, nothing has changed since, and nothing had ended.
Up == pc = "idle" /\ outcome = "deployed" /\ \A n \in Members : held[n] # None

\* Peers n and m have each other's key, and one of them can call the other.
Know(n, m) ==
  LET a == held[n].peers[m]
      b == held[m].peers[n]
  IN /\ a # None /\ b # None
     /\ a.key = held[m].key /\ b.key = held[n].key
     /\ a.endpoint \/ b.endpoint

\* Node n sends what is for m's subnet to its peer p.
RoutesTo(n, m, p) == held[n].peers[p].allowed \cap {held[m].subnet, Whole} # {}

Reach(n, m) ==
  \/ Know(n, m) /\ RoutesTo(n, m, m)
  \/ /\ Know(n, public) /\ Know(public, m)
     /\ RoutesTo(n, m, public) /\ RoutesTo(public, m, m)

AllReach == \A n, m \in Members : n # m => Reach(n, m)

\* With the configuration he was given the user reaches the public node, and by it all.
UserReaches ==
  /\ access # None /\ access.public = public
  /\ access.key = held[public].key
  /\ held[public].peers[User] # None
  /\ held[public].peers[User].allowed = {access.external}
  /\ \A n \in Members \ {public} :
       /\ {access.external, Whole} \cap held[n].peers[public].allowed # {}
       /\ RoutesTo(public, n, n)

\* After a Deploy that returned nil any two nodes of the network reach each
\* other, directly or by the public node, and so does the user who asked for
\* access, with the configuration he was given: what each node was told of its
\* peers fits what these were told (GenerateVersionlessDeployments), whichever
\* are hidden, whatever was replaced, and whatever range earlier calls left.
Connected == Up => AllReach /\ (asked => UserReaches)

Distinct ==
  \A n \in Members \ forgot :
    /\ \A m \in Members \ (forgot \cup {n}) : held[n].subnet # held[m].subnet
    /\ asked /\ n \notin taken => held[n].subnet # access.external

\* No two nodes of a deployed network have the same subnet, and none has the user's,
\* unless the range of one was dropped while its contract went on, or was given to the
\* user by a call that then ran out of octets (AssignNodesIPs counts the ranges of the
\* nodes it is given and no others, and keeps ExternalIP when it fails).
SubnetsDistinct == Up => Distinct

\* Every contract of the network that goes on is one the user's ZNet knows, so
\* that a later call can update or cancel it (Deploy, Cancel and
\* InvalidateBrokenAttributes, each also where it fails half way).  Contracts that
\* Deployer.Deploy cannot return and grace periods, in which the code forgets a
\* contract that goes on, are not in this module.
LiveIsKnown == live \subseteq ids

\* What State says of the subnet of a contract it lists is what the node has, so
\* that the machines that get their addresses from it are on their network; a
\* Deploy that returned nil has every node there, and the contracts of the user's
\* nodes listed (UpdateNetwork, CurrentNodeNetworks).
StateIsTrue ==
  pc = "idle" =>
    /\ \A n \in live \ forgot :
         made[n] \in listed[n] => subnets[n] \in {None, held[n].subnet}
    /\ outcome = "deployed" => \A n \in Members \cap live :
         /\ subnets[n] = held[n].subnet
         /\ n \in nodes => made[n] \in listed[n]

\* While its contract goes on a node keeps its subnet and its key, however often
\* the network is deployed and whatever failed in between, unless its range was
\* dropped (AssignNodesIPs, AssignNodesWGKey, ReadNodesConfig).
SubnetKept ==
  [][\A n \in live \cap live' :
       made'[n] = made[n] /\ n \notin forgot =>
         held'[n].subnet = held[n].subnet /\ held'[n].key = held[n].key]_vars
=============================================================================

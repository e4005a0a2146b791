# grid3_client_go in TLA+

A TLA+ model of the client library for the ThreeFold grid: what its deployers do
to the chain and to the nodes when calls fail, replies are lost, contracts end by
themselves and users call again. Paths are relative to the repository (`src/`).

| file | what it is |
|---|---|
| `Deployments.tla` | deployments, versions and hashes: the pure operators |
| `Grid.tla` | the chain and the nodes, as the client uses them (external) |
| `Deployer.tla`, `MCDeployer.tla` | `Deployer.Deploy` / `deploy` / `Cancel` / `GetDeployments` |
| `DeployPromise.tla` | what one call of `Deploy` promises the deployers that make it |
| `Wait.tla`, `WaitPromise.tla` | `Deployer.Wait` and the promise `deploy` builds on |
| `GatewayName.tla`, `MCGatewayName.tla` | `GatewayNameDeployer`: a name contract beside a node contract |
| `DeploymentDeployer.tla`, `MCDeploymentDeployer.tla` | `DeploymentDeployer` and `NetworkState`: the addresses of VMs |
| `Network.tla`, `MCNetwork.tla` | `NetworkDeployer` and `ZNet`: subnets, keys, peers |
| `K8s.tla`, `MCK8s.tla` | `K8sDeployer` and `K8sCluster`: a master and workers over nodes |
| `Validate.tla`, `MCValidate.tla` | `Deployer.Validate`: room on nodes and farms |
| `Client.tla`, `MCClient.tla` | several gateways, `State` and its loaders, `CancelByProjectName` |
| `DeployerProofs.tla`, `WaitProofs.tla`, `GatewayNameProofs.tla`, `DeploymentDeployerProofs.tla`, `NetworkProofs.tla`, `K8sProofs.tla`, `ClientProofs.tla`, `ValidateProofs.tla` | the theorems about each module and their proofs |

`tlc -config MCDeployer.cfg MCDeployer` checks a run, `tlapm DeployerProofs.tla` a
module of proofs. The `MCDeployer` module serves five of the configurations.

## 1. The system

The program is a library. A user builds descriptions of VMs, clusters, networks
and gateways; *facade deployers* turn each into one zos *deployment* per node (a
versioned set of named workloads); the *Deployer* puts deployments on nodes.
A deployment lives under a *contract* on the chain, which the user pays for until
it is cancelled, and which carries the hash the node will accept.

| component | state | operations | status |
|---|---|---|---|
| Deployer (`deployer/deployer.go`, `deployment_utils.go`) | none between calls; the id map it is given and returns | `Deploy`, `Cancel`, `GetDeployments`, `Validate`, `Wait` | modelled; `Validate` but for hard disks and `dl.Valid` |
| Chain and nodes (external; through `subi/`, `node/node.go`) | contracts; deployments and workload states | create, update, cancel a contract; deploy, update, get, provision | modelled as used |
| Name gateway (`gateway_name_deployer.go`) | `NameContractID`, `NodeDeploymentID`, `ContractID`, `Name`; `State` | `Deploy`, `Cancel`, `Sync` | modelled |
| FQDN gateway (`gateway_fqdn_deployer.go`) | as above without the name contract | `Deploy`, `Cancel`, `Sync` | modelled, in `Client` |
| Deployment deployer (`deployment_deployer.go`, `network_state.go`) | host ids in use per network, node and deployment | `assignNodesIPs`, `Deploy`, `Cancel`, `Sync` | VMs on one node modelled |
| Network deployer (`network_deployer.go`) | subnets, WireGuard keys and ports, public node | `AssignNodesIPs`, `Deploy`, `Cancel`, `ReadNodesConfig` | modelled but for a changed IPRange and grace periods |
| K8s deployer (`k8s_deployer.go`) | addresses of master and workers | `Deploy`, `Cancel`, `UpdateFromRemote` | modelled |
| State (`state.go`) | `CurrentNodeDeployments`, `CurrentNodeNetworks`, networks | the loaders | modelled but for `LoadNetworkFromGrid`, in `Client`, `K8s`, `Network` |
| Cancel by project (`tf_plugin_client_projects.go`, `graphql/contracts.go`) | none | `CancelByProjectName` | modelled, in `Client` |
| Node client pool (`node/client_pool.go`) | a map of clients | `GetNodeClient` | not modelled: the clients are interchangeable |
| Workload conversions, node filter, plugin client, mocks, integration tests | none of their own | | not modelled: conversions field by field, stateless queries, straight-line I/O, generated code |

**Interactions.** The facade deployers call the Deployer with the ids they hold and
keep the map it returns, on errors too. The Deployer calls the chain (`subi`) and
then the node (`node.NodeClient`); nothing makes the two calls one. Nodes work on
their own and are polled (`DeploymentChanges`) by `Wait`. All deployers of a
client write into one `State`.

**What is hard.** Every call is remote: it can fail before or after it was
served, and an update that timed out may arrive later. A failed `Deploy` reverts by
a second `deploy` that can fail as well. Contracts end without the client. The
ids of what costs money exist in one map in memory. Versions decide what a
node acts on and are computed from hashes that cover versions. What would make the
components right: no contract lost without a word; success means the node has
what was asked; a revert restores; versions rise exactly with changes; the chain
is told first; `Wait` answers, truthfully and in time; the name contract in step with the
gateway; addresses and subnets unique; `State` saying what exists. The hazards are
listed with their lines in `PROJECT.json`, with the properties that guard them.

## 2. The modules and the code

### Deployments

A slice of workloads with distinct names is a function from `Name`. Data is one
value per workload. `HashDeployment` and `WorkloadHash` are the tuples of what
`Challenge` feeds to md5: **hashes are taken to be injective.** `Update` is the
version arithmetic of the update loop: a workload whose hash, *which covers its version*,
is that of the old one keeps the old version, every other gets `held.version + 1`.
`Unchanged` is the condition of `continue`.

### Grid

`nodeOf`, `hashOf`, `live` are the chain; ids are handed out in order and never
again. `held`, `state` are the nodes. A node takes a first deployment under a
contract once, and after that only the next version (the doc comment of
`NodeClient.DeploymentUpdate`: "a valid update"). A workload starts over when its
version is new. By themselves contracts end (`LoseContract`), workloads come to ok
or error (`Provision`), and nodes clean up (`Decommission`). The node's check
of the hash on the chain is not a guard: `ChainBeforeNode` shows the client never
needs it.

### Deployer

One client, whose `pc` goes through one call of `Deploy`:
`get -> validate -> loop -> (send -> wait | chain -> put -> wait)* -> idle`, with
`undo` where a contract just created is cancelled again, and `error` where
`deploy` returns one. `ids` is the caller's map; `base`, `current`, `target`,
`todo` are `deploy`'s parameters and loop; `node`, `id`, `sending`, `waiting` one
iteration. Go's map order is `\E n`. `Revert` begins the second `deploy`, with
`current` and `old`, if and only if the old deployments were readable.
Every remote call has an action for success and one for failure, and a failure comes
in its real kinds: not served, served without a reply, or (to a node) served later,
as a message in `late` that `Arrive` delivers while the node still accepts it.
`Validate` may accept or refuse at will. `lost` and `reported` are history.

`Cancel` is the Deployer's with what all callers do about it: the entry goes on
success and stays on an error.

`DeployPromise` is the abstract specification of all this. A call is made, may read
(`old`, forgotten when a node cannot be read), and returns; its `Return` is what a facade
deployer may rely on. The map that comes back has every id that was given, and new ones
only for nodes of the request, whose deployment is there (`MapIsRight`). A node that was
read has what it had or what was asked of it (`NothingHalfway`), and none has changed unless
every node of the request has a contract (`CreationsFirst`): the updates come after
the creations. nil, a revert and a refusal mean what they say (`AllDeployed`,
`AllRestored`). There are no versions and no hashes in it: a deployment is its content.
`Promise` in `Deployer` is the mapping: `busy` is `pc # "idle"`, `holds` the content of
`held`, `stray` the contracts named in `late`; everything between call and return but the
reads is the grid's `World`. `ServesSome` is what `Network` and `K8s` make of a return in the one step they take for a
`Deploy`: the nodes served are some of the new ones, or all of them and some of the
old. When the nodes could not be read, `old` is empty
and the promise is about the map, the new nodes and nil alone.

### Wait

Time is counted in abstract units. A poll may take `CallTimeout`, the backoff sleeps
any `1..MaxInterval`, and stops by `MaxElapsed` or the context's deadline.
`report[w][v]` is what `DeploymentChanges` says, **one entry per name and
version**, earlier versions and dropped names included, which `Wait` has to ignore.
`WaitPromise` is the abstract specification: it answers, and nil only when all is
ok at the versions waited for. `Deployer.WaitOk` and `WaitFails` are its `Answer`.

### GatewayName

One gateway of one user. `gw` holds its four fields (0 is `None`), `current` the
part of `State.CurrentNodeDeployments` for its node. The chain has name contracts
besides: a name is registered once, and the empty name never; that others have a name is
one reason for `CreateNameFails`. Contracts of both kinds may be in their grace period
(`paused`, `namesPaused`), which the code takes for their end: `InvalidateNameContract`
(`Invalidate`) and `Sync` (`SyncNode`, `SyncName`) forget them, with no error, while they go
on; a name contract forgotten that way keeps its name, so that one for the same name
cannot be made until it ends. `Deploy` goes through `InvalidateNameContract`
(`Invalidate`, `CancelUnmatched`, `InvalidateFails`), `CreateNameContract`, and the
Deployer in two steps (`HandToNode`, then `Deployed` or `WaitFails`; `DeployFails`
if it came to nothing). `WaitFails` includes a revert that succeeded. A contract that the Deployer made and could not return is in `leaked`, a node contract
that `Sync` forgot in its grace period in `released`, a name contract that was forgotten
in `dropped`. The user may rename the gateway between calls. Requests that arrive late are covered by
Deployer and left out here, and so are calls that `Validate` refuses.

### DeploymentDeployer

Several deployments of one user, all on one node and in one network: addresses and
`NetworkState` are per node, and an address is its last byte. `vms`, `contract`,
`deployment` are the user's `dl.Vms`, `dl.ContractID`, `dl.NodeDeploymentID`;
`recorded` is `NodeDeploymentHostIDs`, by contract. `Assigned` is the loop of
`assignNodesIPs`; what it wrote into `dl` stays when it fails or when the Deploy
after it does. A call is one step here: the interleavings within a Deploy are
Deployer's, which appears by its four outcomes (`Creates`, `CreateFails`, `Updates`,
`UpdateComesToNothing`), each with any set of VMs running after it. `Cancel` leaves
the host ids recorded; `Sync` records those of the VMs that run and drops the
others from `dl`. A contract in its grace period (`paused`) is not valid to `syncContract`,
which sets `ContractID` to 0; a `Cancel` after that cancels 0 and strikes the
entry, so that only State knows the contract (`released`), while a `Deploy` finds it again
in `NodeDeploymentID`. `UpdateNetwork` is what any Deploy of the network does to
`NetworkState`. Not in it: disks, zdbs and qsfs, a missing subnet, calls `Validate`
refuses.

### Network

One `ZNet`. A call is several steps: `Invalidate` (Validate and
`InvalidateBrokenAttributes`), `GenerateVersionlessDeployments`, `Deploy` (what
`Deployer.Deploy` comes to, with State), `CancelNode` per contract, and
`ReadNodesConfig`; each has a failing action that leaves what the code leaves. A subnet is
its third octet, a key stands for key and port, `AccessiblePeers` and `HiddenPeers`
are the peers as the deployments carry them, and the user's own machine is the peer
`User`. `kind` is what `GetNodeEndpoint` finds. `forgot` is history: the nodes whose
range `AssignNodesIPs` dropped because they are not among the nodes it is given,
while their contract goes on. `taken` is history as well: the nodes whose range
`AssignNodesIPs` gave the user before it ran out of octets and failed. `made[n]` numbers the contracts of node `n`.

### K8s

One `K8sCluster`: where master and workers are, their addresses, and per node one
deployment, which has the addresses of its machines and what the workers are told of the
master. `Zero` is the `K8sNode{}` that `InvalidateBrokenAttributes` puts in place of
a master whose contract has ended, `Nil` the pointer that `UpdateFromRemote` leaves
when it finds no master. An address is a node and the subnet it was given from: the
last octet does not tell two machines of a cluster on one node apart
(`k8s_deployer.go:351`). `current` is the cluster's part of
`CurrentNodeDeployments`, in its order, with the id 0 the code may append; `Loads` is
what `LoadK8sFromGrid` needs of it. `live` is the set of contracts, as node and number:
one in its grace period (`paused`) is dropped by `InvalidateBrokenAttributes` while it
goes on (`released`), though not by `UpdateFromRemote`, and `DeployFails` may leave one more that
`Deployer.Deploy` did not return (`leaked`). `UpdateFails` includes that a worker cannot be made of
its workload once the master has been replaced.

### Validate

The three loops of `Validate` in the order of Go's maps: `Read`, `Count` per old
deployment, then `Accept` or `Reject` per new one. Words wrap at `Word`. Every
input is an initial state: what a node uses has its old deployment in it, but it may
use more than it has. `Possible` is the reference: what is deployed afterwards has
room. It counts public ips as a set of pairs of a node and a number (`IPs`), while the
code adds and subtracts in a loop. A contract reserves public ips from when it is made, and
`UpdateNodeContract` changes none of that, so after an update that gave ips up it
`Reserved` more than its deployment has (`spare`). `NoMoreIPs` compares with that, as
the code does. `CapacitiesFit`: what a node has, uses and is
asked for, in bytes, comes to less than a word (2^64), doubled too; only differences wrap.

### Client

Several gateways of one `TFPluginClient`, each call one step, with one
`CurrentNodeDeployments` for all of them, in order, as `GetWorkloadInDeployment` reads it.
Contracts may be in their grace period (`paused`), where `IsValidContract` says no
and graphql still lists them. `CancelByProjectName` is a process of its own steps:
`ListContractsOfProjectName`, then the name contracts, then the node contracts, with a
failure, served or not, at each. Name gateways are there with their `Deploy`, and the user
renames them: `label` is `gw.Name`, `nameId` the name that `gw.NameContractID` is for, and
`serves` the name each node has, by which `filterNameContracts` finds name contracts.
`EnsureName` is `InvalidateNameContract` and `CreateNameContract` in one step, `DeployFails` a
Deploy that fails after it, `NameFails` one that fails in it. Their `Cancel` and `Sync` are
in `GatewayName`. No two gateways have the same name. Contracts that `Deployer.Deploy`
cannot return are left out here and are in `Deployer`. `released`, `lost`,
`elsewhere` and `alone` are history and name the exceptions. An update hands the chain an empty body
(`deployer.go:250`); if the chain takes it, the contract can no longer be told to
be of its project, and `ListContractsOfProjectName` fails when it parses it, before
anything has changed: that is no step here.

## 3. The runs

| run | question | bounds |
|---|---|---|
| `deployer` | safety of Deploy, revert, retry and Cancel | 2 calls, 2 nodes, 2 names, 2 contents, 4 contracts, 3 requests: 2.9 million states |
| `deploy_promise` | does Deploy keep its promise, and does it return? | 2 calls, 2 nodes, 2 requests, from one node to two and back, 3 contracts: 0.8 million states, with fairness |
| `wait` | does Wait keep its promise, and time? | 2 names, 2 versions, patience 3, interval 2, 11 units in all, deadlines 4 and 30 |
| `gateway_name` | name and node contracts in step | 3 calls of Deploy, any number of others, 1 node, 2 names, 2 + 3 contracts, 1 contract in its grace period at a time: 3.9 million states |
| `deployment_deployer` | addresses and bookkeeping of two deployments | 2 calls of Deploy, any number of others, 2 VMs each, host ids 2 to 4 and one chosen by the user, 2 edits, any contract in its grace period: 0.14 million states |
| `network` | connected, distinct subnets, nothing forgotten | 3 nodes (hidden, IPv4, IPv6; or two hidden and one IPv4), 2 calls of Deploy, any number of Cancels, 1 edit, 1 lost contract, octets 2 to 4: 3.4 million states |
| `k8s` | is what was asked what runs, and can it be found again? | 2 nodes, a master and 2 workers, 3 calls of Deploy, any number of others, 1 edit, 2 contracts lost or paused, 2 moves of the network: 1.2 million states |
| `validate` | does it reject and accept the right requests? | 2 nodes, 1 or 2 farms, 4 deployments, 4 kinds of node, 0 or 1 ip given up by each contract, words of 3 bits: 3.5 million states |
| `client` | `State`, the loaders, projects | 1 node, 2 FQDN gateways and a name gateway of 2 names, 3 contracts, any number of calls: 2 million states |
| `revert_undoes`, `keep_version`, `none_failed` | what `docs/design.md` says and the code does not do | as `deployer`; `keep_version` 3 calls on 1 node |

Why they are enough: two nodes make a call fail on one after it succeeded on the
other; the three requests add, change, rename and drop workloads and add a node,
two calls give an update after a creation, a retry after a failure, and a
revert of each; four contracts are two calls on two nodes. In
`gateway_name`, three calls are deploy, rename, and a retry. In `deployment_deployer` four
VMs compete for three ids, so that ids run out, and two calls are two deployments,
or one and its retry or update. In `network` three nodes and the user compete for three octets, so that they run
out; two calls with an edit in between add, remove or replace a node, or turn the access
on or off, with the first call failing anywhere. In `k8s` three calls are deploy,
a change and a retry, and two moves take the network away and bring it back elsewhere.
`validate` has every pair of requests that matters to another: same farm or not,
updated or new, with ips moving between nodes. In `client` three contracts are one of
each gateway, or one deployed again after Cancel or Sync between two others in the
list, and two names are the one a gateway has and the one it had. One contract at a
time in its grace period is enough in `gateway_name`, as each call forgets the two kinds in steps of
their own, and a paused contract is forgotten or resumes before the next. In
`wait` the deadline cuts a call short or never, and patience, interval and elapsed
time keep the order they have in the code.

`CHECK_DEADLOCK FALSE` is set where the bound on calls, or a finished `Wait`,
lets the model stop.

The configurations of `gateway_name`, `deployment_deployer`, `k8s` and `client` have a `VIEW`: states
that differ only in what no step and no property reads any more are one (the name of a
contract that has ended, or which of two reasons excuses it; each MC module says which).
The theorems of these modules do not depend on it.

**Fairness.** `FairSpec` of Deployer has weak fairness of the client's steps
only: each remote call has a timeout and each step has a failing alternative. The
caller need not call, the nodes need not work. `Wait` has it for its own
steps and for the clock.

**Properties** (`Deployer`). `NoSilentLeak`: each live contract is in the map, in
hand, named in an error, or lost with its reply. `SuccessDeploysRequest`,
`RevertRestoresContent`: nil means the nodes hold the request; a successful revert
restores old content. Both except contracts that ended and those with a stray
request in the network, where they do *not* hold and the client cannot know it.
`VersionsAdvance`, `ChainBeforeNode`, `DeployKeepsOldContracts`: no step deploys
a change at an old version, hands a node what the contract does not carry, or cancels
what the caller had. `KeepsPromise`: the refinement of `DeployPromise`; a loop that does not let
the updates wait for the creations breaks it. `DeployReturns`. (`Wait`) `KeepsPromise` is
the refinement of `WaitPromise`, its liveness included; `TimeoutMeansStuck` and
`GivesUpInTime` bound giving up on both sides. (`GatewayName`) `NamesAccounted`,
`SuccessOwnsName`, `CancelLeavesNothing`, `TracksDeployments`, `NameBeforeNode`.
(`DeploymentDeployer`) `AddressesDistinct`: no two VMs with one address, but for
contracts deployed *blindly*; `LiveIsTracked`: what costs money is in `dl` and in
`State`, but for what the Deployer could not return and what Sync forgot in its grace period.
(`Network`) `Connected`: after a Deploy every node, and the user, reaches every
other by the keys and routes the deployments carry; `SubnetsDistinct`,
`SubnetKept`; `LiveIsKnown`: no contract that goes on is missing in the ids;
`StateIsTrue`: subnets and contracts in State are the nodes'. (`K8s`)
`LiveIsKnown`, `DeploysWhatWasAsked`, `LoadsCluster`; `RemoteIsSeen`: after
`UpdateFromRemote` no running machine is missing. (`Validate`)
`RejectsOnlyImpossible` is the doc comment's "an error if it's very sure there's a
problem", `AcceptsOnlyPossible` its converse as far as it goes. (`Client`)
`LiveIsTracked`, `LoadsWhatIsThere`; `NamesNotStranded`: a name contract that its gateway
knows and whose node followed suit does not outlive what leads `CancelByProjectName` to it;
`ProjectLeavesNothing`.
Each has a *mutant* definition next to the one it replaces, a plausible bug
that breaks it.

**Exceptions inside properties that are behaviour worth knowing.** A name contract
is forgotten when `InvalidateNameContract` returns 0 and an error
(`gateway_name_deployer.go:125`), or 0 for a contract in its grace period
(`substrate_manager.go:219`), and by `Sync` in its grace period: `dropped`. A node contract that
`Sync` finds in its grace period is forgotten likewise, and a `Cancel` after it cancels 0 and
returns nil: `released`. A contract whose creation was served and
not acknowledged is unknown to everyone: `lost`, in `Deployer` and `GatewayName`. A revert after
renaming a gateway brings the old name back to the node after its name
contract was cancelled. In `InvalidateNameContract` a contract may end between the read and
the cancellation; that a second caller replaces it there is not modelled. After an update that failed the chain may
carry the hash of what the node does not have; no property speaks of that. After `Sync` of a gateway that is not ok its name is empty
and the next `Deploy` cancels the name contract.

Addresses are distinct only where `assignNodesIPs` can know them (`blind` is the
rest): an address the user chose, or one a failed Deploy left in `dl`, is compared
with nothing, because the code reads byte 3 of a 16-byte IP; and all is forgotten
between a Deploy and its Sync, and after a Deploy of the network.

*Network.* A node taken out of the network keeps its contract (`Deploy` and `Cancel`
leave it), while its range is no longer counted: another node may be given the same
subnet, and it may itself come back with a new one (`forgot`). When a Deploy runs out of
octets, `ExternalIP` is set already (`workloads/network.go:138`) while `NodesIPRange` still
has the ranges of nodes outside the network, of which one may be the same; that node,
added again, keeps it, and shares it with the user (`taken`). `Cancel` cancels the
contracts of `znet.Nodes` only, so that of a public node chosen from outside stays
live, and forgets the subnets in State all the same, where a comment has "if all contracts
was deleted". State is not updated when no node of the user got a contract although
the public one did. `CurrentNodeNetworks` only grows. With hidden nodes
`ReadNodesConfig` turns `AddWGAccess` on; after Cancel it is off.

*K8s.* A contract in its grace period is dropped from the ids when the next Deploy begins
(`workloads/k8s.go:250`), and goes on: `released`. Once any contract exists, workers added on nodes without one are dropped
before they are deployed, and Deploy returns nil; a master whose contract ended is
emptied, and every Deploy fails until the user sets it again. A first Deploy that only
got a worker's contract has the same end, and State does not know the contract. An
id 0 in State makes the loader fail for good. Contracts on nodes the cluster has left
are neither updated nor cancelled, but stay known. `UpdateFromRemote` panics when the
master is gone and a worker is not (`k8s_deployer.go:305`; `UpdatePanics`).

*Validate.* A node that uses more than its total has endless room, by the unsigned
difference. On an update the old deployment's storage is added to the total before
that is doubled. Public ips of old deployments count as free although they stay
reserved: on nodes without a new one, where Deploy cancels nothing, and where an update
gives some up. An update that takes back ips it gave up, which its contract still reserves, is
refused when the farm has not as many free, though the doc comment says "it returns an error
if it's very sure there's a problem".

*Client.* `Sync` drops the id of a contract in its grace period, so that the next
Deploy makes a second one (`released`), and erases the name of a gateway that is not
deployed or not ok. `CancelByProjectName` and contracts that end by themselves leave
their ids in State; one of them makes every contract listed after it unreadable for
the loaders (`elsewhere`). `CancelByProjectName` looks for names in the deployments of node contracts.
A name gateway whose `Deploy` made the name contract and then no node contract, or, renamed,
failed to bring its node to serve the new name, has a name contract that it cannot find
(`alone`); nor can it find one that `Deploy` forgot. It leaves these and returns nil.

## 4. Findings

Three sentences of `docs/design.md` that the code contradicts:

1. `revert_undoes`: a reverted `Deploy` leaves the contracts the failed attempt
   created, and returns them; the loop that deleted them is commented out
   (`deployer.go:108`). It does return them, so nothing is lost.
2. `keep_version`: "if a workload shouldn't be updated, its version stays the same"
   fails for a workload above version 0, because the hash compared covers the
   version, which is 0 in a new request (`deployer.go:225`). The node provisions
   it again.
3. `none_failed`: asking again for what failed on the node returns nil, because an
   unchanged deployment is skipped with no look at its workloads (`deployer.go:204`).

## 5. What is proved

For all values of the constants, any number of calls, nodes, names and contracts:

| module | theorem: what it states |
|---|---|
| `DeployerProofs` | `TypeCorrect`: `TypeOK`; `NoLeak`: `NoSilentLeak`; `OldContractsKept`: `DeployKeepsOldContracts`; `ChainFirst`: `ChainBeforeNode`; `RequestDeployed`: `SuccessDeploysRequest`; `ContentRestored`: `RevertRestoresContent`; `VersionsForward`: `VersionsAdvance`; `PromiseKept`: `KeepsPromise`; `ServesInOneStep`: each `Return` is a `ServesSome` |
| `WaitProofs` | `TypeCorrect`: `TypeOK`; `PromiseKept`: the safety half of `KeepsPromise`; `MovingIsNotStuck`: `TimeoutMeansStuck`; `StuckIsNotWaitedFor`: `GivesUpInTime` |
| `GatewayNameProofs` | `TypeCorrect`: `TypeOK`; `NamesKept`: `NamesAccounted`; `NothingLeft`: `CancelLeavesNothing`; `Tracked`: `TracksDeployments`; `NameOwned`: `SuccessOwnsName`; `NameFirst`: `NameBeforeNode` |
| `DeploymentDeployerProofs` | `TypeCorrect`: `TypeOK`; `AddressesApart`: `AddressesDistinct`; `ContractsTracked`: `LiveIsTracked` |
| `NetworkProofs` | `TypeCorrect`: `TypeOK`; `LiveKnown`: `LiveIsKnown`; `SubnetIsKept`: `SubnetKept`; `StateTrue`: `StateIsTrue`; `AllConnected`: `Connected`; `SubnetsApart`: `SubnetsDistinct` |
| `K8sProofs` | `TypeCorrect`: `TypeOK`; `LiveKnown`: `LiveIsKnown`; `AskedDeployed`: `DeploysWhatWasAsked`; `ClusterLoads`: `LoadsCluster`; `RemoteSeen`: `RemoteIsSeen` |
| `ValidateProofs` | `TypeCorrect`: `TypeOK`; `RejectsRightly`: `RejectsOnlyImpossible`; `AcceptsRightly`: `AcceptsOnlyPossible` |
| `ClientProofs` | `TypeCorrect`: `TypeOK`; `LiveKnown`: `LiveIsTracked`; `LoadsTheContract`: `LoadsWhatIsThere`; `NamesFollow`: `NamesNotStranded`; `ProjectGone`: `ProjectLeavesNothing` |

Few of the properties are inductive. Each module of proofs first strengthens `TypeOK` to
a `TypeInv`, with what the guards of later steps rely on, and then gives one invariant
per question, which TLC has checked on the module's run.

**Deployer.** `TypeInv`: the nodes still to read are in `ids`, those still to handle are in
`target`, and an iteration has a node, an id and a deployment. `LeakInv` adds to
`NoSilentLeak` that `current` keeps the entries of `base`, that a node still to be
created on has no entry, that an iteration which creates finds its entry empty, and that
every id in a map is one the chain has given out, so that a new id is none the caller
has; the same facts prove that `undo` only cancels what this call created. `HashInv`:
whenever something is about to be sent, the contract has its hash. Success and revert are
one argument, as the revert is a second run of the loop: `IdsInv` says an id belongs to
one node, so that handling one node leaves the others alone, and `LoopInv` that each
node the loop is through with holds its target (`HoldsUnder`), `target` being the request
or the old deployments. For versions, `VersionInv` says of every update under way, in hand
or late in the network, that it was made from what the node holds or is too old to
be taken (`FitsUpdate`), and that a late creation is for a contract nobody updates.
The first lemmas say what `Update` and `Unchanged` do to contents and versions.

`PromiseKept` is a refinement, step by step. `Return` speaks of a whole call in its last
step, so its clauses have to be true all along: `PromiseInv` says of every moment of a
call that each node that was read has what it had or what it was asked for, and what it had as
long as a node of the request has no contract (`Growing`); new contracts have what was
asked. `MapsInv` is the part about the client alone: it never begins an update while
it is `Growing`, except to revert. `KeptOrHanded` is the lemma both directions
rest on: a step leaves what is under a contract, or hands it the deployment of the
iteration, served, unanswered or late. The revert needs no case of its own: it
only writes what was read, so that *it had or was asked for* stays true. Every step is then
mapped: `WorldStep` for those the caller does not see, `EndStep` for the three ways to return.
`ServesInOneStep` then names the nodes a call served: those it created on, and those that do
not have what they had; it is the condition on `S` in `DeployFails` of `Network` and `K8s`.

**Wait.** `StuckInv`: what is recorded as progress was reached by then, and what was ok
is ok still or bad, which ends the wait; so a count that has not grown means that none became
ok. `InTimeInv`: Wait looked not long ago (`LookedAt`), and recorded progress not long
after there was some. `PromiseKept` maps each step to `Answer` or a stutter.

**GatewayName.** `NamesInv`: Deploy creates a name contract only with none at hand.
`TracksInv`: only during the wait is a deployment unrecorded. `CancelInv`: no
contract but the gateway's own, leaked and released ones is live, and a Cancel which came to the
name contract has ended it. `OwnsInv`: from `deploy` on there is a contract for the
name, and from `wait` on the node serves that name.

**DeploymentDeployer.** A free host id is given by rank; the rank lemmas (no member of a
finite set of numbers shares its rank, and all ranks below the cardinality are taken) show
that one pass gives out distinct ids. With them `AddressesDistinct` and
`LiveIsTracked` are inductive relative to `TypeInv`.

**Network.** `PlanInv`: what a call has worked out by the time it deploys.
`KeptInv` ties `ranges` and `keys` to what the nodes hold under contracts that go on, and
gives `SubnetKept`. `RangesInv`: the ranges ZNet has are distinct, and none is the
user's; *between* calls only for nodes that are not about to be dropped, which is why
`InvalidateBrokenAttributes` has to come first in each call. `StateInv` is
`StateIsTrue` at every step. `UpInv` is `Connected` and `SubnetsDistinct` from
where Deploy is done: who knows whom follows from four facts about the peers (`Told`), and without
a public node there are no hidden nodes, or no two nodes (`BothAccessible`). The first
attempt at `SubnetsDistinct` failed at `AssignFails`, in a case beyond the bounds of
`network`: on two IPv4 nodes with one octet, three calls of Deploy and five changes TLC then
found a node and the user with one subnet. The property has excluded `taken` since, holds there
too, and by `SubnetsApart` for all bounds.

**K8s.** `AskedInv`: a worker that was asked for is still to be deployed, or was dropped
because its node had no contract. `DeployedInv`: while the outcome of Deploy stands, all nodes of
the cluster have contracts and State lists something for each.

**Client.** Its lists are sequences without repetitions; `NoteList` and `StrikeList` say
what noting and striking an id make of one. `TrackInv`: a gateway's id is of a
contract of its own, State lists a contract for its own node, and only if it goes on or did not
end by Cancel. `NamesInv` and `ProjectInv` say of a `CancelByProjectName` under way that every
node contract it will cancel has the name its node serves on the list too, and that the project has no
live contract but those it has yet to cancel. `NamesDeployed` is the step a Deploy takes: it
changes what is registered and served for its own gateway alone, and leaves the two in step or
the gateway in `alone`.

**Validate.** `CountInv` says at each point of the loops what is counted for a farm: what was
free, and the ips of the old deployments already read, less those of the new ones already
accepted. The ips of a set of nodes are the cardinality of a set of pairs, so a step of a
loop is the union with one node's own (`IPsOfOneMore`), and no induction is needed; the order
of the maps never enters. `WordIsExact` and `WordIsNoMore` are the unsigned arithmetic: a
difference that does not wrap is exact, and no result is more than the true one.
`RejectsOnlyImpossible` follows from `FitsIsEnough` and `TooFewIPs` (a farm that runs out while none
of its updates takes ips back cannot serve what is new there), `AcceptsOnlyPossible`
from `EnoughFits` and `CountedFits`.

**Assumptions**, all named in the modules and evaluated by every run: ids are positive
numbers; `None`, `Nil`, `Zero`, `Gone`, `Absent`, `Empty` and `User` are none of the
values they stand beside; bounds and times are natural numbers; names (`Wait`), VMs and nodes
(`Network`, `Validate`) are finitely many; capacities in bytes fit a word (`CapacitiesFit`); requests are deployments with no workload ahead of its deployment,
as `NewGridDeployment` makes them; a gateway has one node, only gateways are in a project, and no name a gateway may have is `None`.

**Only model-checked.** `DeployReturns` and the liveness half of Wait's `KeepsPromise`, as
liveness is beyond the proof system. All other properties of the passing runs are
theorems. That the steps the facade modules take for a `Deploy`
are those `ServesInOneStep` leaves is by reading them next to it, not by a theorem,
as each has its own data.

## 6. What is not modelled, and what comes next

*Not modelled, and why.* `LoadNetworkFromGrid`, whose answer depends on the order of its
loop and changes nothing. The loaders of disks, zdbs, qsfs and VMs are
`GetWorkloadInDeployment` and a conversion. Conversions between the user's structs and
workloads go field by field; disks, public ips, tokens and flists are part of a
deployment's value. The node filter, the client's construction and most queries of
the node client are stateless. The client pool keeps equal clients, whichever is stored
last. A changed `IPRange` of a network, one with an IP of four bytes, contracts of a network in their grace period, and those
`Deployer.Deploy` cannot return to it. In `InvalidateBrokenAttributes` of the network a
node client that cannot be had is used all the same (`network_deployer.go:351`); the
crash is left out. Several calls on one object at the same time: the
models make them one after the other, as its tests do.

*What could come next*: the modules of the facades over `DeployPromise` itself, with one
data type for what a deployment says, so that their reliance on it becomes a
theorem; that `CancelByProjectName` and the deployers' `Cancel` end the same contracts;
`LoadNetworkFromGrid`, once what it should return is settled.

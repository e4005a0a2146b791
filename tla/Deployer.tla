------------------------------ MODULE Deployer ------------------------------
(***************************************************************************)
(* deployer/deployer.go: Deploy, deploy, Cancel and GetDeployments of one  *)
(* Deployer, used by one caller that keeps the contract ids Deploy returns *)
(* and hands them to the next call.                                        *)
(*                                                                         *)
(* Every remote call is a step of its own, so that the grid moves between  *)
(* any two of them; a call is served and answered, or is lost, or is       *)
(* served while its answer is lost.  The order of a Go map iteration is    *)
(* left open.  Validate and Wait appear here by what they may answer; they *)
(* have modules of their own.                                              *)
(***************************************************************************)
EXTENDS Grid

CONSTANTS
  Requests,         \* what callers ask for: for each node a deployment or None
  RevertOnFailure,  \* the field of that name of Deployer
  MaxCalls          \* bound: how often the caller calls Deploy

DeploymentMap == [Node -> Deployment \cup {None}]
IdMap == [Node -> ContractId \cup {None}]

ASSUME RequestsAreDeployments == Requests \subseteq DeploymentMap
\* Requests are generated with version 0 throughout (workloads.NewGridDeployment).
ASSUME RequestsAreWellVersioned ==
  \A r \in Requests, n \in Node : r[n] # None => WellVersioned(r[n])
ASSUME RevertOnFailureIsBoolean == RevertOnFailure \in BOOLEAN
ASSUME MaxCallsIsNat == MaxCalls \in Nat

VARIABLES
  ids,        \* the caller's map from nodes to contract ids
  calls,      \* how often Deploy was called
  pc,         \* where the call is
  mode,       \* "deploy" for the first deploy(), "revert" for the second
  request,    \* newDeployments, as the caller gave it
  old,        \* oldDeployments, as GetDeployments read it
  readable,   \* oldErr = nil
  base,       \* oldDeployments of deploy(): the ids it was given
  target,     \* newDeployments of deploy()
  current,    \* currentDeployments
  todo,       \* the nodes the loops have not come to
  node,       \* the node being handled
  id,         \* its contract: dl.ContractID
  sending,    \* its deployment: dl
  waiting,    \* the workload versions waited for
  outcome,    \* what the last call came to
  reported,   \* ids named in an error: "you must cancel it manually"
  lost,       \* contracts whose creation was never acknowledged (history)
  late        \* requests their sender gave up on, still in the network

caller == <<ids, calls>>
call == <<request, old, readable>>
loop == <<mode, base, target>>
handling == <<node, id, sending, waiting>>
log == <<outcome, reported, lost>>
vars == <<chain, nodes, ids, calls, pc, mode, request, old, readable, base, target,
          current, todo, node, id, sending, waiting, outcome, reported, lost, late>>

PC == {"idle", "get", "validate", "loop", "send", "undo", "chain", "put", "wait", "error"}

LateRequest == [id : ContractId, dl : Deployment, update : BOOLEAN]

TypeOK ==
  /\ GridTypeOK
  /\ ids \in IdMap /\ base \in IdMap /\ current \in IdMap
  /\ calls \in 0..MaxCalls
  /\ pc \in PC
  /\ mode \in {"deploy", "revert"}
  /\ request \in DeploymentMap /\ old \in DeploymentMap /\ target \in DeploymentMap
  /\ readable \in BOOLEAN
  /\ todo \subseteq Node
  /\ node \in Node \cup {None}
  /\ id \in ContractId \cup {None}
  /\ sending \in Deployment \cup {None}
  /\ waiting \in [Name -> Nat \cup {None}]
  /\ outcome \in {"none", "ok", "invalid", "failed", "reverted"}
  /\ reported \subseteq ContractId /\ lost \subseteq ContractId
  /\ late \subseteq LateRequest

Nowhere == [n \in Node |-> None]
Nothing == [w \in Name |-> None]
Filled(m) == {n \in Node : m[n] # None}

Init ==
  /\ GridInit
  /\ ids = Nowhere /\ base = Nowhere /\ current = Nowhere
  /\ request = Nowhere /\ old = Nowhere /\ target = Nowhere
  /\ calls = 0 /\ pc = "idle" /\ mode = "deploy" /\ readable = TRUE
  /\ todo = {} /\ node = None /\ id = None /\ sending = None /\ waiting = Nothing
  /\ outcome = "none" /\ reported = {} /\ lost = {} /\ late = {}

-----------------------------------------------------------------------------
(* The caller.                                                             *)

\* Deploy(ctx, ids, request): GetDeployments comes first.
Deploy(r) ==
  /\ pc = "idle" /\ calls < MaxCalls
  /\ calls' = calls + 1
  /\ pc' = "get"
  /\ request' = r /\ old' = Nowhere /\ readable' = TRUE
  /\ todo' = Filled(ids)
  /\ outcome' = "none"
  /\ UNCHANGED <<chain, nodes, ids, loop, current, handling, reported, lost, late>>

\* Cancel(ctx, ids[n]): on success the caller drops the entry, as every facade
\* deployer does; on an error it keeps it, and may try again.
Cancel(n) ==
  /\ pc = "idle" /\ ids[n] # None
  /\ \/ CancelContract(ids[n]) /\ ids' = [ids EXCEPT ![n] = None]
     \/ CancelContract(ids[n]) /\ UNCHANGED ids
  /\ outcome' = "none"
  /\ UNCHANGED <<nodes, calls, pc, call, loop, current, todo, handling, reported, lost, late>>

-----------------------------------------------------------------------------
(* Deploy: read what is there, validate, deploy.                           *)

\* deploy(ctx, given, wanted): currentDeployments starts as a copy of given.
Begin(m, given, wanted) ==
  /\ mode' = m
  /\ base' = given /\ current' = given
  /\ target' = wanted
  /\ todo' = Filled(wanted)
  /\ pc' = "loop"

\* The variables of the iteration go out of scope.
LeaveIteration == node' = None /\ id' = None /\ sending' = None /\ waiting' = Nothing

\* The variables of deploy() go out of scope.
Return(o, returned) ==
  /\ pc' = "idle"
  /\ ids' = returned
  /\ outcome' = o
  /\ mode' = "deploy" /\ base' = Nowhere /\ current' = Nowhere /\ target' = Nowhere
  /\ todo' = {}

GetDeployment(n) ==
  /\ pc = "get" /\ n \in todo
  /\ held[ids[n]] # None
  /\ old' = [old EXCEPT ![n] = held[ids[n]]]
  /\ todo' = todo \ {n}
  /\ UNCHANGED <<chain, nodes, caller, pc, request, readable, loop, current, handling, log, late>>

\* Old deployments that cannot be read are not validated against: "this is done
\* to avoid preventing deletion of deployments on dead nodes".
GetDeploymentFails ==
  /\ pc = "get" /\ todo # {}
  /\ readable' = FALSE /\ old' = Nowhere
  /\ Begin("deploy", ids, request)
  /\ UNCHANGED <<chain, nodes, caller, request, handling, log, late>>

GotDeployments ==
  /\ pc = "get" /\ todo = {}
  /\ pc' = "validate"
  /\ UNCHANGED <<chain, nodes, caller, call, loop, current, todo, handling, log, late>>

ValidateOk ==
  /\ pc = "validate"
  /\ Begin("deploy", ids, request)
  /\ UNCHANGED <<chain, nodes, caller, call, handling, log, late>>

ValidateFails ==
  /\ pc = "validate"
  /\ Return("invalid", ids)
  /\ UNCHANGED <<chain, nodes, calls, call, handling, reported, lost, late>>

-----------------------------------------------------------------------------
(* deploy: creations, then updates.                                        *)

ToCreate == {n \in todo : base[n] = None}

\* Mutant: updates do not wait for the creations.
ToUpdateAnyTime == {n \in todo : base[n] # None}

ToUpdate == IF ToCreate = {} THEN todo ELSE {}

\* GetNodeClient, Sign, Valid, ChallengeHash or CountDeploymentPublicIPs fails
\* for a node to create on; GetNodeClient or DeploymentGet fails for a node to
\* update; Sign, Valid or ChallengeHash fails for it; or the request to create a
\* contract never gets to the chain.
PrepareFails ==
  /\ pc = "loop" /\ todo # {}
  /\ pc' = "error"
  /\ UNCHANGED <<chain, nodes, caller, call, loop, current, todo, handling, log, late>>

CreateNodeContract(n) ==
  /\ pc = "loop" /\ n \in ToCreate
  /\ \E c \in ContractId :
       /\ CreateContract(c, n, HashDeployment(target[n]))
       /\ node' = n /\ id' = c /\ sending' = target[n]
  /\ todo' = todo \ {n}
  /\ pc' = "send"
  /\ UNCHANGED <<nodes, caller, call, loop, current, waiting, log, late>>

\* The chain serves the call and the client never learns the id.
CreateNodeContractLost(n) ==
  /\ pc = "loop" /\ n \in ToCreate
  /\ \E c \in ContractId :
       /\ CreateContract(c, n, HashDeployment(target[n]))
       /\ lost' = lost \cup {c}
  /\ pc' = "error"
  /\ UNCHANGED <<nodes, caller, call, loop, current, todo, handling, outcome, reported, late>>

DeploymentDeploy ==
  /\ pc = "send"
  /\ AcceptDeploy(id, sending)
  /\ current' = [current EXCEPT ![node] = id]
  /\ waiting' = [w \in Name |-> IF w \in Names(sending) THEN 0 ELSE None]
  /\ pc' = "wait"
  /\ UNCHANGED <<chain, caller, call, loop, todo, node, id, sending, log, late>>

\* The request is lost, or is served without the client hearing of it, or stays
\* in the network.
DeploymentDeployFails ==
  /\ pc = "send"
  /\ \/ UNCHANGED <<nodes, late>>
     \/ AcceptDeploy(id, sending) /\ UNCHANGED late
     \/ /\ late' = late \cup {[id |-> id, dl |-> sending, update |-> FALSE]}
        /\ UNCHANGED nodes
  /\ pc' = "undo"
  /\ UNCHANGED <<chain, caller, call, loop, current, todo, handling, log>>

EnsureContractCanceled ==
  /\ pc = "undo"
  /\ CancelContract(id)
  /\ pc' = "error"
  /\ LeaveIteration
  /\ UNCHANGED <<nodes, caller, call, loop, current, todo, log, late>>

\* "you must cancel it manually (id: %d)"
EnsureContractCanceledFails ==
  /\ pc = "undo"
  /\ \/ CancelContract(id)
     \/ UNCHANGED chain
  /\ reported' = reported \cup {id}
  /\ pc' = "error"
  /\ LeaveIteration
  /\ UNCHANGED <<nodes, caller, call, loop, current, todo, outcome, lost, late>>

\* The node has what is asked for already: continue.
SkipUpdate(n) ==
  /\ pc = "loop" /\ n \in ToUpdate
  /\ held[base[n]] # None
  /\ Unchanged(target[n], held[base[n]])
  /\ todo' = todo \ {n}
  /\ UNCHANGED <<chain, nodes, caller, pc, call, loop, current, handling, log, late>>

\* DeploymentGet and the versions of what is to be sent.
PrepareUpdate(n) ==
  /\ pc = "loop" /\ n \in ToUpdate
  /\ held[base[n]] # None
  /\ ~ Unchanged(target[n], held[base[n]])
  /\ node' = n /\ id' = base[n]
  /\ sending' = Update(target[n], held[base[n]])
  /\ waiting' = ConstructWorkloadVersions(sending')
  /\ todo' = todo \ {n}
  /\ pc' = "chain"
  /\ UNCHANGED <<chain, nodes, caller, call, loop, current, log, late>>

\* Mutant: the hash is taken before the versions are set.
UpdateNodeContractEarlyHash ==
  /\ pc = "chain"
  /\ UpdateContract(id, HashDeployment(target[node]))
  /\ pc' = "put"
  /\ UNCHANGED <<nodes, caller, call, loop, current, todo, handling, log, late>>

UpdateNodeContract ==
  /\ pc = "chain"
  /\ UpdateContract(id, HashDeployment(sending))
  /\ pc' = "put"
  /\ UNCHANGED <<nodes, caller, call, loop, current, todo, handling, log, late>>

UpdateNodeContractFails ==
  /\ pc = "chain"
  /\ \/ UpdateContract(id, HashDeployment(sending))
     \/ UNCHANGED chain
  /\ pc' = "error"
  /\ LeaveIteration
  /\ UNCHANGED <<nodes, caller, call, loop, current, todo, log, late>>

DeploymentUpdate ==
  /\ pc = "put"
  /\ AcceptUpdate(id, sending)
  /\ current' = [current EXCEPT ![node] = id]
  /\ pc' = "wait"
  /\ UNCHANGED <<chain, caller, call, loop, todo, handling, log, late>>

\* Mutant: the contract is cancelled, as it is when a creation fails.
DeploymentUpdateFailsUndone ==
  /\ pc = "put"
  /\ pc' = "undo"
  /\ UNCHANGED <<chain, nodes, caller, call, loop, current, todo, handling, log, late>>

\* The contract keeps the hash of what was not delivered.
DeploymentUpdateFails ==
  /\ pc = "put"
  /\ \/ UNCHANGED <<nodes, late>>
     \/ AcceptUpdate(id, sending) /\ UNCHANGED late
     \/ /\ late' = late \cup {[id |-> id, dl |-> sending, update |-> TRUE]}
        /\ UNCHANGED nodes
  /\ pc' = "error"
  /\ LeaveIteration
  /\ UNCHANGED <<chain, caller, call, loop, current, todo, log>>

\* Wait returns nil: the node reported every workload ok at its version.
WaitOk ==
  /\ pc = "wait"
  /\ held[id] # None
  /\ \A w \in Name : waiting[w] # None =>
       /\ w \in Names(held[id])
       /\ held[id].workloads[w].version = waiting[w]
       /\ state[id][w] = "ok"
  /\ pc' = "loop"
  /\ LeaveIteration
  /\ UNCHANGED <<chain, nodes, caller, call, loop, current, todo, log, late>>

\* A workload failed, the node did not answer, or the time is up.
WaitFails ==
  /\ pc = "wait"
  /\ pc' = "error"
  /\ LeaveIteration
  /\ UNCHANGED <<chain, nodes, caller, call, loop, current, todo, log, late>>

-----------------------------------------------------------------------------
(* Deploy: what follows deploy.                                            *)

Deployed ==
  /\ pc = "loop" /\ todo = {}
  /\ Return(IF mode = "deploy" THEN "ok" ELSE "reverted", current)
  /\ UNCHANGED <<chain, nodes, calls, call, handling, reported, lost, late>>

\* Mutant: the revert starts from the ids the caller gave.
RevertFromGivenIds ==
  /\ pc = "error" /\ mode = "deploy" /\ RevertOnFailure /\ readable
  /\ Begin("revert", ids, old)
  /\ UNCHANGED <<chain, nodes, caller, call, handling, log, late>>

\* Mutant: the revert has lost the old deployments.
RevertToNothing ==
  /\ pc = "error" /\ mode = "deploy" /\ RevertOnFailure /\ readable
  /\ Begin("revert", current, Nowhere)
  /\ UNCHANGED <<chain, nodes, caller, call, handling, log, late>>

\* Mutant: the revert is itself reverted when it fails.
RevertAgain ==
  /\ pc = "error" /\ RevertOnFailure /\ readable
  /\ Begin("revert", current, old)
  /\ UNCHANGED <<chain, nodes, caller, call, handling, log, late>>

\* The second deploy: to the old deployments, from wherever the first stopped.
Revert ==
  /\ pc = "error" /\ mode = "deploy" /\ RevertOnFailure /\ readable
  /\ Begin("revert", current, old)
  /\ UNCHANGED <<chain, nodes, caller, call, handling, log, late>>

Failed ==
  /\ pc = "error"
  /\ ~ (mode = "deploy" /\ RevertOnFailure /\ readable)
  /\ Return("failed", current)
  /\ UNCHANGED <<chain, nodes, calls, call, handling, reported, lost, late>>

-----------------------------------------------------------------------------
(* The grid, while the client is between two steps.                        *)

client == <<ids, calls, pc, call, loop, current, todo, handling, log>>

\* A request its sender gave up on arrives, if the node will still take it.
Arrive(m) ==
  /\ \/ m.update /\ AcceptUpdate(m.id, m.dl)
     \/ ~ m.update /\ AcceptDeploy(m.id, m.dl)
  /\ UNCHANGED <<chain, client, late>>

Environment == \/ GridNext /\ UNCHANGED <<client, late>>
               \/ \E m \in late : Arrive(m)

Creating == \E n \in Node : CreateNodeContract(n) \/ CreateNodeContractLost(n)
Sending == \/ DeploymentDeploy \/ DeploymentDeployFails
           \/ EnsureContractCanceled \/ EnsureContractCanceledFails
Updating == \/ \E n \in Node : SkipUpdate(n) \/ PrepareUpdate(n)
            \/ UpdateNodeContract \/ UpdateNodeContractFails
            \/ DeploymentUpdate \/ DeploymentUpdateFails
Waiting == WaitOk \/ WaitFails
Reading == \/ \E n \in Node : GetDeployment(n)
           \/ GetDeploymentFails \/ GotDeployments \/ ValidateOk \/ ValidateFails
Ending == Deployed \/ Revert \/ Failed

Running == \/ Reading \/ PrepareFails \/ Creating \/ Sending \/ Updating \/ Waiting \/ Ending

Next == \/ \E r \in Requests : Deploy(r)
        \/ \E n \in Node : Cancel(n)
        \/ Running
        \/ Environment

Spec == Init /\ [][Next]_vars

\* Every remote call of the client has a timeout, so a call that was made does
\* not stand still; neither the caller nor the grid owes anyone a step.
FairSpec == Spec /\ WF_vars(Running)
-----------------------------------------------------------------------------
(* What is asked of it.                                                    *)

IsIn(c, m) == \E n \in Node : m[n] = c

\* The map that Deploy returns if it ends here.
Tracked == IF pc \in {"idle", "get", "validate"} THEN ids ELSE current

\* A request for contract c that its sender gave up on may still arrive.
Stray(c) == \E m \in late : m.id = c

\* No contract is leaked in silence: each contract that still costs the user
\* money is in the map Deploy returns, or is being handled, or was named in an
\* error for the user to cancel; the only exception is one whose creation the
\* chain never acknowledged (deploy, EnsureContractCanceled, the revert).
NoSilentLeak ==
  \A c \in live : \/ IsIn(c, Tracked)
                  \/ pc \in {"send", "undo"} /\ c = id
                  \/ c \in reported \cup lost

Holds(n, dl) ==
  LET c == ids[n] IN
  c # None /\ (Stray(c) \/ (held[c] = None /\ c \notin live)
               \/ (held[c] # None /\ Content(held[c]) = Content(dl)))

\* After a Deploy that returned nil every node of the request holds what was
\* asked for, whatever earlier calls left behind; a contract that has ended and
\* a stray request are outside the client's hands (deploy, both loops).
SuccessDeploysRequest ==
  outcome = "ok" => \A n \in Filled(request) : Holds(n, request[n])

\* After a failed Deploy whose revert succeeded, every node that had a
\* deployment holds the content it held before the call (Deploy, the second
\* deploy with currentDeployments and oldDeployments).
RevertRestoresContent ==
  outcome = "reverted" => \A n \in Filled(old) : Holds(n, old[n])

\* Versions tell the node the truth: in every deployment that replaces another, a
\* workload whose data changed, or which is new, is at the version of the
\* deployment, so that the node provisions it, and no workload is at a version
\* its deployment has not reached (the update loop and the revert, which goes
\* forward to the old content).
VersionsAdvance ==
  [][\A c \in ContractId : held[c] # None /\ held'[c] \notin {None, held[c]} =>
        /\ WellVersioned(held'[c])
        /\ \A w \in Names(held'[c]) :
             (w \notin Names(held[c])
                \/ held[c].workloads[w].data # held'[c].workloads[w].data)
             => held'[c].workloads[w].version = held'[c].version]_vars

\* Chain first: whenever the client hands a node a deployment, the contract on
\* the chain already carries its hash (CreateNodeContract and UpdateNodeContract
\* before DeploymentDeploy and DeploymentUpdate, the hash taken after the
\* versions are set).
ChainBeforeNode ==
  [][\A c \in ContractId : pc' # pc /\ held'[c] \notin {None, held[c]} =>
        hashOf[c] = HashDeployment(held'[c])]_vars

\* Deploy never takes away what it was given: no contract the caller had before
\* the call is cancelled by the call (EnsureContractCanceled is for a contract
\* created by this call whose deployment could not be sent).
DeployKeepsOldContracts ==
  [][\A c \in live \ live' : pc # pc' => ~ IsIn(c, ids)]_vars

\* What a deployment says, for the promise: {} is none.
Says(d) == {Content(e) : e \in {d} \ {None}}

Promise == INSTANCE DeployPromise
  WITH busy    <- pc # "idle",
       request <- [n \in Node |-> Says(request[n])],
       old     <- [n \in Node |-> Says(old[n])],
       holds   <- [c \in ContractId |-> Says(held[c])],
       stray   <- {c \in ContractId : Stray(c)}

\* Whoever calls Deploy can think of it as one step: it returns the ids it was
\* given and those of new contracts that have what was asked for, leaves every
\* node with what it had or what it was asked to have, changes nothing before all
\* that is new is there, and undoes every change when it says so (Deploy, deploy).
KeepsPromise == Promise!Spec

\* Every call of Deploy returns, the failed and reverted ones too.
DeployReturns == (pc # "idle") ~> (pc = "idle")

-----------------------------------------------------------------------------
(* What docs/design.md says of it, and the code does not do.               *)

\* "the deployer should be responsible of reverting the applied changes if some
\* error happens midway": a call that was reverted leaves the caller with the
\* contracts it had (the loop that deleted the others is commented out).
RevertUndoesCreations ==
  [][outcome # "reverted" /\ outcome' = "reverted" => ids' = ids]_vars

\* "if a workload shouldn't be updated, its version stays the same": what the
\* user did not change is at the version it was at (a versionless deployment has
\* version 0 in the hash it is compared by).
UnchangedWorkloadKeepsVersion ==
  [][\A c \in ContractId : held[c] # None /\ held'[c] \notin {None, held[c]} =>
        \A w \in Names(held[c]) \cap Names(held'[c]) :
          held[c].workloads[w].data = held'[c].workloads[w].data
            => held[c].workloads[w].version = held'[c].workloads[w].version]_vars

\* "waits on them and report the state": Deploy does not return nil while a
\* workload of the request is known to the node to have failed (an unchanged
\* deployment is passed over without a look at its workloads).
SuccessMeansNoneFailed ==
  outcome = "ok" => \A n \in Filled(request) : \A w \in Name : state[ids[n]][w] # "error"
=============================================================================

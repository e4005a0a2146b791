----------------------------- MODULE GatewayName -----------------------------
(***************************************************************************)
(* deployer/gateway_name_deployer.go: a gateway is a deployment on a node  *)
(* and a name contract on the chain, which the deployer keeps in step.     *)
(* The calls on the chain are those of subi/substrate_manager.go.          *)
(*                                                                         *)
(* The user holds one GatewayNameProxy and calls Deploy, Cancel and Sync   *)
(* on it, one after the other, whatever they return, and may set another   *)
(* name in between.  The Deployer underneath appears by what module        *)
(* Deployer shows of it, in two steps: what it hands the node, and what it *)
(* returns once it has waited; requests that reach the node after their    *)
(* sender gave up are left to that module.  Calls that Validate refuses    *)
(* change nothing and are left out.                                        *)
(*                                                                         *)
(* A contract is created, in its grace period, or has ended.  The code     *)
(* takes the last two for one ("TODO: paused?", "TODO: handle pause"), and *)
(* forgets a contract in its grace period that goes on.                    *)
(***************************************************************************)
EXTENDS Grid

CONSTANTS
  NameContractId,   \* ids of name contracts, in the order they are handed out
  Config,           \* what the gateway says beside its name
  Empty,            \* the name ""
  MaxCalls,         \* bound: how often Deploy is called
  MaxPaused         \* bound: contracts in their grace period at a time

ASSUME NameContractIdIsPositive == NameContractId \subseteq Nat \ {0}
ASSUME NoneIsNoNameContractId == None \notin NameContractId
ASSUME ConfigIsData == Config \in Data
ASSUME EmptyIsNoGatewayName == Empty \notin Name \cup {None}
ASSUME MaxCallsIsNat == MaxCalls \in Nat

VARIABLES
  nameOf,     \* on the chain: the name of each name contract of this user
  registered, \* on the chain: those that have not ended
  paused,     \* on the chain: node contracts in their grace period
  namesPaused, \* on the chain: name contracts in their grace period
  gw,         \* gw.Name, gw.NameContractID, gw.NodeDeploymentID, gw.ContractID
  current,    \* State.CurrentNodeDeployments of the gateway's node
  pc,         \* where the call is
  before,     \* the deployment an update replaced
  outcome,    \* what the last call came to
  lost,       \* name contracts whose creation was never acknowledged (history)
  dropped,    \* those forgotten on an error, or in their grace period (history)
  leaked,     \* contracts Deployer.Deploy made and did not return (history)
  released,   \* node contracts Sync forgot in their grace period (history)
  calls       \* how often Deploy was called

grid == <<chain, nodes, paused>>
names == <<nameOf, registered, namesPaused>>
client == <<gw, current, pc, before, outcome, lost, dropped, leaked, released, calls>>
vars == <<chain, nodes, paused, nameOf, registered, namesPaused, gw, current, pc,
          before, outcome, lost, dropped, leaked, released, calls>>

PC == {"idle", "invalidate", "unmatched", "create", "deploy", "wait",
       "cancel node", "cancel name", "sync node", "sync name", "sync"}

TypeOK ==
  /\ GridTypeOK
  /\ nameOf \in [NameContractId -> Name \cup {None}]
  /\ registered \subseteq NameContractId
  /\ paused \subseteq live /\ namesPaused \subseteq registered
  /\ gw \in [name : Name \cup {Empty}, nameContract : NameContractId \cup {None},
             deployment : ContractId \cup {None}, contract : ContractId \cup {None}]
  /\ current \subseteq ContractId
  /\ pc \in PC
  /\ before \in Deployment \cup {None}
  /\ outcome \in {"none", "deployed", "cancelled", "synced", "failed"}
  /\ lost \subseteq NameContractId /\ dropped \subseteq NameContractId
  /\ leaked \subseteq ContractId /\ released \subseteq ContractId
  /\ calls \in 0..MaxCalls

Init ==
  /\ GridInit
  /\ nameOf = [c \in NameContractId |-> None] /\ registered = {}
  /\ paused = {} /\ namesPaused = {}
  /\ \E n \in Name : gw = [name |-> n, nameContract |-> None,
                           deployment |-> None, contract |-> None]
  /\ current = {} /\ pc = "idle" /\ before = None /\ outcome = "none"
  /\ lost = {} /\ dropped = {} /\ leaked = {} /\ released = {} /\ calls = 0

-----------------------------------------------------------------------------
(* Name contracts on the chain.                                            *)

Free(n) == n \in Name /\ \A c \in registered : nameOf[c] # n

\* A name is registered once, and the empty name never.
CreateNameContract(c, n) ==
  /\ Free(n)
  /\ nameOf[c] = None /\ \A b \in NameContractId : b < c => nameOf[b] # None
  /\ nameOf' = [nameOf EXCEPT ![c] = n]
  /\ registered' = registered \cup {c}
  /\ UNCHANGED namesPaused

CancelNameContract(c) ==
  /\ registered' = registered \ {c}
  /\ namesPaused' = namesPaused \ {c}
  /\ UNCHANGED nameOf

\* contract.State.IsCreated, which is false in the grace period as well.
CreatedNames == registered \ namesPaused
Created == live \ paused

CancelNodeContract(c) == CancelContract(c) /\ paused' = paused \ {c}

-----------------------------------------------------------------------------
(* What the calls have in common.                                          *)

Start(step) ==
  /\ pc = "idle"
  /\ pc' = step
  /\ outcome' = "none"
  /\ UNCHANGED <<grid, names, gw, current, before, lost, dropped, leaked, released>>

End(o) == pc' = "idle" /\ outcome' = o

Continue(step) == pc' = step /\ UNCHANGED outcome

Deploy == /\ calls < MaxCalls
          /\ calls' = calls + 1
          /\ Start(IF gw.nameContract = None THEN "create" ELSE "invalidate")
Cancel == Start("cancel node") /\ UNCHANGED calls
Sync   == Start("sync node") /\ UNCHANGED calls

\* The user sets gw.Name.
Rename(n) ==
  /\ pc = "idle"
  /\ gw' = [gw EXCEPT !.name = n]
  /\ outcome' = "none"
  /\ UNCHANGED <<grid, names, current, pc, before, lost, dropped, leaked, released, calls>>

-----------------------------------------------------------------------------
(* Deploy: the name contract first.                                        *)

\* The id is 0 on every error, and 0 is what gw.NameContractID becomes.
InvalidateFails ==
  /\ pc \in {"invalidate", "unmatched"}
  /\ \/ UNCHANGED names
     \/ pc = "unmatched" /\ CancelNameContract(gw.nameContract)
  /\ gw' = [gw EXCEPT !.nameContract = None]
  /\ dropped' = dropped \cup {gw.nameContract}
  /\ End("failed")
  /\ UNCHANGED <<grid, current, before, lost, leaked, released, calls>>

\* The name contract is no longer gw.NameContractID.
Forget == /\ gw' = [gw EXCEPT !.nameContract = None]
          /\ dropped' = dropped \cup (namesPaused \cap {gw.nameContract})

\* Mutant: the name of the contract is not looked at.
InvalidateAnyName ==
  /\ pc = "invalidate"
  /\ IF gw.nameContract \notin CreatedNames
     THEN Forget /\ Continue("create")
     ELSE Continue("deploy") /\ UNCHANGED <<gw, dropped>>
  /\ UNCHANGED <<grid, names, current, before, lost, leaked, released, calls>>

\* InvalidateNameContract reads the contract.  One that is not created it does
\* not cancel, whatever its name.
Invalidate ==
  /\ pc = "invalidate"
  /\ \/ /\ gw.nameContract \notin CreatedNames
        /\ Forget
        /\ Continue("create")
     \/ /\ gw.nameContract \in CreatedNames
        /\ Continue(IF nameOf[gw.nameContract] = gw.name THEN "deploy" ELSE "unmatched")
        /\ UNCHANGED <<gw, dropped>>
  /\ UNCHANGED <<grid, names, current, before, lost, leaked, released, calls>>

\* It cancels a contract for another name, which has to be there still:
\* "ContractNotExists" is an error here.
CancelUnmatched ==
  /\ pc = "unmatched"
  /\ gw.nameContract \in registered
  /\ CancelNameContract(gw.nameContract)
  /\ gw' = [gw EXCEPT !.nameContract = None]
  /\ Continue("create")
  /\ UNCHANGED <<grid, current, before, lost, dropped, leaked, released, calls>>

CreateName ==
  /\ pc = "create"
  /\ \E c \in NameContractId :
       /\ CreateNameContract(c, gw.name)
       /\ gw' = [gw EXCEPT !.nameContract = c]
  /\ Continue("deploy")
  /\ UNCHANGED <<grid, current, before, lost, dropped, leaked, released, calls>>

\* Mutant: the error is not returned.
CreateNameIgnored ==
  /\ pc = "create"
  /\ Continue("deploy")
  /\ UNCHANGED <<grid, names, gw, current, before, lost, dropped, leaked, released, calls>>

\* The name is not allowed, or registered already, by others or under a contract the
\* deployer forgot; or the call is lost; or only its reply is.
CreateNameFails ==
  /\ pc = "create"
  /\ \/ UNCHANGED <<names, lost>>
     \/ \E c \in NameContractId : CreateNameContract(c, gw.name) /\ lost' = lost \cup {c}
  /\ End("failed")
  /\ UNCHANGED <<grid, gw, current, before, dropped, leaked, released, calls>>

-----------------------------------------------------------------------------
(* Deploy: then the node.                                                  *)

Wanted == Versionless([w \in {gw.name} |-> Config])
Present == gw.deployment # None /\ held[gw.deployment] # None

\* Deployer.Deploy creates or updates the deployment ...
HandToNode ==
  /\ pc = "deploy"
  /\ \/ /\ gw.deployment = None
        /\ \E c \in ContractId, n \in Node :
             /\ CreateContract(c, n, HashDeployment(Wanted))
             /\ AcceptDeploy(c, Wanted)
             /\ gw' = [gw EXCEPT !.deployment = c]
        /\ before' = None
     \/ /\ Present /\ ~ Unchanged(Wanted, held[gw.deployment])
        /\ LET d == Update(Wanted, held[gw.deployment])
           IN UpdateContract(gw.deployment, HashDeployment(d)) /\ AcceptUpdate(gw.deployment, d)
        /\ before' = held[gw.deployment]
        /\ UNCHANGED gw
  /\ Continue("wait")
  /\ UNCHANGED <<paused, names, current, lost, dropped, leaked, released, calls>>

\* The id is recorded whether or not Deployer.Deploy failed.
Record ==
  IF gw.deployment = None THEN UNCHANGED <<gw, current>>
  ELSE /\ gw' = [gw EXCEPT !.contract = gw.deployment]
       /\ current' = current \cup {gw.deployment}

\* ... and returns nil when the workload is ok, or when nothing had to change.
Deployed ==
  /\ \/ /\ pc = "wait" /\ held[gw.deployment] # None
        /\ gw.name \in Names(held[gw.deployment]) /\ state[gw.deployment][gw.name] = "ok"
     \/ pc = "deploy" /\ Present /\ Unchanged(Wanted, held[gw.deployment])
  /\ Record
  /\ before' = None
  /\ End("deployed")
  /\ UNCHANGED <<grid, names, lost, dropped, leaked, released, calls>>

\* Mutant: the id is recorded only after a success.
WaitFailsUntracked ==
  /\ pc = "wait"
  /\ before' = None
  /\ End("failed")
  /\ UNCHANGED <<grid, names, gw, current, lost, dropped, leaked, released, calls>>

\* It fails before it hands the deployment over ...
DeployFails ==
  /\ pc = "deploy"
  /\ \/ UNCHANGED <<chain, nodes, leaked>>
     \/ /\ gw.deployment = None
        /\ \E c \in ContractId, n \in Node :
             /\ CreateContract(c, n, HashDeployment(Wanted))
             /\ UNCHANGED nodes \/ AcceptDeploy(c, Wanted)
             /\ leaked' = leaked \cup {c}
     \/ /\ Present /\ ~ Unchanged(Wanted, held[gw.deployment])
        /\ UpdateContract(gw.deployment, HashDeployment(Update(Wanted, held[gw.deployment])))
        /\ UNCHANGED <<nodes, leaked>>
  /\ Record
  /\ before' = None
  /\ End("failed")
  /\ UNCHANGED <<paused, names, lost, dropped, released, calls>>

\* ... or while it waits, and may succeed in going back to what was there, the
\* old name included.
WaitFails ==
  /\ pc = "wait"
  /\ \/ UNCHANGED <<chain, nodes>>
     \/ /\ before # None /\ held[gw.deployment] # None
        /\ LET d == Update(before, held[gw.deployment])
           IN /\ UpdateContract(gw.deployment, HashDeployment(d))
              /\ UNCHANGED nodes \/ AcceptUpdate(gw.deployment, d)
  /\ Record
  /\ before' = None
  /\ End("failed")
  /\ UNCHANGED <<paused, names, lost, dropped, leaked, released, calls>>

-----------------------------------------------------------------------------
(* Cancel: the node contract, then the name contract.                      *)

\* Mutant: the entry is deleted before the id is taken from it.
CancelNothing ==
  /\ pc = "cancel node"
  /\ gw' = [gw EXCEPT !.deployment = None, !.contract = None]
  /\ current' = current \ {gw.deployment}
  /\ IF gw.nameContract = None THEN End("cancelled") ELSE Continue("cancel name")
  /\ UNCHANGED <<grid, names, before, lost, dropped, leaked, released, calls>>

CancelNode ==
  /\ pc = "cancel node"
  /\ CancelNodeContract(gw.deployment)
  /\ gw' = [gw EXCEPT !.deployment = None, !.contract = None]
  /\ current' = current \ {gw.deployment}
  /\ IF gw.nameContract = None THEN End("cancelled") ELSE Continue("cancel name")
  /\ UNCHANGED <<nodes, names, before, lost, dropped, leaked, released, calls>>

CancelName ==
  /\ pc = "cancel name"
  /\ CancelNameContract(gw.nameContract)
  /\ gw' = [gw EXCEPT !.nameContract = None]
  /\ End("cancelled")
  /\ UNCHANGED <<grid, current, before, lost, dropped, leaked, released, calls>>

\* Mutant: the name contract is forgotten although it could not be cancelled.
CancelFailsForgetful ==
  /\ pc = "cancel name"
  /\ gw' = [gw EXCEPT !.nameContract = None]
  /\ End("failed")
  /\ UNCHANGED <<grid, names, current, before, lost, dropped, leaked, released, calls>>

\* Either call fails, served or not; what was done stays recorded for a retry.
CancelFails ==
  /\ \/ pc = "cancel node" /\ UNCHANGED <<chain, paused, names>>
     \/ pc = "cancel node" /\ CancelNodeContract(gw.deployment) /\ UNCHANGED names
     \/ pc = "cancel name" /\ UNCHANGED <<chain, paused, names>>
     \/ pc = "cancel name" /\ CancelNameContract(gw.nameContract) /\ UNCHANGED <<chain, paused>>
  /\ End("failed")
  /\ UNCHANGED <<nodes, gw, current, before, lost, dropped, leaked, released, calls>>

-----------------------------------------------------------------------------
(* Sync: both contracts, then the workload.                                *)

\* DeleteInvalidContracts(gw.NodeDeploymentID).  State keeps the contract.
SyncNode ==
  /\ pc = "sync node"
  /\ gw' = [gw EXCEPT !.deployment = IF @ \in Created THEN @ ELSE None]
  /\ released' = released \cup (paused \cap {gw.deployment})
  /\ Continue("sync name")
  /\ UNCHANGED <<grid, names, current, before, lost, dropped, leaked, calls>>

\* IsValidContract(gw.NameContractID)
SyncName ==
  /\ pc = "sync name"
  /\ LET c == IF gw.nameContract \in CreatedNames THEN gw.nameContract ELSE None
     IN gw' = [gw EXCEPT !.nameContract = c,
                         !.contract = IF c = None /\ gw.deployment = None THEN None ELSE @]
  /\ dropped' = dropped \cup (namesPaused \cap {gw.nameContract})
  /\ Continue("sync")
  /\ UNCHANGED <<grid, names, current, before, lost, leaked, released, calls>>

Okay == /\ gw.deployment # None
        /\ gw.name \in Names(held[gw.deployment])
        /\ state[gw.deployment][gw.name] = "ok"

\* Whatever is not found, or is not ok, leaves the gateway without a name; a node
\* pauses what is in its grace period, sooner or later.
SyncWorkload ==
  /\ pc = "sync"
  /\ gw.deployment # None => held[gw.deployment] # None
  /\ \/ Okay /\ UNCHANGED gw
     \/ (Okay => gw.deployment \in paused) /\ gw' = [gw EXCEPT !.name = Empty]
  /\ End("synced")
  /\ UNCHANGED <<grid, names, current, before, lost, dropped, leaked, released, calls>>

SyncFails ==
  /\ pc \in {"sync node", "sync name", "sync"}
  /\ End("failed")
  /\ UNCHANGED <<grid, names, gw, current, before, lost, dropped, leaked, released, calls>>

-----------------------------------------------------------------------------
(* The grid.                                                               *)

\* A name contract ends without the client.
LoseName(c) == c \in registered /\ CancelNameContract(c)

\* The user's funds run out, and come back in time.
MayPause == Cardinality(paused) + Cardinality(namesPaused) < MaxPaused
PauseName(c) == /\ MayPause /\ c \in registered /\ namesPaused' = namesPaused \cup {c}
                /\ UNCHANGED <<nameOf, registered>>
ResumeName(c) == /\ c \in namesPaused /\ namesPaused' = namesPaused \ {c}
                 /\ UNCHANGED <<nameOf, registered>>
Pause(c) == MayPause /\ c \in live /\ paused' = paused \cup {c}
Resume(c) == c \in paused /\ paused' = paused \ {c}

Environment ==
  /\ \/ GridNext /\ paused' = paused \cap live' /\ UNCHANGED names
     \/ (\E c \in ContractId : Pause(c) \/ Resume(c)) /\ UNCHANGED <<chain, nodes, names>>
     \/ /\ \E c \in NameContractId : LoseName(c) \/ PauseName(c) \/ ResumeName(c)
        /\ UNCHANGED grid
  /\ UNCHANGED client

Next == \/ Deploy \/ Cancel \/ Sync
        \/ \E n \in Name : Rename(n)
        \/ InvalidateFails \/ Invalidate \/ CancelUnmatched
        \/ CreateName \/ CreateNameFails
        \/ HandToNode \/ Deployed \/ DeployFails \/ WaitFails
        \/ CancelNode \/ CancelName \/ CancelFails
        \/ SyncNode \/ SyncName \/ SyncWorkload \/ SyncFails
        \/ Environment

Spec == Init /\ [][Next]_vars
-----------------------------------------------------------------------------
(* What is asked of it.                                                    *)

\* Each name contract that still costs the user money is gw.NameContractID, across
\* renames, failures and retries; the exceptions are those whose creation was never
\* acknowledged, and those the deployer forgot: an error of InvalidateNameContract
\* makes it, and Deploy and Sync forget a contract in its grace period (Deploy,
\* Cancel and Sync of GatewayNameDeployer).
NamesAccounted == registered \subseteq {gw.nameContract} \cup lost \cup dropped

\* After a Deploy that returned nil the user's name contract is for the name that
\* the node serves, which is gw.Name; the node's part may have ended since
\* (InvalidateNameContract, the order of Deploy).
SuccessOwnsName ==
  outcome = "deployed" =>
    /\ gw.nameContract # None /\ nameOf[gw.nameContract] = gw.name
    /\ held[gw.deployment] # None => Names(held[gw.deployment]) = {gw.name}

\* After a Cancel that returned nil, on the first attempt or a later one, nothing
\* of the gateway costs money, with these exceptions: a node contract that
\* Deployer.Deploy made and could not return, which NoSilentLeak of Deployer is
\* about; a node contract in whose grace period Sync forgot it, since Cancel then
\* cancels 0; and the name contracts NamesAccounted excepts (Cancel).
CancelLeavesNothing ==
  outcome = "cancelled" =>
    /\ live \subseteq leaked \cup released
    /\ registered \subseteq lost \cup dropped

\* What a call leaves on the node can be found: the gateway's deployment through
\* State and gw.ContractID, when Deploy failed as well ("error is not returned
\* immediately before updating state because of untracked failed deployments"), and
\* every contract that goes on through State, one that Sync forgot included (Deploy,
\* Cancel, Sync).
TracksDeployments ==
  pc = "idle" =>
    /\ gw.deployment # None => gw.deployment \in current /\ gw.contract = gw.deployment
    /\ live \ leaked \subseteq current

\* Name first: whenever Deploy hands the node a gateway, the user has a contract
\* for its name (Deploy; a revert, which ends the call, is not covered: it brings
\* back the old name, whose contract was cancelled).
NameBeforeNode ==
  [][\A c \in ContractId : pc = "deploy" /\ held'[c] \notin {None, held[c]} =>
        gw.nameContract # None /\ Names(held'[c]) = {nameOf[gw.nameContract]}]_vars
=============================================================================

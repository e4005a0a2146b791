--------------------------- MODULE DeployerProofs ---------------------------
(***************************************************************************)
(* For any nodes, contract ids, workloads, requests and number of calls:   *)
(* Deployer keeps its types, leaks no contract in silence, does not cancel *)
(* the contracts it is given, tells the chain first, deploys what was      *)
(* asked or restores what was there, and moves versions with changes.      *)
(***************************************************************************)
EXTENDS Deployer, TLAPS

-----------------------------------------------------------------------------
(* The operators on deployments.                                           *)

\* The versions of a deployment's workloads are numbers.
LEMMA VersionsType ==
  ASSUME NEW d \in Deployment
  PROVE  ConstructWorkloadVersions(d) \in [Name -> Nat \cup {None}]
BY DEF ConstructWorkloadVersions, Names, Deployment, Workload

\* What the update loop sends is a deployment.
LEMMA UpdateType ==
  ASSUME NEW dl \in Deployment, NEW h \in Deployment
  PROVE  Update(dl, h) \in Deployment
<1>1. ASSUME NEW w \in Name, w \in Names(dl)
      PROVE  [dl.workloads[w] EXCEPT !.version = UpdatedVersion(dl, h, w)] \in Workload
  <2>1. UpdatedVersion(dl, h, w) \in Nat
    BY <1>1 DEF UpdatedVersion, ConstructWorkloadVersions, Names, Deployment, Workload
  <2>2. dl.workloads[w] \in Workload
    BY <1>1 DEF Names, Deployment
  <2>. QED BY <2>1, <2>2 DEF Workload
<1>. QED BY <1>1 DEF Update, Deployment

\* What the update loop sends has the names and the data that were asked for.
LEMMA UpdateContent ==
  ASSUME NEW dl \in Deployment, NEW h \in Deployment
  PROVE  /\ Names(Update(dl, h)) = Names(dl)
         /\ Content(Update(dl, h)) = Content(dl)
<1>. DEFINE d == Update(dl, h)
<1>1. ASSUME NEW w \in Names(dl)
      PROVE  d.workloads[w] # None /\ d.workloads[w].data = dl.workloads[w].data
  <2>1. dl.workloads[w] \in Workload
    BY DEF Names, Deployment
  <2>2. d.workloads[w] = [dl.workloads[w] EXCEPT !.version = UpdatedVersion(dl, h, w)]
    BY DEF Update, Names
  <2>3. UpdatedVersion(dl, h, w) \in Nat
    BY <2>1 DEF UpdatedVersion, ConstructWorkloadVersions, Names, Deployment, Workload
  <2>4. d.workloads[w] \in Workload
    BY <2>1, <2>2, <2>3 DEF Workload
  <2>. QED BY <2>1, <2>2, <2>4, NoneIsNoWorkload DEF Workload
<1>2. ASSUME NEW w \in Name \ Names(dl) PROVE d.workloads[w] = None
  BY DEF Update
<1>3. Names(d) = Names(dl)
  BY <1>1, <1>2 DEF Names
<1>. QED BY <1>1, <1>3 DEF Content

\* A deployment that the loop passes over has the content that was asked for.
LEMMA UnchangedContent ==
  ASSUME NEW dl \in Deployment, NEW h \in Deployment, Unchanged(dl, h)
  PROVE  Content(dl) = Content(h)
<1>1. GetWorkloadHashes(dl) = GetWorkloadHashes(h)
  BY DEF Unchanged, HashDeployment
<1>2. Names(dl) = Names(h)
  BY <1>1 DEF GetWorkloadHashes
<1>3. ASSUME NEW w \in Names(dl) PROVE dl.workloads[w].data = h.workloads[w].data
  <2>1. WorkloadHash(w, dl.workloads[w]) = WorkloadHash(w, h.workloads[w])
    BY <1>1, <1>2 DEF GetWorkloadHashes
  <2>. QED BY <2>1 DEF WorkloadHash
<1>. QED BY <1>2, <1>3 DEF Content

\* Deployment d may replace h: no workload is at a version d has not reached, and
\* what d changes is at its own version.
Advances(h, d) ==
  /\ WellVersioned(d)
  /\ \A w \in Names(d) :
       w \notin Names(h) \/ h.workloads[w].data # d.workloads[w].data
         => d.workloads[w].version = d.version

\* The update loop goes one version ahead, and gives a workload that version or
\* leaves it as it is, at the version it has.
LEMMA UpdateAdvances ==
  ASSUME NEW dl \in Deployment, NEW h \in Deployment, WellVersioned(h)
  PROVE  Update(dl, h).version = h.version + 1 /\ Advances(h, Update(dl, h))
<1>. DEFINE d == Update(dl, h)
<1>1. d.version = h.version + 1
  BY DEF Update
<1>2. ASSUME NEW w \in Names(d)
      PROVE  /\ d.workloads[w].version <= d.version
             /\ w \notin Names(h) \/ h.workloads[w].data # d.workloads[w].data
                  => d.workloads[w].version = d.version
  <2>1. w \in Names(dl)
    BY UpdateContent
  <2>2. dl.workloads[w] \in Workload
    BY <2>1 DEF Names, Deployment
  <2>3. d.workloads[w] = [dl.workloads[w] EXCEPT !.version = UpdatedVersion(dl, h, w)]
    BY <2>1 DEF Update, Names
  <2>4. d.workloads[w].version = UpdatedVersion(dl, h, w)
         /\ d.workloads[w].data = dl.workloads[w].data
    BY <2>2, <2>3 DEF Workload
  <2>5. CASE /\ w \in Names(h)
             /\ WorkloadHash(w, dl.workloads[w]) = WorkloadHash(w, h.workloads[w])
    <3>1. UpdatedVersion(dl, h, w) = h.workloads[w].version
      BY <2>5 DEF UpdatedVersion, ConstructWorkloadVersions, Names
    <3>2. dl.workloads[w].data = h.workloads[w].data
      BY <2>5 DEF WorkloadHash
    <3>3. h.workloads[w].version <= h.version
      BY <2>5 DEF WellVersioned
    <3>4. h.workloads[w].version \in Nat /\ h.version \in Nat
      BY <2>5 DEF Names, Deployment, Workload
    <3>. QED BY <1>1, <2>4, <2>5, <3>1, <3>2, <3>3, <3>4
  <2>6. CASE ~ (/\ w \in Names(h)
                /\ WorkloadHash(w, dl.workloads[w]) = WorkloadHash(w, h.workloads[w]))
    <3>1. UpdatedVersion(dl, h, w) = h.version + 1
      BY <2>6, Zenon DEF UpdatedVersion
    <3>2. h.version \in Nat
      BY DEF Deployment
    <3>. QED BY <1>1, <2>4, <3>1, <3>2
  <2>. QED BY <2>5, <2>6
<1>. QED BY <1>1, <1>2 DEF Advances, WellVersioned

\* Nothing a node starts over from is outside its states.
LEMMA StatesType ==
  ASSUME GridTypeOK, NEW c \in ContractId, NEW d
  PROVE  StatesAfter(c, d) \in [Name -> WorkloadState]
BY DEF GridTypeOK, StatesAfter, WorkloadState

\* A node that takes a deployment keeps the grid's types.
LEMMA HoldType ==
  ASSUME GridTypeOK, NEW c \in ContractId, NEW d \in Deployment \cup {None},
         Hold(c, d), UNCHANGED chain
  PROVE  GridTypeOK'
<1>1. StatesAfter(c, d) \in [Name -> WorkloadState]
  BY StatesType
<1>. QED BY <1>1 DEF GridTypeOK, Hold, chain

-----------------------------------------------------------------------------
(* The steps of the grid.                                                  *)

\* Environment steps of the grid keep its types (Provision, LoseContract,
\* Decommission).
LEMMA GridNextType ==
  ASSUME GridTypeOK, GridNext
  PROVE  GridTypeOK'
<1>1. PICK c \in ContractId : \/ \E w \in Name : Provision(c, w)
                              \/ LoseContract(c)
                              \/ Decommission(c)
  BY DEF GridNext
<1>2. CASE \E w \in Name : Provision(c, w)
  <2>1. PICK w \in Name, s \in {"ok", "error"} :
          state' = [state EXCEPT ![c][w] = s] /\ UNCHANGED <<chain, held>>
    BY <1>2 DEF Provision
  <2>2. state' \in [ContractId -> [Name -> WorkloadState]]
    BY <2>1 DEF GridTypeOK, WorkloadState
  <2>. QED BY <2>1, <2>2 DEF GridTypeOK, chain
<1>3. CASE LoseContract(c)
  BY <1>3 DEF LoseContract, GridTypeOK, nodes
<1>4. CASE Decommission(c)
  BY <1>4 DEF Decommission, GridTypeOK, chain, WorkloadState
<1>. QED BY <1>1, <1>2, <1>3, <1>4

\* The chain's operations keep the grid's types.
LEMMA ChainType ==
  ASSUME GridTypeOK, UNCHANGED nodes, NEW c \in ContractId, NEW n \in Node, NEW h,
         CreateContract(c, n, h) \/ UpdateContract(c, h) \/ CancelContract(c)
  PROVE  GridTypeOK'
<1>1. CASE CreateContract(c, n, h)
  BY <1>1, NoneIsNoNode DEF CreateContract, GridTypeOK, nodes
<1>2. CASE UpdateContract(c, h)
  BY <1>2 DEF UpdateContract, GridTypeOK, nodes
<1>3. CASE CancelContract(c)
  BY <1>3 DEF CancelContract, GridTypeOK, nodes
<1>. QED BY <1>1, <1>2, <1>3

-----------------------------------------------------------------------------
(* Type correctness.                                                       *)

\* A call starts from maps that are empty.
LEMMA NowhereType == Nowhere \in IdMap /\ Nowhere \in DeploymentMap
BY DEF Nowhere, IdMap, DeploymentMap

\* Nothing waited for is a set of versions like any other.
LEMMA NothingType == Nothing \in [Name -> Nat \cup {None}]
BY DEF Nothing

\* What the guards of a step rely on beside the types: GetDeployments reads ids
\* that are there, and an iteration has its node, contract and deployment.
Handling == pc \in {"send", "undo", "chain", "put", "wait"}
Deploying == pc \notin {"idle", "get", "validate"}

TypeInv ==
  /\ TypeOK
  /\ pc = "get" => todo \subseteq Filled(ids)
  /\ Deploying => todo \subseteq Filled(target)
  /\ Handling => node \in Node /\ id \in ContractId /\ sending \in Deployment

\* Before the first call every variable has its type.
LEMMA TypeInit == Init => TypeInv
<1>. SUFFICES ASSUME Init PROVE TypeInv
  OBVIOUS
<1>1. GridTypeOK
  BY DEF Init, GridInit, GridTypeOK, WorkloadState
<1>. QED BY <1>1, NowhereType, NothingType, MaxCallsIsNat
         DEF Init, TypeInv, TypeOK, PC, Handling, Deploying

\* Every step of the client, of a late request or of the grid keeps the types.
LEMMA TypeNext == TypeInv /\ [Next]_vars => TypeInv'
<1>. SUFFICES ASSUME TypeInv, [Next]_vars PROVE TypeInv'
  OBVIOUS
<1>. USE NowhereType, NothingType DEF TypeInv, Handling, Deploying, Filled
<1>1. ASSUME NEW r \in Requests, Deploy(r) PROVE TypeInv'
  BY <1>1, RequestsAreDeployments, MaxCallsIsNat
  DEF Deploy, TypeOK, GridTypeOK, chain, nodes, loop, handling, PC, Filled
<1>2. ASSUME NEW n \in Node, Cancel(n) PROVE TypeInv'
  <2>1. ids[n] \in ContractId
    BY <1>2 DEF Cancel, TypeOK, IdMap
  <2>2. GridTypeOK'
    BY <1>2, <2>1, ChainType DEF Cancel, TypeOK
  <2>. QED BY <1>2, <2>2 DEF Cancel, TypeOK, IdMap, call, loop, handling
<1>3. ASSUME NEW n \in Node, GetDeployment(n) PROVE TypeInv'
  <2>1. held[ids[n]] \in Deployment
    BY <1>3 DEF GetDeployment, TypeOK, GridTypeOK, IdMap, PC, Filled
  <2>. QED BY <1>3, <2>1 DEF GetDeployment, TypeOK, GridTypeOK, DeploymentMap, Filled,
                             chain, nodes, caller, loop, handling, log
<1>4. CASE GetDeploymentFails
  BY <1>4 DEF GetDeploymentFails, Begin, TypeOK, GridTypeOK, PC, Filled,
              chain, nodes, caller, handling, log
<1>5. CASE GotDeployments
  BY <1>5 DEF GotDeployments, TypeOK, GridTypeOK, PC, chain, nodes, caller, call, loop,
              handling, log
<1>6. CASE ValidateOk
  BY <1>6 DEF ValidateOk, Begin, TypeOK, GridTypeOK, PC, Filled, chain, nodes, caller,
              call, handling, log
<1>7. CASE ValidateFails
  BY <1>7 DEF ValidateFails, Return, TypeOK, GridTypeOK, PC, chain, nodes, call, handling
<1>8. CASE PrepareFails
  BY <1>8 DEF PrepareFails, TypeOK, GridTypeOK, PC, chain, nodes, caller, call, loop,
              handling, log
<1>9. ASSUME NEW n \in Node, CreateNodeContract(n) PROVE TypeInv'
  <2>1. PICK c \in ContractId :
          /\ CreateContract(c, n, HashDeployment(target[n]))
          /\ node' = n /\ id' = c /\ sending' = target[n]
    BY <1>9 DEF CreateNodeContract
  <2>2. GridTypeOK'
    BY <1>9, <2>1, ChainType DEF CreateNodeContract, TypeOK
  <2>3. target[n] \in Deployment
    BY <1>9 DEF CreateNodeContract, ToCreate, TypeOK, DeploymentMap, PC
  <2>. QED BY <1>9, <2>1, <2>2, <2>3 DEF CreateNodeContract, TypeOK, PC, caller,
                                         call, loop, log
<1>10. ASSUME NEW n \in Node, CreateNodeContractLost(n) PROVE TypeInv'
  <2>1. PICK c \in ContractId :
          /\ CreateContract(c, n, HashDeployment(target[n]))
          /\ lost' = lost \cup {c}
    BY <1>10 DEF CreateNodeContractLost
  <2>2. GridTypeOK'
    BY <1>10, <2>1, ChainType DEF CreateNodeContractLost, TypeOK
  <2>. QED BY <1>10, <2>1, <2>2 DEF CreateNodeContractLost, TypeOK, PC, caller, call, loop,
                                    handling
<1>11. CASE DeploymentDeploy
  <2>1. GridTypeOK'
    BY <1>11, HoldType DEF DeploymentDeploy, AcceptDeploy, TypeOK
  <2>2. waiting' \in [Name -> Nat \cup {None}]
    BY <1>11 DEF DeploymentDeploy
  <2>. QED BY <1>11, <2>1, <2>2 DEF DeploymentDeploy, TypeOK, IdMap, PC, caller, call, loop, log
<1>12. CASE DeploymentDeployFails
  <2>1. GridTypeOK'
    <3>1. CASE UNCHANGED nodes
      BY <1>12, <3>1 DEF DeploymentDeployFails, TypeOK, GridTypeOK, chain, nodes
    <3>2. CASE AcceptDeploy(id, sending)
      BY <1>12, <3>2, HoldType DEF DeploymentDeployFails, AcceptDeploy, TypeOK
    <3>. QED BY <1>12, <3>1, <3>2 DEF DeploymentDeployFails
  <2>2. late' \subseteq LateRequest
    <3>1. [id |-> id, dl |-> sending, update |-> FALSE] \in LateRequest
      BY <1>12 DEF DeploymentDeployFails, LateRequest
    <3>. QED BY <1>12, <3>1 DEF DeploymentDeployFails, TypeOK
  <2>. QED BY <1>12, <2>1, <2>2 DEF DeploymentDeployFails, TypeOK, PC, caller, call, loop,
                                    handling, log
<1>13. CASE EnsureContractCanceled
  <2>1. GridTypeOK'
    BY <1>13, ChainType DEF EnsureContractCanceled, TypeOK
  <2>. QED BY <1>13, <2>1 DEF EnsureContractCanceled, LeaveIteration, TypeOK, PC, caller,
                              call, loop, log
<1>14. CASE EnsureContractCanceledFails
  <2>1. GridTypeOK'
    <3>1. CASE CancelContract(id)
      BY <1>14, <3>1, ChainType DEF EnsureContractCanceledFails, TypeOK
    <3>2. CASE UNCHANGED chain
      BY <1>14, <3>2 DEF EnsureContractCanceledFails, TypeOK, GridTypeOK, chain, nodes
    <3>. QED BY <1>14, <3>1, <3>2 DEF EnsureContractCanceledFails
  <2>. QED BY <1>14, <2>1 DEF EnsureContractCanceledFails, LeaveIteration, TypeOK, PC,
                              caller, call, loop
<1>15. ASSUME NEW n \in Node, SkipUpdate(n) PROVE TypeInv'
  BY <1>15 DEF SkipUpdate, TypeOK, GridTypeOK, PC, chain, nodes, caller, call, loop,
               handling, log
<1>16. ASSUME NEW n \in Node, PrepareUpdate(n) PROVE TypeInv'
  <2>1. n \in todo /\ base[n] \in ContractId /\ target[n] \in Deployment
    BY <1>16 DEF PrepareUpdate, ToUpdate, ToCreate, TypeOK, IdMap, DeploymentMap
  <2>2. held[base[n]] \in Deployment
    BY <1>16, <2>1 DEF PrepareUpdate, TypeOK, GridTypeOK
  <2>3. sending' \in Deployment
    BY <1>16, <2>1, <2>2, UpdateType DEF PrepareUpdate
  <2>4. waiting' \in [Name -> Nat \cup {None}]
    BY <1>16, <2>3, VersionsType DEF PrepareUpdate
  <2>. QED BY <1>16, <2>1, <2>3, <2>4 DEF PrepareUpdate, TypeOK, GridTypeOK, PC, chain,
                                          nodes, caller, call, loop, log
<1>17. CASE UpdateNodeContract
  <2>1. GridTypeOK'
    BY <1>17, ChainType DEF UpdateNodeContract, TypeOK
  <2>. QED BY <1>17, <2>1 DEF UpdateNodeContract, TypeOK, PC, caller, call, loop, handling,
                              log
<1>18. CASE UpdateNodeContractFails
  <2>1. GridTypeOK'
    <3>1. CASE UpdateContract(id, HashDeployment(sending))
      BY <1>18, <3>1, ChainType DEF UpdateNodeContractFails, TypeOK
    <3>2. CASE UNCHANGED chain
      BY <1>18, <3>2 DEF UpdateNodeContractFails, TypeOK, GridTypeOK, chain, nodes
    <3>. QED BY <1>18, <3>1, <3>2 DEF UpdateNodeContractFails
  <2>. QED BY <1>18, <2>1 DEF UpdateNodeContractFails, LeaveIteration, TypeOK, PC, caller,
                              call, loop, log
<1>19. CASE DeploymentUpdate
  <2>1. GridTypeOK'
    BY <1>19, HoldType DEF DeploymentUpdate, AcceptUpdate, TypeOK
  <2>. QED BY <1>19, <2>1 DEF DeploymentUpdate, TypeOK, IdMap, PC, caller, call, loop,
                              handling, log
<1>20. CASE DeploymentUpdateFails
  <2>1. GridTypeOK'
    <3>1. CASE UNCHANGED nodes
      BY <1>20, <3>1 DEF DeploymentUpdateFails, TypeOK, GridTypeOK, chain, nodes
    <3>2. CASE AcceptUpdate(id, sending)
      BY <1>20, <3>2, HoldType DEF DeploymentUpdateFails, AcceptUpdate, TypeOK
    <3>. QED BY <1>20, <3>1, <3>2 DEF DeploymentUpdateFails
  <2>2. late' \subseteq LateRequest
    <3>1. [id |-> id, dl |-> sending, update |-> TRUE] \in LateRequest
      BY <1>20 DEF DeploymentUpdateFails, LateRequest
    <3>. QED BY <1>20, <3>1 DEF DeploymentUpdateFails, TypeOK
  <2>. QED BY <1>20, <2>1, <2>2 DEF DeploymentUpdateFails, LeaveIteration, TypeOK, PC,
                                    caller, call, loop, log
<1>21. CASE WaitOk
  BY <1>21 DEF WaitOk, LeaveIteration, TypeOK, GridTypeOK, PC, chain, nodes, caller, call,
               loop, log
<1>22. CASE WaitFails
  BY <1>22 DEF WaitFails, LeaveIteration, TypeOK, GridTypeOK, PC, chain, nodes, caller,
               call, loop, log
<1>23. CASE Deployed
  BY <1>23 DEF Deployed, Return, TypeOK, GridTypeOK, PC, chain, nodes, call, handling
<1>24. CASE Revert
  BY <1>24 DEF Revert, Begin, TypeOK, GridTypeOK, PC, chain, nodes, caller, call, handling,
               log
<1>25. CASE Failed
  BY <1>25 DEF Failed, Return, TypeOK, GridTypeOK, PC, chain, nodes, call, handling
<1>26. ASSUME NEW m \in late, Arrive(m) PROVE TypeInv'
  <2>1. m.id \in ContractId /\ m.dl \in Deployment
    BY DEF TypeOK, LateRequest
  <2>2. GridTypeOK'
    BY <1>26, <2>1, HoldType DEF Arrive, AcceptUpdate, AcceptDeploy, TypeOK
  <2>. QED BY <1>26, <2>2 DEF Arrive, client, TypeOK, call, loop, handling, log
<1>27. CASE GridNext /\ UNCHANGED <<client, late>>
  <2>1. GridTypeOK'
    BY <1>27, GridNextType DEF TypeOK
  <2>. QED BY <1>27, <2>1 DEF client, TypeOK, call, loop, handling, log
<1>28. CASE UNCHANGED vars
  BY <1>28 DEF vars, chain, nodes, TypeOK, GridTypeOK
<1>. QED
  BY <1>1, <1>2, <1>3, <1>4, <1>5, <1>6, <1>7, <1>8, <1>9, <1>10, <1>11, <1>12, <1>13,
     <1>14, <1>15, <1>16, <1>17, <1>18, <1>19, <1>20, <1>21, <1>22, <1>23, <1>24, <1>25,
     <1>26, <1>27, <1>28
  DEF Next, Running, Reading, Creating, Sending, Updating, Waiting, Ending, Environment

\* Every variable of Deployer keeps its type, for all values of the constants.
THEOREM TypeCorrect == Spec => []TypeOK
<1>1. TypeInv => TypeOK
  BY DEF TypeInv
<1>. QED BY <1>1, TypeInit, TypeNext, PTL DEF Spec

-----------------------------------------------------------------------------
(* No silent leak.                                                         *)
(*                                                                         *)
(* What makes NoSilentLeak inductive is that no entry of currentDeployments*)
(* is ever overwritten by another id: a node of base keeps its id, a node  *)
(* still to be created on has none, and the iteration on a new node finds  *)
(* its entry empty.  That the new id is none the caller has follows from   *)
(* the chain never giving an id twice.                                     *)

LeakInv ==
  /\ NoSilentLeak
  /\ Deploying => /\ \A n \in Node : base[n] # None => current[n] = base[n]
                  /\ \A n \in todo : base[n] = None => current[n] = None
  /\ pc \in {"send", "undo"} => /\ current[node] = None
                                /\ base[node] = None
                                /\ node \notin todo
                                /\ nodeOf[id] # None
                                /\ \A n \in Node : ids[n] # id
  /\ pc \in {"chain", "put"} => base[node] = id
  /\ \A n \in Node : /\ ids[n] # None => nodeOf[ids[n]] # None
                     /\ Deploying /\ current[n] # None => nodeOf[current[n]] # None

\* Before the first call there is no contract to lose.
LEMMA LeakInit == Init => LeakInv
BY DEF Init, GridInit, LeakInv, NoSilentLeak, Deploying, Nowhere

\* Every step keeps the contracts accounted for: those that move between being
\* handled, the map and an error as much as those the grid ends.
LEMMA LeakNext == TypeInv /\ LeakInv /\ [Next]_vars => LeakInv'
<1>. SUFFICES ASSUME TypeInv, LeakInv, [Next]_vars PROVE LeakInv'
  OBVIOUS
<1>. USE DEF LeakInv, NoSilentLeak, Tracked, IsIn, Deploying
<1>1. ASSUME NEW r \in Requests, Deploy(r) PROVE LeakInv'
  BY <1>1 DEF Deploy, chain, loop
<1>2. ASSUME NEW n \in Node, Cancel(n) PROVE LeakInv'
  BY <1>2, NoneIsNoContractId DEF Cancel, CancelContract, TypeInv, TypeOK, IdMap
<1>3. ASSUME NEW n \in Node, GetDeployment(n) PROVE LeakInv'
  BY <1>3 DEF GetDeployment, chain, caller, loop, log
<1>4. CASE GetDeploymentFails
  BY <1>4 DEF GetDeploymentFails, Begin, chain, caller, log, TypeInv, TypeOK, Filled
<1>5. CASE GotDeployments
  BY <1>5 DEF GotDeployments, chain, caller, loop, log
<1>6. CASE ValidateOk
  BY <1>6 DEF ValidateOk, Begin, chain, caller, log, TypeInv, TypeOK, Filled
<1>7. CASE ValidateFails
  BY <1>7 DEF ValidateFails, Return, chain
<1>8. CASE PrepareFails
  BY <1>8 DEF PrepareFails, chain, caller, loop, log
<1>9. ASSUME NEW n \in Node, CreateNodeContract(n) PROVE LeakInv'
  BY <1>9, NoneIsNoNode, NoneIsNoContractId
  DEF CreateNodeContract, CreateContract, Fresh, ToCreate, caller, loop, log, TypeInv, TypeOK,
      GridTypeOK, IdMap
<1>10. ASSUME NEW n \in Node, CreateNodeContractLost(n) PROVE LeakInv'
  BY <1>10, NoneIsNoNode DEF CreateNodeContractLost, CreateContract, Fresh, caller, loop,
              TypeInv, TypeOK, GridTypeOK
<1>11. CASE DeploymentDeploy
  <2>. USE <1>11 DEF DeploymentDeploy, chain, caller, loop, log
  <2>1. /\ node \in Node /\ id # None /\ current \in [Node -> ContractId \cup {None}]
        /\ current' = [current EXCEPT ![node] = id]
        /\ pc = "send" /\ pc' = "wait"
        /\ current[node] = None /\ base[node] = None
    BY NoneIsNoContractId DEF TypeInv, TypeOK, IdMap, Handling
  <2>2. NoSilentLeak'
    <3>1. ASSUME NEW c \in ContractId, IsIn(c, current) PROVE IsIn(c, current')
      BY <2>1, <3>1, NoneIsNoContractId
    <3>2. IsIn(id, current')
      BY <2>1
    <3>. QED BY <2>1, <3>1, <3>2 DEF TypeInv, TypeOK, GridTypeOK
  <2>3. /\ \A n \in Node : base'[n] # None => current'[n] = base'[n]
        /\ \A n \in todo' : base'[n] = None => current'[n] = None
    BY <2>1 DEF TypeInv, TypeOK
  <2>4. \A n \in Node : current'[n] # None => nodeOf'[current'[n]] # None
    BY <2>1
  <2>. QED BY <2>1, <2>2, <2>3, <2>4
<1>12. CASE DeploymentDeployFails
  BY <1>12 DEF DeploymentDeployFails, chain, caller, loop, handling, log
<1>13. CASE EnsureContractCanceled
  BY <1>13 DEF EnsureContractCanceled, CancelContract, caller, loop, log
<1>14. CASE EnsureContractCanceledFails
  BY <1>14 DEF EnsureContractCanceledFails, CancelContract, chain, caller, loop
<1>15. ASSUME NEW n \in Node, SkipUpdate(n) PROVE LeakInv'
  BY <1>15 DEF SkipUpdate, chain, caller, loop, log
<1>16. ASSUME NEW n \in Node, PrepareUpdate(n) PROVE LeakInv'
  BY <1>16 DEF PrepareUpdate, chain, caller, loop, log
<1>17. CASE UpdateNodeContract
  BY <1>17 DEF UpdateNodeContract, UpdateContract, caller, loop, handling, log
<1>18. CASE UpdateNodeContractFails
  BY <1>18 DEF UpdateNodeContractFails, UpdateContract, chain, caller, loop, log
<1>19. CASE DeploymentUpdate
  BY <1>19, NoneIsNoContractId
  DEF DeploymentUpdate, chain, caller, loop, handling, log, TypeInv, TypeOK, IdMap, Handling
<1>20. CASE DeploymentUpdateFails
  BY <1>20 DEF DeploymentUpdateFails, chain, caller, loop, log
<1>21. CASE WaitOk
  BY <1>21 DEF WaitOk, chain, caller, loop, log
<1>22. CASE WaitFails
  BY <1>22 DEF WaitFails, chain, caller, loop, log
<1>23. CASE Deployed
  BY <1>23 DEF Deployed, Return, chain
<1>24. CASE Revert
  BY <1>24 DEF Revert, Begin, chain, caller, log, TypeInv, TypeOK, Filled
<1>25. CASE Failed
  BY <1>25 DEF Failed, Return, chain
<1>26. ASSUME NEW m \in late, Arrive(m) PROVE LeakInv'
  BY <1>26 DEF Arrive, chain, client, loop, handling, log
<1>27. CASE GridNext /\ UNCHANGED <<client, late>>
  BY <1>27 DEF GridNext, Provision, LoseContract, Decommission, chain, nodes, client, loop, handling,
               log
<1>28. CASE UNCHANGED vars
  BY <1>28 DEF vars, chain, nodes
<1>. QED
  BY <1>1, <1>2, <1>3, <1>4, <1>5, <1>6, <1>7, <1>8, <1>9, <1>10, <1>11, <1>12, <1>13,
     <1>14, <1>15, <1>16, <1>17, <1>18, <1>19, <1>20, <1>21, <1>22, <1>23, <1>24, <1>25,
     <1>26, <1>27, <1>28
  DEF Next, Running, Reading, Creating, Sending, Updating, Waiting, Ending, Environment

\* A contract that still costs the user money is in the map Deploy returns, was
\* named in an error, or is one whose creation was never acknowledged.
THEOREM NoLeak == Spec => []NoSilentLeak
<1>1. LeakInv => NoSilentLeak
  BY DEF LeakInv
<1>. QED BY <1>1, TypeInit, TypeNext, LeakInit, LeakNext, PTL DEF Spec

\* A call of Deploy cancels no contract the caller had before it: what
\* EnsureContractCanceled is given is an id this call was the first to see.
THEOREM OldContractsKept == Spec => DeployKeepsOldContracts
<1>1. TypeInv /\ LeakInv /\ [Next]_vars =>
        [\A c \in live \ live' : pc # pc' => ~ IsIn(c, ids)]_vars
  <2>. SUFFICES ASSUME TypeInv, LeakInv, [Next]_vars, NEW c \in live \ live', pc # pc'
                PROVE  ~ IsIn(c, ids)
    OBVIOUS
  <2>1. c = id /\ pc = "undo"
    <3>1. CASE EnsureContractCanceled \/ EnsureContractCanceledFails
      BY <3>1 DEF EnsureContractCanceled, EnsureContractCanceledFails, CancelContract, chain
    <3>2. CASE ~ (EnsureContractCanceled \/ EnsureContractCanceledFails)
      <4>1. UNCHANGED vars \/ (\E r \in Requests : Deploy(r)) \/ (\E n \in Node : Cancel(n))
            \/ Running \/ Environment
        BY DEF Next
      <4>2. ASSUME NEW n \in Node, Cancel(n) PROVE FALSE
        BY <4>2 DEF Cancel
      <4>3. CASE Environment
        BY <4>3 DEF Environment, client, Arrive
      <4>4. ASSUME NEW r \in Requests, Deploy(r) PROVE FALSE
        BY <4>4 DEF Deploy, chain
      <4>5. CASE Reading \/ PrepareFails \/ Waiting \/ Ending
        BY <4>5 DEF Reading, GetDeployment, GetDeploymentFails, GotDeployments, ValidateOk,
                    ValidateFails, PrepareFails, Waiting, WaitOk, WaitFails, Ending, Deployed,
                    Revert, Failed, chain
      <4>6. CASE Creating \/ DeploymentDeploy \/ DeploymentDeployFails
        BY <4>6 DEF Creating, CreateNodeContract, CreateNodeContractLost, CreateContract,
                    DeploymentDeploy, DeploymentDeployFails, chain
      <4>7. CASE Updating
        BY <4>7 DEF Updating, SkipUpdate, PrepareUpdate, UpdateNodeContract,
                    UpdateNodeContractFails, UpdateContract, DeploymentUpdate,
                    DeploymentUpdateFails, chain
      <4>8. CASE UNCHANGED vars
        BY <4>8 DEF vars
      <4>. QED BY <3>2, <4>1, <4>2, <4>3, <4>4, <4>5, <4>6, <4>7, <4>8 DEF Running, Sending
    <3>. QED BY <3>1, <3>2
  <2>. QED BY <2>1 DEF LeakInv, IsIn
<1>. QED BY <1>1, TypeInit, TypeNext, LeakInit, LeakNext, PTL DEF Spec, DeployKeepsOldContracts

-----------------------------------------------------------------------------
(* The chain first.                                                        *)

\* What is about to be handed to a node is what its contract has the hash of.
HashInv == pc \in {"send", "put"} => hashOf[id] = HashDeployment(sending)

\* A step that comes to hand something over has just told the chain, and no other
\* touches the hash of the contract that is handled.
LEMMA HashNext == TypeInv /\ HashInv /\ [Next]_vars => HashInv'
<1>. SUFFICES ASSUME TypeInv, HashInv, [Next]_vars PROVE HashInv'
  OBVIOUS
<1>. USE DEF HashInv
<1>1. CASE (\E r \in Requests : Deploy(r)) \/ (\E n \in Node : Cancel(n)) \/ Reading \/ PrepareFails
  BY <1>1 DEF Deploy, Cancel, Reading, GetDeployment, GetDeploymentFails, GotDeployments,
              ValidateOk, ValidateFails, Begin, Return, PrepareFails
<1>2. ASSUME NEW n \in Node, CreateNodeContract(n) PROVE HashInv'
  BY <1>2 DEF CreateNodeContract, CreateContract, TypeInv, TypeOK, GridTypeOK
<1>3. ASSUME NEW n \in Node, CreateNodeContractLost(n) PROVE HashInv'
  BY <1>3 DEF CreateNodeContractLost
<1>4. CASE Sending
  BY <1>4 DEF Sending, DeploymentDeploy, DeploymentDeployFails, EnsureContractCanceled,
              EnsureContractCanceledFails
<1>5. ASSUME NEW n \in Node, SkipUpdate(n) \/ PrepareUpdate(n) PROVE HashInv'
  BY <1>5 DEF SkipUpdate, PrepareUpdate
<1>6. CASE UpdateNodeContract
  BY <1>6 DEF UpdateNodeContract, UpdateContract, handling, TypeInv, TypeOK, GridTypeOK, Handling
<1>7. CASE UpdateNodeContractFails \/ DeploymentUpdate \/ DeploymentUpdateFails
  BY <1>7 DEF UpdateNodeContractFails, DeploymentUpdate, DeploymentUpdateFails
<1>8. CASE Waiting \/ Ending
  BY <1>8 DEF Waiting, WaitOk, WaitFails, Ending, Deployed, Revert, Failed, Begin, Return
<1>9. CASE Environment
  BY <1>9 DEF Environment, GridNext, Provision, LoseContract, Decommission, Arrive, chain,
              client, handling
<1>10. CASE UNCHANGED vars
  BY <1>10 DEF vars, chain
<1>. QED
  BY <1>1, <1>2, <1>3, <1>4, <1>5, <1>6, <1>7, <1>8, <1>9, <1>10
  DEF Next, Running, Creating, Updating

\* The deployment a node takes while the client takes a step is the one that is
\* being handled.
LEMMA HandedOver ==
  ASSUME TypeInv, [Next]_vars, pc' # pc, NEW c \in ContractId, held'[c] \notin {None, held[c]}
  PROVE  /\ c = id
         /\ held'[c] = sending
         /\ UNCHANGED chain
         /\ \/ pc = "send" /\ held[c] = None
            \/ pc = "put" /\ held[c] # None /\ sending.version = held[c].version + 1
<1>. USE DEF nodes
<1>1. CASE Sending
  <2>1. /\ pc = "send" /\ UNCHANGED chain
        /\ held[id] = None /\ held' = [held EXCEPT ![id] = sending]
    BY <1>1 DEF Sending, DeploymentDeploy, DeploymentDeployFails, EnsureContractCanceled,
                EnsureContractCanceledFails, AcceptDeploy, Hold
  <2>. QED BY <2>1 DEF TypeInv, TypeOK, GridTypeOK
<1>2. CASE Updating
  <2>1. /\ pc = "put" /\ UNCHANGED chain
        /\ AcceptUpdate(id, sending)
    BY <1>2 DEF Updating, SkipUpdate, PrepareUpdate, UpdateNodeContract,
                UpdateNodeContractFails, DeploymentUpdate, DeploymentUpdateFails
  <2>. QED BY <2>1 DEF AcceptUpdate, Hold, TypeInv, TypeOK, GridTypeOK
<1>3. CASE (\E r \in Requests : Deploy(r)) \/ (\E n \in Node : Cancel(n)) \/ Reading \/ PrepareFails
  BY <1>3 DEF Deploy, Cancel, Reading, GetDeployment, GetDeploymentFails, GotDeployments,
              ValidateOk, ValidateFails, PrepareFails
<1>4. CASE Creating
  BY <1>4 DEF Creating, CreateNodeContract, CreateNodeContractLost
<1>5. CASE Waiting \/ Ending
  BY <1>5 DEF Waiting, WaitOk, WaitFails, Ending, Deployed, Revert, Failed
<1>6. CASE Environment \/ UNCHANGED vars
  BY <1>6 DEF Environment, Arrive, client, vars
<1>. QED BY <1>1, <1>2, <1>3, <1>4, <1>5, <1>6 DEF Next, Running

\* Whatever the client hands to a node, the contract on the chain already has its
\* hash, in the first deploy as in the one that reverts it.
THEOREM ChainFirst == Spec => ChainBeforeNode
<1>1. Init => HashInv
  BY DEF Init, HashInv
<1>2. TypeInv /\ HashInv /\ [Next]_vars =>
        [\A c \in ContractId : pc' # pc /\ held'[c] \notin {None, held[c]} =>
           hashOf[c] = HashDeployment(held'[c])]_vars
  BY HandedOver DEF HashInv
<1>. QED BY <1>1, <1>2, TypeInit, TypeNext, HashNext, PTL DEF Spec, ChainBeforeNode

-----------------------------------------------------------------------------
(* What a call that ends well leaves behind.                               *)

\* What Holds asks of contract c, for content dl.
HoldsUnder(c, dl) ==
  \/ Stray(c)
  \/ held[c] = None /\ c \notin live
  \/ held[c] # None /\ Content(held[c]) = Content(dl)

\* The nodes of the target that a loop has dealt with.
Done == {n \in Filled(target) \ todo : pc \in {"loop", "wait"} \/ n # node}

Succeeding == pc \in {"loop", "send", "chain", "put", "wait"}

\* An id is that of a contract for its node, so no two nodes have the same one.
IdsInv ==
  /\ \A n \in Node : /\ ids[n] # None => nodeOf[ids[n]] = n
                     /\ Deploying /\ current[n] # None => nodeOf[current[n]] = n
  /\ pc = "send" => nodeOf[id] = node

\* A new contract is for the node it was made for, and no id of the maps changes
\* its node.
LEMMA IdsNext == TypeInv /\ LeakInv /\ IdsInv /\ [Next]_vars => IdsInv'
<1>. SUFFICES ASSUME TypeInv, LeakInv, IdsInv, [Next]_vars PROVE IdsInv'
  OBVIOUS
<1>. USE DEF IdsInv, Deploying
<1>1. ASSUME NEW r \in Requests, Deploy(r) PROVE IdsInv'
  BY <1>1 DEF Deploy, chain
<1>2. ASSUME NEW n \in Node, Cancel(n) PROVE IdsInv'
  BY <1>2 DEF Cancel, CancelContract, TypeInv, TypeOK, IdMap
<1>3. CASE Reading
  BY <1>3 DEF Reading, GetDeployment, GetDeploymentFails, GotDeployments, ValidateOk,
              ValidateFails, Begin, Return, chain, caller
<1>4. CASE PrepareFails
  BY <1>4 DEF PrepareFails, chain, caller
<1>5. ASSUME NEW n \in Node, CreateNodeContract(n) PROVE IdsInv'
  BY <1>5, NoneIsNoNode DEF CreateNodeContract, CreateContract, Fresh, caller, TypeInv, TypeOK,
     GridTypeOK, IdMap
<1>6. ASSUME NEW n \in Node, CreateNodeContractLost(n) PROVE IdsInv'
  BY <1>6, NoneIsNoNode DEF CreateNodeContractLost, CreateContract, Fresh, caller, TypeInv,
     TypeOK, GridTypeOK, IdMap
<1>7. CASE DeploymentDeploy
  BY <1>7 DEF DeploymentDeploy, chain, caller, TypeInv, TypeOK, IdMap, Handling
<1>8. CASE DeploymentDeployFails \/ EnsureContractCanceled \/ EnsureContractCanceledFails
  BY <1>8 DEF DeploymentDeployFails, EnsureContractCanceled, EnsureContractCanceledFails,
              CancelContract, chain, caller
<1>9. ASSUME NEW n \in Node, SkipUpdate(n) \/ PrepareUpdate(n) PROVE IdsInv'
  BY <1>9 DEF SkipUpdate, PrepareUpdate, chain, caller
<1>10. CASE UpdateNodeContract \/ UpdateNodeContractFails \/ DeploymentUpdateFails
  BY <1>10 DEF UpdateNodeContract, UpdateNodeContractFails, DeploymentUpdateFails,
               UpdateContract, chain, caller
<1>11. CASE DeploymentUpdate
  <2>1. current[node] = id /\ node \in Node /\ id # None
    BY <1>11, NoneIsNoContractId DEF DeploymentUpdate, LeakInv, TypeInv, Handling
  <2>. QED BY <1>11, <2>1 DEF DeploymentUpdate, chain, caller, TypeInv, TypeOK, IdMap
<1>12. CASE Waiting \/ Ending
  BY <1>12 DEF Waiting, WaitOk, WaitFails, Ending, Deployed, Revert, Failed, Begin, Return,
               chain, caller
<1>13. CASE Environment
  BY <1>13 DEF Environment, GridNext, Provision, LoseContract, Decommission, Arrive, chain,
               client, handling
<1>14. CASE UNCHANGED vars
  BY <1>14 DEF vars, chain
<1>. QED
  BY <1>1, <1>2, <1>3, <1>4, <1>5, <1>6, <1>7, <1>8, <1>9, <1>10, <1>11, <1>12, <1>13, <1>14
  DEF Next, Running, Creating, Sending, Updating

\* A contract of the maps that ends, or that an abandoned request reaches, keeps
\* what HoldsUnder says; another deployment for it would have to come from the step.
LEMMA HoldsStays ==
  ASSUME NEW c \in ContractId, NEW d, HoldsUnder(c, d), late \subseteq late',
         c \in live' => c \in live,
         \/ held'[c] = held[c]
         \/ held'[c] = None /\ c \notin live'
         \/ Stray(c)'
  PROVE  HoldsUnder(c, d)'
BY DEF HoldsUnder, Stray

\* Only the contract that is being handled can get another deployment by a step,
\* unless a request for it was abandoned.
LEMMA OthersStay ==
  ASSUME TypeInv, [Next]_vars, NEW c \in ContractId, NEW d, HoldsUnder(c, d),
         nodeOf[c] # None, pc \in {"send", "put"} /\ pc' # pc => c # id
  PROVE  HoldsUnder(c, d)'
<1>1. CASE /\ late \subseteq late'
           /\ c \in live' => c \in live
           /\ held'[c] = held[c]
  BY <1>1, HoldsStays
<1>2. CASE \/ \E r \in Requests : Deploy(r)
           \/ \E n \in Node : Cancel(n)
           \/ Reading \/ PrepareFails \/ Waiting \/ Ending
  BY <1>1, <1>2 DEF Deploy, Cancel, CancelContract, Reading, GetDeployment,
     GetDeploymentFails, GotDeployments, ValidateOk, ValidateFails, PrepareFails, Waiting,
     WaitOk, WaitFails, Ending, Deployed, Revert, Failed, chain, nodes
<1>3. CASE Creating
  BY <1>1, <1>3 DEF Creating, CreateNodeContract, CreateNodeContractLost, CreateContract, Fresh,
     nodes
<1>4. CASE Sending
  BY <1>1, <1>4 DEF Sending, DeploymentDeploy, DeploymentDeployFails, EnsureContractCanceled,
     EnsureContractCanceledFails, AcceptDeploy, Hold, CancelContract, chain, nodes, TypeInv,
     TypeOK, GridTypeOK
<1>5. CASE Updating
  BY <1>1, <1>5 DEF Updating, SkipUpdate, PrepareUpdate, UpdateNodeContract,
     UpdateNodeContractFails, UpdateContract, DeploymentUpdate, DeploymentUpdateFails,
     AcceptUpdate, Hold, chain, nodes, TypeInv, TypeOK, GridTypeOK
<1>6. CASE GridNext /\ UNCHANGED <<client, late>>
  <2>1. /\ late' = late /\ live' \subseteq live
        /\ held'[c] = held[c] \/ (held'[c] = None /\ c \notin live')
    BY <1>6 DEF GridNext, Provision, LoseContract, Decommission, chain, nodes, TypeInv, TypeOK,
       GridTypeOK
  <2>. QED BY <2>1, HoldsStays
<1>7. ASSUME NEW m \in late, Arrive(m) PROVE HoldsUnder(c, d)'
  <2>1. late' = late /\ live' = live
    BY <1>7 DEF Arrive, chain
  <2>2. held'[c] = held[c] \/ m.id = c
    BY <1>7 DEF Arrive, AcceptUpdate, AcceptDeploy, Hold, TypeInv, TypeOK, GridTypeOK
  <2>3. m.id = c => Stray(c)'
    BY <2>1 DEF Stray
  <2>. QED BY <2>1, <2>2, <2>3, HoldsStays
<1>8. CASE UNCHANGED vars
  BY <1>1, <1>8 DEF vars, chain, nodes
<1>. QED
  BY <1>2, <1>3, <1>4, <1>5, <1>6, <1>7, <1>8 DEF Next, Running, Environment

\* While a call goes well, each node it was through with holds its target, in the
\* first deploy and in the one that reverts it; and the one at hand is given its own.
LoopInv ==
  /\ Deploying => target = IF mode = "deploy" THEN request ELSE old
  /\ pc # "idle" => outcome = "none"
  /\ pc = "send" => sending = target[node]
  /\ pc \in {"send", "chain", "put"} =>
       target[node] # None /\ Content(sending) = Content(target[node])
  /\ Succeeding => \A n \in Done : current[n] # None /\ HoldsUnder(current[n], target[n])

\* The nodes that were dealt with keep what they were given.
LEMMA DoneStays ==
  ASSUME TypeInv, LeakInv, IdsInv, LoopInv, [Next]_vars, Succeeding, NEW n \in Done,
         UNCHANGED target, current'[n] = current[n]
  PROVE  (current[n] # None /\ HoldsUnder(current[n], target[n]))'
<1>1. n \in Node /\ current[n] # None /\ HoldsUnder(current[n], target[n])
  BY DEF Done, Filled, LoopInv
<1>2. current[n] \in ContractId /\ nodeOf[current[n]] = n
  BY <1>1 DEF IdsInv, TypeInv, TypeOK, IdMap, Deploying, Succeeding
<1>3. pc \in {"send", "put"} => current[n] # id
  <2>1. pc = "send" => nodeOf[id] = node
    BY DEF IdsInv
  <2>2. pc = "put" => current[node] = id /\ id \in ContractId /\ node \in Node
    BY NoneIsNoContractId DEF LeakInv, Deploying, TypeInv, Handling
  <2>3. pc = "put" => nodeOf[id] = node
    BY <2>2, NoneIsNoContractId DEF IdsInv, Deploying
  <2>. QED BY <1>2, <2>1, <2>3 DEF Done
<1>4. nodeOf[current[n]] # None
  BY <1>1, <1>2, NoneIsNoNode
<1>5. ASSUME NEW c, c = current[n], NEW d, d = target[n] PROVE HoldsUnder(c, d)'
  BY <1>1, <1>2, <1>3, <1>4, <1>5, OthersStay
<1>. QED BY <1>1, <1>5 DEF HoldsUnder, Stray

\* What a node was handed is what it is to hold.
LEMMA LoopNext == TypeInv /\ LeakInv /\ IdsInv /\ LoopInv /\ [Next]_vars => LoopInv'
<1>. SUFFICES ASSUME TypeInv, LeakInv, IdsInv, LoopInv, [Next]_vars PROVE LoopInv'
  OBVIOUS
<1>. USE DEF Deploying, Succeeding
<1>1. ASSUME UNCHANGED <<pc, target, current, todo, node, id, sending, mode, request, old, outcome>>
      PROVE  LoopInv'
  <2>1. Done' = Done
    BY <1>1 DEF Done, Filled
  <2>2. Succeeding => \A n \in Done : (current[n] # None /\ HoldsUnder(current[n], target[n]))'
    BY <1>1, DoneStays
  <2>. QED BY <1>1, <2>1, <2>2 DEF LoopInv
<1>2. ASSUME NEW r \in Requests, Deploy(r) PROVE LoopInv'
  BY <1>2 DEF Deploy, LoopInv
<1>3. ASSUME NEW n \in Node, Cancel(n) PROVE LoopInv'
  BY <1>3 DEF Cancel, LoopInv
<1>4. CASE Reading \/ Revert
  BY <1>4 DEF Reading, Revert, GetDeployment, GetDeploymentFails, GotDeployments, ValidateOk,
              ValidateFails, Begin, Return, Done, Filled, caller, call, log, loop, LoopInv
<1>5. CASE \/ PrepareFails \/ \E n \in Node : CreateNodeContractLost(n)
           \/ DeploymentDeployFails \/ EnsureContractCanceled \/ EnsureContractCanceledFails
           \/ UpdateNodeContractFails \/ DeploymentUpdateFails \/ WaitFails
  BY <1>5 DEF PrepareFails, CreateNodeContractLost, DeploymentDeployFails,
              EnsureContractCanceled, EnsureContractCanceledFails, UpdateNodeContractFails,
              DeploymentUpdateFails, WaitFails, call, log, loop, LoopInv
<1>6. ASSUME NEW n \in Node, CreateNodeContract(n) PROVE LoopInv'
  <2>1. /\ Done' \subseteq Done /\ UNCHANGED <<target, current, mode, request, old, outcome>>
        /\ pc = "loop" /\ pc' = "send" /\ node' = n /\ sending' = target[n]
    BY <1>6 DEF CreateNodeContract, Done, Filled, loop, call, log
  <2>2. \A k \in Done : (current[k] # None /\ HoldsUnder(current[k], target[k]))'
    BY <2>1, DoneStays
  <2>3. target[n] # None
    BY <1>6 DEF CreateNodeContract, ToCreate, TypeInv, Filled
  <2>. QED BY <2>1, <2>2, <2>3 DEF LoopInv
<1>7. CASE DeploymentDeploy
  <2>1. /\ Done' \subseteq Done \cup {node}
        /\ UNCHANGED <<target, mode, request, old, outcome>>
        /\ pc = "send" /\ pc' = "wait" /\ node \notin Done
        /\ current' = [current EXCEPT ![node] = id] /\ held' = [held EXCEPT ![id] = sending]
        /\ node \in Node /\ id \in ContractId /\ sending \in Deployment
    BY <1>7 DEF DeploymentDeploy, AcceptDeploy, Hold, Done, Filled, loop, call, log, TypeInv,
       Handling
  <2>2. \A k \in Done : (current[k] # None /\ HoldsUnder(current[k], target[k]))'
    BY <2>1, DoneStays DEF TypeInv, TypeOK, IdMap, Done, Filled
  <2>3. current'[node] = id /\ held'[id] = sending
    BY <2>1 DEF TypeInv, TypeOK, GridTypeOK, IdMap
  <2>. QED BY <1>7, <2>1, <2>2, <2>3, NoneIsNoDeployment, NoneIsNoContractId
           DEF LoopInv, HoldsUnder, Stray
<1>8. ASSUME NEW n \in Node, SkipUpdate(n) PROVE LoopInv'
  <2>1. /\ Done' \subseteq Done \cup {n}
        /\ UNCHANGED <<chain, nodes, pc, target, current, mode, request, old, outcome>>
        /\ pc = "loop" /\ n \in todo /\ base[n] # None /\ late' = late
        /\ held[base[n]] # None /\ Unchanged(target[n], held[base[n]])
    BY <1>8 DEF SkipUpdate, ToUpdate, ToCreate, Done, Filled, loop, call, log, caller
  <2>2. \A k \in Done : (current[k] # None /\ HoldsUnder(current[k], target[k]))'
    BY <2>1, DoneStays
  <2>3. current[n] = base[n] /\ base[n] \in ContractId
    BY <2>1 DEF LeakInv, TypeInv, TypeOK, IdMap
  <2>4. target[n] \in Deployment /\ held[base[n]] \in Deployment
    BY <2>1, <2>3 DEF TypeInv, Filled, TypeOK, GridTypeOK, DeploymentMap
  <2>5. Content(held[base[n]]) = Content(target[n])
    BY <2>1, <2>4, UnchangedContent
  <2>6. (current[n] # None /\ HoldsUnder(current[n], target[n]))'
    BY <2>1, <2>3, <2>5 DEF HoldsUnder, Stray, nodes, chain
  <2>. QED BY <2>1, <2>2, <2>6 DEF LoopInv
<1>9. ASSUME NEW n \in Node, PrepareUpdate(n) PROVE LoopInv'
  <2>1. /\ Done' \subseteq Done /\ UNCHANGED <<target, current, mode, request, old, outcome>>
        /\ pc = "loop" /\ pc' = "chain" /\ node' = n /\ n \in todo
        /\ base[n] # None /\ held[base[n]] # None
        /\ sending' = Update(target[n], held[base[n]])
    BY <1>9 DEF PrepareUpdate, ToUpdate, ToCreate, Done, Filled, loop, call, log
  <2>2. \A k \in Done : (current[k] # None /\ HoldsUnder(current[k], target[k]))'
    BY <2>1, DoneStays
  <2>3. target[n] \in Deployment /\ held[base[n]] \in Deployment
    BY <2>1 DEF TypeInv, Filled, TypeOK, GridTypeOK, DeploymentMap, IdMap
  <2>4. Content(sending') = Content(target[n])
    BY <2>1, <2>3, UpdateContent
  <2>. QED BY <2>1, <2>2, <2>3, <2>4, NoneIsNoDeployment DEF LoopInv
<1>10. CASE UpdateNodeContract
  <2>1. /\ Done' = Done
        /\ UNCHANGED <<target, current, node, sending, mode, request, old, outcome>>
        /\ pc = "chain" /\ pc' = "put"
    BY <1>10 DEF UpdateNodeContract, Done, Filled, loop, call, log, handling
  <2>2. \A k \in Done : (current[k] # None /\ HoldsUnder(current[k], target[k]))'
    BY <2>1, DoneStays
  <2>. QED BY <2>1, <2>2 DEF LoopInv
<1>11. CASE DeploymentUpdate
  <2>1. /\ Done' \subseteq Done \cup {node}
        /\ UNCHANGED <<target, mode, request, old, outcome>>
        /\ pc = "put" /\ pc' = "wait" /\ node \notin Done
        /\ current' = [current EXCEPT ![node] = id] /\ held' = [held EXCEPT ![id] = sending]
        /\ node \in Node /\ id \in ContractId /\ sending \in Deployment
    BY <1>11 DEF DeploymentUpdate, AcceptUpdate, Hold, Done, Filled, loop, call, log, handling,
       TypeInv, Handling
  <2>2. \A k \in Done : (current[k] # None /\ HoldsUnder(current[k], target[k]))'
    BY <2>1, DoneStays DEF TypeInv, TypeOK, IdMap, Done, Filled
  <2>3. current'[node] = id /\ held'[id] = sending
    BY <2>1 DEF TypeInv, TypeOK, GridTypeOK, IdMap
  <2>. QED BY <1>11, <2>1, <2>2, <2>3, NoneIsNoDeployment, NoneIsNoContractId
           DEF LoopInv, HoldsUnder, Stray
<1>12. CASE WaitOk
  <2>1. /\ Done' \subseteq Done \cup {node} /\ UNCHANGED <<target, current, mode, request, old, outcome>>
        /\ pc = "wait" /\ pc' = "loop"
    BY <1>12 DEF WaitOk, Done, Filled, loop, call, log
  <2>2. Done' = Done
    BY <1>12 DEF WaitOk, Done, Filled, loop
  <2>3. \A k \in Done : (current[k] # None /\ HoldsUnder(current[k], target[k]))'
    BY <2>1, DoneStays
  <2>. QED BY <2>1, <2>2, <2>3 DEF LoopInv
<1>13. CASE Deployed \/ Failed
  BY <1>13 DEF Deployed, Failed, Return, LoopInv
<1>14. CASE Environment
  BY <1>1, <1>14 DEF Environment, Arrive, client, call, loop, handling, log
<1>15. CASE UNCHANGED vars
  BY <1>1, <1>15 DEF vars
<1>. QED
  BY <1>2, <1>3, <1>4, <1>5, <1>6, <1>7, <1>8, <1>9, <1>10, <1>11, <1>12, <1>13, <1>14, <1>15
  DEF Next, Running, Creating, Sending, Updating, Waiting, Ending

\* Before the first call nothing was dealt with.
LEMMA LoopInit == Init => IdsInv /\ LoopInv /\ SuccessDeploysRequest /\ RevertRestoresContent
BY DEF Init, GridInit, IdsInv, LoopInv, Deploying, Succeeding, SuccessDeploysRequest,
       RevertRestoresContent, Nowhere

\* A call that ends well has dealt with every node, and afterwards nothing but the
\* grid, which HoldsUnder allows for, touches what they hold.
LEMMA EndNext ==
  TypeInv /\ LeakInv /\ IdsInv /\ LoopInv /\ SuccessDeploysRequest /\ RevertRestoresContent
    /\ [Next]_vars => SuccessDeploysRequest' /\ RevertRestoresContent'
<1>. SUFFICES ASSUME TypeInv, LeakInv, IdsInv, LoopInv, SuccessDeploysRequest,
                     RevertRestoresContent, [Next]_vars
              PROVE  SuccessDeploysRequest' /\ RevertRestoresContent'
  OBVIOUS
<1>1. ASSUME outcome' \notin {"ok", "reverted"}
      PROVE  SuccessDeploysRequest' /\ RevertRestoresContent'
  BY <1>1 DEF SuccessDeploysRequest, RevertRestoresContent
<1>2. CASE Deployed
  <2>1. /\ pc = "loop" /\ todo = {} /\ ids' = current /\ UNCHANGED <<request, old, held, live, late>>
        /\ outcome' = IF mode = "deploy" THEN "ok" ELSE "reverted"
    BY <1>2 DEF Deployed, Return, call, nodes, chain
  <2>2. \A n \in Filled(target) : current[n] # None /\ HoldsUnder(current[n], target[n])
    BY <2>1 DEF LoopInv, Succeeding, Done
  <2>3. target = IF mode = "deploy" THEN request ELSE old
    BY <2>1 DEF LoopInv, Deploying
  <2>4. CASE mode = "deploy"
    BY <2>1, <2>2, <2>3, <2>4
    DEF HoldsUnder, Holds, Stray, SuccessDeploysRequest, RevertRestoresContent, Filled
  <2>5. CASE mode # "deploy"
    BY <2>1, <2>2, <2>3, <2>5
    DEF HoldsUnder, Holds, Stray, SuccessDeploysRequest, RevertRestoresContent, Filled
  <2>. QED BY <2>4, <2>5
<1>3. CASE pc = "idle" /\ UNCHANGED <<ids, request, old, outcome>>
  <2>1. ASSUME NEW n \in Node, NEW d, Holds(n, d) PROVE Holds(n, d)'
    <3>1. ids[n] \in ContractId /\ nodeOf[ids[n]] # None /\ HoldsUnder(ids[n], d)
      BY <2>1, NoneIsNoNode DEF Holds, HoldsUnder, TypeInv, TypeOK, IdMap, IdsInv
    <3>2. ASSUME NEW c, c = ids[n] PROVE HoldsUnder(c, d)'
      BY <1>3, <3>1, <3>2, OthersStay
    <3>. QED BY <1>3, <3>1, <3>2, NoneIsNoContractId DEF Holds, HoldsUnder, Stray
  <2>2. \A n \in Node : \A d : Holds(n, d) => Holds(n, d)'
    BY <2>1
  <2>3. ASSUME NEW n \in Filled(request), outcome = "ok", NEW d, d = request[n]
        PROVE  Holds(n, d)'
    BY <2>2, <2>3 DEF SuccessDeploysRequest, Filled
  <2>4. ASSUME NEW n \in Filled(old), outcome = "reverted", NEW d, d = old[n]
        PROVE  Holds(n, d)'
    BY <2>2, <2>4 DEF RevertRestoresContent, Filled
  <2>. QED BY <1>3, <2>3, <2>4
           DEF SuccessDeploysRequest, RevertRestoresContent, Holds, Stray, Filled
<1>4. CASE (\E r \in Requests : Deploy(r)) \/ (\E n \in Node : Cancel(n))
  BY <1>1, <1>4 DEF Deploy, Cancel
<1>5. CASE Running /\ ~ Deployed
  <2>1. pc # "idle" /\ outcome = "none"
    BY <1>5 DEF LoopInv, Running, Reading, GetDeployment, GetDeploymentFails, GotDeployments,
       ValidateOk, ValidateFails, PrepareFails, Creating, CreateNodeContract,
       CreateNodeContractLost, Sending, DeploymentDeploy, DeploymentDeployFails,
       EnsureContractCanceled, EnsureContractCanceledFails, Updating, SkipUpdate,
       PrepareUpdate, UpdateNodeContract, UpdateNodeContractFails, DeploymentUpdate,
       DeploymentUpdateFails, Waiting, WaitOk, WaitFails, Ending, Revert, Failed
  <2>2. outcome' \in {"none", "invalid", "failed"}
    BY <1>5, <2>1 DEF Running, Reading, GetDeployment, GetDeploymentFails, GotDeployments,
       ValidateOk, ValidateFails, PrepareFails, Creating, CreateNodeContract,
       CreateNodeContractLost, Sending, DeploymentDeploy, DeploymentDeployFails,
       EnsureContractCanceled, EnsureContractCanceledFails, Updating, SkipUpdate,
       PrepareUpdate, UpdateNodeContract, UpdateNodeContractFails, DeploymentUpdate,
       DeploymentUpdateFails, Waiting, WaitOk, WaitFails, Ending, Revert, Failed, Return, log
  <2>. QED BY <1>1, <2>2
<1>6. CASE Environment \/ UNCHANGED vars
  <2>1. UNCHANGED <<ids, request, old, outcome, pc>>
    BY <1>6 DEF Environment, Arrive, client, call, log, vars
  <2>2. pc # "idle" => outcome = "none"
    BY DEF LoopInv
  <2>. QED BY <1>1, <1>3, <2>1, <2>2
<1>. QED BY <1>2, <1>4, <1>5, <1>6 DEF Next

\* Deploy that returns nil leaves every node of the request with what was asked for,
\* whatever earlier calls, abandoned requests and the grid did.
THEOREM RequestDeployed == Spec => []SuccessDeploysRequest
BY TypeInit, TypeNext, LeakInit, LeakNext, LoopInit, IdsNext, LoopNext, EndNext, PTL DEF Spec

\* Deploy that failed and went back leaves every node that had a deployment with the
\* content it had.
THEOREM ContentRestored == Spec => []RevertRestoresContent
BY TypeInit, TypeNext, LeakInit, LeakNext, LoopInit, IdsNext, LoopNext, EndNext, PTL DEF Spec

-----------------------------------------------------------------------------
(* The promise.                                                            *)
(*                                                                         *)
(* Return describes the whole call at its last step, so the invariant says *)
(* of every moment of the call what Return says of its end: what was read  *)
(* is as it was read or as it was asked to be, and still as it was read    *)
(* while a node of the request has no contract.                            *)

\* Node n has what it had when it was read, or what it was asked to have.
WasOrIs(n) ==
  \/ HoldsUnder(ids[n], old[n])
  \/ request[n] # None /\ HoldsUnder(ids[n], request[n])

\* A node of the request has no contract yet.
Growing == \E n \in Filled(request) : Tracked[n] = None

\* The maps of the client: nothing given is lost from them, what is new was asked
\* for, and an update is not begun before the creations are done.
MapsInv ==
  /\ pc # "idle" => Filled(old) \subseteq Filled(ids)
  /\ Deploying =>
       /\ \A n \in Node : ids[n] # None => current[n] = ids[n]
       /\ \A n \in Node : ids[n] = None /\ current[n] # None => request[n] # None
       /\ mode = "deploy" => base = ids
       /\ mode = "revert" => \A n \in Filled(old) : base[n] # None
  /\ pc \in {"chain", "put"} /\ mode = "deploy" => ~ Growing

PromiseInv ==
  /\ MapsInv
  /\ pc # "idle" => \A n \in Filled(old) : WasOrIs(n)
  /\ pc # "idle" /\ (Growing \/ ~ Deploying) =>
       \A n \in Filled(old) : HoldsUnder(ids[n], old[n])
  /\ Deploying => \A n \in Node : ids[n] = None /\ current[n] # None =>
                                    HoldsUnder(current[n], request[n])

\* Before the first call nothing is promised.
LEMMA PromiseInit == Init => PromiseInv
BY DEF Init, PromiseInv, MapsInv, Deploying

\* The deployment of the iteration is in the hands of the node, or of the network.
HandedTo(c) == \A e : Content(e) = Content(sending) => HoldsUnder(c, e)'

\* A step keeps what is deployed under a contract, or it hands the deployment of
\* the iteration to the node, served or abandoned.
LEMMA KeptOrHanded ==
  ASSUME TypeInv, [Next]_vars, NEW c \in ContractId, NEW d, HoldsUnder(c, d), nodeOf[c] # None
  PROVE  \/ HoldsUnder(c, d)'
         \/ /\ pc \in {"send", "put"} /\ c = id
            /\ HandedTo(c)
<1>1. CASE pc \in {"send", "put"} /\ pc' # pc => c # id
  BY <1>1, OthersStay
<1>2. CASE pc = "send" /\ pc' # pc /\ c = id
  <2>1. CASE DeploymentDeploy
    BY <1>2, <2>1, NoneIsNoDeployment DEF DeploymentDeploy, AcceptDeploy, Hold, HoldsUnder, HandedTo,
       TypeInv, TypeOK, GridTypeOK, Handling
  <2>2. CASE DeploymentDeployFails /\ UNCHANGED <<nodes, late>>
    BY <1>2, <2>2 DEF DeploymentDeployFails, HoldsUnder, Stray, nodes, chain
  <2>3. CASE DeploymentDeployFails /\ AcceptDeploy(id, sending)
    BY <1>2, <2>3, NoneIsNoDeployment DEF AcceptDeploy, Hold, HoldsUnder, HandedTo,
       TypeInv, TypeOK, GridTypeOK, Handling
  <2>4. CASE DeploymentDeployFails /\ late' # late /\ ~ AcceptDeploy(id, sending)
    <3>1. late' = late \cup {[id |-> id, dl |-> sending, update |-> FALSE]}
      BY <2>4 DEF DeploymentDeployFails
    <3>2. [id |-> id, dl |-> sending, update |-> FALSE].id = c
      BY <1>2
    <3>3. Stray(c)'
      BY <3>1, <3>2 DEF Stray
    <3>. QED BY <3>3 DEF HoldsUnder
  <2>5. DeploymentDeploy \/ DeploymentDeployFails
    BY <1>2 DEF Next, Running, Deploy, Cancel, Reading, GetDeployment, GetDeploymentFails,
       GotDeployments, ValidateOk, ValidateFails, PrepareFails, Creating, CreateNodeContract,
       CreateNodeContractLost, Sending, EnsureContractCanceled, EnsureContractCanceledFails,
       Updating, SkipUpdate, PrepareUpdate, UpdateNodeContract, UpdateNodeContractFails,
       DeploymentUpdate, DeploymentUpdateFails, Waiting, WaitOk, WaitFails, Ending, Deployed,
       Revert, Failed, Environment, Arrive, client, vars
  <2>. QED BY <2>1, <2>2, <2>3, <2>4, <2>5 DEF DeploymentDeployFails
<1>3. CASE pc = "put" /\ pc' # pc /\ c = id
  <2>1. CASE DeploymentUpdate
    BY <1>3, <2>1, NoneIsNoDeployment DEF DeploymentUpdate, AcceptUpdate, Hold, HoldsUnder, HandedTo,
       TypeInv, TypeOK, GridTypeOK, Handling
  <2>2. CASE DeploymentUpdateFails /\ UNCHANGED <<nodes, late>>
    BY <1>3, <2>2 DEF DeploymentUpdateFails, HoldsUnder, Stray, nodes, chain
  <2>3. CASE DeploymentUpdateFails /\ AcceptUpdate(id, sending)
    BY <1>3, <2>3, NoneIsNoDeployment DEF AcceptUpdate, Hold, HoldsUnder, HandedTo,
       TypeInv, TypeOK, GridTypeOK, Handling
  <2>4. CASE DeploymentUpdateFails /\ late' # late /\ ~ AcceptUpdate(id, sending)
    <3>1. late' = late \cup {[id |-> id, dl |-> sending, update |-> TRUE]}
      BY <2>4 DEF DeploymentUpdateFails
    <3>2. [id |-> id, dl |-> sending, update |-> TRUE].id = c
      BY <1>3
    <3>3. Stray(c)'
      BY <3>1, <3>2 DEF Stray
    <3>. QED BY <3>3 DEF HoldsUnder
  <2>5. DeploymentUpdate \/ DeploymentUpdateFails
    BY <1>3 DEF Next, Running, Deploy, Cancel, Reading, GetDeployment, GetDeploymentFails,
       GotDeployments, ValidateOk, ValidateFails, PrepareFails, Creating, CreateNodeContract,
       CreateNodeContractLost, Sending, EnsureContractCanceled, EnsureContractCanceledFails,
       Updating, SkipUpdate, PrepareUpdate, UpdateNodeContract, UpdateNodeContractFails,
       DeploymentDeploy, DeploymentDeployFails, Waiting, WaitOk, WaitFails, Ending, Deployed,
       Revert, Failed, Environment, Arrive, client, vars
  <2>. QED BY <2>1, <2>2, <2>3, <2>4, <2>5 DEF DeploymentUpdateFails
<1>. QED BY <1>1, <1>2, <1>3

\* What a step of the call does to what is deployed on the nodes that were read and
\* on those that are new.
LEMMA PromiseStays ==
  ASSUME TypeInv, LeakInv, IdsInv, LoopInv, PromiseInv, [Next]_vars, pc # "idle",
         UNCHANGED <<ids, request, old>>
  PROVE  /\ \A n \in Filled(old) : WasOrIs(n)'
         /\ Growing \/ ~ Deploying => \A n \in Filled(old) : HoldsUnder(ids[n], old[n])'
         /\ Deploying => \A n \in Node : ids[n] = None /\ current[n] # None =>
              \A c : c = current[n] => HoldsUnder(c, request[n])'
<1>. USE DEF Deploying
<1>1. /\ pc = "send" => current[node] = None /\ \A n \in Node : ids[n] # id
      /\ pc \in {"send", "put"} => node \in Node /\ id \in ContractId /\ nodeOf[id] = node
      /\ pc = "put" => base[node] = id
  BY NoneIsNoContractId DEF LeakInv, IdsInv, TypeInv, Handling
<1>2. pc = "put" => /\ target[node] # None /\ Content(sending) = Content(target[node])
                    /\ target = IF mode = "deploy" THEN request ELSE old
                    /\ ids[node] # None
  <2>1. CASE mode = "deploy"
    BY <1>1, <2>1, NoneIsNoContractId DEF LoopInv, PromiseInv, MapsInv
  <2>2. CASE mode # "deploy"
    BY <1>1, <2>2 DEF LoopInv, PromiseInv, MapsInv, Filled, TypeInv, TypeOK
  <2>. QED BY <2>1, <2>2
<1>3. ASSUME NEW n \in Node, NEW c \in ContractId, c = ids[n], NEW d, HoldsUnder(c, d)
      PROVE  HoldsUnder(c, d)' \/ (pc = "put" /\ n = node /\ HandedTo(c))
  <2>1. nodeOf[c] = n
    BY <1>3, NoneIsNoContractId DEF IdsInv
  <2>2. HoldsUnder(c, d)' \/ (pc \in {"send", "put"} /\ c = id /\ HandedTo(c))
    BY <1>3, <2>1, NoneIsNoNode, KeptOrHanded
  <2>. QED BY <1>1, <1>3, <2>1, <2>2
<1>4. ASSUME NEW n \in Filled(old), NEW c, c = ids[n], NEW was, was = old[n],
             NEW is, is = request[n]
      PROVE  /\ HoldsUnder(c, was)' \/ (is # None /\ HoldsUnder(c, is)')
             /\ Growing \/ ~ Deploying => HoldsUnder(c, was)'
  <2>1. n \in Node /\ c \in ContractId
    BY <1>4 DEF PromiseInv, MapsInv, Filled, TypeInv, TypeOK, IdMap
  <2>2. HoldsUnder(c, was) \/ (is # None /\ HoldsUnder(c, is))
    BY <1>4 DEF PromiseInv, WasOrIs
  <2>3. Growing \/ ~ Deploying => HoldsUnder(c, was)
    BY <1>4 DEF PromiseInv
  <2>4. CASE pc = "put" /\ n = node /\ HandedTo(c)
    <3>1. Deploying /\ (mode = "deploy" => ~ Growing)
      BY <2>4 DEF PromiseInv, MapsInv
    <3>2. CASE mode = "deploy"
      BY <1>2, <1>4, <2>4, <3>1, <3>2 DEF HandedTo
    <3>3. CASE mode # "deploy"
      BY <1>2, <1>4, <2>4, <3>3 DEF HandedTo
    <3>. QED BY <3>2, <3>3
  <2>. QED BY <1>3, <1>4, <2>1, <2>2, <2>3, <2>4
<1>5. ASSUME Deploying, NEW n \in Node, ids[n] = None, NEW c, c = current[n], c # None,
             NEW is, is = request[n]
      PROVE  HoldsUnder(c, is)'
  <2>1. c \in ContractId /\ nodeOf[c] = n
    BY <1>5 DEF IdsInv, TypeInv, TypeOK, IdMap
  <2>2. HoldsUnder(c, is)
    BY <1>5 DEF PromiseInv
  <2>3. ~ (pc \in {"send", "put"} /\ c = id)
    BY <1>1, <1>2, <1>5, <2>1
  <2>. QED BY <2>1, <2>2, <2>3, NoneIsNoNode, KeptOrHanded
<1>6. \A n \in Filled(old) : WasOrIs(n)' /\ (Growing \/ ~ Deploying => HoldsUnder(ids[n], old[n])')
  BY <1>4 DEF WasOrIs, HoldsUnder, Stray
<1>7. Deploying => \A n \in Node : ids[n] = None /\ current[n] # None =>
        \A c : c = current[n] => HoldsUnder(c, request[n])'
  BY <1>5 DEF HoldsUnder, Stray
<1>. QED BY <1>6, <1>7

\* Every step of the call keeps the maps; currentDeployments only grows, by the node
\* of the iteration when it is new.
LEMMA MapsNext ==
  ASSUME TypeInv, LeakInv, LoopInv, MapsInv, [Next]_vars, pc # "idle", pc' # "idle"
  PROVE  /\ MapsInv'
         /\ Growing' => Growing
         /\ Deploying => /\ Deploying'
                         /\ UNCHANGED <<ids, request, old>>
                         /\ \/ current' = current
                            \/ DeploymentDeploy /\ mode = "deploy"
<1>. USE DEF Deploying, Tracked, Growing, Filled
<1>1. CASE Reading
  <2>1. ASSUME NEW n \in Node, GetDeployment(n) PROVE MapsInv' /\ ~ Deploying /\ (Growing' => Growing)
    BY <2>1 DEF GetDeployment, MapsInv, caller, TypeInv, TypeOK, DeploymentMap
  <2>2. CASE GetDeploymentFails \/ ValidateOk
    BY <2>2 DEF GetDeploymentFails, ValidateOk, Begin, MapsInv, caller, call, Nowhere
  <2>3. CASE GotDeployments \/ ValidateFails
    BY <2>3 DEF GotDeployments, ValidateFails, Return, MapsInv, caller, call
  <2>. QED BY <1>1, <2>1, <2>2, <2>3 DEF Reading
<1>2. CASE DeploymentDeploy
  <2>1. target[node] # None /\ base[node] = None /\ current[node] = None
    BY <1>2 DEF DeploymentDeploy, LoopInv, LeakInv
  <2>2. mode = "deploy"
    BY <1>2, <2>1 DEF DeploymentDeploy, LoopInv, MapsInv, TypeInv, TypeOK, Handling
  <2>3. base = ids /\ target = request /\ pc = "send" /\ pc' = "wait"
        /\ node \in Node /\ id \in ContractId
        /\ current' = [current EXCEPT ![node] = id]
        /\ UNCHANGED <<ids, request, old, base, mode>>
    BY <1>2, <2>2 DEF DeploymentDeploy, LoopInv, MapsInv, TypeInv, Handling, caller, call, loop
  <2>4. \A n \in Node : current'[n] = IF n = node THEN id ELSE current[n]
    BY <2>3 DEF TypeInv, TypeOK, IdMap
  <2>. QED BY <1>2, <2>1, <2>2, <2>3, <2>4, NoneIsNoContractId DEF MapsInv
<1>3. CASE DeploymentUpdate
  <2>1. /\ current[node] = id /\ pc = "put" /\ pc' = "wait"
        /\ current' = [current EXCEPT ![node] = id]
        /\ UNCHANGED <<ids, request, old, base, mode>>
    BY <1>3, NoneIsNoContractId DEF DeploymentUpdate, LeakInv, TypeInv, Handling, caller, call,
       loop
  <2>2. current' = current
    BY <2>1 DEF TypeInv, TypeOK, IdMap
  <2>. QED BY <2>1, <2>2 DEF MapsInv
<1>4. ASSUME NEW n \in Node, PrepareUpdate(n) PROVE ~ (mode = "deploy" /\ Growing)
  <2>1. pc = "loop" /\ ToCreate = {}
    BY <1>4 DEF PrepareUpdate, ToUpdate
  <2>2. ASSUME NEW k \in Filled(request), mode = "deploy" PROVE current[k] # None
    <3>1. k \in Filled(target)
      BY <2>1, <2>2 DEF LoopInv
    <3>2. CASE k \in todo
      BY <2>1, <3>2 DEF ToCreate, LeakInv
    <3>3. CASE k \notin todo
      BY <2>1, <3>1, <3>3 DEF LoopInv, Succeeding, Done
    <3>. QED BY <3>2, <3>3
  <2>. QED BY <2>1, <2>2
<1>5. ASSUME NEW n \in Node, PrepareUpdate(n)
      PROVE  UNCHANGED <<ids, request, old, base, mode, current>> /\ pc = "loop" /\ pc' = "chain"
  BY <1>5 DEF PrepareUpdate, caller, call, loop
<1>6. CASE \/ PrepareFails \/ Creating \/ Waiting
           \/ DeploymentDeployFails \/ EnsureContractCanceled \/ EnsureContractCanceledFails
           \/ \E n \in Node : SkipUpdate(n)
           \/ UpdateNodeContract \/ UpdateNodeContractFails \/ DeploymentUpdateFails
  BY <1>6 DEF PrepareFails, Creating, CreateNodeContract, CreateNodeContractLost, Waiting, WaitOk,
     WaitFails, DeploymentDeployFails, EnsureContractCanceled, EnsureContractCanceledFails,
     SkipUpdate, UpdateNodeContract, UpdateNodeContractFails, DeploymentUpdateFails, MapsInv,
     caller, call, loop
<1>7. CASE Ending
  BY <1>7 DEF Ending, Deployed, Failed, Revert, Return, Begin, MapsInv, caller, call
<1>10. CASE \E r \in Requests : Deploy(r)
  BY <1>10 DEF Deploy
<1>8. CASE Environment \/ UNCHANGED vars
  BY <1>8 DEF Environment, Arrive, client, call, loop, vars, MapsInv
<1>9. CASE \E n \in Node : PrepareUpdate(n)
  BY <1>4, <1>5, <1>9 DEF MapsInv
<1>. QED
  BY <1>1, <1>2, <1>3, <1>6, <1>7, <1>8, <1>9, <1>10 DEF Next, Cancel, Running, Sending, Updating

\* The promise holds at every moment of a call, and so at its end.
LEMMA PromiseNext ==
  TypeInv /\ LeakInv /\ IdsInv /\ LoopInv /\ PromiseInv /\ [Next]_vars => PromiseInv'
<1>. SUFFICES ASSUME TypeInv, LeakInv, IdsInv, LoopInv, PromiseInv, [Next]_vars
              PROVE  PromiseInv'
  OBVIOUS
<1>. USE DEF Deploying
<1>1. CASE pc' = "idle"
  BY <1>1 DEF PromiseInv, MapsInv
<1>2. CASE pc = "idle" /\ pc' # "idle"
  <2>1. ids' = ids /\ old' = Nowhere /\ pc' = "get"
    BY <1>2 DEF Next, Deploy, Cancel, Running, Reading, GetDeployment, GetDeploymentFails,
       GotDeployments, ValidateOk, ValidateFails, PrepareFails, Creating, CreateNodeContract,
       CreateNodeContractLost, Sending, DeploymentDeploy, DeploymentDeployFails,
       EnsureContractCanceled, EnsureContractCanceledFails, Updating, SkipUpdate, PrepareUpdate,
       UpdateNodeContract, UpdateNodeContractFails, DeploymentUpdate, DeploymentUpdateFails,
       Waiting, WaitOk, WaitFails, Ending, Deployed, Revert, Failed, Environment, Arrive, client,
       vars
  <2>. QED BY <2>1 DEF PromiseInv, MapsInv, Nowhere, Filled
<1>3. ASSUME pc # "idle", pc' # "idle"
      PROVE  /\ MapsInv'
             /\ Growing' => Growing
             /\ Deploying => /\ Deploying' /\ UNCHANGED <<ids, request, old>>
                             /\ current' = current \/ (DeploymentDeploy /\ mode = "deploy")
  BY <1>3, MapsNext DEF PromiseInv
<1>4. ASSUME NEW n \in Node, GetDeployment(n), pc' # "idle" PROVE PromiseInv'
  <2>1. /\ UNCHANGED <<pc, ids, request, held, live, late, current>> /\ pc = "get"
        /\ ids[n] # None /\ held[ids[n]] # None
        /\ old' = [old EXCEPT ![n] = held[ids[n]]]
    BY <1>4 DEF GetDeployment, caller, nodes, chain, TypeInv, Filled
  <2>2. \A k \in Filled(old) : HoldsUnder(ids[k], old[k])
    BY <2>1 DEF PromiseInv
  <2>3. \A k \in Node : old'[k] = IF k = n THEN held[ids[n]] ELSE old[k]
    BY <2>1 DEF TypeInv, TypeOK, DeploymentMap
  <2>4. \A k \in Filled(old)' : HoldsUnder(ids[k], old[k])'
    BY <2>1, <2>2, <2>3 DEF HoldsUnder, Stray, Filled
  <2>. QED BY <1>3, <2>1, <2>4 DEF PromiseInv, WasOrIs
<1>5. CASE GetDeploymentFails
  <2>1. /\ pc = "get" /\ pc' = "loop" /\ ids' = ids /\ current' = ids /\ old' = Nowhere
    BY <1>5 DEF GetDeploymentFails, Begin, caller
  <2>. QED BY <1>3, <2>1 DEF PromiseInv, Nowhere, Filled
<1>6. CASE UNCHANGED <<ids, request, old>> /\ pc # "idle" /\ pc' # "idle"
  <2>1. /\ \A n \in Filled(old) : WasOrIs(n)'
        /\ Growing \/ ~ Deploying => \A n \in Filled(old) : HoldsUnder(ids[n], old[n])'
        /\ Deploying => \A n \in Node : ids[n] = None /\ current[n] # None =>
             \A c : c = current[n] => HoldsUnder(c, request[n])'
    BY <1>6, PromiseStays
  <2>2. Filled(old)' = Filled(old)
    BY <1>6 DEF Filled
  <2>3. Growing' \/ ~ Deploying' => Growing \/ ~ Deploying
    BY <1>3, <1>6
  <2>4. ASSUME Deploying', NEW n \in Node, ids[n] = None, current'[n] # None
        PROVE  HoldsUnder(current[n], request[n])'
    <3>1. CASE Deploying /\ current' = current
      BY <1>6, <2>1, <2>4, <3>1 DEF HoldsUnder, Stray
    <3>2. CASE DeploymentDeploy /\ mode = "deploy"
      <4>1. /\ pc = "send" /\ node \in Node /\ id \in ContractId /\ sending \in Deployment
            /\ current' = [current EXCEPT ![node] = id] /\ held' = [held EXCEPT ![id] = sending]
            /\ Content(sending) = Content(request[node])
        BY <3>2 DEF DeploymentDeploy, AcceptDeploy, Hold, TypeInv, Handling, LoopInv
      <4>2. current'[n] = (IF n = node THEN id ELSE current[n]) /\ held'[id] = sending
        BY <4>1 DEF TypeInv, TypeOK, GridTypeOK, IdMap
      <4>3. CASE n = node
        BY <1>6, <4>1, <4>2, <4>3, NoneIsNoDeployment DEF HoldsUnder, Stray
      <4>4. CASE n # node
        BY <1>6, <2>1, <2>4, <4>1, <4>2, <4>4 DEF HoldsUnder, Stray
      <4>. QED BY <4>3, <4>4
    <3>3. CASE ~ Deploying
      <4>1. pc \in {"get", "validate"} /\ pc' \notin {"idle", "get", "validate"}
        BY <1>6, <2>4, <3>3
      <4>2. ValidateOk \/ GetDeploymentFails
        BY <4>1 DEF Next, Deploy, Cancel, Running, Reading, GetDeployment,
           GotDeployments, ValidateFails, Return, PrepareFails, Creating, CreateNodeContract,
           CreateNodeContractLost, Sending, DeploymentDeploy, DeploymentDeployFails,
           EnsureContractCanceled, EnsureContractCanceledFails, Updating, SkipUpdate,
           PrepareUpdate, UpdateNodeContract, UpdateNodeContractFails, DeploymentUpdate,
           DeploymentUpdateFails, Waiting, WaitOk, WaitFails, Ending, Deployed, Revert, Failed,
           Environment, Arrive, client, vars
      <4>. QED BY <1>6, <2>4, <4>2 DEF ValidateOk, GetDeploymentFails, Begin
    <3>. QED BY <1>3, <1>6, <3>1, <3>2, <3>3
  <2>. QED BY <1>3, <1>6, <2>1, <2>2, <2>3, <2>4 DEF PromiseInv
<1>7. pc # "idle" /\ pc' # "idle" =>
        \/ \E n \in Node : GetDeployment(n)
        \/ GetDeploymentFails
        \/ UNCHANGED <<ids, request, old>>
  BY DEF Next, Deploy, Cancel, Running, Reading, GotDeployments, ValidateOk, ValidateFails,
     Return, Begin,
     PrepareFails, Creating, CreateNodeContract, CreateNodeContractLost, Sending,
     DeploymentDeploy, DeploymentDeployFails, EnsureContractCanceled,
     EnsureContractCanceledFails, Updating, SkipUpdate, PrepareUpdate, UpdateNodeContract,
     UpdateNodeContractFails, DeploymentUpdate, DeploymentUpdateFails, Waiting, WaitOk,
     WaitFails, Ending, Deployed, Revert, Failed, Environment, Arrive, client, call, caller, vars
<1>. QED BY <1>1, <1>2, <1>4, <1>5, <1>6, <1>7

\* Two deployments say the same when they have the same content; none says nothing.
LEMMA SaysIs ==
  /\ Says(None) = {}
  /\ \A d \in Deployment : Says(d) = {Content(d)}
BY NoneIsNoDeployment DEF Says

\* The promise's Has is HoldsUnder, for the contents of deployments.
LEMMA HasIs ==
  ASSUME TypeInv, NEW c \in ContractId, NEW d \in Deployment
  PROVE  Promise!Has(c, Says(d)) <=> HoldsUnder(c, d)
<1>1. held[c] \in Deployment \cup {None}
  BY DEF TypeInv, TypeOK, GridTypeOK
<1>2. Says(held[c]) = Says(d) <=> held[c] # None /\ Content(held[c]) = Content(d)
  BY <1>1, SaysIs, NoneIsNoDeployment
<1>3. Says(held[c]) = {} <=> held[c] = None
  BY <1>1, SaysIs, NoneIsNoDeployment
<1>. QED BY <1>2, <1>3 DEF Promise!Has, HoldsUnder

\* What a node was asked for, or was read to have, is there in both views.
LEMMA AskedIs ==
  TypeInv => /\ Promise!Asked([n \in Node |-> Says(request[n])]) = Filled(request)
             /\ Promise!Asked([n \in Node |-> Says(old[n])]) = Filled(old)
<1>. SUFFICES ASSUME TypeInv, NEW n \in Node
              PROVE  /\ Says(request[n]) # {} <=> request[n] # None
                     /\ Says(old[n]) # {} <=> old[n] # None
  BY DEF Promise!Asked, Filled
<1>1. request[n] \in Deployment \cup {None} /\ old[n] \in Deployment \cup {None}
  BY DEF TypeInv, TypeOK, DeploymentMap
<1>. QED BY <1>1, SaysIs, NoneIsNoDeployment

\* Contracts keep their node, abandoned requests stay abandoned, and what is deployed
\* changes by the call's own hand, by a request it abandoned, or when its contract ended.
LEMMA GridMoves ==
  ASSUME TypeInv, [Next]_vars, NEW c \in ContractId
  PROVE  /\ nodeOf[c] # None => nodeOf'[c] = nodeOf[c]
         /\ late \subseteq late'
         /\ held'[c] # held[c] => \/ Stray(c)
                                  \/ held'[c] = None /\ c \notin live'
                                  \/ pc \in {"send", "put"} /\ c = id
<1>1. CASE UNCHANGED <<nodeOf, late, held>>
  BY <1>1
<1>2. CASE \/ \E r \in Requests : Deploy(r)
           \/ \E n \in Node : Cancel(n)
           \/ Reading \/ PrepareFails \/ Waiting \/ Ending
  BY <1>1, <1>2 DEF Deploy, Cancel, CancelContract, Reading, GetDeployment,
     GetDeploymentFails, GotDeployments, ValidateOk, ValidateFails, PrepareFails, Waiting,
     WaitOk, WaitFails, Ending, Deployed, Revert, Failed, chain, nodes
<1>3. CASE Creating
  BY <1>3 DEF Creating, CreateNodeContract, CreateNodeContractLost, CreateContract, Fresh,
     nodes, TypeInv, TypeOK, GridTypeOK
<1>4. CASE Sending
  BY <1>4 DEF Sending, DeploymentDeploy, DeploymentDeployFails, EnsureContractCanceled,
     EnsureContractCanceledFails, AcceptDeploy, Hold, CancelContract, chain, nodes, TypeInv,
     TypeOK, GridTypeOK
<1>5. CASE Updating
  BY <1>5 DEF Updating, SkipUpdate, PrepareUpdate, UpdateNodeContract,
     UpdateNodeContractFails, UpdateContract, DeploymentUpdate, DeploymentUpdateFails,
     AcceptUpdate, Hold, chain, nodes, TypeInv, TypeOK, GridTypeOK
<1>6. CASE GridNext /\ UNCHANGED <<client, late>>
  BY <1>6 DEF GridNext, Provision, LoseContract, Decommission, chain, nodes, TypeInv, TypeOK,
     GridTypeOK
<1>7. ASSUME NEW m \in late, Arrive(m)
      PROVE  UNCHANGED <<nodeOf, late>> /\ (held'[c] # held[c] => Stray(c))
  BY <1>7 DEF Arrive, AcceptUpdate, AcceptDeploy, Hold, chain, Stray, TypeInv, TypeOK, GridTypeOK
<1>8. CASE UNCHANGED vars
  BY <1>1, <1>8 DEF vars, chain, nodes
<1>. QED
  BY <1>2, <1>3, <1>4, <1>5, <1>6, <1>7, <1>8 DEF Next, Running, Environment

\* A step that neither begins nor ends a call, nor reads, nor is the caller's, is the
\* grid's to whoever called.
LEMMA WorldStep ==
  ASSUME TypeInv, LeakInv, IdsInv, LoopInv, [Next]_vars,
         pc = "idle" <=> pc' = "idle", UNCHANGED <<ids, request, old, outcome>>
  PROVE  Promise!World
<1>1. \A c \in ContractId : /\ nodeOf[c] # None => nodeOf'[c] = nodeOf[c]
                            /\ Stray(c) => Stray(c)'
  BY GridMoves DEF Stray
<1>2. ASSUME NEW c \in ContractId, held'[c] # held[c]
      PROVE  \/ Stray(c)
             \/ Says(held'[c]) = {} /\ c \notin live'
             \/ pc # "idle" /\ nodeOf[c] \in Filled(request) \cup Filled(old)
  <2>1. CASE Stray(c) \/ (held'[c] = None /\ c \notin live')
    BY <2>1, SaysIs
  <2>2. CASE pc \in {"send", "put"} /\ c = id
    <3>1. node \in Node /\ nodeOf[id] = node
      BY <2>2, NoneIsNoContractId DEF TypeInv, Handling, IdsInv, LeakInv, Deploying
    <3>2. target[node] # None /\ (target = request \/ target = old)
      BY <2>2 DEF LoopInv, Deploying
    <3>. QED BY <2>2, <3>1, <3>2 DEF Filled
  <2>. QED BY <1>2, <2>1, <2>2, GridMoves
<1>3. \A c \in ContractId : Says(held'[c]) # Says(held[c]) => held'[c] # held[c]
  OBVIOUS
<1>. QED BY <1>1, <1>2, <1>3, AskedIs DEF Promise!World, Promise!MayChange

\* The deployments of a call that returns are what the promise says of them.
LEMMA ReturnStep ==
  ASSUME TypeInv, LeakInv, IdsInv, LoopInv, PromiseInv,
         pc # "idle", pc' = "idle", UNCHANGED <<chain, nodes, late, request, old>>, ids' = Tracked
  PROVE  Promise!MapIsRight /\ Promise!NothingHalfway /\ Promise!CreationsFirst
<1>. DEFINE asked == [n \in Node |-> Says(request[n])]
            was == [n \in Node |-> Says(old[n])]
<1>1. ids' \in IdMap /\ (Deploying => ids' = current) /\ (~ Deploying => ids' = ids)
  BY DEF TypeInv, TypeOK, Tracked, Deploying
<1>2. \A n \in Node : /\ ids[n] # None => ids'[n] = ids[n]
                      /\ ids'[n] # None => nodeOf[ids'[n]] = n
  BY <1>1 DEF PromiseInv, MapsInv, IdsInv
<1>3. ASSUME NEW n \in Node, ids[n] = None, ids'[n] # None
      PROVE  n \in Filled(request) /\ Promise!Has(ids'[n], asked[n])
  <2>1. request[n] \in Deployment /\ HoldsUnder(ids'[n], request[n]) /\ ids'[n] \in ContractId
    BY <1>1, <1>3 DEF PromiseInv, MapsInv, TypeInv, TypeOK, DeploymentMap, IdMap
  <2>. QED BY <2>1, HasIs, NoneIsNoDeployment DEF Filled
<1>4. ASSUME NEW n \in Filled(old)
      PROVE  /\ \/ Promise!Has(ids[n], was[n])
                \/ n \in Filled(request) /\ Promise!Has(ids[n], asked[n])
             /\ Growing => Promise!Has(ids[n], was[n])
  <2>1. /\ n \in Node /\ ids[n] \in ContractId /\ old[n] \in Deployment
        /\ request[n] # None => request[n] \in Deployment
    BY <1>4 DEF PromiseInv, MapsInv, Filled, TypeInv, TypeOK, IdMap, DeploymentMap
  <2>2. WasOrIs(n) /\ (Growing => HoldsUnder(ids[n], old[n]))
    BY <1>4 DEF PromiseInv
  <2>. QED BY <2>1, <2>2, HasIs DEF WasOrIs, Filled
<1>5. (\E n \in Filled(request) : ids'[n] = None) => Growing
  BY DEF Growing
<1>6. Promise!MapIsRight
  BY <1>2, <1>3, AskedIs DEF Promise!MapIsRight, Promise!Created
<1>7. Promise!NothingHalfway
  BY <1>4, AskedIs DEF Promise!NothingHalfway
<1>8. Promise!CreationsFirst
  BY <1>4, <1>5, AskedIs DEF Promise!CreationsFirst, Promise!Known, Filled
<1>. QED BY <1>6, <1>7, <1>8

\* A call that says how it ended is right about it.
LEMMA EndStep ==
  ASSUME TypeInv, LeakInv, IdsInv, LoopInv, PromiseInv,
         Deployed \/ Failed \/ ValidateFails
  PROVE  Promise!Return
<1>1. /\ pc # "idle" /\ pc' = "idle" /\ UNCHANGED <<chain, nodes, late, request, old>>
      /\ ids' = Tracked
  BY DEF Deployed, Failed, ValidateFails, Return, Tracked, call
<1>2. Promise!MapIsRight /\ Promise!NothingHalfway /\ Promise!CreationsFirst
  BY <1>1, ReturnStep
<1>3. UNCHANGED Promise!grid
  BY <1>1 DEF Promise!grid, chain, nodes, Stray
<1>4. ASSUME \A n \in Filled(old) : HoldsUnder(ids[n], old[n])
      PROVE  Promise!AllRestored
  <2>1. ASSUME NEW n \in Filled(old) PROVE Promise!Has(ids[n], Says(old[n]))
    <3>1. n \in Node /\ ids[n] \in ContractId /\ old[n] \in Deployment
      BY <1>1, <2>1 DEF PromiseInv, MapsInv, Filled, TypeInv, TypeOK, IdMap, DeploymentMap
    <3>. QED BY <1>4, <2>1, <3>1, HasIs
  <2>. QED BY <2>1, AskedIs DEF Promise!AllRestored, Filled
<1>5. CASE ValidateFails
  <2>1. outcome' = "invalid" /\ ids' = ids /\ \A n \in Filled(old) : HoldsUnder(ids[n], old[n])
    BY <1>5 DEF ValidateFails, Return, PromiseInv, Deploying
  <2>. QED BY <1>1, <1>2, <1>3, <1>4, <2>1 DEF Promise!Return
<1>6. CASE Failed
  <2>1. outcome' = "failed"
    BY <1>6 DEF Failed, Return
  <2>. QED BY <1>1, <1>2, <1>3, <2>1 DEF Promise!Return
<1>7. CASE Deployed
  <2>1. pc = "loop" /\ todo = {} /\ ids' = current
        /\ outcome' = (IF mode = "deploy" THEN "ok" ELSE "reverted")
    BY <1>7 DEF Deployed, Return
  <2>2. \A n \in Filled(target) : current[n] # None /\ HoldsUnder(current[n], target[n])
    BY <2>1 DEF LoopInv, Succeeding, Done
  <2>3. target = IF mode = "deploy" THEN request ELSE old
    BY <2>1 DEF LoopInv, Deploying
  <2>4. CASE mode = "deploy"
    <3>1. ASSUME NEW n \in Filled(request)
          PROVE  ids'[n] # None /\ Promise!Has(ids'[n], Says(request[n]))
      <4>1. n \in Node /\ current[n] \in ContractId /\ request[n] \in Deployment
            /\ HoldsUnder(current[n], request[n])
        BY <2>2, <2>3, <2>4, <3>1 DEF Filled, TypeInv, TypeOK, IdMap, DeploymentMap
      <4>. QED BY <2>1, <4>1, HasIs, NoneIsNoContractId
    <3>2. Promise!AllDeployed
      BY <3>1, AskedIs DEF Promise!AllDeployed, Filled
    <3>. QED BY <1>1, <1>2, <1>3, <2>1, <2>4, <3>2 DEF Promise!Return
  <2>5. CASE mode # "deploy"
    <3>1. \A n \in Filled(old) : HoldsUnder(ids[n], old[n])
      BY <2>1, <2>2, <2>3, <2>5 DEF PromiseInv, MapsInv, Deploying, Filled
    <3>. QED BY <1>1, <1>2, <1>3, <1>4, <2>1, <2>5, <3>1 DEF Promise!Return
  <2>. QED BY <2>4, <2>5
<1>. QED BY <1>5, <1>6, <1>7

\* Every step of the detailed deployer is a step of the promise, or none.
LEMMA PromiseStep ==
  TypeInv /\ LeakInv /\ IdsInv /\ LoopInv /\ PromiseInv /\ [Next]_vars
    => [Promise!Next]_(Promise!vars)
<1>. SUFFICES ASSUME TypeInv, LeakInv, IdsInv, LoopInv, PromiseInv, [Next]_vars
              PROVE  [Promise!Next]_(Promise!vars)
  OBVIOUS
<1>1. ASSUME NEW r \in Requests, Deploy(r) PROVE Promise!Call
  BY <1>1, SaysIs DEF Deploy, Promise!Call, Promise!grid, Promise!Nobody, Nowhere, chain, nodes,
     Stray
<1>2. ASSUME NEW n \in Node, Cancel(n) PROVE Promise!Cancel(n)
  BY <1>2 DEF Cancel, CancelContract, Promise!Cancel, call, nodes, Stray
<1>3. ASSUME NEW n \in Node, GetDeployment(n) PROVE Promise!Read
  <2>1. /\ pc = "get" /\ pc' = pc /\ ids[n] \in ContractId /\ ids[n] # None
        /\ old' = [old EXCEPT ![n] = held[ids[n]]]
        /\ UNCHANGED <<chain, nodes, late, ids, request, outcome>>
    BY <1>3 DEF GetDeployment, caller, log, TypeInv, TypeOK, Filled, IdMap
  <2>2. [k \in Node |-> Says(old'[k])]
          = [[k \in Node |-> Says(old[k])] EXCEPT ![n] = Says(held[ids[n]])]
    BY <2>1 DEF TypeInv, TypeOK, DeploymentMap
  <2>. QED BY <2>1, <2>2 DEF Promise!Read, Promise!Known, Promise!grid, chain, nodes, Stray
<1>4. ASSUME GetDeploymentFails PROVE Promise!Read
  BY <1>4, SaysIs DEF GetDeploymentFails, Begin, Promise!Read, Promise!Nobody, Promise!grid,
     Nowhere, caller, log, chain, nodes, Stray
<1>5. CASE Deployed \/ Failed \/ ValidateFails
  BY <1>5, EndStep DEF Promise!Next
<1>6. CASE \/ GotDeployments \/ ValidateOk \/ PrepareFails \/ Creating \/ Sending \/ Updating
           \/ Waiting \/ Revert \/ Environment
  <2>1. (pc = "idle" <=> pc' = "idle") /\ UNCHANGED <<ids, request, old, outcome>>
    BY <1>6 DEF GotDeployments, ValidateOk, Begin, PrepareFails, Creating, CreateNodeContract,
       CreateNodeContractLost, Sending, DeploymentDeploy, DeploymentDeployFails,
       EnsureContractCanceled, EnsureContractCanceledFails, Updating, SkipUpdate, PrepareUpdate,
       UpdateNodeContract, UpdateNodeContractFails, DeploymentUpdate, DeploymentUpdateFails,
       Waiting, WaitOk, WaitFails, Revert, Environment, Arrive, client, caller, call, log
  <2>. QED BY <2>1, WorldStep DEF Promise!Next
<1>7. CASE UNCHANGED vars
  BY <1>7 DEF vars, chain, nodes, caller, call, Promise!vars, Stray
<1>. QED
  BY <1>1, <1>2, <1>3, <1>4, <1>5, <1>6, <1>7 DEF Next, Running, Reading, Ending, Promise!Next

\* The deployer implements its promise: a caller that only knows DeployPromise knows
\* all that matters of Deploy, with its two loops, its revert and its lost calls.
THEOREM PromiseKept == Spec => KeepsPromise
<1>1. Init => Promise!Init
  BY SaysIs DEF Init, GridInit, Promise!Init, Promise!Nobody, Nowhere, Stray
<1>. QED
  BY <1>1, TypeInit, TypeNext, LeakInit, LeakNext, LoopInit, IdsNext, LoopNext, PromiseInit,
     PromiseNext, PromiseStep, PTL DEF Spec, KeepsPromise, Promise!Spec

\* The step that the modules of networks and clusters take for a whole Deploy is one
\* the deployer makes: those it served are the nodes it created a contract for and
\* those that no longer have what they had (deploy: creations, then updates).
THEOREM ServesInOneStep == Spec => [][Promise!Return => Promise!ServesSome]_vars
<1>1. ASSUME TypeInv, PromiseInv, Promise!Return
      PROVE  Promise!ServesSome
  <2>. DEFINE new == {n \in Node : ids[n] = None /\ ids'[n] # None}
              changed == {n \in Filled(old) : ~ Promise!Has(ids[n], Says(old[n]))}
              S == new \cup changed
  <2>1. Promise!MapIsRight /\ Promise!NothingHalfway /\ Promise!CreationsFirst /\ pc # "idle"
    BY <1>1 DEF Promise!Return
  <2>2. Filled(old) \subseteq Filled(ids)
    BY <1>1, <2>1 DEF PromiseInv, MapsInv
  <2>3. \A n \in new : n \in Filled(request) /\ Promise!Has(ids'[n], Says(request[n]))
    BY <1>1, <2>1, AskedIs DEF Promise!MapIsRight, Promise!Created
  <2>4. \A n \in changed : /\ n \in Filled(request) /\ ids'[n] = ids[n] /\ ids[n] # None
                           /\ Promise!Has(ids'[n], Says(request[n]))
    <3>1. ASSUME NEW n \in changed
          PROVE  n \in Filled(request) /\ Promise!Has(ids[n], Says(request[n]))
      BY <1>1, <2>1, <3>1, AskedIs DEF Promise!NothingHalfway, Filled
    <3>2. ASSUME NEW n \in changed PROVE ids'[n] = ids[n] /\ ids[n] # None
      BY <2>1, <2>2, <3>2 DEF Promise!MapIsRight, Filled
    <3>3. ASSUME NEW n \in changed PROVE Promise!Has(ids'[n], Says(request[n]))
      BY <3>1, <3>2, <3>3
    <3>. QED BY <3>1, <3>2, <3>3
  <2>5. changed # {} => Filled(request) \subseteq Filled(ids')
    BY <1>1, <2>1, AskedIs DEF Promise!CreationsFirst, Promise!Known, Filled
  <2>6. S \cap Filled(ids) = {} \/ Filled(request) \ Filled(ids) \subseteq S
    BY <2>5 DEF Filled
  <2>7. Filled(ids') = Filled(ids) \cup S
    BY <2>1, <2>4 DEF Promise!MapIsRight, Filled
  <2>8. \A n \in Filled(old) \ S : Promise!Has(ids'[n], Says(old[n]))
    <3>1. ASSUME NEW n \in Filled(old) \ S PROVE ids'[n] = ids[n]
      BY <2>1, <2>2, <3>1 DEF Promise!MapIsRight, Filled
    <3>2. ASSUME NEW n \in Filled(old) \ S PROVE Promise!Has(ids[n], Says(old[n]))
      BY <3>2
    <3>. QED BY <3>1, <3>2
  <2>9. S \in SUBSET Filled(request)
    BY <2>3, <2>4
  <2>10. \A n \in S : n \in Node /\ Promise!Has(ids'[n], Says(request[n]))
    BY <2>3, <2>4, <2>9 DEF Filled
  <2>. HIDE DEF S
  <2>. QED BY <1>1, <2>6, <2>7, <2>8, <2>9, <2>10, AskedIs
           DEF Promise!ServesSome, Promise!Known, Filled
<1>2. TypeInv /\ PromiseInv /\ [Next]_vars => [Promise!Return => Promise!ServesSome]_vars
  BY <1>1
<1>. QED
  BY <1>2, TypeInit, TypeNext, LeakInit, LeakNext, LoopInit, IdsNext, LoopNext, PromiseInit,
     PromiseNext, PTL DEF Spec

-----------------------------------------------------------------------------
(* Versions.                                                               *)

\* An update that the node may take, now or when it arrives, was made from what the
\* node holds; one that is too old is for a version the node has left behind.
FitsUpdate(c, d) ==
  held[c] # None => /\ d.version <= held[c].version + 1
                    /\ d.version = held[c].version + 1 => Advances(held[c], d)

\* The same of what the node holds after a step.
FitsAfter(c, d) ==
  held'[c] # None => /\ d.version <= held'[c].version + 1
                     /\ d.version = held'[c].version + 1 => Advances(held'[c], d)

VersionInv ==
  /\ \A c \in ContractId : held[c] # None => WellVersioned(held[c])
  /\ \A n \in Node : /\ old[n] # None => WellVersioned(old[n])
                     /\ request[n] # None => WellVersioned(request[n])
                     /\ target[n] # None => WellVersioned(target[n])
  /\ pc = "send" => WellVersioned(sending) /\ ~ Stray(id)
  /\ pc \in {"chain", "put"} => FitsUpdate(id, sending)
  /\ \A m \in late :
       /\ nodeOf[m.id] # None
       /\ m.update => FitsUpdate(m.id, m.dl)
       /\ ~ m.update => /\ WellVersioned(m.dl)
                       /\ ~ IsIn(m.id, ids) /\ (Deploying => ~ IsIn(m.id, current))
                       /\ \A k \in late : k.update => k.id # m.id

\* Before the first call there are no versions.
LEMMA VersionInit == Init => VersionInv
BY DEF Init, GridInit, VersionInv, Nowhere

\* An update is made from what the node holds then.
LEMMA UpdateFits ==
  ASSUME NEW c, NEW dl \in Deployment, held[c] \in Deployment, WellVersioned(held[c])
  PROVE  FitsUpdate(c, Update(dl, held[c]))
BY UpdateAdvances, UpdateType DEF FitsUpdate, Deployment

\* An update that fits goes on fitting, unless the contract gets its first deployment.
LEMMA FitsStays ==
  ASSUME NEW c, NEW d \in Deployment, FitsUpdate(c, d),
         held[c] \in Deployment \cup {None}, held'[c] \in Deployment \cup {None},
         held'[c] \notin {None, held[c]} => held[c] # None /\ held'[c].version = held[c].version + 1
  PROVE  FitsAfter(c, d)
<1>1. CASE held'[c] = None
  BY <1>1 DEF FitsUpdate, FitsAfter
<1>2. CASE held'[c] = held[c]
  BY <1>2 DEF FitsUpdate, FitsAfter
<1>3. CASE held'[c] \notin {None, held[c]}
  <2>1. /\ d.version <= held[c].version + 1
        /\ held'[c].version = held[c].version + 1
        /\ d.version \in Nat /\ held[c].version \in Nat /\ held'[c].version \in Nat
    BY <1>3 DEF FitsUpdate, Deployment
  <2>2. d.version <= held'[c].version + 1 /\ d.version # held'[c].version + 1
    BY <2>1
  <2>. QED BY <2>2 DEF FitsAfter
<1>. QED BY <1>1, <1>2, <1>3

\* What an update that fits makes of what is there.
LEMMA FitsAccepted ==
  ASSUME NEW c \in ContractId, NEW d, FitsUpdate(c, d), AcceptUpdate(c, d), GridTypeOK
  PROVE  /\ held' = [held EXCEPT ![c] = d]
         /\ held[c] # None /\ held'[c] = d /\ d.version = held[c].version + 1
         /\ Advances(held[c], d)
BY DEF FitsUpdate, AcceptUpdate, Hold, GridTypeOK

\* No update is on its way to a contract that gets its first deployment.
LEMMA NoUpdateForNew ==
  ASSUME TypeInv, LeakInv, VersionInv,
         NEW c, (pc = "send" /\ c = id) \/ \E m \in late : ~ m.update /\ m.id = c
  PROVE  /\ \A k \in late : k.update => k.id # c
         /\ pc \in {"chain", "put"} => id # c
<1>1. pc \in {"chain", "put"} => IsIn(id, current)
  BY NoneIsNoContractId DEF LeakInv, Deploying, TypeInv, Handling, IsIn
<1>. QED BY <1>1 DEF VersionInv, Stray, Deploying

\* What becomes of what is held: a contract gets its first deployment from a request
\* to create one, and any other from an update that fits.
LEMMA HeldNext ==
  ASSUME TypeInv, LeakInv, VersionInv, [Next]_vars,
         NEW c \in ContractId, held'[c] \notin {None, held[c]}
  PROVE  \/ /\ held[c] = None /\ WellVersioned(held'[c])
            /\ (pc = "send" /\ c = id) \/ \E m \in late : ~ m.update /\ m.id = c
         \/ /\ held[c] # None /\ held'[c].version = held[c].version + 1
            /\ Advances(held[c], held'[c])
<1>1. CASE pc' # pc
  <2>1. /\ c = id /\ held'[c] = sending
        /\ \/ pc = "send" /\ held[c] = None
           \/ pc = "put" /\ held[c] # None /\ sending.version = held[c].version + 1
    BY <1>1, HandedOver
  <2>. QED BY <2>1 DEF VersionInv, FitsUpdate
<1>2. CASE pc' = pc /\ ~ Environment
  BY <1>2 DEF Next, Deploy, Cancel, Running, Reading, GetDeployment, GetDeploymentFails,
     GotDeployments, ValidateOk, ValidateFails, Begin, Return, PrepareFails, Creating,
     CreateNodeContract, CreateNodeContractLost, Sending, DeploymentDeploy,
     DeploymentDeployFails, EnsureContractCanceled, EnsureContractCanceledFails, Updating,
     SkipUpdate, PrepareUpdate, UpdateNodeContract, UpdateNodeContractFails, DeploymentUpdate,
     DeploymentUpdateFails, Waiting, WaitOk, WaitFails, Ending, Deployed, Revert, Failed,
     nodes, vars
<1>3. CASE GridNext
  BY <1>3 DEF GridNext, Provision, LoseContract, Decommission, nodes, TypeInv, TypeOK, GridTypeOK
<1>4. ASSUME NEW m \in late, Arrive(m)
      PROVE  \/ /\ held[c] = None /\ WellVersioned(held'[c])
                /\ \E k \in late : ~ k.update /\ k.id = c
             \/ /\ held[c] # None /\ held'[c].version = held[c].version + 1
                /\ Advances(held[c], held'[c])
  <2>1. m.id = c /\ held'[c] = m.dl
    BY <1>4 DEF Arrive, AcceptUpdate, AcceptDeploy, Hold, TypeInv, TypeOK, GridTypeOK
  <2>2. CASE m.update
    BY <1>4, <2>1, <2>2, FitsAccepted DEF Arrive, VersionInv, TypeInv, TypeOK
  <2>3. CASE ~ m.update
    BY <1>4, <2>1, <2>3 DEF Arrive, AcceptDeploy, VersionInv
  <2>. QED BY <2>2, <2>3
<1>. QED BY <1>1, <1>2, <1>3, <1>4 DEF Environment

\* Every step keeps the versions in order.
LEMMA VersionNext == TypeInv /\ LeakInv /\ IdsInv /\ VersionInv /\ [Next]_vars => VersionInv'
<1>. SUFFICES ASSUME TypeInv, LeakInv, IdsInv, VersionInv, [Next]_vars PROVE VersionInv'
  OBVIOUS
<1>0. TypeInv'
  BY TypeNext
<1>1. \A c \in ContractId : held'[c] # None => WellVersioned(held'[c])
  BY HeldNext DEF VersionInv, Advances
<1>2. ASSUME NEW n \in Node
      PROVE  /\ old'[n] # None => WellVersioned(old'[n])
             /\ request'[n] # None => WellVersioned(request'[n])
             /\ target'[n] # None => WellVersioned(target'[n])
  <2>1. CASE UNCHANGED <<old, request, target>>
    BY <2>1 DEF VersionInv
  <2>2. ASSUME NEW r \in Requests, Deploy(r)
        PROVE  old'[n] = None /\ request'[n] = r[n] /\ UNCHANGED target
    BY <2>2 DEF Deploy, Nowhere, loop
  <2>3. ASSUME NEW k \in Node, GetDeployment(k)
        PROVE  old'[n] \in {old[n], held[ids[k]]} /\ UNCHANGED <<request, target>>
               /\ ids[k] \in ContractId /\ held[ids[k]] # None
    BY <2>3 DEF GetDeployment, loop, TypeInv, TypeOK, IdMap, DeploymentMap, Filled
  <2>4. CASE GetDeploymentFails \/ ValidateOk \/ ValidateFails \/ Ending
    BY <2>4 DEF GetDeploymentFails, ValidateOk, ValidateFails, Ending, Deployed, Revert, Failed,
       Begin, Return, Nowhere, call, VersionInv
  <2>5. CASE GotDeployments \/ PrepareFails \/ Creating \/ Sending \/ Updating \/ Waiting
    BY <2>1, <2>5 DEF GotDeployments, PrepareFails, Creating, CreateNodeContract,
       CreateNodeContractLost, Sending, DeploymentDeploy, DeploymentDeployFails,
       EnsureContractCanceled, EnsureContractCanceledFails, Updating, SkipUpdate,
       PrepareUpdate, UpdateNodeContract, UpdateNodeContractFails, DeploymentUpdate,
       DeploymentUpdateFails, Waiting, WaitOk, WaitFails, call, loop
  <2>6. CASE (\E k \in Node : Cancel(k)) \/ Environment \/ UNCHANGED vars
    BY <2>1, <2>6 DEF Cancel, Environment, Arrive, client, call, loop, vars
  <2>. QED
    BY <2>2, <2>3, <2>4, <2>5, <2>6, RequestsAreWellVersioned
    DEF Next, Running, Reading, VersionInv
<1>3. ASSUME NEW c \in ContractId, NEW d \in Deployment, FitsUpdate(c, d),
             ~ (pc = "send" /\ c = id), \A m \in late : ~ m.update => m.id # c
      PROVE  FitsAfter(c, d)
  <2>1. held[c] \in Deployment \cup {None} /\ held'[c] \in Deployment \cup {None}
    BY <1>0 DEF TypeInv, TypeOK, GridTypeOK
  <2>2. held'[c] \notin {None, held[c]} => held[c] # None /\ held'[c].version = held[c].version + 1
    BY <1>3, HeldNext
  <2>. QED BY <1>3, <2>1, <2>2, FitsStays
<1>4. ASSUME NEW m \in late
      PROVE  /\ nodeOf'[m.id] # None
             /\ m.update => FitsAfter(m.id, m.dl)
             /\ ~ m.update => /\ WellVersioned(m.dl)
                              /\ \A k \in late : k.update => k.id # m.id
  <2>1. m.id \in ContractId /\ m.dl \in Deployment
    BY DEF TypeInv, TypeOK, LateRequest
  <2>2. nodeOf'[m.id] # None
    <3>1. nodeOf[m.id] # None
      BY DEF VersionInv
    <3>2. \/ nodeOf' = nodeOf
          \/ \E c \in ContractId, n \in Node :
               nodeOf[c] = None /\ nodeOf' = [nodeOf EXCEPT ![c] = n]
      BY DEF Next, Deploy, Cancel, CancelContract, Running, Reading, GetDeployment, GetDeploymentFails,
         GotDeployments, ValidateOk, ValidateFails, PrepareFails, Creating,
         CreateNodeContract, CreateNodeContractLost, CreateContract, Fresh, Sending, DeploymentDeploy,
         DeploymentDeployFails, EnsureContractCanceled, EnsureContractCanceledFails, Updating,
         SkipUpdate, PrepareUpdate, UpdateNodeContract, UpdateNodeContractFails, UpdateContract,
         DeploymentUpdate, DeploymentUpdateFails, Waiting, WaitOk, WaitFails, Ending, Deployed, Revert,
         Failed, Environment, GridNext, Provision, LoseContract, Decommission, Arrive, chain, vars
    <3>. QED BY <2>1, <3>1, <3>2 DEF TypeInv, TypeOK, GridTypeOK
  <2>3. m.update => FitsAfter(m.id, m.dl)
    <3>1. m.update => FitsUpdate(m.id, m.dl)
      BY DEF VersionInv
    <3>2. m.update => ~ (pc = "send" /\ m.id = id) /\ \A k \in late : ~ k.update => k.id # m.id
      BY DEF VersionInv, Stray
    <3>. QED BY <1>3, <2>1, <3>1, <3>2
  <2>. QED BY <2>2, <2>3 DEF VersionInv
<1>5. pc' = "send" => WellVersioned(sending') /\ ~ Stray(id)'
  <2>1. ASSUME NEW n \in Node, CreateNodeContract(n)
        PROVE  WellVersioned(sending') /\ ~ Stray(id)'
    <3>1. PICK c \in ContractId : nodeOf[c] = None /\ id' = c /\ sending' = target[n]
      BY <2>1 DEF CreateNodeContract, CreateContract, Fresh
    <3>2. target[n] # None /\ late' = late
      BY <2>1 DEF CreateNodeContract, ToCreate, TypeInv, Deploying, Filled, log
    <3>. QED BY <3>1, <3>2 DEF VersionInv, Stray
  <2>2. CASE pc = "send" /\ UNCHANGED <<id, sending, late>>
    BY <2>2 DEF VersionInv, Stray
  <2>3. pc' # "send" \/ (pc = "send" /\ UNCHANGED <<id, sending, late>>)
        \/ \E n \in Node : CreateNodeContract(n)
    BY DEF Next, Deploy, Cancel, Begin, Return, Running, Reading, GetDeployment, GetDeploymentFails,
       GotDeployments, ValidateOk, ValidateFails, PrepareFails, Creating,
       CreateNodeContractLost, Sending, DeploymentDeploy,
       DeploymentDeployFails, EnsureContractCanceled, EnsureContractCanceledFails, Updating,
       SkipUpdate, PrepareUpdate, UpdateNodeContract, UpdateNodeContractFails,
       DeploymentUpdate, DeploymentUpdateFails, Waiting, WaitOk, WaitFails, Ending, Deployed, Revert,
       Failed, Environment, Arrive, client, handling, vars
  <2>. QED BY <2>1, <2>2, <2>3
<1>6. pc' \in {"chain", "put"} => FitsAfter(id', sending')
  <2>1. ASSUME NEW n \in Node, PrepareUpdate(n)
        PROVE  FitsAfter(id', sending')
    <3>1. n \in todo /\ base[n] \in ContractId /\ target[n] \in Deployment
      BY <2>1 DEF PrepareUpdate, ToUpdate, ToCreate, TypeInv, TypeOK, IdMap, DeploymentMap,
         Deploying, Filled
    <3>2. held[base[n]] \in Deployment /\ WellVersioned(held[base[n]])
      BY <2>1, <3>1 DEF PrepareUpdate, VersionInv, TypeInv, TypeOK, GridTypeOK
    <3>3. FitsUpdate(base[n], Update(target[n], held[base[n]]))
      BY <3>1, <3>2, UpdateFits
    <3>. QED BY <2>1, <3>3 DEF PrepareUpdate, FitsUpdate, FitsAfter, nodes
  <2>2. CASE pc \in {"chain", "put"} /\ UNCHANGED <<id, sending>>
    <3>1. id \in ContractId /\ sending \in Deployment /\ FitsUpdate(id, sending)
      BY <2>2 DEF VersionInv, TypeInv, Handling
    <3>2. \A m \in late : ~ m.update => m.id # id
      BY <2>2, NoUpdateForNew
    <3>3. FitsAfter(id, sending)
      BY <2>2, <3>1, <3>2, <1>3
    <3>. QED BY <2>2, <3>3
  <2>3. pc' \notin {"chain", "put"} \/ (pc \in {"chain", "put"} /\ UNCHANGED <<id, sending>>)
        \/ \E n \in Node : PrepareUpdate(n)
    BY DEF Next, Deploy, Cancel, Begin, Return, Running, Reading, GetDeployment, GetDeploymentFails,
       GotDeployments, ValidateOk, ValidateFails, PrepareFails, Creating, CreateNodeContract,
       CreateNodeContractLost, Sending, DeploymentDeploy,
       DeploymentDeployFails, EnsureContractCanceled, EnsureContractCanceledFails, Updating,
       SkipUpdate, UpdateNodeContract, UpdateNodeContractFails,
       DeploymentUpdate, DeploymentUpdateFails, Waiting, WaitOk, WaitFails, Ending, Deployed, Revert,
       Failed, Environment, Arrive, client, handling, vars
  <2>. QED BY <2>1, <2>2, <2>3
<1>7. ASSUME NEW m \in late, ~ m.update
      PROVE  ~ IsIn(m.id, ids') /\ (Deploying' => ~ IsIn(m.id, current'))
  <2>1. /\ m.id \in ContractId /\ m.id # None
        /\ ~ IsIn(m.id, ids) /\ (Deploying => ~ IsIn(m.id, current))
    BY <1>7, NoneIsNoContractId DEF VersionInv, TypeInv, TypeOK, LateRequest
  <2>2. CASE UNCHANGED <<ids, current>> /\ (Deploying' => Deploying)
    BY <2>1, <2>2 DEF IsIn
  <2>3. CASE (\E r \in Requests : Deploy(r)) \/ (\E n \in Node : Cancel(n))
    BY <2>1, <2>3 DEF Deploy, Cancel, Deploying, IsIn, TypeInv, TypeOK, IdMap
  <2>4. CASE Reading \/ Ending
    BY <2>1, <2>4 DEF Reading, GetDeployment, GetDeploymentFails, GotDeployments, ValidateOk,
       ValidateFails, Begin, Return, Ending, Deployed, Revert, Failed, caller, Deploying, IsIn
  <2>5. CASE DeploymentDeploy
    <3>1. /\ pc = "send" /\ node \in Node /\ id # m.id /\ ids' = ids
          /\ current' = [current EXCEPT ![node] = id]
      BY <2>5 DEF DeploymentDeploy, TypeInv, Handling, caller, VersionInv, Stray
    <3>. QED BY <2>1, <3>1 DEF IsIn, Deploying, TypeInv, TypeOK, IdMap
  <2>6. CASE DeploymentUpdate
    <3>1. /\ pc = "put" /\ node \in Node /\ id # m.id /\ ids' = ids
          /\ current' = [current EXCEPT ![node] = id]
      BY <1>7, <2>6, NoUpdateForNew DEF DeploymentUpdate, TypeInv, Handling, caller
    <3>. QED BY <2>1, <3>1 DEF IsIn, Deploying, TypeInv, TypeOK, IdMap
  <2>7. CASE PrepareFails \/ Creating \/ Waiting
    BY <2>2, <2>7 DEF PrepareFails, Creating, CreateNodeContract, CreateNodeContractLost, Waiting,
       WaitOk, WaitFails, caller, Deploying
  <2>8. CASE DeploymentDeployFails \/ EnsureContractCanceled \/ EnsureContractCanceledFails
    BY <2>2, <2>8 DEF DeploymentDeployFails, EnsureContractCanceled,
       EnsureContractCanceledFails, caller, Deploying
  <2>9. CASE Updating /\ ~ DeploymentUpdate
    BY <2>2, <2>9 DEF Updating, SkipUpdate, PrepareUpdate, UpdateNodeContract,
       UpdateNodeContractFails, DeploymentUpdateFails, caller, Deploying
  <2>10. CASE Environment \/ UNCHANGED vars
    BY <2>2, <2>10 DEF Environment, Arrive, client, vars, Deploying
  <2>. QED BY <2>3, <2>4, <2>5, <2>6, <2>7, <2>8, <2>9, <2>10 DEF Next, Running, Sending
<1>8. CASE late' = late
  BY <1>1, <1>2, <1>4, <1>5, <1>6, <1>7, <1>8 DEF VersionInv, FitsUpdate, FitsAfter
<1>9. CASE DeploymentDeployFails /\ late' = late \cup {[id |-> id, dl |-> sending, update |-> FALSE]}
  <2>1. /\ pc = "send" /\ id \in ContractId /\ nodeOf[id] = node /\ node \in Node
        /\ WellVersioned(sending) /\ current[node] = None
        /\ UNCHANGED <<ids, current, nodeOf>> /\ \A n \in Node : ids[n] # id
    BY <1>9 DEF DeploymentDeployFails, caller, chain, TypeInv, Handling, IdsInv, LeakInv, VersionInv
  <2>2. ~ IsIn(id, ids) /\ ~ IsIn(id, current)
    BY <2>1, NoneIsNoContractId DEF IsIn, IdsInv, Deploying
  <2>3. \A k \in late : k.id # id
    BY <2>1 DEF VersionInv, Stray
  <2>4. nodeOf'[id] # None
    BY <2>1, NoneIsNoNode
  <2>. DEFINE m == [id |-> id, dl |-> sending, update |-> FALSE]
  <2>5. m.id = id /\ m.dl = sending /\ m.update = FALSE
    OBVIOUS
  <2>6. \A k \in late' : /\ nodeOf'[k.id] # None
                         /\ k.update => FitsAfter(k.id, k.dl)
                         /\ ~ k.update => /\ WellVersioned(k.dl)
                                          /\ ~ IsIn(k.id, ids') /\ (Deploying' => ~ IsIn(k.id, current'))
                                          /\ \A j \in late' : j.update => j.id # k.id
    <3>. HIDE DEF m
    <3>1. late' = late \cup {m}
      BY <1>9 DEF m
    <3>2. /\ nodeOf'[m.id] # None /\ ~ m.update /\ WellVersioned(m.dl)
          /\ ~ IsIn(m.id, ids') /\ ~ IsIn(m.id, current')
      BY <2>1, <2>2, <2>4, <2>5
    <3>3. \A k \in late : k.id # m.id
      BY <2>3, <2>5
    <3>. QED BY <1>4, <1>7, <3>1, <3>2, <3>3
  <2>7. pc' = "undo"
    BY <1>9 DEF DeploymentDeployFails
  <2>. QED BY <1>1, <1>2, <2>6, <2>7 DEF VersionInv, FitsUpdate, FitsAfter
<1>10. CASE DeploymentUpdateFails /\ late' = late \cup {[id |-> id, dl |-> sending, update |-> TRUE]}
  <2>1. /\ pc = "put" /\ pc' = "error" /\ id \in ContractId /\ node \in Node
        /\ base[node] = id /\ current[node] = id
        /\ FitsUpdate(id, sending)
        /\ UNCHANGED nodeOf
    BY <1>10, NoneIsNoContractId DEF DeploymentUpdateFails, chain, TypeInv, Handling,
       LeakInv, VersionInv, Deploying
  <2>2. nodeOf'[id] # None
    BY <2>1, NoneIsNoContractId DEF LeakInv, Deploying
  <2>3. \A k \in late : ~ k.update => k.id # id
    BY <2>1, NoUpdateForNew
  <2>4. FitsAfter(id, sending)
    BY <1>3, <2>1, <2>3 DEF TypeInv, Handling
  <2>. DEFINE m == [id |-> id, dl |-> sending, update |-> TRUE]
  <2>5. m.id = id /\ m.dl = sending /\ m.update = TRUE
    OBVIOUS
  <2>6. \A k \in late' : /\ nodeOf'[k.id] # None
                         /\ k.update => FitsAfter(k.id, k.dl)
                         /\ ~ k.update => /\ WellVersioned(k.dl)
                                          /\ ~ IsIn(k.id, ids') /\ (Deploying' => ~ IsIn(k.id, current'))
                                          /\ \A j \in late' : j.update => j.id # k.id
    <3>. HIDE DEF m
    <3>1. late' = late \cup {m}
      BY <1>10 DEF m
    <3>2. nodeOf'[m.id] # None /\ m.update /\ FitsAfter(m.id, m.dl)
      BY <2>2, <2>4, <2>5
    <3>3. \A k \in late : ~ k.update => k.id # m.id
      BY <2>3, <2>5
    <3>. QED BY <1>4, <1>7, <3>1, <3>2, <3>3
  <2>. QED BY <1>1, <1>2, <2>1, <2>6 DEF VersionInv, FitsUpdate, FitsAfter
<1>11. \/ late' = late
       \/ DeploymentDeployFails /\ late' = late \cup {[id |-> id, dl |-> sending, update |-> FALSE]}
       \/ DeploymentUpdateFails /\ late' = late \cup {[id |-> id, dl |-> sending, update |-> TRUE]}
  BY DEF Next, Deploy, Cancel, Running, Reading, GetDeployment, GetDeploymentFails,
     GotDeployments, ValidateOk, ValidateFails, PrepareFails, Creating, CreateNodeContract,
     CreateNodeContractLost, Sending, DeploymentDeploy,
     DeploymentDeployFails, EnsureContractCanceled, EnsureContractCanceledFails, Updating,
     SkipUpdate, PrepareUpdate, UpdateNodeContract, UpdateNodeContractFails,
     DeploymentUpdate, DeploymentUpdateFails, Waiting, WaitOk, WaitFails, Ending, Deployed, Revert,
     Failed, Environment, Arrive, log, vars
<1>. QED BY <1>8, <1>9, <1>10, <1>11

\* In every deployment that replaces another, in whatever order requests arrive,
\* what changed is at the version of the deployment, and nothing is ahead of it.
THEOREM VersionsForward == Spec => VersionsAdvance
<1>1. TypeInv /\ LeakInv /\ VersionInv /\ [Next]_vars =>
        [\A c \in ContractId : held[c] # None /\ held'[c] \notin {None, held[c]} =>
           /\ WellVersioned(held'[c])
           /\ \A w \in Names(held'[c]) :
                (w \notin Names(held[c])
                   \/ held[c].workloads[w].data # held'[c].workloads[w].data)
                => held'[c].workloads[w].version = held'[c].version]_vars
  BY HeldNext DEF Advances
<1>. QED BY <1>1, TypeInit, TypeNext, LeakInit, LeakNext, LoopInit, IdsNext, VersionInit,
            VersionNext, PTL DEF Spec, VersionsAdvance
=============================================================================

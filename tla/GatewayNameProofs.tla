------------------------- MODULE GatewayNameProofs -------------------------
(***************************************************************************)
(* For any names, contract ids and number of calls: the name gateway's     *)
(* deployer accounts for its name contracts, tracks what it deploys, has   *)
(* the name before the node serves it, and leaves nothing behind when      *)
(* Cancel succeeds.                                                        *)
(***************************************************************************)
EXTENDS GatewayName, TLAPS

-----------------------------------------------------------------------------
(* Type correctness.                                                       *)

\* The steps that go on with a deployment, or with a name contract, have one.
TypeInv ==
  /\ TypeOK
  /\ pc = "wait" => gw.deployment \in ContractId
  /\ pc \in {"invalidate", "unmatched"} => gw.nameContract \in NameContractId

\* What the user asks for is a deployment.
LEMMA WantedType ==
  ASSUME TypeOK
  PROVE  Wanted \in Deployment
BY ConfigIsData DEF Wanted, Versionless, Deployment, Workload, TypeOK

\* Name contracts are created and end within their types.
LEMMA NamesType ==
  ASSUME TypeOK, NEW c, NEW n,
         (c \in NameContractId /\ CreateNameContract(c, n)) \/ CancelNameContract(c)
  PROVE  /\ nameOf' \in [NameContractId -> Name \cup {None}]
         /\ registered' \subseteq NameContractId
         /\ namesPaused' \subseteq registered'
BY DEF TypeOK, CreateNameContract, CancelNameContract, Free

\* What the update loop sends is a deployment.
LEMMA UpdateType ==
  ASSUME NEW dl \in Deployment, NEW h \in Deployment
  PROVE  Update(dl, h) \in Deployment
<1>1. ASSUME NEW w \in Name, w \in Names(dl)
      PROVE  [dl.workloads[w] EXCEPT !.version = UpdatedVersion(dl, h, w)] \in Workload
  <2>1. UpdatedVersion(dl, h, w) \in Nat
    BY <1>1 DEF UpdatedVersion, ConstructWorkloadVersions, Names, Deployment, Workload
  <2>2. dl.workloads[w] \in Workload
    BY <1>1 DEF Names, Deployment
  <2>. QED BY <2>1, <2>2 DEF Workload
<1>. QED BY <1>1 DEF Update, Deployment

\* What replaces a deployment has the names that were asked for.
LEMMA UpdateNames ==
  ASSUME NEW dl \in Deployment, NEW h \in Deployment
  PROVE  Names(Update(dl, h)) = Names(dl)
<1>. DEFINE d == Update(dl, h)
<1>1. ASSUME NEW w \in Names(dl) PROVE d.workloads[w] # None
  <2>1. dl.workloads[w] \in Workload
    BY DEF Names, Deployment
  <2>2. UpdatedVersion(dl, h, w) \in Nat
    BY <2>1 DEF UpdatedVersion, ConstructWorkloadVersions, Names, Deployment, Workload
  <2>3. d.workloads[w] = [dl.workloads[w] EXCEPT !.version = UpdatedVersion(dl, h, w)]
    BY DEF Update, Names
  <2>. QED BY <2>1, <2>2, <2>3, NoneIsNoWorkload DEF Workload
<1>2. ASSUME NEW w \in Name \ Names(dl) PROVE d.workloads[w] = None
  BY DEF Update
<1>. QED BY <1>1, <1>2 DEF Names

\* A deployment that is passed over has the names that were asked for.
LEMMA UnchangedNames ==
  ASSUME NEW dl, NEW h, Unchanged(dl, h)
  PROVE  Names(dl) = Names(h)
BY DEF Unchanged, HashDeployment, GetWorkloadHashes

\* Nothing a node starts over from is outside its states.
LEMMA StatesType ==
  ASSUME GridTypeOK, NEW c \in ContractId, NEW d
  PROVE  StatesAfter(c, d) \in [Name -> WorkloadState]
BY DEF GridTypeOK, StatesAfter, WorkloadState

\* Environment steps of the grid keep its types (Provision, LoseContract,
\* Decommission).
LEMMA GridNextType ==
  ASSUME GridTypeOK, GridNext
  PROVE  GridTypeOK'
<1>1. PICK c \in ContractId : \/ \E w \in Name : Provision(c, w)
                              \/ LoseContract(c)
                              \/ Decommission(c)
  BY DEF GridNext
<1>2. CASE \E w \in Name : Provision(c, w)
  <2>1. PICK w \in Name, s \in {"ok", "error"} :
          state' = [state EXCEPT ![c][w] = s] /\ UNCHANGED <<chain, held>>
    BY <1>2 DEF Provision
  <2>2. state' \in [ContractId -> [Name -> WorkloadState]]
    BY <2>1 DEF GridTypeOK, WorkloadState
  <2>. QED BY <2>1, <2>2 DEF GridTypeOK, chain
<1>3. CASE LoseContract(c)
  BY <1>3 DEF LoseContract, GridTypeOK, nodes
<1>4. CASE Decommission(c)
  BY <1>4 DEF Decommission, GridTypeOK, chain, WorkloadState
<1>. QED BY <1>1, <1>2, <1>3, <1>4

\* The grid's types are about its own variables.
LEMMA SameGrid ==
  ASSUME GridTypeOK, UNCHANGED <<chain, nodes>>
  PROVE  GridTypeOK'
BY DEF GridTypeOK, chain, nodes

\* Ending a contract, or none, keeps the grid's types.
LEMMA CancelType ==
  ASSUME GridTypeOK, NEW c, CancelContract(c), UNCHANGED nodes
  PROVE  GridTypeOK'
BY DEF GridTypeOK, CancelContract, nodes

\* Another hash on the chain keeps the grid's types.
LEMMA UpdateContractType ==
  ASSUME GridTypeOK, NEW c, NEW h, UpdateContract(c, h), UNCHANGED nodes
  PROVE  GridTypeOK'
BY DEF GridTypeOK, UpdateContract, nodes

\* A deployment that replaces another, with its contract, keeps the grid's types.
LEMMA ReplaceType ==
  ASSUME GridTypeOK, NEW c \in ContractId, NEW d \in Deployment, NEW h,
         UpdateContract(c, h), AcceptUpdate(c, d)
  PROVE  GridTypeOK'
<1>1. StatesAfter(c, d) \in [Name -> WorkloadState]
  BY StatesType
<1>. QED BY <1>1 DEF GridTypeOK, UpdateContract, AcceptUpdate, Hold

\* A new contract without a deployment keeps the grid's types.
LEMMA NewContractType ==
  ASSUME GridTypeOK, NEW c \in ContractId, NEW n \in Node, NEW h,
         CreateContract(c, n, h), UNCHANGED nodes
  PROVE  GridTypeOK'
BY NoneIsNoNode DEF GridTypeOK, CreateContract, nodes

\* A new contract and the first deployment under it keep the grid's types.
LEMMA CreateType ==
  ASSUME GridTypeOK, NEW c \in ContractId, NEW n \in Node, NEW d \in Deployment, NEW h,
         CreateContract(c, n, h), AcceptDeploy(c, d)
  PROVE  GridTypeOK'
<1>1. StatesAfter(c, d) \in [Name -> WorkloadState]
  BY StatesType
<1>. QED BY <1>1, NoneIsNoNode DEF GridTypeOK, CreateContract, AcceptDeploy, Hold

\* The gateway starts with a name and nothing deployed.
LEMMA TypeInit == Init => TypeInv
<1>. SUFFICES ASSUME Init PROVE TypeInv
  OBVIOUS
<1>1. GridTypeOK
  BY DEF Init, GridInit, GridTypeOK, WorkloadState
<1>. QED BY <1>1, MaxCallsIsNat DEF Init, TypeInv, TypeOK, PC

\* A step that leaves the user's side of the gateway alone keeps the types, if the grid and
\* the names keep theirs.
LEMMA SameClient ==
  ASSUME TypeInv, UNCHANGED client, GridTypeOK', paused' \subseteq live',
         registered' \subseteq registered, namesPaused' \subseteq registered', nameOf' = nameOf
  PROVE  TypeInv'
<1>1. /\ gw' = gw /\ current' = current /\ pc' = pc /\ before' = before /\ outcome' = outcome
      /\ lost' = lost /\ dropped' = dropped /\ leaked' = leaked /\ released' = released
      /\ calls' = calls
  BY DEF client
<1>2. TypeOK'
  BY <1>1 DEF TypeInv, TypeOK
<1>. QED BY <1>1, <1>2 DEF TypeInv

\* Every step of a call, of the user or of the grid keeps the types.
LEMMA TypeNext == TypeInv /\ [Next]_vars => TypeInv'
<1>. SUFFICES ASSUME TypeInv, [Next]_vars PROVE TypeInv'
  OBVIOUS
<1>. USE DEF TypeInv, TypeOK, PC
<1>1. CASE Deploy \/ Cancel \/ Sync
  <2>1. /\ UNCHANGED <<grid, names, gw, current, before, lost, dropped, leaked, released>>
        /\ pc' \in PC \ {"wait", "unmatched"} /\ outcome' = "none"
        /\ pc' = "invalidate" => gw.nameContract # None
    BY <1>1 DEF Deploy, Cancel, Sync, Start
  <2>2. calls' \in 0..MaxCalls
    <3>1. \/ calls < MaxCalls /\ calls' = calls + 1
          \/ calls' = calls
      BY <1>1, Zenon DEF Deploy, Cancel, Sync
    <3>2. calls \in 0..MaxCalls
      OBVIOUS
    <3>. HIDE DEF TypeInv, TypeOK
    <3>. QED BY <3>1, <3>2, MaxCallsIsNat
  <2>3. GridTypeOK'
    BY <2>1, SameGrid DEF grid
  <2>. QED BY <2>1, <2>2, <2>3 DEF names, grid, chain
<1>2. ASSUME NEW n \in Name, Rename(n) PROVE TypeInv'
  BY <1>2 DEF Rename, grid, chain, nodes, names, GridTypeOK
<1>3. CASE InvalidateFails
  <2>1. /\ nameOf' \in [NameContractId -> Name \cup {None}]
        /\ registered' \subseteq NameContractId
        /\ namesPaused' \subseteq registered'
    BY <1>3, NamesType DEF InvalidateFails, names
  <2>. QED BY <1>3, <2>1 DEF InvalidateFails, End, grid, chain, nodes, GridTypeOK
<1>4. CASE Invalidate
  <2>1. /\ pc = "invalidate" /\ UNCHANGED <<grid, names>>
        /\ UNCHANGED <<current, before, outcome, lost, leaked, released, calls>>
    BY <1>4 DEF Invalidate, Continue
  <2>2. GridTypeOK'
    BY <2>1, SameGrid DEF grid
  <2>3. CASE gw' = gw /\ pc' \in {"deploy", "unmatched"} /\ dropped' = dropped
    BY <2>1, <2>2, <2>3 DEF names, grid, chain
  <2>4. CASE Forget /\ pc' = "create"
    BY <2>1, <2>2, <2>4 DEF Forget, names, grid, chain
  <2>. QED BY <1>4, <2>3, <2>4 DEF Invalidate, Continue
<1>5. CASE CancelUnmatched
  BY <1>5, NamesType DEF CancelUnmatched, Continue, grid, chain, nodes, GridTypeOK
<1>6. CASE CreateName
  BY <1>6, NamesType DEF CreateName, Continue, grid, chain, nodes, GridTypeOK
<1>7. CASE CreateNameFails
  <2>1. /\ nameOf' \in [NameContractId -> Name \cup {None}]
        /\ registered' \subseteq NameContractId
        /\ namesPaused' \subseteq registered'
        /\ lost' \subseteq NameContractId
    BY <1>7, NamesType DEF CreateNameFails, names
  <2>. QED BY <1>7, <2>1 DEF CreateNameFails, End, grid, chain, nodes, GridTypeOK
<1>8. CASE HandToNode
  <2>1. CASE gw.deployment = None
    <3>1. PICK c \in ContractId, n \in Node :
            /\ CreateContract(c, n, HashDeployment(Wanted))
            /\ AcceptDeploy(c, Wanted)
            /\ gw' = [gw EXCEPT !.deployment = c] /\ before' = None
      BY <1>8, <2>1 DEF HandToNode, Present
    <3>2. GridTypeOK'
      BY <3>1, WantedType, CreateType
    <3>. QED BY <1>8, <3>1, <3>2 DEF HandToNode, CreateContract, Continue, names
  <2>2. CASE gw.deployment # None
    <3>. DEFINE d == Update(Wanted, held[gw.deployment])
    <3>1. /\ UpdateContract(gw.deployment, HashDeployment(d))
          /\ AcceptUpdate(gw.deployment, d)
          /\ before' = held[gw.deployment] /\ UNCHANGED gw
          /\ held[gw.deployment] # None
      BY <1>8, <2>2 DEF HandToNode, Present
    <3>2. gw.deployment \in ContractId /\ held[gw.deployment] \in Deployment
      BY <2>2, <3>1 DEF GridTypeOK
    <3>3. d \in Deployment
      BY <3>2, WantedType, UpdateType
    <3>4. GridTypeOK'
      BY <3>1, <3>2, <3>3, ReplaceType
    <3>. QED BY <1>8, <3>1, <3>2, <3>4 DEF HandToNode, UpdateContract, Continue, names
  <2>. QED BY <2>1, <2>2
<1>9. CASE Deployed
  <2>1. GridTypeOK'
    BY <1>9, SameGrid DEF Deployed, grid
  <2>. QED BY <1>9, <2>1 DEF Deployed, Record, End, names, grid, chain
<1>10. CASE DeployFails
  <2>1. GridTypeOK' /\ leaked' \subseteq ContractId /\ live \subseteq live'
    <3>1. CASE UNCHANGED <<chain, nodes, leaked>>
      BY <3>1, SameGrid DEF chain
    <3>2. ASSUME NEW c \in ContractId, NEW n \in Node,
                 CreateContract(c, n, HashDeployment(Wanted)),
                 UNCHANGED nodes \/ AcceptDeploy(c, Wanted),
                 leaked' = leaked \cup {c}
          PROVE  GridTypeOK' /\ leaked' \subseteq ContractId /\ live \subseteq live'
      <4>1. GridTypeOK'
        BY <3>2, WantedType, CreateType, NewContractType
      <4>. QED BY <3>2, <4>1 DEF CreateContract
    <3>3. CASE /\ Present
               /\ UpdateContract(gw.deployment, HashDeployment(Update(Wanted, held[gw.deployment])))
               /\ UNCHANGED <<nodes, leaked>>
      <4>1. GridTypeOK'
        BY <3>3, UpdateContractType DEF Present
      <4>. QED BY <3>3, <4>1 DEF UpdateContract
    <3>. QED BY <1>10, <3>1, <3>2, <3>3 DEF DeployFails
  <2>. QED BY <1>10, <2>1 DEF DeployFails, Record, End, names
<1>11. CASE WaitFails
  <2>1. GridTypeOK' /\ live' = live
    <3>1. CASE UNCHANGED <<chain, nodes>>
      BY <3>1, SameGrid DEF chain
    <3>2. CASE ~ UNCHANGED <<chain, nodes>>
      <4>. DEFINE d == Update(before, held[gw.deployment])
      <4>1. /\ before # None /\ held[gw.deployment] # None
            /\ UpdateContract(gw.deployment, HashDeployment(d))
            /\ UNCHANGED nodes \/ AcceptUpdate(gw.deployment, d)
        BY <1>11, <3>2 DEF WaitFails
      <4>2. gw.deployment \in ContractId /\ d \in Deployment
        BY <1>11, <4>1, UpdateType DEF WaitFails, GridTypeOK
      <4>3. GridTypeOK'
        BY <4>1, <4>2, ReplaceType, UpdateContractType
      <4>. QED BY <4>1, <4>3 DEF UpdateContract
    <3>. QED BY <3>1, <3>2
  <2>. QED BY <1>11, <2>1 DEF WaitFails, Record, End, names
<1>12. CASE CancelNode
  <2>1. GridTypeOK'
    BY <1>12, CancelType DEF CancelNode, CancelNodeContract
  <2>. QED BY <1>12, <2>1 DEF CancelNode, CancelNodeContract, CancelContract, End, Continue, names
<1>13. CASE CancelName
  BY <1>13, NamesType DEF CancelName, End, grid, chain, nodes, GridTypeOK
<1>14. CASE CancelFails
  <2>1. GridTypeOK' /\ paused' \subseteq live'
    <3>1. CASE UNCHANGED <<chain, paused>>
      <4>1. GridTypeOK'
        BY <1>14, <3>1, SameGrid DEF CancelFails
      <4>. QED BY <3>1, <4>1 DEF chain
    <3>2. CASE CancelNodeContract(gw.deployment)
      <4>1. GridTypeOK'
        BY <1>14, <3>2, CancelType DEF CancelFails, CancelNodeContract
      <4>. QED BY <3>2, <4>1 DEF CancelNodeContract, CancelContract
    <3>. QED BY <1>14, <3>1, <3>2 DEF CancelFails
  <2>2. /\ nameOf' \in [NameContractId -> Name \cup {None}]
        /\ registered' \subseteq NameContractId
        /\ namesPaused' \subseteq registered'
    BY <1>14, NamesType DEF CancelFails, names
  <2>. QED BY <1>14, <2>1, <2>2 DEF CancelFails, End
<1>15. CASE SyncNode
  BY <1>15 DEF SyncNode, Continue, grid, chain, nodes, names, GridTypeOK
<1>16. CASE SyncName
  BY <1>16 DEF SyncName, Continue, grid, chain, nodes, names, GridTypeOK
<1>17. CASE SyncWorkload
  BY <1>17 DEF SyncWorkload, End, grid, chain, nodes, names, GridTypeOK
<1>18. CASE SyncFails
  BY <1>18 DEF SyncFails, End, grid, chain, nodes, names, GridTypeOK
<1>19. CASE Environment
  <2>. HIDE DEF TypeInv, TypeOK
  <2>. SUFFICES ASSUME /\ GridTypeOK' /\ paused' \subseteq live'
                       /\ registered' \subseteq registered
                       /\ namesPaused' \subseteq registered'
                       /\ nameOf' = nameOf
                PROVE  TypeInv'
    <3>0. /\ GridTypeOK /\ paused \subseteq live /\ namesPaused \subseteq registered
      BY DEF TypeInv, TypeOK
    <3>1. CASE GridNext /\ paused' = paused \cap live' /\ UNCHANGED names
      BY <3>0, <3>1, GridNextType DEF names
    <3>2. ASSUME NEW c \in ContractId, Pause(c) \/ Resume(c), UNCHANGED <<chain, nodes, names>>
          PROVE  /\ GridTypeOK' /\ paused' \subseteq live' /\ registered' \subseteq registered
                 /\ namesPaused' \subseteq registered' /\ nameOf' = nameOf
      <4>1. GridTypeOK' /\ live' = live
        BY <3>2, <3>0, SameGrid DEF chain
      <4>. QED BY <3>0, <3>2, <4>1 DEF Pause, Resume, names
    <3>3. ASSUME NEW c \in NameContractId, LoseName(c) \/ PauseName(c) \/ ResumeName(c),
                 UNCHANGED grid
          PROVE  /\ GridTypeOK' /\ paused' \subseteq live' /\ registered' \subseteq registered
                 /\ namesPaused' \subseteq registered' /\ nameOf' = nameOf
      <4>1. GridTypeOK' /\ live' = live /\ paused' = paused
        BY <3>3, <3>0, SameGrid DEF grid, chain
      <4>. QED BY <3>0, <3>3, <4>1 DEF LoseName, PauseName, ResumeName, CancelNameContract
    <3>. QED BY <1>19, <3>1, <3>2, <3>3 DEF Environment
  <2>1. UNCHANGED client
    BY <1>19 DEF Environment
  <2>. QED BY <2>1, SameClient
<1>20. CASE UNCHANGED vars
  <2>. HIDE DEF TypeInv, TypeOK
  <2>1. GridTypeOK' /\ paused' \subseteq live' /\ namesPaused' \subseteq registered'
    BY <1>20, SameGrid DEF TypeInv, TypeOK, vars, chain, nodes
  <2>. QED BY <1>20, <2>1, SameClient DEF vars, client
<1>. QED
  BY <1>1, <1>2, <1>3, <1>4, <1>5, <1>6, <1>7, <1>8, <1>9, <1>10, <1>11, <1>12, <1>13,
     <1>14, <1>15, <1>16, <1>17, <1>18, <1>19, <1>20
  DEF Next

\* Every variable of GatewayName keeps its type, for all values of the constants.
THEOREM TypeCorrect == Spec => []TypeOK
<1>1. TypeInv => TypeOK
  BY DEF TypeInv
<1>. QED BY <1>1, TypeInit, TypeNext, PTL DEF Spec

-----------------------------------------------------------------------------
(* Name contracts.                                                         *)

\* Deploy creates a name contract only when it has none.
NamesInv == NamesAccounted /\ (pc = "create" => gw.nameContract = None)

\* No step makes a live name contract one that is neither recorded, lost nor dropped.
LEMMA NamesNext == TypeInv /\ NamesInv /\ [Next]_vars => NamesInv'
<1>. SUFFICES ASSUME TypeInv, NamesInv, [Next]_vars PROVE NamesInv'
  OBVIOUS
<1>0. /\ None \notin registered
      /\ gw \in [name : Name \cup {Empty}, nameContract : NameContractId \cup {None},
                 deployment : ContractId \cup {None}, contract : ContractId \cup {None}]
  BY NoneIsNoNameContractId DEF TypeInv, TypeOK
<1>. USE <1>0 DEF NamesInv, NamesAccounted
<1>1. CASE Deploy \/ Cancel \/ Sync
  BY <1>1 DEF Deploy, Cancel, Sync, Start, names
<1>2. ASSUME NEW n \in Name, Rename(n) PROVE NamesInv'
  BY <1>2 DEF Rename, names
<1>3. CASE InvalidateFails
  BY <1>3 DEF InvalidateFails, CancelNameContract, End, names
<1>4. CASE Invalidate
  BY <1>4 DEF Invalidate, Forget, CreatedNames, Continue, names
<1>5. CASE CancelUnmatched
  BY <1>5 DEF CancelUnmatched, CancelNameContract, Continue
<1>6. CASE CreateName
  BY <1>6 DEF CreateName, CreateNameContract, Continue
<1>7. CASE CreateNameFails
  BY <1>7 DEF CreateNameFails, CreateNameContract, End, names
<1>8. CASE HandToNode
  BY <1>8 DEF HandToNode, Continue, names
<1>9. CASE Deployed
  BY <1>9 DEF Deployed, Record, End, names
<1>10. CASE DeployFails
  BY <1>10 DEF DeployFails, Record, End, names
<1>11. CASE WaitFails
  BY <1>11 DEF WaitFails, Record, End, names
<1>12. CASE CancelNode
  BY <1>12 DEF CancelNode, End, Continue, names
<1>13. CASE CancelName
  BY <1>13 DEF CancelName, CancelNameContract, End
<1>14. CASE CancelFails
  BY <1>14 DEF CancelFails, CancelNameContract, End, names
<1>15. CASE SyncNode
  BY <1>15 DEF SyncNode, Continue, names
<1>16. CASE SyncName
  BY <1>16 DEF SyncName, CreatedNames, Continue, names
<1>17. CASE SyncWorkload
  BY <1>17 DEF SyncWorkload, End, names
<1>18. CASE SyncFails
  BY <1>18 DEF SyncFails, End, names
<1>19. CASE Environment
  <2>1. registered' \subseteq registered /\ UNCHANGED client
    BY <1>19 DEF Environment, LoseName, PauseName, ResumeName, CancelNameContract, names
  <2>. QED BY <2>1 DEF client
<1>20. CASE UNCHANGED vars
  BY <1>20 DEF vars
<1>. QED
  BY <1>1, <1>2, <1>3, <1>4, <1>5, <1>6, <1>7, <1>8, <1>9, <1>10, <1>11, <1>12, <1>13,
     <1>14, <1>15, <1>16, <1>17, <1>18, <1>19, <1>20
  DEF Next

\* Each live name contract is gw.NameContractID, or was never acknowledged, or was
\* forgotten on an error of InvalidateNameContract or in its grace period.
THEOREM NamesKept == Spec => []NamesAccounted
<1>1. Init => NamesInv
  BY DEF Init, NamesInv, NamesAccounted
<1>2. NamesInv => NamesAccounted
  BY DEF NamesInv
<1>. QED BY <1>1, <1>2, TypeInit, TypeNext, NamesNext, PTL DEF Spec

-----------------------------------------------------------------------------
(* Deployments.                                                            *)

\* Only while Deploy waits is a deployment not recorded yet.
TracksInv ==
  /\ pc # "wait" /\ gw.deployment # None =>
       gw.deployment \in current /\ gw.contract = gw.deployment
  /\ live \ leaked \subseteq current \cup (IF pc = "wait" THEN {gw.deployment} ELSE {})

\* No contract but the gateway's deployment and those leaked or released is live; a
\* Cancel under way has ended the first.
CancelInv ==
  /\ live \subseteq {gw.deployment} \cup leaked \cup released
  /\ pc = "cancel name" => gw.deployment = None
  /\ outcome = "cancelled" => pc = "idle" /\ gw.deployment = None /\ gw.nameContract = None

\* No step leaves a deployment the deployer does not know of.
LEMMA DeploymentNext ==
  TypeInv /\ TracksInv /\ CancelInv /\ [Next]_vars => TracksInv' /\ CancelInv'
<1>. SUFFICES ASSUME TypeInv, TracksInv, CancelInv, [Next]_vars
              PROVE  TracksInv' /\ CancelInv'
  OBVIOUS
<1>0. /\ None \notin live
      /\ gw \in [name : Name \cup {Empty}, nameContract : NameContractId \cup {None},
                 deployment : ContractId \cup {None}, contract : ContractId \cup {None}]
  BY NoneIsNoContractId DEF TypeInv, TypeOK, GridTypeOK
<1>. USE <1>0 DEF TracksInv, CancelInv
<1>1. CASE Deploy \/ Cancel \/ Sync
  BY <1>1 DEF Deploy, Cancel, Sync, Start, grid, chain
<1>2. ASSUME NEW n \in Name, Rename(n) PROVE TracksInv' /\ CancelInv'
  BY <1>2 DEF Rename, grid, chain
<1>3. CASE InvalidateFails
  BY <1>3 DEF InvalidateFails, End, grid, chain
<1>4. CASE Invalidate
  BY <1>4 DEF Invalidate, Forget, Continue, grid, chain
<1>5. CASE CancelUnmatched
  BY <1>5 DEF CancelUnmatched, Continue, grid, chain
<1>6. CASE CreateName
  BY <1>6 DEF CreateName, Continue, grid, chain
<1>7. CASE CreateNameFails
  BY <1>7 DEF CreateNameFails, End, grid, chain
<1>8. CASE HandToNode
  BY <1>8 DEF HandToNode, Present, CreateContract, UpdateContract, Continue
<1>9. CASE Deployed
  BY <1>9 DEF Deployed, Record, End, grid, chain
<1>10. CASE DeployFails
  BY <1>10 DEF DeployFails, Record, End, CreateContract, UpdateContract, chain
<1>11. CASE WaitFails
  BY <1>11 DEF WaitFails, Record, End, UpdateContract, chain
<1>12. CASE CancelNode
  BY <1>12 DEF CancelNode, CancelNodeContract, CancelContract, End, Continue
<1>13. CASE CancelName
  BY <1>13 DEF CancelName, End, grid, chain
<1>14. CASE CancelFails
  BY <1>14 DEF CancelFails, CancelNodeContract, CancelContract, End, grid, chain
<1>15. CASE SyncNode
  BY <1>15 DEF SyncNode, Created, Continue, grid, chain
<1>16. CASE SyncName
  BY <1>16 DEF SyncName, Continue, grid, chain
<1>17. CASE SyncWorkload
  BY <1>17 DEF SyncWorkload, End, grid, chain
<1>18. CASE SyncFails
  BY <1>18 DEF SyncFails, End, grid, chain
<1>19. CASE Environment
  <2>1. live' \subseteq live /\ UNCHANGED client
    BY <1>19 DEF Environment, GridNext, Provision, LoseContract, Decommission, LoseName,
       Pause, Resume, grid, chain
  <2>. QED BY <2>1 DEF client
<1>20. CASE UNCHANGED vars
  BY <1>20 DEF vars, chain
<1>. QED
  BY <1>1, <1>2, <1>3, <1>4, <1>5, <1>6, <1>7, <1>8, <1>9, <1>10, <1>11, <1>12, <1>13,
     <1>14, <1>15, <1>16, <1>17, <1>18, <1>19, <1>20
  DEF Next

\* The gateway starts with nothing deployed.
LEMMA DeploymentInit == Init => TracksInv /\ CancelInv
BY DEF Init, GridInit, TracksInv, CancelInv

\* What a call leaves on the node is found through State and gw.ContractID.
THEOREM Tracked == Spec => []TracksDeployments
<1>1. TracksInv => TracksDeployments
  BY DEF TracksInv, TracksDeployments
<1>. QED BY <1>1, TypeInit, TypeNext, DeploymentInit, DeploymentNext, PTL DEF Spec

\* After a Cancel that returned nil nothing the deployer knows of costs money: what
\* goes on it was never told of, or forgot on an error or in a grace period.
THEOREM NothingLeft == Spec => []CancelLeavesNothing
<1>1. TypeInv /\ NamesInv /\ CancelInv => CancelLeavesNothing
  BY NoneIsNoContractId, NoneIsNoNameContractId
  DEF TypeInv, TypeOK, GridTypeOK, NamesInv, NamesAccounted, CancelInv, CancelLeavesNothing
<1>2. Init => NamesInv
  BY DEF Init, NamesInv, NamesAccounted
<1>. QED
  BY <1>1, <1>2, TypeInit, TypeNext, NamesNext, DeploymentInit, DeploymentNext, PTL DEF Spec

-----------------------------------------------------------------------------
(* The name first.                                                         *)

\* The gateway's contract is one for its name.
OwnsName == gw.nameContract # None /\ nameOf[gw.nameContract] = gw.name

\* What the gateway's contract holds is a gateway of its name.
ServesName ==
  /\ gw.deployment \in ContractId
  /\ held[gw.deployment] # None => Names(held[gw.deployment]) = {gw.name}

\* Deploy goes on to the node with a contract for the name, which no name contract
\* of the chain ever loses.
OwnsInv ==
  /\ pc \in {"deploy", "wait"} => OwnsName
  /\ pc = "wait" => ServesName
  /\ outcome = "deployed" => pc = "idle" /\ OwnsName /\ ServesName

\* A gateway that has a contract for its name asks for a deployment of that name.
LEMMA WantedName ==
  ASSUME TypeInv, OwnsName
  PROVE  Names(Wanted) = {gw.name} /\ Wanted \in Deployment
<1>1. Wanted \in Deployment
  BY WantedType DEF TypeInv
<1>2. gw.name \in Name
  BY EmptyIsNoGatewayName DEF TypeInv, TypeOK, OwnsName
<1>3. \A w \in Name : Wanted.workloads[w] =
         IF w = gw.name THEN [version |-> 0, data |-> Config] ELSE None
  BY <1>2 DEF Wanted, Versionless
<1>4. [version |-> 0, data |-> Config] # None
  BY ConfigIsData, NoneIsNoWorkload DEF Workload
<1>. QED BY <1>1, <1>2, <1>3, <1>4 DEF Names

\* What Deploy hands the node serves the name of the gateway's contract.
LEMMA HandsName ==
  ASSUME TypeInv, OwnsInv, HandToNode
  PROVE  /\ UNCHANGED nameOf /\ OwnsName' /\ OwnsName
         /\ ServesName'
         /\ \A c \in ContractId : c # gw'.deployment => held'[c] = held[c]
<1>1. pc = "deploy" /\ OwnsName
  BY DEF HandToNode, OwnsInv
<1>2. Names(Wanted) = {gw.name} /\ Wanted \in Deployment
  BY <1>1, WantedName
<1>3. CASE gw.deployment = None
  <2>1. PICK c \in ContractId : /\ held' = [held EXCEPT ![c] = Wanted]
                                /\ gw' = [gw EXCEPT !.deployment = c]
    BY <1>3 DEF HandToNode, AcceptDeploy, Hold, Present
  <2>2. /\ gw'.deployment = c /\ gw'.name = gw.name /\ gw'.nameContract = gw.nameContract
        /\ held'[c] = Wanted /\ \A b \in ContractId \ {c} : held'[b] = held[b]
    BY <2>1 DEF TypeInv, TypeOK, GridTypeOK
  <2>. QED BY <1>1, <1>2, <2>2 DEF HandToNode, OwnsName, ServesName, names
<1>4. CASE gw.deployment # None
  <2>. DEFINE d == Update(Wanted, held[gw.deployment])
  <2>1. /\ held[gw.deployment] # None /\ UNCHANGED gw
        /\ held' = [held EXCEPT ![gw.deployment] = d]
    BY <1>4 DEF HandToNode, AcceptUpdate, Hold, Present
  <2>2. gw.deployment \in ContractId /\ held[gw.deployment] \in Deployment
    BY <1>4, <2>1 DEF TypeInv, TypeOK, GridTypeOK
  <2>3. Names(d) = {gw.name}
    BY <1>2, <2>2, UpdateNames
  <2>4. held'[gw.deployment] = d /\ \A b \in ContractId \ {gw.deployment} : held'[b] = held[b]
    BY <2>1, <2>2 DEF TypeInv, TypeOK, GridTypeOK
  <2>. QED BY <1>1, <2>1, <2>2, <2>3, <2>4 DEF HandToNode, OwnsName, ServesName, names
<1>. QED BY <1>3, <1>4

\* Every step keeps Deploy's order: the name, then the node.
LEMMA OwnsNext == TypeInv /\ OwnsInv /\ [Next]_vars => OwnsInv'
<1>. SUFFICES ASSUME TypeInv, OwnsInv, [Next]_vars PROVE OwnsInv'
  OBVIOUS
<1>0. gw \in [name : Name \cup {Empty}, nameContract : NameContractId \cup {None},
              deployment : ContractId \cup {None}, contract : ContractId \cup {None}]
  BY DEF TypeInv, TypeOK
<1>1. ASSUME pc' \notin {"deploy", "wait"}, outcome' # "deployed" PROVE OwnsInv'
  BY <1>1 DEF OwnsInv
<1>2. CASE \/ Deploy \/ Cancel \/ Sync \/ (\E n \in Name : Rename(n))
           \/ InvalidateFails \/ CreateNameFails \/ DeployFails \/ WaitFails
           \/ CancelName \/ CancelFails \/ SyncWorkload \/ SyncFails
  <2>1. CASE Deploy \/ Cancel \/ Sync \/ (\E n \in Name : Rename(n))
    BY <1>1, <2>1 DEF Deploy, Cancel, Sync, Start, Rename
  <2>2. CASE \/ InvalidateFails \/ CreateNameFails \/ DeployFails \/ WaitFails
             \/ CancelName \/ CancelFails \/ SyncWorkload \/ SyncFails
    BY <1>1, <2>2 DEF InvalidateFails, CreateNameFails, DeployFails, WaitFails, CancelName,
       CancelFails, SyncWorkload, SyncFails, End
  <2>. QED BY <1>2, <2>1, <2>2
<1>3. CASE CancelUnmatched \/ CancelNode \/ SyncNode \/ SyncName
  BY <1>1, <1>3 DEF CancelUnmatched, CancelNode, SyncNode, SyncName, End, Continue, OwnsInv
<1>4. CASE Invalidate
  BY <1>0, <1>4, NoneIsNoNameContractId DEF Invalidate, Forget, Continue, OwnsInv, OwnsName, names, TypeInv
<1>5. CASE CreateName
  <2>1. PICK c \in NameContractId :
          /\ nameOf' = [nameOf EXCEPT ![c] = gw.name]
          /\ gw' = [gw EXCEPT !.nameContract = c]
    BY <1>5 DEF CreateName, CreateNameContract
  <2>2. OwnsName'
    BY <1>0, <2>1, NoneIsNoNameContractId DEF OwnsName, TypeInv, TypeOK
  <2>. QED BY <1>5, <2>2 DEF CreateName, Continue, OwnsInv
<1>6. CASE HandToNode
  BY <1>6, HandsName DEF HandToNode, Continue, OwnsInv
<1>7. CASE Deployed
  <2>1. ServesName /\ OwnsName
    <3>1. CASE pc = "wait"
      BY <3>1 DEF OwnsInv
    <3>2. CASE pc # "wait"
      <4>1. pc = "deploy" /\ Present /\ Unchanged(Wanted, held[gw.deployment])
        BY <1>7, <3>2 DEF Deployed
      <4>2. gw.deployment \in ContractId /\ held[gw.deployment] \in Deployment
        BY <1>0, <4>1 DEF Present, TypeInv, TypeOK, GridTypeOK
      <4>3. OwnsName /\ Names(Wanted) = {gw.name} /\ Wanted \in Deployment
        BY <4>1, WantedName DEF OwnsInv
      <4>4. Names(Wanted) = Names(held[gw.deployment])
        BY <4>1, UnchangedNames
      <4>. QED BY <4>2, <4>3, <4>4 DEF ServesName
    <3>. QED BY <3>1, <3>2
  <2>2. /\ UNCHANGED <<held, nameOf>> /\ pc' = "idle"
        /\ gw' = gw \/ gw' = [gw EXCEPT !.contract = gw.deployment]
    BY <1>7 DEF Deployed, Record, End, grid, nodes, names
  <2>3. gw'.name = gw.name /\ gw'.deployment = gw.deployment /\ gw'.nameContract = gw.nameContract
    BY <1>0, <2>2
  <2>. QED BY <2>1, <2>2, <2>3 DEF OwnsInv, OwnsName, ServesName
<1>8. CASE Environment
  <2>1. UNCHANGED client /\ UNCHANGED nameOf
    BY <1>8 DEF Environment, LoseName, PauseName, ResumeName, CancelNameContract, names
  <2>2. \A c \in ContractId : held'[c] \in {None, held[c]}
    BY <1>8 DEF Environment, GridNext, Provision, LoseContract, Decommission, grid, nodes, TypeInv,
       TypeOK, GridTypeOK
  <2>. QED BY <2>1, <2>2 DEF client, OwnsInv, OwnsName, ServesName
<1>9. CASE UNCHANGED vars
  BY <1>9 DEF vars, nodes, OwnsInv, OwnsName, ServesName
<1>. QED BY <1>2, <1>3, <1>4, <1>5, <1>6, <1>7, <1>8, <1>9 DEF Next

\* After a Deploy that returned nil the user's name contract is for the name the node
\* serves.
THEOREM NameOwned == Spec => []SuccessOwnsName
<1>1. Init => OwnsInv
  BY DEF Init, OwnsInv
<1>2. OwnsInv => SuccessOwnsName
  BY DEF OwnsInv, OwnsName, ServesName, SuccessOwnsName
<1>. QED BY <1>1, <1>2, TypeInit, TypeNext, OwnsNext, PTL DEF Spec

\* Whenever Deploy hands the node a gateway, the user has a contract for its name.
THEOREM NameFirst == Spec => NameBeforeNode
<1>1. Init => OwnsInv
  BY DEF Init, OwnsInv
<1>2. TypeInv /\ OwnsInv /\ [Next]_vars =>
        [\A c \in ContractId : pc = "deploy" /\ held'[c] \notin {None, held[c]} =>
           gw.nameContract # None /\ Names(held'[c]) = {nameOf[gw.nameContract]}]_vars
  <2>. SUFFICES ASSUME TypeInv, OwnsInv, [Next]_vars, pc = "deploy",
                       NEW c \in ContractId, held'[c] \notin {None, held[c]}
                PROVE  OwnsName /\ Names(held'[c]) = {gw.name}
    BY DEF OwnsName
  <2>1. CASE HandToNode
    <3>1. c = gw'.deployment /\ gw'.name = gw.name /\ ServesName' /\ OwnsName
      BY <2>1, HandsName DEF HandToNode, TypeInv, TypeOK
    <3>. QED BY <3>1 DEF ServesName
  <2>2. CASE Environment
    BY <2>2 DEF Environment, GridNext, Provision, LoseContract, Decommission, grid, nodes, TypeInv,
       TypeOK, GridTypeOK
  <2>3. CASE DeployFails
    <3>1. OwnsName /\ Names(Wanted) = {gw.name}
      BY WantedName DEF OwnsInv
    <3>2. PICK b \in ContractId : AcceptDeploy(b, Wanted)
      BY <2>3 DEF DeployFails, nodes
    <3>3. held'[c] = Wanted
      BY <3>2 DEF AcceptDeploy, Hold, TypeInv, TypeOK, GridTypeOK
    <3>. QED BY <3>1, <3>3
  <2>4. CASE \/ Deploy \/ Cancel \/ Sync \/ (\E n \in Name : Rename(n)) \/ UNCHANGED vars
    BY <2>4 DEF Deploy, Cancel, Sync, Start, Rename, grid, nodes, vars
  <2>5. CASE \/ InvalidateFails \/ Invalidate \/ CancelUnmatched
             \/ CreateName \/ CreateNameFails \/ Deployed
    BY <2>5 DEF InvalidateFails, Invalidate, CancelUnmatched, CreateName, CreateNameFails,
       Deployed, grid, nodes
  <2>6. CASE \/ WaitFails \/ CancelNode \/ CancelName \/ CancelFails
             \/ SyncNode \/ SyncName \/ SyncWorkload \/ SyncFails
    BY <2>6 DEF WaitFails, CancelNode, CancelName, CancelFails, SyncNode, SyncName,
       SyncWorkload, SyncFails, grid, nodes
  <2>. QED BY <2>1, <2>2, <2>3, <2>4, <2>5, <2>6 DEF Next
<1>. QED BY <1>1, <1>2, TypeInit, TypeNext, OwnsNext, PTL DEF Spec, NameBeforeNode
=============================================================================

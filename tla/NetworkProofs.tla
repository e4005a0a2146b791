--------------------------- MODULE NetworkProofs ---------------------------
(***************************************************************************)
(* For any nodes, octets and number of calls: no contract of the network   *)
(* is out of sight, a node keeps its subnet and key, what State says of it *)
(* is true, and after a Deploy that returned nil subnets are distinct and  *)
(* everybody reaches everybody.                                            *)
(***************************************************************************)
EXTENDS Network, FiniteSetTheorems, TLAPS

-----------------------------------------------------------------------------
(* Type correctness.                                                       *)

\* What a call of Deploy has worked out by the time it deploys.
PlanInv ==
  /\ pc = "generate" => asked = wg
  /\ pc \in {"generate", "deploy"} /\ ~ wg => external = None
  /\ pc = "deploy" /\ wg => external # None
  /\ pc = "deploy" =>
       /\ asked = wg /\ hidden = Hidden /\ accessible = Accessible(public)
       /\ \A n \in Members : ranges[n] # None /\ keys[n] # 0
       /\ NeedsIPv4Access => public \in Node
       /\ wg => access = [external |-> external, public |-> public, key |-> keys[public]]

\* Besides the types: the public node has an IPv4 address, a node has the deployment
\* of a contract that goes on, with a key, and State lists ids.
TypeInv ==
  /\ TypeOK
  /\ nodes # {}
  /\ public # None => kind[public] = "ipv4"
  /\ \A n \in live : held[n] # None
  /\ \A n \in Node : /\ held[n] # None => held[n].key # 0
                     /\ listed[n] \subseteq 0..made[n]
  /\ PlanInv

\* Octets are numbers, and None is not.
LEMMA Octets == Octet \subseteq Nat /\ None \notin Octet /\ None \notin Node
BY LastOctetIsNat, NoneIsNothing DEF Octet

\* No network is deployed at first.
LEMMA TypeInit == Init => TypeInv
<1>. SUFFICES ASSUME Init PROVE TypeInv
  OBVIOUS
<1>1. deploys \in 0..MaxDeploys /\ edits \in 0..MaxEdits /\ losses \in 0..MaxLosses
  BY MaxIsNat DEF Init
<1>2. /\ ranges \in [Node -> Octet \cup {None}] /\ keys \in [Node -> Nat]
      /\ subnets \in [Node -> Octet \cup {None}] /\ listed \in [Node -> SUBSET Nat]
      /\ made \in [Node -> Nat] /\ held \in [Node -> Deployment \cup {None}]
  BY DEF Init, Nothing
<1>3. TypeOK
  BY <1>1, <1>2 DEF Init, TypeOK
<1>. QED BY <1>3 DEF Init, TypeInv, PlanInv, Nothing

\* AssignNodesIPs leaves every node it is given with the range it had, if it had one,
\* and else with one that is free; and the user with one exactly if he asked for access.
LEMMA Assigned ==
  ASSUME TypeInv, pc = "generate", NEW all \in SUBSET Node, AssignNodesIPs(all)
  PROVE  /\ external' \in Octet \cup {None}
         /\ external' = None <=> ~ wg
         /\ external' # external => external' \in Free(all)
         /\ ranges' \in [Node -> Octet \cup {None}]
         /\ \A n \in all : /\ ranges'[n] # None
                           /\ ranges[n] # None => ranges'[n] = ranges[n]
                           /\ ranges[n] = None => ranges'[n] \in Free(all) \ {external'}
         /\ \A n, m \in all :
              n # m /\ ranges[n] = None /\ ranges[m] = None => ranges'[n] # ranges'[m]
         /\ \A n \in Node \ all : ranges'[n] = None
<1>. DEFINE given == IF NeedsExternal THEN FirstOf(Free(all), 1) ELSE {}
            fresh == all \ Kept(all)
            others == FirstOf(Free(all) \ given, Cardinality(fresh))
<1>1. /\ given \subseteq Free(all) /\ others \subseteq Free(all) \ given
      /\ Free(all) \subseteq Octet
  BY DEF FirstOf, Free
<1>2. PICK f \in Bijection(fresh, others) :
         ranges' = [n \in Node |-> IF n \in fresh THEN f[n]
                                   ELSE IF n \in all THEN ranges[n] ELSE None]
  BY DEF AssignNodesIPs
<1>3. external' \in IF NeedsExternal THEN given ELSE {external}
  BY DEF AssignNodesIPs
<1>. HIDE DEF given, others
<1>4. /\ \A n \in fresh : f[n] \in others
      /\ \A n, m \in fresh : n # m => f[n] # f[m]
  BY <1>2 DEF Bijection, Injection, IsInjective, Surjection
<1>5. /\ fresh = {n \in all : ranges[n] = None}
      /\ ranges \in [Node -> Octet \cup {None}]
  BY DEF Kept, TypeInv, TypeOK
<1>7. external \in Octet \cup {None} /\ (~ wg => external = None)
  BY DEF TypeInv, TypeOK, PlanInv
<1>8. external' = None <=> ~ wg
  BY <1>1, <1>3, <1>7, Octets DEF NeedsExternal
<1>9. external' \notin others
  BY <1>1, <1>3, <1>7, Octets DEF NeedsExternal, Free
<1>. HIDE DEF fresh
<1>10. ranges' \in [Node -> Octet \cup {None}]
  BY <1>1, <1>2, <1>4, <1>5
<1>11. \A n \in Node : ranges'[n] = IF n \in fresh THEN f[n]
                                   ELSE IF n \in all THEN ranges[n] ELSE None
  BY <1>2
<1>12. external' \in Octet \cup {None}
  BY <1>1, <1>3, <1>7
<1>13. \A n \in all : /\ ranges'[n] # None
                      /\ ranges[n] # None => ranges'[n] = ranges[n]
                      /\ ranges[n] = None => ranges'[n] \in Free(all) \ {external'}
  BY <1>1, <1>4, <1>5, <1>9, <1>11, Octets
<1>14. \A n, m \in all :
         n # m /\ ranges[n] = None /\ ranges[m] = None => ranges'[n] # ranges'[m]
  BY <1>4, <1>5, <1>11
<1>15. \A n \in Node \ all : ranges'[n] = None
  BY <1>5, <1>11
<1>16. external' # external => external' \in Free(all)
  BY <1>1, <1>3
<1>. QED BY <1>8, <1>10, <1>12, <1>13, <1>14, <1>15, <1>16

\* A node that has a key keeps it, and one that is given has one.
LEMMA KeysAssigned ==
  ASSUME TypeInv, NEW all \in SUBSET Node, AssignKeys(all)
  PROVE  /\ keys' \in [Node -> Nat]
         /\ \A n \in all : keys'[n] # 0
         /\ \A n \in Node : keys[n] # 0 => keys'[n] = keys[n]
<1>1. keys \in [Node -> Nat] /\ made \in [Node -> Nat]
  BY DEF TypeInv, TypeOK
<1>. QED BY <1>1 DEF AssignKeys

\* The public node has an IPv4 address, and there is one when it is needed.
LEMMA PublicChosen ==
  ASSUME TypeInv, NEW p \in PublicNodes
  PROVE  /\ p \in Node \cup {None} /\ (p # None => kind[p] = "ipv4")
         /\ NeedsIPv4Access => p \in Node
         /\ Hidden \subseteq Node /\ Accessible(p) \subseteq Node
         /\ AllNodes(p) \subseteq Node /\ nodes \subseteq AllNodes(p)
<1>1. nodes \subseteq Node /\ public \in Node \cup {None}
  BY DEF TypeInv, TypeOK
<1>2. p \in Node \cup {None} /\ (NeedsIPv4Access => p \in Node)
  BY <1>1 DEF PublicNodes
<1>3. p # None => kind[p] = "ipv4"
  BY DEF PublicNodes, TypeInv
<1>. QED BY <1>1, <1>2, <1>3 DEF AllNodes, Accessible, Hidden

\* Where a call stands when it deploys.
LEMMA Planned ==
  ASSUME TypeInv, pc = "deploy"
  PROVE  /\ hidden \subseteq Node /\ accessible \subseteq Node /\ Members \subseteq Node
         /\ nodes \subseteq Members
         /\ hidden \cap accessible = {}
         /\ \A n \in Members : ranges[n] \in Octet /\ keys[n] \in Nat \ {0}
         /\ wg => external \in Octet /\ public \in accessible /\ asked
         /\ ~ wg => external = None /\ ~ asked
<1>1. /\ hidden = Hidden /\ accessible = Accessible(public) /\ asked = wg
      /\ \A n \in Members : ranges[n] # None /\ keys[n] # 0
      /\ NeedsIPv4Access => public \in Node
      /\ wg => access = [external |-> external, public |-> public, key |-> keys[public]]
      /\ ~ wg => external = None
  BY DEF TypeInv, PlanInv
<1>2. /\ hidden \subseteq Node /\ accessible \subseteq Node /\ wg \in BOOLEAN
      /\ external \in Octet \cup {None} /\ keys \in [Node -> Nat]
      /\ ranges \in [Node -> Octet \cup {None}] /\ nodes \subseteq Node
  BY DEF TypeInv, TypeOK
<1>3. Members \subseteq Node
  BY <1>2 DEF Members
<1>4. \A n \in Members : ranges[n] \in Octet /\ keys[n] \in Nat \ {0}
  BY <1>1, <1>2, <1>3
<1>5. nodes \subseteq Members
  BY <1>1, <1>2 DEF Members, Hidden, Accessible
<1>6. NeedsIPv4Access => public \notin Hidden
  BY <1>1, Octets DEF Hidden, TypeInv
<1>7. hidden \cap accessible = {}
  BY <1>1, <1>6 DEF Accessible
<1>8. wg => public \in accessible
  BY <1>1 DEF Accessible, NeedsIPv4Access
<1>9. wg => external \in Octet
  BY <1>2 DEF TypeInv, PlanInv
<1>. QED BY <1>1, <1>2, <1>3, <1>4, <1>5, <1>7, <1>8, <1>9

\* What a node is told of another is a peer.
LEMMA PeerType ==
  ASSUME TypeInv, pc = "deploy", NEW p \in Members, NEW endpoint \in BOOLEAN,
         NEW allowed \in SUBSET (Octet \cup {Whole})
  PROVE  PeerOf(p, allowed, endpoint) \in Peer
<1>1. keys[p] \in Nat
  BY Planned
<1>. QED BY <1>1 DEF PeerOf, Peer

\* What is deployed on a node is a deployment, with the node's range and its key.
LEMMA NewDeploymentType ==
  ASSUME TypeInv, pc = "deploy", NEW n \in Members
  PROVE  /\ NewDeployment(n) \in Deployment
         /\ NewDeployment(n).subnet = ranges[n]
         /\ NewDeployment(n).key = keys[n] /\ keys[n] # 0
<1>1. /\ hidden \subseteq Members /\ accessible \subseteq Members
      /\ \A m \in Members : ranges[m] \in Octet /\ keys[m] \in Nat \ {0}
      /\ wg => external \in Octet
      /\ public = None \/ public \in Node
  BY Planned DEF Members, TypeInv, TypeOK
<1>2. NonAccessible \subseteq Octet
  BY <1>1 DEF NonAccessible
<1>3. \A p \in accessible :
        PeerOf(p, {ranges[p]} \cup (IF p = public THEN NonAccessible ELSE {}), TRUE) \in Peer
  <2>. SUFFICES ASSUME NEW p \in accessible
                PROVE  PeerOf(p, {ranges[p]} \cup (IF p = public THEN NonAccessible ELSE {}), TRUE)
                         \in Peer
    OBVIOUS
  <2>1. {ranges[p]} \cup (IF p = public THEN NonAccessible ELSE {}) \in SUBSET (Octet \cup {Whole})
    BY <1>1, <1>2
  <2>. QED BY <1>1, <2>1, PeerType
<1>4. \A p \in hidden : PeerOf(p, {ranges[p]}, FALSE) \in Peer
  BY <1>1, PeerType
<1>5. wg => [key |-> 0, allowed |-> {external}, endpoint |-> FALSE] \in Peer
  BY <1>1 DEF Peer
<1>6. AccessiblePeers(n) \in [Peers -> Peer \cup {None}]
  BY <1>3, <1>4, <1>5 DEF AccessiblePeers
<1>7. public \in Node => PeerOf(public, {Whole}, TRUE) \in Peer
  BY DEF PeerOf, Peer, TypeInv, TypeOK
<1>8. HiddenPeers \in [Peers -> Peer \cup {None}]
  <2>1. \A p \in Peers : p = public => public \in Node
    BY <1>1, UserIsNoNode, NoneIsNothing DEF Peers
  <2>. QED BY <1>7, <2>1 DEF HiddenPeers
<1>. QED BY <1>1, <1>6, <1>8 DEF NewDeployment, Deployment

-----------------------------------------------------------------------------
\* Every call begins by dropping contracts that have ended, all of them unless it fails.
LEMMA Calls ==
  ASSUME Calling
  PROVE  \E step \in {"generate", "cancel"}, gone \in SUBSET (ids \ live) :
           /\ Call(step) /\ Drop(gone)
           /\ public' \in {public, None}
           /\ \/ Fail /\ external' = external
              \/ /\ gone = ids \ live
                 /\ external' = IF wg THEN external ELSE None
                 /\ pc' = step /\ outcome' = "none"
                 /\ asked' = (wg /\ step = "generate") /\ hidden' = {} /\ accessible' = {}
<1>1. PICK step \in {"generate", "cancel"} : Invalidate(step) \/ InvalidateFails(step)
  BY DEF Calling
<1>2. ids \ live \in SUBSET (ids \ live)
  OBVIOUS
<1>3. CASE Invalidate(step)
  BY <1>2, <1>3 DEF Invalidate
<1>4. CASE InvalidateFails(step)
  BY <1>4 DEF InvalidateFails
<1>. QED BY <1>1, <1>3, <1>4

\* The type invariant, where a call begins.
LEMMA TypeCalling ==
  ASSUME TypeInv, Calling
  PROVE  TypeInv'
<1>. USE DEF state, bounds, history
<1>1. PICK step \in {"generate", "cancel"}, gone \in SUBSET (ids \ live) :
        /\ Call(step) /\ Drop(gone)
        /\ public' \in {public, None}
        /\ \/ Fail /\ external' = external
           \/ /\ external' = IF wg THEN external ELSE None
              /\ pc' = step /\ outcome' = "none"
              /\ asked' = (wg /\ step = "generate") /\ hidden' = {} /\ accessible' = {}
  BY Calls
<1>2. /\ deploys' \in 0..MaxDeploys
      /\ UNCHANGED <<kind, nodes, wg, access, subnets, listed, made, live, forgot, taken, edits, losses>>
  BY <1>1, MaxIsNat DEF Call, TypeInv, TypeOK
<1>3. /\ ids' \subseteq ids /\ ranges' \in [Node -> Octet \cup {None}]
      /\ keys' \in [Node -> Nat] /\ held' \in [Node -> Deployment \cup {None}]
      /\ \A n \in Node : held'[n] # None => held'[n] = held[n]
      /\ \A n \in live : held'[n] = held[n]
  BY <1>1 DEF Drop, TypeInv, TypeOK
<1>4. TypeOK'
  BY <1>1, <1>2, <1>3 DEF Fail, Forget, TypeInv, TypeOK
<1>5. PlanInv'
  BY <1>1, <1>2 DEF Fail, Forget, PlanInv, TypeInv, TypeOK
<1>6. public' # None => kind'[public'] = "ipv4"
  BY <1>1, <1>2 DEF TypeInv
<1>. QED BY <1>2, <1>3, <1>4, <1>5, <1>6 DEF TypeInv, TypeOK

\* Where the nodes, ranges and keys are chosen.
LEMMA TypeGenerating ==
  ASSUME TypeInv, Generating
  PROVE  TypeInv'
<1>. USE DEF state, grid, bounds, history
<1>1. CASE GenerateVersionlessDeployments
  <2>1. /\ pc = "generate" /\ public' \in PublicNodes
        /\ hidden' = Hidden /\ accessible' = Accessible(public')
        /\ AssignNodesIPs(AllNodes(public')) /\ AssignKeys(AllNodes(public'))
        /\ access' = IF wg THEN [external |-> external', public |-> public', key |-> keys'[public']]
                     ELSE access
        /\ pc' = "deploy" /\ asked = wg
        /\ UNCHANGED <<kind, nodes, wg, ids, state, grid, outcome, asked, taken, bounds>>
    BY <1>1 DEF GenerateVersionlessDeployments, TypeInv, PlanInv
  <2>2. /\ public' \in Node \cup {None} /\ (public' # None => kind[public'] = "ipv4")
        /\ NeedsIPv4Access => public' \in Node
        /\ hidden' \subseteq Node /\ accessible' \subseteq Node
        /\ AllNodes(public') \subseteq Node
    BY <2>1, PublicChosen
  <2>3. /\ external' \in Octet \cup {None} /\ (external' = None <=> ~ wg)
        /\ ranges' \in [Node -> Octet \cup {None}]
        /\ \A n \in AllNodes(public') : ranges'[n] # None
    BY <2>1, <2>2, Assigned
  <2>4. /\ keys' \in [Node -> Nat]
        /\ \A n \in AllNodes(public') : keys'[n] # 0
    BY <2>1, <2>2, KeysAssigned
  <2>5. access' \in Access \cup {None}
    BY <2>1, <2>2, <2>3, <2>4 DEF Access, NeedsIPv4Access, TypeInv, TypeOK
  <2>6. forgot' \subseteq Node
    BY <2>1 DEF AssignNodesIPs, TypeInv, TypeOK
  <2>7. TypeOK'
    BY <2>1, <2>2, <2>3, <2>4, <2>5, <2>6 DEF TypeInv, TypeOK
  <2>8. /\ Hidden' = Hidden /\ NeedsIPv4Access' = NeedsIPv4Access
        /\ Accessible(public)' = Accessible(public')
        /\ Members' = AllNodes(public')
    BY <2>1 DEF Hidden, NeedsIPv4Access, Accessible, Members, AllNodes
  <2>9. PlanInv'
    BY <2>1, <2>2, <2>3, <2>4, <2>8 DEF PlanInv
  <2>. QED BY <2>1, <2>2, <2>7, <2>9 DEF TypeInv
<1>2. CASE KeysFail
  <2>1. /\ pc = "generate" /\ public' \in PublicNodes
        /\ AssignNodesIPs(AllNodes(public')) /\ AssignKeys(AllNodes(public'))
        /\ Fail
        /\ UNCHANGED <<kind, nodes, wg, access, ids, state, grid, taken, bounds>>
    BY <1>2 DEF KeysFail
  <2>2. /\ public' \in Node \cup {None} /\ (public' # None => kind[public'] = "ipv4")
        /\ AllNodes(public') \subseteq Node
    BY <2>1, PublicChosen
  <2>3. external' \in Octet \cup {None} /\ ranges' \in [Node -> Octet \cup {None}]
    BY <2>1, <2>2, Assigned
  <2>4. keys' \in [Node -> Nat]
    BY <2>1, <2>2, KeysAssigned
  <2>5. forgot' \subseteq Node
    BY <2>1 DEF AssignNodesIPs, TypeInv, TypeOK
  <2>6. TypeOK'
    BY <2>1, <2>2, <2>3, <2>4, <2>5 DEF Fail, Forget, TypeInv, TypeOK
  <2>7. PlanInv'
    BY <2>1 DEF Fail, PlanInv
  <2>. QED BY <2>1, <2>2, <2>6, <2>7 DEF TypeInv
<1>3. CASE GenerateFails
  <2>1. public' \in Node \cup {None} /\ (public' # None => kind[public'] = "ipv4")
    BY <1>3, PublicChosen DEF GenerateFails, TypeInv, TypeOK
  <2>2. TypeOK' /\ PlanInv'
    BY <1>3, <2>1 DEF GenerateFails, Fail, Forget, TypeInv, TypeOK, PlanInv
  <2>. QED BY <1>3, <2>1, <2>2 DEF GenerateFails, TypeInv
<1>4. CASE AssignFails
  <2>1. /\ public' \in Node \cup {None} /\ (public' # None => kind[public'] = "ipv4")
    BY <1>4, PublicChosen DEF AssignFails
  <2>2. external' \in Octet \cup {None} /\ taken' \subseteq Node
    BY <1>4 DEF AssignFails, FirstOf, Free, TypeInv, TypeOK
  <2>3. /\ Fail
        /\ UNCHANGED <<kind, nodes, wg, access, ranges, keys, ids, state, grid, forgot, bounds>>
    BY <1>4 DEF AssignFails
  <2>4. TypeOK' /\ PlanInv'
    BY <2>1, <2>2, <2>3 DEF Fail, Forget, TypeInv, TypeOK, PlanInv
  <2>. QED BY <2>1, <2>3, <2>4 DEF TypeInv
<1>. QED BY <1>1, <1>2, <1>3, <1>4 DEF Generating

\* Both outcomes of Deploy: it deploys on some of the nodes of the network.
LEMMA Deploys ==
  ASSUME TypeInv, Deploying
  PROVE  \E S \in SUBSET Members :
           /\ pc = "deploy" /\ DeployOn(S)
           /\ S \subseteq Members \ (ids \ live) \/ (S = Members /\ Deploy)
           /\ Deploy => S = Members
           /\ ~ Deploy => Fail
           /\ pc' \in {"idle", "read"}
<1>1. CASE Deploy
  <2>1. Members \in SUBSET Members
    OBVIOUS
  <2>. QED BY <1>1, <2>1 DEF Deploy
<1>2. CASE DeployFails /\ ~ Deploy
  <2>1. PICK S \in SUBSET (Members \ (ids \ live)) : DeployOn(S)
    BY <1>2 DEF DeployFails
  <2>2. S \in SUBSET Members
    OBVIOUS
  <2>. QED BY <1>2, <2>1, <2>2 DEF DeployFails, Fail
<1>. QED BY <1>1, <1>2 DEF Deploying

\* What DeployOn leaves on the nodes and in State.
LEMMA Deployed ==
  ASSUME TypeInv, pc = "deploy", NEW S \in SUBSET Members, DeployOn(S)
  PROVE  /\ ids' \subseteq Node /\ live' \subseteq Node
         /\ made' \in [Node -> Nat] /\ \A n \in Node : made[n] <= made'[n]
         /\ held' \in [Node -> Deployment \cup {None}]
         /\ \A n \in S : /\ held'[n] = NewDeployment(n) /\ held'[n] # None
                         /\ held'[n].subnet = ranges[n]
                         /\ held'[n].key = keys[n] /\ held'[n].key # 0
         /\ \A n \in Node \ S : held'[n] = held[n]
         /\ subnets' \in [Node -> Octet \cup {None}]
         /\ listed' \in [Node -> SUBSET Nat]
         /\ \A n \in Node : listed'[n] \subseteq 0..made'[n]
         /\ live' = live \cup (S \ ids)
<1>1. /\ Members \subseteq Node /\ S \subseteq Node
      /\ \A n \in S : /\ NewDeployment(n) \in Deployment
                      /\ NewDeployment(n).subnet = ranges[n]
                      /\ NewDeployment(n).key = keys[n] /\ keys[n] # 0
  BY Planned, NewDeploymentType
<1>2. made' \in [Node -> Nat] /\ \A n \in Node : made[n] <= made'[n]
  BY DEF DeployOn, TypeInv, TypeOK
<1>3. /\ held' \in [Node -> Deployment \cup {None}]
      /\ \A n \in Node : held'[n] = IF n \in S THEN NewDeployment(n) ELSE held[n]
  BY <1>1 DEF DeployOn, TypeInv, TypeOK
<1>4. ids' \subseteq Node /\ live' \subseteq Node
  BY <1>1 DEF DeployOn, TypeInv, TypeOK
<1>5. subnets' \in [Node -> Octet \cup {None}]
  BY DEF DeployOn, UpdateNetwork, TypeInv, TypeOK
<1>6. \A n \in Node : listed'[n] \subseteq listed[n] \cup {made'[n]}
  BY DEF DeployOn, TypeInv, TypeOK
<1>7. \A n \in Node : listed[n] \subseteq 0..made[n] /\ made[n] \in Nat
  BY DEF TypeInv, TypeOK
<1>8. listed' \in [Node -> SUBSET Nat]
  BY <1>2 DEF DeployOn, TypeInv, TypeOK
<1>9. ASSUME NEW n \in Node PROVE listed'[n] \subseteq 0..made'[n]
  <2>1. /\ made[n] \in Nat /\ made'[n] \in Nat /\ made[n] <= made'[n]
        /\ listed'[n] \subseteq 0..made[n] \cup {made'[n]}
    BY <1>2, <1>6, <1>7
  <2>2. 0..made[n] \cup {made'[n]} \subseteq 0..made'[n]
    BY <2>1
  <2>. QED BY <2>1, <2>2
<1>10. \A n \in S : held'[n] # None
  BY <1>1, <1>3, NoneIsNoRecord
<1>. QED BY <1>1, <1>2, <1>3, <1>4, <1>5, <1>8, <1>9, <1>10 DEF DeployOn

\* The type invariant, where the network is deployed.
LEMMA TypeDeploying ==
  ASSUME TypeInv, Deploying
  PROVE  TypeInv'
<1>1. PICK S \in SUBSET Members :
        pc = "deploy" /\ DeployOn(S) /\ (~ Deploy => Fail) /\ pc' \in {"idle", "read"}
  BY Deploys
<1>2. /\ UNCHANGED <<kind, nodes, wg, external, public, access, ranges, keys, forgot, taken,
                     deploys, edits, losses>>
  BY <1>1 DEF DeployOn, history, bounds
<1>3. /\ pc' \in {"idle", "read"} /\ outcome' \in {"failed", "deployed"}
      /\ hidden' \subseteq Node /\ accessible' \subseteq Node /\ asked' \in BOOLEAN
  BY <1>1 DEF Deploy, Fail, Forget, local, TypeInv, TypeOK
<1>4. /\ ids' \subseteq Node /\ live' \subseteq Node /\ made' \in [Node -> Nat]
      /\ held' \in [Node -> Deployment \cup {None}]
      /\ subnets' \in [Node -> Octet \cup {None}] /\ listed' \in [Node -> SUBSET Nat]
  BY <1>1, Deployed
<1>5. TypeOK'
  BY <1>2, <1>3, <1>4 DEF TypeInv, TypeOK
<1>6. PlanInv'
  BY <1>3 DEF PlanInv
<1>7. \A n \in live' : held'[n] # None
  BY <1>1, Deployed DEF TypeInv, TypeOK
<1>8. \A n \in Node : /\ held'[n] # None => held'[n].key # 0
                      /\ listed'[n] \subseteq 0..made'[n]
  BY <1>1, Deployed DEF TypeInv
<1>. QED BY <1>2, <1>5, <1>6, <1>7, <1>8 DEF TypeInv

\* The type invariant, in Cancel.
LEMMA TypeCancelling ==
  ASSUME TypeInv, Cancelling
  PROVE  TypeInv'
<1>1. PICK gone \in SUBSET Node :
        /\ pc = "cancel" /\ pc' \in {"idle", "cancel", "read"}
        /\ ids' \subseteq ids /\ live' \subseteq live \ gone
        /\ held' = [n \in Node |-> IF n \in gone THEN None ELSE held[n]]
        /\ subnets' \in {subnets, Nothing}
        /\ hidden' \in {hidden, {}} /\ accessible' \in {accessible, {}}
        /\ asked' \in {asked, FALSE} /\ outcome' \in {outcome, "failed", "cancelled"}
        /\ UNCHANGED <<kind, nodes, wg, external, public, access, ranges, keys, listed, made,
                       history, bounds>>
  <2>. USE DEF znet, state, grid, local
  <2>1. held = [n \in Node |-> held[n]]
    BY DEF TypeInv, TypeOK
  <2>2. CASE \E n \in Node : CancelNode(n)
    <3>1. PICK n \in Node : CancelNode(n)
      BY <2>2
    <3>2. held' = [m \in Node |-> IF m \in {n} THEN None ELSE held[m]]
      BY <2>1, <3>1 DEF CancelNode
    <3>. QED BY <3>1, <3>2 DEF CancelNode
  <2>3. CASE CancelFails \/ CancelDone
    <3>1. held' = [m \in Node |-> IF m \in {} THEN None ELSE held[m]]
      BY <2>1, <2>3 DEF CancelFails, CancelDone
    <3>. QED BY <2>3, <3>1 DEF CancelFails, CancelDone, Fail, Forget
  <2>. QED BY <2>2, <2>3 DEF Cancelling
<1>. USE DEF history, bounds
<1>2. /\ held' \in [Node -> Deployment \cup {None}]
      /\ \A n \in Node : held'[n] # None => held'[n] = held[n]
      /\ \A n \in live' : held'[n] = held[n]
      /\ Nothing \in [Node -> Octet \cup {None}]
  BY <1>1 DEF Nothing, TypeInv, TypeOK
<1>3. /\ ids' \subseteq Node /\ live' \subseteq Node /\ subnets' \in [Node -> Octet \cup {None}]
      /\ hidden' \subseteq Node /\ accessible' \subseteq Node /\ asked' \in BOOLEAN
      /\ outcome' \in {"none", "failed", "deployed", "cancelled"}
  BY <1>1, <1>2 DEF TypeInv, TypeOK
<1>4. TypeOK'
  BY <1>1, <1>2, <1>3 DEF TypeInv, TypeOK
<1>5. PlanInv'
  BY <1>1 DEF PlanInv
<1>. QED BY <1>1, <1>2, <1>4, <1>5 DEF TypeInv, TypeOK

\* The type invariant, where the nodes are read, and between calls.
LEMMA TypeElsewhere ==
  ASSUME TypeInv, Reading \/ Edit \/ Environment \/ UNCHANGED vars
  PROVE  TypeInv'
<1>. USE DEF znet, state, grid, local, history, bounds
<1>1. CASE ReadNodesConfig
  <2>1. /\ ranges' \in [Node -> Octet \cup {None}] /\ keys' \in [Node -> Nat]
        /\ wg' \in BOOLEAN /\ access' \in Access \cup {None}
    BY <1>1 DEF ReadNodesConfig, TypeInv, TypeOK, Deployment
  <2>2. /\ pc' = "idle"
        /\ UNCHANGED <<kind, nodes, external, public, ids, state, grid, local, asked, outcome,
                       history, bounds>>
    BY <1>1 DEF ReadNodesConfig
  <2>3. TypeOK' /\ PlanInv'
    BY <2>1, <2>2 DEF TypeInv, TypeOK, PlanInv
  <2>. QED BY <2>2, <2>3 DEF TypeInv
<1>2. CASE ReadFails
  <2>1. TypeOK' /\ PlanInv'
    BY <1>2 DEF ReadFails, Fail, Forget, TypeInv, TypeOK, PlanInv
  <2>. QED BY <1>2, <2>1 DEF ReadFails, TypeInv
<1>3. CASE Edit
  <2>1. edits' \in 0..MaxEdits
    BY <1>3, MaxIsNat DEF Edit, TypeInv, TypeOK
  <2>2. nodes' \subseteq Node
    BY <1>3 DEF Edit, TypeInv, TypeOK
  <2>3. wg' \in BOOLEAN
    BY <1>3 DEF Edit, TypeInv, TypeOK
  <2>4. TypeOK' /\ PlanInv'
    BY <1>3, <2>1, <2>2, <2>3 DEF Edit, Forget, TypeInv, TypeOK, PlanInv
  <2>. QED BY <1>3, <2>4 DEF Edit, TypeInv
<1>4. ASSUME NEW n \in Node, LoseContract(n) PROVE TypeInv'
  <2>1. losses' \in 0..MaxLosses
    BY <1>4, MaxIsNat DEF LoseContract, TypeInv, TypeOK
  <2>2. TypeOK'
    BY <1>4, <2>1 DEF LoseContract, TypeInv, TypeOK
  <2>3. PlanInv'
    BY <1>4 DEF LoseContract, TypeInv, PlanInv, Hidden, NeedsIPv4Access, Accessible, Members
  <2>. QED BY <1>4, <2>2, <2>3 DEF LoseContract, TypeInv
<1>5. ASSUME NEW n \in Node, Decommission(n) PROVE TypeInv'
  <2>1. /\ held' \in [Node -> Deployment \cup {None}]
        /\ \A m \in Node : held'[m] # None => held'[m] = held[m]
        /\ \A m \in live : held'[m] = held[m]
    BY <1>5 DEF Decommission, TypeInv, TypeOK
  <2>2. TypeOK'
    BY <1>5, <2>1 DEF Decommission, TypeInv, TypeOK
  <2>3. PlanInv'
    BY <1>5 DEF Decommission, TypeInv, PlanInv, Hidden, NeedsIPv4Access, Accessible, Members
  <2>. QED BY <1>5, <2>1, <2>2, <2>3 DEF Decommission, TypeInv
<1>6. CASE UNCHANGED vars
  <2>1. PlanInv'
    BY <1>6 DEF vars, TypeInv, PlanInv, Hidden, NeedsIPv4Access, Accessible, Members
  <2>. QED BY <1>6, <2>1 DEF vars, TypeInv, TypeOK
<1>. QED BY <1>1, <1>2, <1>3, <1>4, <1>5, <1>6 DEF Reading, Environment

\* Every step keeps the type invariant.
LEMMA TypeNext == TypeInv /\ [Next]_vars => TypeInv'
BY TypeCalling, TypeGenerating, TypeDeploying, TypeCancelling, TypeElsewhere DEF Next

LEMMA TypeHolds == Spec => []TypeInv
BY TypeInit, TypeNext, PTL DEF Spec

\* TypeOK, for any nodes, octets and bounds: what is chosen, deployed and read back is
\* what ZNet, State and the nodes can hold.
THEOREM TypeCorrect == Spec => []TypeOK
<1>1. TypeInv => TypeOK
  BY DEF TypeInv
<1>. QED BY <1>1, TypeHolds, PTL

-----------------------------------------------------------------------------
(* Contracts are known.                                                    *)

\* What a step does to contracts: outside Deploy none begins, and one that is no longer
\* known has ended.
LEMMA ContractsElsewhere ==
  ASSUME TypeInv, [Next]_vars, ~ Deploying
  PROVE  /\ ids' \subseteq ids /\ live' \subseteq live
         /\ (ids \ ids') \cap live' = {}
         /\ UNCHANGED <<made, listed>>
         /\ \A n \in live' : held'[n] = held[n]
<1>. USE DEF znet, state, grid, local, history, bounds
<1>0. held = [n \in Node |-> held[n]] /\ live \subseteq Node
  BY DEF TypeInv, TypeOK
<1>1. CASE Calling
  <2>1. PICK step \in {"generate", "cancel"}, gone \in SUBSET (ids \ live) : Call(step) /\ Drop(gone)
    BY <1>1, Calls
  <2>. QED BY <1>0, <2>1 DEF Call, Drop
<1>2. CASE Generating
  BY <1>2 DEF Generating, GenerateVersionlessDeployments, GenerateFails, AssignFails, KeysFail
<1>3. CASE Cancelling
  BY <1>0, <1>3 DEF Cancelling, CancelNode, CancelFails, CancelDone
<1>4. CASE Reading \/ Edit \/ UNCHANGED vars
  BY <1>4 DEF Reading, ReadNodesConfig, ReadFails, Edit, vars
<1>5. CASE Environment
  BY <1>0, <1>5 DEF Environment, LoseContract, Decommission
<1>. QED BY <1>1, <1>2, <1>3, <1>4, <1>5 DEF Next

LEMMA KnownNext == TypeInv /\ LiveIsKnown /\ [Next]_vars => LiveIsKnown'
<1>. SUFFICES ASSUME TypeInv, LiveIsKnown, [Next]_vars PROVE LiveIsKnown'
  OBVIOUS
<1>1. CASE Deploying
  <2>1. PICK S : DeployOn(S)
    BY <1>1, Deploys
  <2>. QED BY <2>1 DEF DeployOn, LiveIsKnown
<1>2. CASE ~ Deploying
  BY <1>2, ContractsElsewhere DEF LiveIsKnown
<1>. QED BY <1>1, <1>2

\* LiveIsKnown, for any nodes, octets and bounds: no contract of the network is out of
\* the sight of the user's ZNet, whatever failed half way.
THEOREM LiveKnown == Spec => []LiveIsKnown
<1>1. Init => LiveIsKnown
  BY DEF Init, LiveIsKnown
<1>. QED BY <1>1, KnownNext, TypeHolds, PTL DEF Spec

-----------------------------------------------------------------------------
(* Subnets and keys are kept.                                              *)

\* What ZNet has of a node whose contract goes on is what the node has, unless its range
\* was dropped.
KeptInv == \A n \in live \ forgot : ranges[n] = held[n].subnet /\ keys[n] = held[n].key

\* A node whose contract goes on has a subnet, and a key that is one.
LEMMA HeldType ==
  ASSUME TypeInv
  PROVE  \A n \in live : held[n] \in Deployment /\ held[n].subnet # None /\ held[n].key # 0
<1>1. \A n \in live : held[n] \in Deployment /\ held[n].key # 0
  BY DEF TypeInv, TypeOK
<1>. QED BY <1>1, Octets DEF Deployment

\* Where ranges and keys are assigned, those of a contract that goes on stay.
LEMMA AssignKeeps ==
  ASSUME TypeInv, LiveIsKnown, KeptInv, pc = "generate", NEW all \in SUBSET Node,
         AssignNodesIPs(all), AssignKeys(all)
  PROVE  \A n \in live \ forgot' : ranges'[n] = held[n].subnet /\ keys'[n] = held[n].key
<1>. SUFFICES ASSUME NEW n \in live, n \notin forgot'
              PROVE  ranges'[n] = held[n].subnet /\ keys'[n] = held[n].key
  OBVIOUS
<1>1. n \in Node /\ n \in ids /\ n \notin forgot
  BY DEF TypeInv, TypeOK, LiveIsKnown, AssignNodesIPs
<1>2. /\ ranges[n] = held[n].subnet /\ keys[n] = held[n].key
      /\ ranges[n] # None /\ keys[n] # 0
  BY <1>1, HeldType DEF KeptInv
<1>3. n \in all
  BY <1>1, <1>2 DEF AssignNodesIPs
<1>4. ranges'[n] = ranges[n]
  BY <1>2, <1>3, Assigned
<1>5. keys'[n] = keys[n]
  BY <1>1, <1>2, KeysAssigned
<1>. QED BY <1>2, <1>4, <1>5

LEMMA KeptNext == TypeInv /\ LiveIsKnown /\ KeptInv /\ [Next]_vars => KeptInv'
<1>. SUFFICES ASSUME TypeInv, LiveIsKnown, KeptInv, [Next]_vars PROVE KeptInv'
  OBVIOUS
<1>. USE DEF znet, state, grid, local, history, bounds
<1>1. CASE Deploying
  <2>1. PICK S \in SUBSET Members : pc = "deploy" /\ DeployOn(S)
    BY <1>1, Deploys
  <2>2. UNCHANGED <<ranges, keys, forgot>>
    BY <2>1 DEF DeployOn
  <2>3. live' = live \cup (S \ ids) /\ live' \subseteq Node
    BY <2>1, Deployed
  <2>4. \A n \in S : held'[n].subnet = ranges[n] /\ held'[n].key = keys[n]
    BY <2>1, Deployed
  <2>5. \A n \in live' \ S : n \in live /\ held'[n] = held[n]
    BY <2>1, <2>3, Deployed
  <2>. QED BY <2>2, <2>4, <2>5 DEF KeptInv
<1>2. CASE Generating
  <2>1. CASE GenerateVersionlessDeployments \/ KeysFail
    <3>1. PICK p \in PublicNodes :
            /\ pc = "generate" /\ AssignNodesIPs(AllNodes(p)) /\ AssignKeys(AllNodes(p))
            /\ UNCHANGED grid
      BY <2>1 DEF GenerateVersionlessDeployments, KeysFail
    <3>2. AllNodes(p) \subseteq Node
      BY PublicChosen
    <3>. QED BY <3>1, <3>2, AssignKeeps DEF KeptInv
  <2>2. CASE GenerateFails \/ AssignFails
    BY <2>2 DEF GenerateFails, AssignFails, KeptInv
  <2>. QED BY <1>2, <2>1, <2>2 DEF Generating
<1>3. CASE Calling
  <2>1. PICK step \in {"generate", "cancel"}, gone \in SUBSET (ids \ live) : Call(step) /\ Drop(gone)
    BY <1>3, Calls
  <2>2. live \subseteq Node
    BY DEF TypeInv, TypeOK
  <2>. QED BY <2>1, <2>2 DEF Call, Drop, KeptInv
<1>4. CASE ReadNodesConfig
  <2>1. live \subseteq Node
    BY DEF TypeInv, TypeOK
  <2>. QED BY <1>4, <2>1 DEF ReadNodesConfig, KeptInv, LiveIsKnown
<1>5. CASE ~ Deploying /\ (Cancelling \/ ReadFails \/ Edit \/ Environment \/ UNCHANGED vars)
  <2>1. UNCHANGED <<ranges, keys, forgot>>
    BY <1>5 DEF Cancelling, CancelNode, CancelFails, CancelDone, ReadFails, Edit,
                Environment, LoseContract, Decommission, vars
  <2>. QED BY <1>5, <2>1, ContractsElsewhere DEF KeptInv
<1>. QED BY <1>1, <1>2, <1>3, <1>4, <1>5 DEF Next, Reading

LEMMA KeptHolds == Spec => []KeptInv
<1>1. Init => KeptInv
  BY DEF Init, KeptInv
<1>. QED BY <1>1, KeptNext, TypeHolds, LiveKnown, PTL DEF Spec

\* SubnetKept, for any nodes, octets and bounds: no step changes the subnet or the key of
\* a node under a contract that goes on, unless its range was dropped.
THEOREM SubnetIsKept == Spec => SubnetKept
<1>1. TypeInv /\ KeptInv /\ [Next]_vars =>
        [\A n \in live \cap live' : made'[n] = made[n] /\ n \notin forgot =>
           held'[n].subnet = held[n].subnet /\ held'[n].key = held[n].key]_vars
  <2>. SUFFICES ASSUME TypeInv, KeptInv, [Next]_vars, NEW n \in live \cap live',
                       n \notin forgot
                PROVE  held'[n].subnet = held[n].subnet /\ held'[n].key = held[n].key
    OBVIOUS
  <2>1. CASE Deploying
    <3>1. PICK S \in SUBSET Members : pc = "deploy" /\ DeployOn(S)
      BY <2>1, Deploys
    <3>2. n \in Node
      BY DEF TypeInv, TypeOK
    <3>3. CASE n \in S
      BY <3>1, <3>3, Deployed DEF KeptInv
    <3>4. CASE n \notin S
      BY <3>1, <3>2, <3>4, Deployed
    <3>. QED BY <3>3, <3>4
  <2>2. CASE ~ Deploying
    BY <2>2, ContractsElsewhere
  <2>. QED BY <2>1, <2>2
<1>. QED BY <1>1, TypeHolds, KeptHolds, PTL DEF Spec, SubnetKept

-----------------------------------------------------------------------------
(* What State says.                                                        *)

\* StateIsTrue at every step of a call: of a contract State lists it has the subnet, or
\* none; a Deploy that has done all its work has told State all of it.
StateInv ==
  /\ \A n \in live \ forgot : made[n] \in listed[n] => subnets[n] \in {None, held[n].subnet}
  /\ outcome = "deployed" =>
       /\ pc \in {"idle", "read"}
       /\ \A n \in Members \cap live :
            subnets[n] = held[n].subnet /\ (n \in nodes => made[n] \in listed[n])

\* What a node has after DeployOn is its range.
LEMMA RangeIsHeld ==
  ASSUME TypeInv, KeptInv, pc = "deploy", NEW S \in SUBSET Members, DeployOn(S)
  PROVE  \A n \in live' \ forgot : held'[n].subnet = ranges[n]
<1>1. live' = live \cup (S \ ids) /\ live' \subseteq Node
  BY Deployed
<1>2. \A n \in S : held'[n].subnet = ranges[n]
  BY Deployed
<1>3. \A n \in live' \ S : n \in live /\ held'[n] = held[n]
  BY <1>1, Deployed
<1>. QED BY <1>2, <1>3 DEF KeptInv

\* Deploying tells State the ranges, or lists nothing it did not list.
LEMMA StateDeploying ==
  ASSUME TypeInv, KeptInv, StateInv, Deploying
  PROVE  StateInv'
<1>. USE DEF history
<1>1. PICK S \in SUBSET Members :
        /\ pc = "deploy" /\ DeployOn(S) /\ (Deploy => S = Members) /\ (~ Deploy => Fail)
  BY Deploys
<1>2. /\ ranges \in [Node -> Octet \cup {None}] /\ made \in [Node -> Nat]
      /\ listed \in [Node -> SUBSET Nat]
      /\ \A n \in Node : listed[n] \subseteq 0..made[n]
      /\ live \subseteq Node /\ nodes \subseteq Node /\ nodes # {} /\ nodes \subseteq Members
      /\ Members \subseteq Node
  BY <1>1, Planned DEF TypeInv, TypeOK
<1>3. /\ live' = live \cup (S \ ids) /\ live' \subseteq Node
      /\ \A n \in S : held'[n].subnet = ranges[n]
      /\ \A n \in Node \ S : held'[n] = held[n]
  BY <1>1, Deployed
<1>4. UNCHANGED <<nodes, ranges, forgot>> /\ ids' = ids \cup S
  BY <1>1 DEF DeployOn
<1>5. ASSUME NEW n \in live', n \notin forgot', made'[n] \in listed'[n]
      PROVE  subnets'[n] \in {None, held'[n].subnet}
  <2>0. n \in Node /\ n \notin forgot
    BY <1>3, <1>4, <1>5
  <2>1. held'[n].subnet = ranges[n]
    BY <1>1, <1>5, <2>0, RangeIsHeld
  <2>2. CASE nodes \cap ids' # {}
    <3>1. subnets' = ranges
      BY <1>1, <2>2 DEF DeployOn, UpdateNetwork
    <3>. QED BY <2>1, <3>1
  <2>3. CASE nodes \cap ids' = {}
    <3>1. subnets' = subnets /\ listed'[n] = listed[n]
      BY <1>1, <1>2, <2>0, <2>3 DEF DeployOn
    <3>2. made'[n] = IF n \in S \ ids THEN made[n] + 1 ELSE made[n]
      BY <1>1, <2>0 DEF DeployOn
    <3>3. made[n] \in Nat /\ \A i \in listed[n] : i \in 0..made[n]
      BY <1>2, <2>0
    <3>4. n \notin S \ ids /\ made'[n] = made[n]
      BY <1>5, <3>1, <3>2, <3>3
    <3>5. n \in live
      BY <1>3, <1>5, <3>4
    <3>6. held[n].subnet = ranges[n]
      BY <2>0, <3>5 DEF KeptInv
    <3>7. subnets[n] \in {None, held[n].subnet}
      BY <1>5, <2>0, <3>1, <3>4, <3>5 DEF StateInv
    <3>. QED BY <2>1, <3>1, <3>6, <3>7
  <2>. QED BY <2>2, <2>3
<1>6. outcome' = "deployed" => pc' \in {"idle", "read"}
  BY <1>1 DEF Deploy, Fail
<1>7. ASSUME outcome' = "deployed", NEW n \in Members', n \in live'
      PROVE  subnets'[n] = held'[n].subnet /\ (n \in nodes' => made'[n] \in listed'[n])
  <2>1. Deploy /\ S = Members
    BY <1>1, <1>7 DEF Fail
  <2>2. Members' = Members /\ nodes \cap ids' = nodes
    BY <1>2, <1>4, <2>1 DEF Deploy, Members, local
  <2>3. subnets' = ranges
    BY <1>1, <1>2, <2>2 DEF DeployOn, UpdateNetwork
  <2>4. n \in nodes => made'[n] \in listed'[n]
    BY <1>1, <1>2, <2>2 DEF DeployOn
  <2>. QED BY <1>3, <1>4, <1>7, <2>1, <2>2, <2>3, <2>4
<1>. QED BY <1>5, <1>6, <1>7 DEF StateInv

LEMMA StateNext == TypeInv /\ KeptInv /\ StateInv /\ [Next]_vars => StateInv'
<1>. SUFFICES ASSUME TypeInv, KeptInv, StateInv, [Next]_vars PROVE StateInv'
  OBVIOUS
<1>1. CASE Deploying
  BY <1>1, StateDeploying
<1>2. CASE ~ Deploying
  <2>. USE DEF znet, state, grid, local, history, bounds
  <2>1. /\ live' \subseteq live /\ UNCHANGED <<made, listed>>
        /\ \A n \in live' : held'[n] = held[n]
    BY <1>2, ContractsElsewhere
  <2>2. /\ forgot \subseteq forgot'
        /\ subnets' = subnets \/ (subnets' = Nothing /\ outcome' # "deployed")
        /\ outcome' = "deployed" =>
             /\ outcome = "deployed" /\ pc' \in {"idle", "read"}
             /\ UNCHANGED <<nodes, subnets, hidden, accessible>>
    <3>1. CASE Calling
      <4>1. PICK step \in {"generate", "cancel"} : Call(step) /\ outcome' \in {"none", "failed"}
        BY <3>1, Calls DEF Fail
      <4>. QED BY <4>1 DEF Call
    <3>2. CASE Generating
      BY <3>2 DEF Generating, GenerateVersionlessDeployments, GenerateFails, AssignFails, KeysFail,
                  AssignNodesIPs, Fail, StateInv
    <3>3. CASE Cancelling \/ Reading \/ Edit \/ Environment \/ UNCHANGED vars
      BY <3>3 DEF Cancelling, CancelNode, CancelFails, CancelDone, Reading, ReadNodesConfig,
                  ReadFails, Edit, Environment, LoseContract, Decommission, Fail, vars,
                  StateInv
    <3>. QED BY <1>2, <3>1, <3>2, <3>3 DEF Next
  <2>3. live \subseteq Node
    BY DEF TypeInv, TypeOK
  <2>. QED BY <2>1, <2>2, <2>3 DEF StateInv, Members, Nothing
<1>. QED BY <1>1, <1>2

\* StateIsTrue, for any nodes, octets and bounds: what State says of the subnets of
\* contracts it lists is what the nodes have.
THEOREM StateTrue == Spec => []StateIsTrue
<1>1. Init => StateInv
  BY DEF Init, StateInv
<1>2. StateInv => StateIsTrue
  BY DEF StateInv, StateIsTrue
<1>. QED BY <1>1, <1>2, StateNext, TypeHolds, KeptHolds, PTL DEF Spec

-----------------------------------------------------------------------------
(* Ranges are distinct.                                                    *)

\* The nodes whose range is theirs: between calls not those whose contract has ended,
\* which the next call drops.
Trusted == IF pc \in {"idle", "read"} THEN Node \ (forgot \cup (ids \ live)) ELSE Node \ forgot

RangesInv ==
  \A n \in Trusted : ranges[n] # None =>
    /\ \A m \in Trusted \ {n} : ranges[n] # ranges[m]
    /\ n \notin taken => ranges[n] # external

\* Ranges are still distinct when they have been assigned.
LEMMA AssignApart ==
  ASSUME TypeInv, RangesInv, pc = "generate", NEW all \in SUBSET Node, AssignNodesIPs(all)
  PROVE  \A n \in Node \ forgot' : ranges'[n] # None =>
           /\ \A m \in Node \ (forgot' \cup {n}) : ranges'[n] # ranges'[m]
           /\ n \notin taken => ranges'[n] # external'
<1>1. /\ forgot \subseteq forgot'
      /\ \A n \in Node \ forgot : ranges[n] # None =>
           /\ \A m \in Node \ (forgot \cup {n}) : ranges[n] # ranges[m]
           /\ n \notin taken => ranges[n] # external
  BY DEF RangesInv, Trusted, AssignNodesIPs
<1>2. \A n \in all : ranges[n] # None => ranges[n] \notin Free(all)
  BY DEF Free, Kept
<1>3. ASSUME NEW n \in Node, n \notin forgot', ranges'[n] # None,
             NEW m \in Node, m \notin forgot', m # n
      PROVE  ranges'[n] # ranges'[m]
  <2>1. n \in all
    BY <1>3, Assigned
  <2>2. CASE m \notin all
    BY <1>3, <2>2, Assigned
  <2>3. CASE m \in all
    <3>1. /\ ranges[n] # None => ranges'[n] = ranges[n]
          /\ ranges[n] = None => ranges'[n] \in Free(all)
          /\ ranges[m] # None => ranges'[m] = ranges[m]
          /\ ranges[m] = None => ranges'[m] \in Free(all)
          /\ ranges[n] = None /\ ranges[m] = None => ranges'[n] # ranges'[m]
      BY <1>3, <2>1, <2>3, Assigned
    <3>2. ranges[n] # None /\ ranges[m] # None => ranges[n] # ranges[m]
      BY <1>1, <1>3
    <3>. QED BY <1>2, <2>1, <2>3, <3>1, <3>2
  <2>. QED BY <2>2, <2>3
<1>4. ASSUME NEW n \in Node, n \notin forgot', ranges'[n] # None, n \notin taken
      PROVE  ranges'[n] # external'
  <2>1. n \in all
    BY <1>4, Assigned
  <2>2. /\ ranges[n] # None => ranges'[n] = ranges[n]
        /\ ranges[n] = None => ranges'[n] # external'
        /\ external' # external => external' \in Free(all)
    BY <2>1, Assigned
  <2>3. ranges[n] # None => ranges[n] # external
    BY <1>1, <1>4
  <2>. QED BY <1>2, <2>1, <2>2, <2>3
<1>. QED BY <1>3, <1>4

\* Ranges stay distinct where none is given.
LEMMA RangesStay ==
  ASSUME RangesInv, external' \in {external, None}, taken' = taken,
         \A n \in Trusted' : ranges'[n] # None => n \in Trusted /\ ranges'[n] = ranges[n]
  PROVE  RangesInv'
BY DEF RangesInv

LEMMA RangesNext == TypeInv /\ LiveIsKnown /\ KeptInv /\ RangesInv /\ [Next]_vars => RangesInv'
<1>. SUFFICES ASSUME TypeInv, LiveIsKnown, KeptInv, RangesInv, [Next]_vars PROVE RangesInv'
  OBVIOUS
<1>. USE DEF znet, state, grid, local, history, bounds
<1>1. CASE Calling
  <2>1. PICK step \in {"generate", "cancel"}, gone \in SUBSET (ids \ live) :
          /\ Call(step) /\ Drop(gone) /\ external' \in {external, None}
          /\ pc' = "idle" \/ gone = ids \ live
    BY <1>1, Calls DEF Fail
  <2>2. \A n \in Trusted' : ranges'[n] # None => n \in Trusted /\ ranges'[n] = ranges[n]
    BY <2>1 DEF Call, Drop, Trusted
  <2>. QED BY <2>1, <2>2, RangesStay DEF Call
<1>2. CASE GenerateVersionlessDeployments \/ KeysFail
  <2>1. PICK p \in PublicNodes : pc = "generate" /\ AssignNodesIPs(AllNodes(p)) /\ taken' = taken
    BY <1>2 DEF GenerateVersionlessDeployments, KeysFail
  <2>2. AllNodes(p) \subseteq Node
    BY PublicChosen
  <2>3. \A n \in Node \ forgot' : ranges'[n] # None =>
          /\ \A m \in Node \ (forgot' \cup {n}) : ranges'[n] # ranges'[m]
          /\ n \notin taken => ranges'[n] # external'
    BY <2>1, <2>2, AssignApart
  <2>4. Trusted' \subseteq Node \ forgot'
    BY DEF Trusted
  <2>. QED BY <2>1, <2>3, <2>4 DEF RangesInv
<1>3. CASE AssignFails
  <2>. DEFINE given(p) == IF NeedsExternal THEN FirstOf(Free(AllNodes(p)), 1) ELSE {}
  <2>0. PICK p \in PublicNodes :
          /\ external' \in IF given(p) # {} THEN given(p) ELSE {external}
          /\ taken' = taken \cup {n \in Node \ AllNodes(p) : ranges[n] \in given(p)}
    BY <1>3 DEF AssignFails
  <2>1. /\ given(p) \subseteq Free(AllNodes(p))
        /\ external' \in given(p) \cup {external}
        /\ taken' = taken \cup {n \in Node \ AllNodes(p) : ranges[n] \in given(p)}
    BY <2>0 DEF FirstOf
  <2>. HIDE DEF given
  <2>2. pc = "generate" /\ pc' = "idle" /\ UNCHANGED <<ranges, forgot>>
    BY <1>3 DEF AssignFails, Fail
  <2>3. /\ Trusted' \subseteq Node \ forgot
        /\ \A n \in Node \ forgot : ranges[n] # None =>
             /\ \A m \in Node \ (forgot \cup {n}) : ranges[n] # ranges[m]
             /\ n \notin taken => ranges[n] # external
    BY <2>2 DEF RangesInv, Trusted
  <2>4. ASSUME NEW n \in Node \ forgot, n \notin taken', ranges[n] # None
        PROVE  ranges[n] # external'
    <3>1. n \notin taken /\ ranges[n] # external
      BY <2>1, <2>3, <2>4
    <3>2. CASE n \in AllNodes(p)
      <4>1. ranges[n] \notin Free(AllNodes(p))
        BY <2>4, <3>2 DEF Free, Kept
      <4>. QED BY <2>1, <3>1, <4>1
    <3>3. CASE n \notin AllNodes(p)
      BY <2>1, <2>4, <3>1, <3>3
    <3>. QED BY <3>2, <3>3
  <2>. QED BY <2>2, <2>3, <2>4 DEF RangesInv
<1>4. CASE ReadNodesConfig
  <2>1. \A n \in Trusted' : ranges'[n] # None =>
          n \in live /\ n \notin forgot /\ ranges'[n] = held[n].subnet
    BY <1>4 DEF ReadNodesConfig, Trusted
  <2>2. Trusted' = Trusted /\ UNCHANGED <<external, taken>>
    BY <1>4 DEF ReadNodesConfig, Trusted
  <2>. QED BY <2>1, <2>2, RangesStay DEF KeptInv
<1>5. CASE Deploying \/ Cancelling
  <2>1. UNCHANGED <<ranges, external, forgot, taken>> /\ pc \in {"deploy", "cancel"}
    BY <1>5, Deploys DEF DeployOn, Cancelling, CancelNode, CancelFails, CancelDone
  <2>2. Trusted' \subseteq Trusted
    BY <2>1 DEF Trusted
  <2>. QED BY <2>1, <2>2, RangesStay
<1>6. CASE GenerateFails \/ ReadFails \/ Edit \/ Environment \/ UNCHANGED vars
  <2>1. /\ UNCHANGED <<ranges, external, forgot, taken, ids>> /\ live' \subseteq live
        /\ pc' = pc \/ pc' = "idle"
    BY <1>6 DEF GenerateFails, ReadFails, Fail, Edit, Environment, LoseContract, Decommission, vars
  <2>2. pc \in {"idle", "read"} \/ pc' \notin {"idle", "read"} \/ live' = live
    BY <1>6 DEF GenerateFails, ReadFails, Fail, Edit, Environment, LoseContract, Decommission, vars
  <2>3. Trusted' \subseteq Trusted
    BY <2>1, <2>2 DEF Trusted
  <2>. QED BY <2>1, <2>3, RangesStay
<1>. QED BY <1>1, <1>2, <1>3, <1>4, <1>5, <1>6 DEF Next, Generating, Reading

LEMMA RangesHold == Spec => []RangesInv
<1>1. Init => RangesInv
  BY DEF Init, Nothing, RangesInv, Trusted
<1>. QED BY <1>1, RangesNext, TypeHolds, LiveKnown, KeptHolds, PTL DEF Spec

-----------------------------------------------------------------------------
(* What a Deploy that returned nil has made.                               *)

Settled == outcome = "deployed" /\ \A n \in Members : held[n] # None

\* SubnetsDistinct and Connected from where Deploy is done; without a public node among
\* those deployed they reach each other directly, and the user's access can be read back.
UpInv ==
  Settled =>
    /\ Distinct /\ AllReach
    /\ public \notin Members =>
         \A n, m \in Members : n # m => Know(n, m) /\ RoutesTo(n, m, m)
    /\ asked => /\ UserReaches /\ public \in Members \cap ids
                /\ ~ held[public].peers[User].endpoint

\* What the nodes are told of each other: those that are accessible of each other; the
\* hidden ones of the public node, and that one of them and of the user.
LEMMA Told ==
  ASSUME TypeInv, pc = "deploy"
  PROVE  /\ \A n, p \in accessible : n # p =>
              NewDeployment(n).peers[p] =
                PeerOf(p, {ranges[p]} \cup (IF p = public THEN NonAccessible ELSE {}), TRUE)
         /\ public \in accessible => \A h \in hidden :
              /\ NewDeployment(h).peers[public] = PeerOf(public, {Whole}, TRUE)
              /\ NewDeployment(public).peers[h] = PeerOf(h, {ranges[h]}, FALSE)
              /\ ranges[h] \in NonAccessible
         /\ wg => /\ NewDeployment(public).peers[User] =
                       [key |-> 0, allowed |-> {external}, endpoint |-> FALSE]
                  /\ external \in NonAccessible
<1>1. /\ hidden \subseteq Node /\ accessible \subseteq Node /\ hidden \cap accessible = {}
      /\ wg => public \in accessible
      /\ Node \subseteq Peers /\ User \in Peers /\ User \notin Node
  BY Planned, UserIsNoNode DEF Peers
<1>2. ASSUME NEW n \in accessible
      PROVE  NewDeployment(n).peers = AccessiblePeers(n)
  BY <1>1, <1>2 DEF NewDeployment
<1>3. ASSUME NEW n \in accessible, NEW p \in accessible, n # p
      PROVE  NewDeployment(n).peers[p] =
               PeerOf(p, {ranges[p]} \cup (IF p = public THEN NonAccessible ELSE {}), TRUE)
  <2>1. p \in Peers /\ p \in accessible \ {n} /\ p # User /\ p \notin hidden
    BY <1>1, <1>3
  <2>2. AccessiblePeers(n)[p] =
          CASE p \in accessible \ {n} ->
                 PeerOf(p, {ranges[p]} \cup (IF p = public THEN NonAccessible ELSE {}), TRUE)
            [] n = public /\ p = User /\ wg -> [key |-> 0, allowed |-> {external}, endpoint |-> FALSE]
            [] n = public /\ p \in hidden -> PeerOf(p, {ranges[p]}, FALSE)
            [] OTHER -> None
    BY <2>1, Zenon DEF AccessiblePeers
  <2>. HIDE DEF PeerOf
  <2>3. AccessiblePeers(n)[p] =
          PeerOf(p, {ranges[p]} \cup (IF p = public THEN NonAccessible ELSE {}), TRUE)
    BY <2>1, <2>2, Zenon
  <2>. QED BY <1>2, <2>3
<1>4. ASSUME public \in accessible, NEW h \in hidden
      PROVE  /\ NewDeployment(h).peers[public] = PeerOf(public, {Whole}, TRUE)
             /\ NewDeployment(public).peers[h] = PeerOf(h, {ranges[h]}, FALSE)
             /\ ranges[h] \in NonAccessible
  <2>1. NewDeployment(h).peers[public] = PeerOf(public, {Whole}, TRUE)
    BY <1>1, <1>4 DEF NewDeployment, HiddenPeers
  <2>2. NewDeployment(public).peers[h] = PeerOf(h, {ranges[h]}, FALSE)
    BY <1>1, <1>2, <1>4 DEF AccessiblePeers
  <2>. QED BY <2>1, <2>2 DEF NonAccessible
<1>5. wg => /\ NewDeployment(public).peers[User] =
                 [key |-> 0, allowed |-> {external}, endpoint |-> FALSE]
            /\ external \in NonAccessible
  BY <1>1, <1>2 DEF AccessiblePeers, NonAccessible
<1>. QED BY <1>3, <1>4, <1>5

\* Two nodes of a network without a public node are both accessible.
LEMMA BothAccessible ==
  ASSUME TypeInv, pc = "deploy", public \notin Members,
         NEW n \in Members, NEW m \in Members, n # m
  PROVE  n \in accessible /\ m \in accessible
<1>1. /\ hidden = Hidden /\ accessible = Accessible(public)
      /\ nodes \subseteq Node
  BY DEF TypeInv, TypeOK, PlanInv
<1>2. ~ NeedsIPv4Access
  BY <1>1 DEF Accessible, Members
<1>3. n \in nodes /\ m \in nodes
  BY <1>1, <1>2 DEF Accessible, Hidden, Members
<1>4. Cardinality(nodes) > 1
  <2>1. IsFiniteSet(nodes) /\ Cardinality(nodes) \in Nat
    BY <1>1, NodesAreFinite, FS_Subset, FS_CardinalityType
  <2>2. Cardinality(nodes) # 0
    BY <1>3, <2>1, FS_EmptySet
  <2>3. Cardinality(nodes) # 1
    <3>1. SUFFICES ASSUME Cardinality(nodes) = 1 PROVE FALSE
      OBVIOUS
    <3>2. \E x : nodes = {x}
      BY <2>1, <3>1, FS_Singleton
    <3>. QED BY <1>3, <3>2
  <2>. QED BY <2>1, <2>2, <2>3
<1>5. Hidden = {}
  BY <1>2, <1>4 DEF NeedsIPv4Access
<1>. QED BY <1>1, <1>5 DEF Members

\* What is on the nodes when Deploy is done.
LEMMA DeployDone ==
  ASSUME TypeInv, Deploy
  PROVE  /\ pc = "deploy" /\ DeployOn(Members) /\ outcome' = "deployed"
         /\ UNCHANGED <<hidden, accessible, asked, public, external, access, forgot, taken>>
         /\ Members' = Members /\ Members \subseteq ids'
         /\ \A n \in Members : /\ held'[n] = NewDeployment(n) /\ held'[n].subnet = ranges[n]
                               /\ held'[n].key = keys[n]
<1>1. Members \in SUBSET Members
  OBVIOUS
<1>2. /\ pc = "deploy" /\ DeployOn(Members) /\ outcome' = "deployed"
      /\ UNCHANGED <<hidden, accessible, asked, public, external, access, forgot, taken>>
  BY DEF Deploy, DeployOn, local, history
<1>. QED BY <1>1, <1>2, Deployed DEF Members, DeployOn

\* Accessible nodes know each other and route to each other directly, the hidden ones and
\* the public node too; whatever is for a hidden node the others send to the public one.
LEMMA DeployConnects ==
  ASSUME TypeInv, Deploy
  PROVE  /\ \A n, m \in accessible : n # m => Know(n, m)' /\ RoutesTo(n, m, m)'
         /\ public \in accessible =>
              /\ \A h \in hidden : /\ Know(h, public)' /\ Know(public, h)'
                                   /\ RoutesTo(public, h, h)'
                                   /\ \A m \in Members : RoutesTo(h, m, public)'
              /\ \A n \in accessible \ {public}, h \in hidden : RoutesTo(n, h, public)'
<1>1. /\ pc = "deploy" /\ public' = public
      /\ accessible \subseteq Members /\ hidden \subseteq Members
      /\ \A n \in Members : /\ held'[n] = NewDeployment(n) /\ held'[n].subnet = ranges[n]
                            /\ held'[n].key = keys[n]
      /\ \A n \in Members : ranges[n] \in Octet
  BY DeployDone, Planned DEF Members
<1>2. ASSUME NEW p \in Members, NEW allowed \in SUBSET (Octet \cup {Whole})
      PROVE  /\ PeerOf(p, allowed, TRUE) # None /\ PeerOf(p, allowed, FALSE) # None
             /\ PeerOf(p, allowed, TRUE).key = keys[p] /\ PeerOf(p, allowed, FALSE).key = keys[p]
             /\ PeerOf(p, allowed, TRUE).allowed = allowed
             /\ PeerOf(p, allowed, FALSE).allowed = allowed
             /\ PeerOf(p, allowed, TRUE).endpoint = TRUE
  <2>1. PeerOf(p, allowed, TRUE) \in Peer /\ PeerOf(p, allowed, FALSE) \in Peer
    <3>1. TRUE \in BOOLEAN /\ FALSE \in BOOLEAN
      OBVIOUS
    <3>. QED BY <1>1, <3>1, PeerType, Zenon
  <2>2. PeerOf(p, allowed, TRUE) # None /\ PeerOf(p, allowed, FALSE) # None
    BY <2>1, NoneIsNoRecord, Zenon
  <2>. QED BY <2>2 DEF PeerOf
<1>3. NonAccessible \subseteq Octet
  BY <1>1, Planned DEF NonAccessible
<1>4. ASSUME NEW n \in accessible, NEW p \in accessible, n # p
      PROVE  /\ held'[n].peers[p] # None /\ held'[n].peers[p].key = held'[p].key
             /\ held'[n].peers[p].endpoint = TRUE
             /\ ranges[p] \in held'[n].peers[p].allowed
             /\ p = public => NonAccessible \subseteq held'[n].peers[p].allowed
  <2>. DEFINE allowed == {ranges[p]} \cup (IF p = public THEN NonAccessible ELSE {})
  <2>1. allowed \in SUBSET (Octet \cup {Whole}) /\ p \in Members /\ n \in Members
    BY <1>1, <1>3
  <2>2. held'[n].peers[p] = PeerOf(p, allowed, TRUE)
    <3>1. NewDeployment(n).peers[p] = PeerOf(p, allowed, TRUE)
      BY <1>1, <1>4, Told, Zenon
    <3>2. held'[n] = NewDeployment(n)
      BY <1>1, <2>1
    <3>. QED BY <3>1, <3>2, Zenon
  <2>3. /\ ranges[p] \in allowed
        /\ p = public => NonAccessible \subseteq allowed
    OBVIOUS
  <2>. HIDE DEF allowed
  <2>4. /\ PeerOf(p, allowed, TRUE) # None
        /\ PeerOf(p, allowed, TRUE).key = keys[p]
        /\ PeerOf(p, allowed, TRUE).allowed = allowed
        /\ PeerOf(p, allowed, TRUE).endpoint = TRUE
    BY <1>2, <2>1, Zenon
  <2>5. held'[p].key = keys[p]
    BY <1>1, <2>1
  <2>. QED BY <2>2, <2>3, <2>4, <2>5, Zenon
<1>5. ASSUME public \in accessible, NEW h \in hidden
      PROVE  /\ held'[h].peers[public] # None /\ held'[h].peers[public].key = held'[public].key
             /\ held'[h].peers[public].endpoint = TRUE /\ held'[h].peers[public].allowed = {Whole}
             /\ held'[public].peers[h] # None /\ held'[public].peers[h].key = held'[h].key
             /\ held'[public].peers[h].allowed = {ranges[h]}
             /\ ranges[h] \in NonAccessible
  <2>1. public \in Members /\ h \in Members
    BY <1>1, <1>5
  <2>2. /\ held'[h].peers[public] = PeerOf(public, {Whole}, TRUE)
        /\ held'[public].peers[h] = PeerOf(h, {ranges[h]}, FALSE)
        /\ ranges[h] \in NonAccessible
    BY <1>1, <1>5, <2>1, Told
  <2>3. /\ PeerOf(public, {Whole}, TRUE) # None
        /\ PeerOf(public, {Whole}, TRUE).key = keys[public]
        /\ PeerOf(public, {Whole}, TRUE).allowed = {Whole}
        /\ PeerOf(public, {Whole}, TRUE).endpoint = TRUE
    <3>1. {Whole} \in SUBSET (Octet \cup {Whole})
      OBVIOUS
    <3>. QED BY <1>2, <2>1, <3>1, Zenon
  <2>4. /\ PeerOf(h, {ranges[h]}, FALSE) # None
        /\ PeerOf(h, {ranges[h]}, FALSE).key = keys[h]
        /\ PeerOf(h, {ranges[h]}, FALSE).allowed = {ranges[h]}
    <3>1. {ranges[h]} \in SUBSET (Octet \cup {Whole})
      BY <1>1, <2>1
    <3>. QED BY <1>2, <2>1, <3>1, Zenon
  <2>5. held'[public].key = keys[public] /\ held'[h].key = keys[h]
    BY <1>1, <2>1
  <2>. QED BY <2>2, <2>3, <2>4, <2>5, Zenon
<1>6. ASSUME NEW n \in accessible, NEW m \in accessible, n # m
      PROVE  Know(n, m)' /\ RoutesTo(n, m, m)'
  BY <1>1, <1>4, <1>6 DEF Know, RoutesTo
<1>7. ASSUME public \in accessible, NEW h \in hidden
      PROVE  /\ Know(h, public)' /\ Know(public, h)' /\ RoutesTo(public, h, h)'
             /\ \A m \in Members : RoutesTo(h, m, public)'
  BY <1>1, <1>5, <1>7 DEF Know, RoutesTo
<1>8. ASSUME public \in accessible, NEW n \in accessible \ {public}, NEW h \in hidden
      PROVE  RoutesTo(n, h, public)'
  BY <1>1, <1>4, <1>5, <1>8 DEF RoutesTo
<1>. QED BY <1>6, <1>7, <1>8

\* UpInv where Deploy is done.
LEMMA DeployReaches ==
  ASSUME TypeInv, Deploy
  PROVE  /\ AllReach'
         /\ public \notin Members =>
              \A n, m \in Members : n # m => Know(n, m)' /\ RoutesTo(n, m, m)'
<1>1. Members' = Members /\ public' = public /\ Members = hidden \cup accessible
      /\ pc = "deploy"
  BY DeployDone DEF Members
<1>2. public \in Members => public \in accessible
  <2>1. public # None => public \notin Hidden
    BY DEF Hidden, TypeInv
  <2>2. hidden = Hidden /\ None \notin Members
    BY <1>1, Planned, Octets DEF TypeInv, PlanInv
  <2>. QED BY <1>1, <2>1, <2>2
<1>3. public \notin Members =>
        \A n, m \in Members : n # m => Know(n, m)' /\ RoutesTo(n, m, m)'
  BY <1>1, BothAccessible, DeployConnects
<1>4. ASSUME NEW n \in Members, NEW m \in Members, n # m
      PROVE  Reach(n, m)'
  <2>1. CASE public \notin Members
    BY <1>3, <1>4, <2>1 DEF Reach
  <2>2. CASE n \in accessible /\ m \in accessible
    BY <1>4, <2>2, DeployConnects DEF Reach
  <2>3. CASE public \in accessible /\ n \in hidden
    <3>1. Know(n, public)' /\ RoutesTo(n, m, public)'
      BY <2>3, DeployConnects
    <3>2. CASE m = public
      <4>1. RoutesTo(n, m, m)'
        BY <1>1, <3>1, <3>2
      <4>. QED BY <1>1, <3>1, <3>2, <4>1 DEF Reach
    <3>3. CASE m # public
      <4>1. Know(public, m)' /\ RoutesTo(public, m, m)'
        BY <1>1, <2>3, <3>3, DeployConnects
      <4>. QED BY <1>1, <3>1, <4>1 DEF Reach
    <3>. QED BY <3>2, <3>3
  <2>4. CASE public \in accessible /\ n \in accessible /\ m \in hidden
    <3>1. Know(public, m)' /\ RoutesTo(public, m, m)'
      BY <2>4, DeployConnects
    <3>2. CASE n = public
      BY <1>1, <3>1, <3>2 DEF Reach
    <3>3. CASE n # public
      <4>1. Know(n, public)'
        <5>1. \A q \in accessible : n # q => Know(n, q)'
          BY <2>4, DeployConnects
        <5>. QED BY <1>1, <2>4, <3>3, <5>1 DEF Know
      <4>2. RoutesTo(n, m, public)'
        <5>1. n \in accessible \ {public}
          BY <2>4, <3>3
        <5>. QED BY <2>4, <5>1, DeployConnects
      <4>. QED BY <1>1, <3>1, <4>1, <4>2 DEF Reach
    <3>. QED BY <3>2, <3>3
  <2>. QED BY <1>1, <1>2, <2>1, <2>2, <2>3, <2>4
<1>. QED BY <1>1, <1>3, <1>4 DEF AllReach

LEMMA DeployServes ==
  ASSUME TypeInv, Deploy, asked
  PROVE  /\ UserReaches' /\ public \in Members
         /\ ~ held'[public].peers[User].endpoint
<1>1. /\ pc = "deploy" /\ Members' = Members /\ public' = public /\ access' = access
      /\ Members = hidden \cup accessible
      /\ \A n \in Members : /\ held'[n] = NewDeployment(n) /\ held'[n].subnet = ranges[n]
                            /\ held'[n].key = keys[n]
  BY DeployDone DEF Members
<1>2. /\ wg /\ public \in accessible /\ external \in Octet
      /\ access = [external |-> external, public |-> public, key |-> keys[public]]
      /\ public \in Node /\ keys[public] \in Nat
  <2>1. wg
    BY <1>1, Planned
  <2>. QED BY <1>1, <2>1, Planned DEF TypeInv, PlanInv
<1>3. access # None
  <2>1. access \in Access
    BY <1>2 DEF Access
  <2>. QED BY <2>1, NoneIsNoRecord
<1>4. held'[public].peers[User] = [key |-> 0, allowed |-> {external}, endpoint |-> FALSE]
  BY <1>1, <1>2, Told
<1>5. held'[public].peers[User] # None
  <2>1. [key |-> 0, allowed |-> {external}, endpoint |-> FALSE] \in Peer
    BY <1>2 DEF Peer
  <2>. QED BY <1>4, <2>1, NoneIsNoRecord
<1>6. ASSUME NEW n \in Members \ {public}
      PROVE  /\ {external, Whole} \cap held'[n].peers[public].allowed # {}
             /\ RoutesTo(public, n, n)'
  <2>1. CASE n \in hidden
    <3>1. /\ held'[n].peers[public] = PeerOf(public, {Whole}, TRUE)
          /\ RoutesTo(public, n, n)'
      BY <1>1, <1>2, <2>1, Told, DeployConnects
    <3>2. held'[n].peers[public].allowed = {Whole}
      BY <3>1 DEF PeerOf
    <3>. QED BY <3>1, <3>2
  <2>2. CASE n \in accessible
    <3>1. /\ held'[n].peers[public] = PeerOf(public, {ranges[public]} \cup NonAccessible, TRUE)
          /\ RoutesTo(public, n, n)' /\ external \in NonAccessible
      BY <1>1, <1>2, <1>6, <2>2, Told, DeployConnects
    <3>2. held'[n].peers[public].allowed = {ranges[public]} \cup NonAccessible
      BY <3>1 DEF PeerOf
    <3>. QED BY <3>1, <3>2
  <2>. QED BY <1>1, <2>1, <2>2
<1>. QED BY <1>1, <1>2, <1>3, <1>4, <1>5, <1>6 DEF UserReaches

LEMMA DeployDistinct ==
  ASSUME TypeInv, RangesInv, Deploy
  PROVE  Distinct'
<1>1. /\ pc = "deploy" /\ Members' = Members
      /\ UNCHANGED <<access, asked, forgot, taken>>
      /\ \A n \in Members : held'[n].subnet = ranges[n]
  BY DeployDone
<1>2. /\ Members \subseteq Node
      /\ \A n \in Members : ranges[n] \in Octet
      /\ asked => access.external = external
  BY <1>1, Planned DEF TypeInv, PlanInv
<1>3. \A n \in Node \ forgot : ranges[n] # None =>
        /\ \A m \in Node \ (forgot \cup {n}) : ranges[n] # ranges[m]
        /\ n \notin taken => ranges[n] # external
  BY <1>1 DEF RangesInv, Trusted
<1>. QED BY <1>1, <1>2, <1>3, Octets DEF Distinct

\* While its outcome stands a deployment changes only by nodes that are cleaned up.
LEMMA UpStays ==
  ASSUME UpInv, outcome = "deployed", asked => access' = access,
         UNCHANGED <<hidden, accessible, asked, public, forgot, taken, ids>>,
         \A n \in Members : held'[n] # None => held'[n] = held[n]
  PROVE  UpInv'
<1>. SUFFICES ASSUME Settled' PROVE UpInv'
  BY DEF UpInv
<1>1. Members' = Members
  BY DEF Members
<1>2. Settled /\ \A n \in Members : held'[n] = held[n]
  BY <1>1 DEF Settled
<1>3. /\ Distinct /\ AllReach
      /\ public \notin Members =>
           \A n, m \in Members : n # m => Know(n, m) /\ RoutesTo(n, m, m)
      /\ asked => /\ UserReaches /\ public \in Members \cap ids
                  /\ ~ held[public].peers[User].endpoint
  BY <1>2 DEF UpInv
<1>4. Distinct'
  BY <1>1, <1>2, <1>3 DEF Distinct
<1>5. \A n, m \in Members : /\ Know(n, m)' <=> Know(n, m)
                            /\ \A q : RoutesTo(n, m, q)' <=> RoutesTo(n, m, q)
  BY <1>2 DEF Know, RoutesTo
<1>6. AllReach'
  <2>1. ASSUME NEW n \in Members, NEW m \in Members, n # m PROVE Reach(n, m)'
    <3>1. CASE public \notin Members
      BY <1>3, <1>5, <2>1, <3>1 DEF Reach
    <3>2. CASE public \in Members
      <4>1. Reach(n, m)
        BY <1>3, <2>1 DEF AllReach
      <4>2. CASE Know(n, m) /\ RoutesTo(n, m, m)
        BY <1>5, <4>2 DEF Reach
      <4>3. CASE /\ Know(n, public) /\ Know(public, m)
                 /\ RoutesTo(n, m, public) /\ RoutesTo(public, m, m)
        <5>1. /\ Know(n, public)' /\ Know(public, m)'
              /\ RoutesTo(n, m, public)' /\ RoutesTo(public, m, m)'
          <6>1. public' = public
            OBVIOUS
          <6>. QED BY <1>2, <3>2, <4>3, <6>1 DEF Know, RoutesTo
        <5>. QED BY <5>1 DEF Reach
      <4>. QED BY <4>1, <4>2, <4>3 DEF Reach
    <3>. QED BY <3>1, <3>2
  <2>. QED BY <1>1, <2>1 DEF AllReach
<1>7. asked => UserReaches'
  BY <1>1, <1>2, <1>3 DEF UserReaches, RoutesTo
<1>. QED BY <1>1, <1>2, <1>3, <1>4, <1>5, <1>6, <1>7 DEF UpInv

LEMMA UpNext ==
  TypeInv /\ StateInv /\ RangesInv /\ UpInv /\ [Next]_vars => UpInv'
<1>. SUFFICES ASSUME TypeInv, StateInv, RangesInv, UpInv, [Next]_vars PROVE UpInv'
  OBVIOUS
<1>. USE DEF znet, state, grid, local, history, bounds
<1>1. CASE Deploy
  <2>1. /\ Members' = Members /\ public' = public /\ asked' = asked
        /\ Members \subseteq ids'
    BY <1>1, DeployDone
  <2>. QED BY <1>1, <2>1, DeployReaches, DeployServes, DeployDistinct DEF UpInv
<1>2. CASE ReadNodesConfig
  <2>1. CASE ~ Settled'
    BY <2>1 DEF UpInv
  <2>2. CASE Settled'
    <3>1. /\ UNCHANGED <<hidden, accessible, asked, public, forgot, taken, ids, held, outcome>>
          /\ Settled
      BY <1>2, <2>2 DEF ReadNodesConfig, Settled, Members
    <3>2. ASSUME asked PROVE access' = access
      <4>1. /\ public \in ids /\ held[public].peers[User] # None
            /\ ~ held[public].peers[User].endpoint
        BY <3>1, <3>2 DEF UpInv, UserReaches
      <4>2. wg'
        BY <1>2, <4>1 DEF ReadNodesConfig, Peers
      <4>. QED BY <1>2, <4>2 DEF ReadNodesConfig
    <3>. QED BY <2>2, <3>1, <3>2, UpStays DEF Settled
  <2>. QED BY <2>1, <2>2
<1>3. CASE Environment \/ UNCHANGED vars
  <2>1. CASE outcome # "deployed"
    BY <1>3, <2>1 DEF Environment, LoseContract, Decommission, vars, UpInv, Settled
  <2>2. CASE outcome = "deployed"
    <3>1. /\ UNCHANGED <<hidden, accessible, asked, public, access, forgot, taken, ids>>
          /\ \A n \in Members : held'[n] # None => held'[n] = held[n]
      BY <1>3 DEF Environment, LoseContract, Decommission, vars, Members, TypeInv, TypeOK
    <3>. QED BY <2>2, <3>1, UpStays
  <2>. QED BY <2>1, <2>2
<1>4. CASE Calling \/ Generating \/ DeployFails \/ Cancelling \/ ReadFails \/ Edit
  <2>1. CASE Calling
    BY <2>1, Calls DEF Fail, UpInv, Settled
  <2>2. CASE Generating
    BY <2>2 DEF Generating, GenerateVersionlessDeployments, GenerateFails, AssignFails, KeysFail,
                Fail, StateInv, UpInv, Settled
  <2>3. CASE DeployFails \/ Cancelling \/ ReadFails \/ Edit
    BY <2>3 DEF DeployFails, Cancelling, CancelNode, CancelFails, CancelDone, ReadFails, Edit,
                Fail, StateInv, UpInv, Settled
  <2>. QED BY <1>4, <2>1, <2>2, <2>3
<1>. QED BY <1>1, <1>2, <1>3, <1>4 DEF Next, Deploying, Reading

LEMMA UpHolds == Spec => []UpInv
<1>1. Init => UpInv /\ StateInv
  BY DEF Init, UpInv, Settled, StateInv
<1>. QED BY <1>1, UpNext, StateNext, TypeHolds, KeptHolds, RangesHold, PTL DEF Spec

\* Connected, for any nodes, octets and bounds: after a Deploy that returned nil any two
\* nodes reach each other, and the user who asked for access reaches them all.
THEOREM AllConnected == Spec => []Connected
<1>1. UpInv => Connected
  BY DEF UpInv, Settled, Connected, Up
<1>. QED BY <1>1, UpHolds, PTL

\* SubnetsDistinct, for any nodes, octets and bounds: after a Deploy that returned nil no
\* two nodes have the same subnet and none has the user's, the two cases apart in which
\* AssignNodesIPs loses sight of a range.
THEOREM SubnetsApart == Spec => []SubnetsDistinct
<1>1. UpInv => SubnetsDistinct
  BY DEF UpInv, Settled, SubnetsDistinct, Up
<1>. QED BY <1>1, UpHolds, PTL
=============================================================================

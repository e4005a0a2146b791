----------------------------- MODULE K8sProofs -----------------------------
(***************************************************************************)
(* For any nodes, machines and number of calls: a cluster's contracts are  *)
(* known, a Deploy that returned nil deployed what was asked, what it      *)
(* deployed can be loaded, and UpdateFromRemote sees what runs.            *)
(***************************************************************************)
EXTENDS K8s, SequenceTheorems, WellFoundedInduction, TLAPS

-----------------------------------------------------------------------------
(* Lists of ids.                                                           *)

\* Noting an id keeps a list one of ids, and leaves it with an entry.
LEMMA NoteType ==
  ASSUME NEW S, NEW s \in Seq(S), NEW c \in S
  PROVE  Note(s, c) \in Seq(S) /\ DOMAIN Note(s, c) # {}
<1>1. CASE Contains(s, c)
  BY <1>1 DEF Note, Contains
<1>2. CASE ~ Contains(s, c)
  <2>1. Note(s, c) = Append(s, c)
    BY <1>2 DEF Note
  <2>2. Append(s, c) \in Seq(S) /\ Len(Append(s, c)) = Len(s) + 1 /\ Len(s) \in Nat
    OBVIOUS
  <2>3. DOMAIN Append(s, c) = 1..(Len(s) + 1)
    BY <2>2
  <2>. QED BY <2>1, <2>2, <2>3
<1>. QED BY <1>1, <1>2

\* Striking an id keeps a list one of ids.
LEMMA StrikeType ==
  ASSUME NEW S, NEW s \in Seq(S), NEW c
  PROVE  Strike(s, c) \in Seq(S)
<1>0. Len(s) \in Nat /\ DOMAIN s = 1..Len(s)
  OBVIOUS
<1>1. CASE \A i \in 1..Len(s) : s[i] # c
  <2>1. Strike(s, c) = s
    BY <1>1 DEF Strike, RemoveFirst
  <2>. QED BY <2>1
<1>2. CASE \E i \in 1..Len(s) : s[i] = c
  <2>. DEFINE k == SelectInSeq(s, LAMBDA v : v = c)
              found == {i \in 1..Len(s) : s[i] = c}
  <2>1. k \in 1..Len(s)
    <3>1. found \in SUBSET Nat /\ found # {}
      BY <1>2
    <3>2. \E i \in found : \A j \in found : i <= j
      <4>. DEFINE less == OpToRel(<, Nat)
      <4>1. \A x, y \in Nat : <<y, x>> \in less <=> y < x
        BY DEF OpToRel
      <4>2. IsWellFoundedOn(less, Nat)
        BY NatLessThanWellFounded, Zenon
      <4>. HIDE DEF less, found
      <4>3. PICK i \in found : \A j \in found : <<j, i>> \notin less
        BY <3>1, <4>2, WFMin
      <4>4. \A j \in found : ~ j < i /\ i \in Nat /\ j \in Nat
        BY <3>1, <4>1, <4>3
      <4>. QED BY <4>4
    <3>3. Min(found) \in found
      BY <3>2 DEF Min
    <3>4. k = Min(found)
      BY <3>1 DEF SelectInSeq
    <3>. QED BY <3>3, <3>4
  <2>2. Strike(s, c) = SubSeq(s, 1, k - 1) \o SubSeq(s, k + 1, Len(s))
    BY <1>2 DEF Strike, RemoveFirst, RemoveAt
  <2>. HIDE DEF k
  <2>3. SubSeq(s, 1, k - 1) \in Seq(S) /\ SubSeq(s, k + 1, Len(s)) \in Seq(S)
    BY <1>0, <2>1, SubSeqProperties
  <2>. QED BY <2>2, <2>3, ConcatProperties
<1>. QED BY <1>1, <1>2

-----------------------------------------------------------------------------
(* Type correctness.                                                       *)

\* Besides the types: a node has the deployment of a contract that goes on; and while
\* Deploy runs every node of the cluster has a subnet, and the master is on one.
TypeInv ==
  /\ TypeOK
  /\ current = [n \in Node |-> current[n]]
  /\ \A n \in Going : held[n] \in Deployment
  /\ pc = "deploy" => RangesKnown /\ master \in Node

\* A cluster starts with no contract.
LEMMA TypeInit == Init => TypeInv
<1>. SUFFICES ASSUME Init PROVE TypeInv
  OBVIOUS
<1>1. \A n \in Node : current[n] \in Seq(0..made[n])
  BY DEF Init
<1>. QED BY <1>1, MaxIsNat DEF Init, TypeInv, TypeOK, Machines, Going

\* A list of ids of a node's contracts is still one when there are more of these.
LEMMA MoreIds ==
  ASSUME NEW m \in Nat, NEW k \in Nat, m <= k, NEW s \in Seq(0..m)
  PROVE  s \in Seq(0..k)
<1>1. 0..m \subseteq 0..k
  OBVIOUS
<1>. QED BY <1>1, SeqMonotonic

\* The addresses and the deployment that Deploy makes.
LEMMA AddressesType ==
  ASSUME TypeInv, pc = "deploy"
  PROVE  /\ AssignNodesIPs \in Machines
         /\ \A n \in Node : NewDeployment(n) \in Deployment
         /\ ClusterNodes \subseteq Node /\ master \in ClusterNodes
         /\ Place(Master) = master /\ \A w \in Worker : Place(w) = workers[w]
<1>1. /\ Place(Master) = master /\ master # None
      /\ \A w \in Worker : Place(w) = workers[w]
  BY SpecialIsNoNode DEF Place, TypeInv, Worker
<1>2. ClusterNodes \subseteq Node /\ master \in ClusterNodes
  BY <1>1, MasterIsName DEF TypeInv, RangesKnown, ClusterNodes
<1>3. ASSUME NEW v \in Name, Place(v) # None
      PROVE  <<Place(v), subnets[Place(v)]>> \in Address
  <2>1. Place(v) \in Node /\ subnets[Place(v)] # None
    BY <1>3 DEF TypeInv, RangesKnown, ClusterNodes
  <2>. QED BY <2>1 DEF Address, TypeInv, TypeOK
<1>4. AssignNodesIPs \in Machines
  BY <1>3 DEF AssignNodesIPs, Machines, TypeInv, TypeOK
<1>5. AssignNodesIPs[Master] \in Address
  BY <1>1, <1>3, MasterIsName DEF AssignNodesIPs
<1>6. ASSUME NEW n \in Node PROVE NewDeployment(n) \in Deployment
  BY <1>4, <1>5 DEF NewDeployment, Deployment, Machines
<1>. QED BY <1>1, <1>2, <1>4, <1>6

\* What State lists after Deploy are ids, and once the master has a contract it lists
\* something for every node of the cluster.
LEMMA StateType ==
  ASSUME TypeInv, pc = "deploy", NEW S \in SUBSET ClusterNodes, NEW U, DeployOn(S, U)
  PROVE  /\ made' \in [Node -> Nat]
         /\ current' = [n \in Node |-> current'[n]]
         /\ \A n \in Node : current'[n] \in Seq(0..made'[n])
         /\ master \in ids' => \A n \in ClusterNodes : DOMAIN current'[n] # {}
<1>1. made' \in [Node -> Nat] /\ \A n \in Node : made[n] \in Nat /\ made[n] <= made'[n]
  BY DEF DeployOn, TypeInv, TypeOK
<1>2. \A n \in Node : current[n] \in Seq(0..made'[n])
  BY <1>1, MoreIds DEF TypeInv, TypeOK
<1>3. ASSUME NEW n \in Node, NEW c, c = IF n \in ids' THEN made'[n] ELSE 0
      PROVE  Note(current[n], c) \in Seq(0..made'[n]) /\ DOMAIN Note(current[n], c) # {}
  <2>1. c \in 0..made'[n]
    BY <1>1, <1>3
  <2>. QED BY <1>2, <2>1, NoteType
<1>4. current' = [n \in Node |->
        IF master \in ids' /\ n \in ClusterNodes
        THEN Note(current[n], IF n \in ids' THEN made'[n] ELSE 0)
        ELSE current[n]]
  BY DEF DeployOn, UpdateState
<1>5. \A n \in Node : current'[n] =
        IF master \in ids' /\ n \in ClusterNodes
        THEN Note(current[n], IF n \in ids' THEN made'[n] ELSE 0)
        ELSE current[n]
  BY <1>4
<1>6. current' = [n \in Node |-> current'[n]]
  BY <1>4
<1>7. \A n \in Node : current'[n] \in Seq(0..made'[n])
  BY <1>2, <1>3, <1>5
<1>8. master \in ids' => \A n \in ClusterNodes : DOMAIN current'[n] # {}
  BY <1>3, <1>5, AddressesType
<1>. QED BY <1>1, <1>6, <1>7, <1>8

\* A deployment is updated under its contract, or has a new one: no other contract
\* that goes on is one that ids names.
LEMMA GoingDeployOn ==
  ASSUME NEW S \in SUBSET Node, NEW U \in SUBSET Node, U \cap (ids \cup S) = {}, TypeOK,
         DeployOn(S, U)
  PROVE  /\ \A n \in ids : made'[n] = made[n]
         /\ Going' \subseteq S \cup Going
<1>1. /\ ids' = ids \cup S /\ live' = live \cup {<<n, made[n] + 1>> : n \in (S \ ids) \cup U}
      /\ made' = [n \in Node |-> IF n \in (S \ ids) \cup U THEN made[n] + 1 ELSE made[n]]
  BY DEF DeployOn
<1>2. \A n \in ids : made'[n] = made[n]
  BY <1>1 DEF TypeOK
<1>3. ASSUME NEW n \in ids, <<n, made'[n]>> \in live' PROVE <<n, made[n]>> \in live
  BY <1>1, <1>2, <1>3
<1>. QED BY <1>1, <1>2, <1>3 DEF Going, IdOf

\* Deploy as Deployer.Deploy leaves it, whatever it deployed and could not return.
LEMMA TypeDeployOn ==
  ASSUME TypeInv, pc = "deploy", NEW S \in SUBSET ClusterNodes, NEW U \in SUBSET ClusterNodes,
         U \cap (ids \cup S) = {}, DeployOn(S, U), pc' = "idle",
         outcome' \in {"failed", "deployed"},
         asked' \in [Worker -> Node \cup {None}], had' \subseteq Node
  PROVE  TypeInv'
<1>1. S \subseteq Node /\ U \subseteq Node
  BY AddressesType
<1>2. /\ ids' = ids \cup S
      /\ held' = [n \in Node |-> IF n \in S THEN NewDeployment(n) ELSE held[n]]
      /\ ip' = AssignNodesIPs /\ UNCHANGED <<master, workers, subnets, paused, released, bounds>>
  BY DEF DeployOn
<1>3. held' \in [Node -> Deployment \cup {None}]
  BY <1>2, AddressesType DEF TypeInv, TypeOK
<1>4. \A n \in Going' : held'[n] \in Deployment
  <2>1. Going' \subseteq S \cup Going /\ Going \subseteq Node
    BY <1>1, GoingDeployOn DEF TypeInv, TypeOK, Going
  <2>. QED BY <1>1, <1>2, <2>1, AddressesType DEF TypeInv
<1>5. /\ live' \subseteq Node \X Nat /\ leaked' \subseteq Node \X Nat
  <2>. DEFINE more(T) == {<<n, made[n] + 1>> : n \in T}
  <2>1. \A T \in SUBSET Node : more(T) \subseteq Node \X Nat
    BY DEF TypeInv, TypeOK
  <2>2. live' = live \cup more((S \ ids) \cup U) /\ leaked' = leaked \cup more(U)
    BY DEF DeployOn
  <2>3. (S \ ids) \cup U \in SUBSET Node /\ U \in SUBSET Node
    BY <1>1
  <2>4. live \subseteq Node \X Nat /\ leaked \subseteq Node \X Nat
    BY DEF TypeInv, TypeOK
  <2>. HIDE DEF more
  <2>. QED BY <2>1, <2>2, <2>3, <2>4
<1>6. /\ ids' \subseteq Node /\ ip' \in Machines /\ pc' # "deploy"
      /\ made' \in [Node -> Nat] /\ current' = [n \in Node |-> current'[n]]
      /\ \A n \in Node : current'[n] \in Seq(0..made'[n])
  BY <1>1, <1>2, AddressesType, StateType DEF TypeInv, TypeOK
<1>7. {live', released', leaked'} \subseteq SUBSET (Node \X Nat) /\ paused' \subseteq Node
  BY <1>2, <1>5 DEF TypeInv, TypeOK
<1>8. /\ {workers', asked'} \subseteq [Worker -> Node \cup {None}]
      /\ master' \in Node \cup {Zero, Nil} /\ subnets' \in [Node -> Nat \cup {None}]
      /\ deploys' \in 0..MaxDeploys /\ edits' \in 0..MaxEdits
      /\ losses' \in 0..MaxLosses /\ moves' \in 0..MaxMoves
  BY <1>2 DEF TypeInv, TypeOK, bounds
<1>9. pc' \in {"idle", "deploy", "cancel", "crashed"}
      /\ outcome' \in {"none", "failed", "deployed", "cancelled", "updated"}
  OBVIOUS
<1>10. TypeOK'
  BY <1>3, <1>6, <1>7, <1>8, <1>9, Zenon DEF TypeOK
<1>. QED BY <1>4, <1>6, <1>10, Zenon DEF TypeInv

\* Every step keeps the types, and what is on a node is known while its contract goes on.
LEMMA TypeNext == TypeInv /\ [Next]_vars => TypeInv'
<1>. SUFFICES ASSUME TypeInv, [Next]_vars PROVE TypeInv'
  OBVIOUS
<1>. USE DEF cluster, grid, history, strays, bounds
<1>1. ASSUME Invalidate \/ InvalidateFails PROVE TypeInv'
  <2>1. /\ UNCHANGED <<ip, current, subnets, made, live, leaked, edits, losses, moves>>
        /\ deploys' \in 0..MaxDeploys /\ master # Nil /\ RangesKnown
    BY <1>1, MaxIsNat DEF Invalidate, InvalidateFails, Call, TypeInv, TypeOK
  <2>2. /\ ids' \subseteq ids /\ held' \in [Node -> Deployment \cup {None}]
        /\ paused' \subseteq Node /\ released' \subseteq Node \X Nat
        /\ \A n \in Going' : held'[n] \in Deployment
    <3>1. PICK gone \in SUBSET ids : Drop(gone)
      BY <1>1 DEF Invalidate, InvalidateFails
    <3>2. /\ ids' = ids \ gone /\ paused' = paused \ gone
          /\ held' = [n \in Node |-> IF n \in gone THEN None ELSE held[n]]
          /\ released' = released \cup {IdOf(n) : n \in gone \cap Going}
      BY <3>1 DEF Drop
    <3>3. \A n \in Node : IdOf(n) \in Node \X Nat
      BY DEF IdOf, TypeInv, TypeOK
    <3>4. released' \subseteq Node \X Nat
      BY <3>2, <3>3 DEF Going, TypeInv, TypeOK
    <3>5. Going' \subseteq Going \ gone
      BY <2>1, <3>2 DEF Going, IdOf
    <3>. QED BY <3>2, <3>4, <3>5 DEF Going, TypeInv, TypeOK
  <2>9. ASSUME workers' \in [Worker -> Node \cup {None}], asked' \in [Worker -> Node \cup {None}],
               had' \subseteq Node, master' \in Node \cup {Zero, Nil},
               outcome' \in {"none", "failed"}, pc' \in {"deploy", "idle"},
               pc' = "deploy" => RangesKnown' /\ master' \in Node
        PROVE  TypeInv'
    <3>1. /\ ip' \in Machines /\ ids' \subseteq Node
          /\ current' = [n \in Node |-> current'[n]] /\ made' \in [Node -> Nat]
          /\ \A n \in Node : current'[n] \in Seq(0..made'[n])
          /\ subnets' \in [Node -> Nat \cup {None}]
          /\ edits' \in 0..MaxEdits /\ losses' \in 0..MaxLosses /\ moves' \in 0..MaxMoves
      BY <2>1, <2>2 DEF TypeInv, TypeOK
    <3>2. {live', released', leaked'} \subseteq SUBSET (Node \X Nat)
      BY <2>1, <2>2 DEF TypeInv, TypeOK
    <3>3. {workers', asked'} \subseteq [Worker -> Node \cup {None}]
      BY <2>9
    <3>4. outcome' \in {"none", "failed", "deployed", "cancelled", "updated"}
          /\ pc' \in {"idle", "deploy", "cancel", "crashed"}
      BY <2>9
    <3>5. TypeOK'
      BY <2>1, <2>2, <2>9, <3>1, <3>2, <3>3, <3>4, Zenon DEF TypeOK
    <3>. QED BY <2>2, <2>9, <3>1, <3>5, Zenon DEF TypeInv
  <2>3. CASE Invalidate
    <3>1. /\ master' \in {master, Zero}
          /\ workers' = [w \in Worker |->
                           IF ids # {} /\ workers[w] \notin Valid THEN None ELSE workers[w]]
      BY <2>3 DEF Invalidate
    <3>2. \A w \in Worker : workers'[w] \in {workers[w], None}
      BY <3>1
    <3>3. workers' \in [Worker -> Node \cup {None}]
      BY <3>1 DEF TypeInv, TypeOK
    <3>4. CASE master' = Zero
      <4>1. /\ pc' = "idle" /\ outcome' = "failed" /\ had' = {}
            /\ asked' = [w \in Worker |-> None]
        BY <2>3, <3>4 DEF Invalidate, Fail, Return, Forget
      <4>2. /\ asked' \in [Worker -> Node \cup {None}] /\ had' \subseteq Node
            /\ master' \in Node \cup {Zero, Nil}
            /\ outcome' \in {"none", "failed"} /\ pc' \in {"deploy", "idle"} /\ pc' # "deploy"
        BY <3>4, <4>1
      <4>. QED BY <2>9, <3>3, <4>2, Zenon
    <3>5. CASE master' # Zero
      <4>1. /\ master' = master /\ master \in Node /\ pc' = "deploy" /\ outcome' = "none"
            /\ asked' = workers /\ had' = Valid /\ Valid \subseteq Node
        BY <2>1, <2>3, <3>1, <3>5 DEF Invalidate, Valid, Going, TypeInv, TypeOK
      <4>2. RangesKnown'
        <5>1. ClusterNodes' \subseteq ClusterNodes
          BY <3>2, <4>1 DEF ClusterNodes, Place, Worker
        <5>. QED BY <2>1, <5>1 DEF RangesKnown
      <4>3. had' \subseteq Node /\ asked' \in [Worker -> Node \cup {None}]
            /\ master' \in Node
        BY <4>1 DEF TypeInv, TypeOK
      <4>4. outcome' \in {"none", "failed"} /\ pc' \in {"deploy", "idle"}
        BY <4>1
      <4>. QED BY <2>9, <3>3, <4>2, <4>3, <4>4, Zenon
    <3>. QED BY <3>4, <3>5
  <2>4. CASE InvalidateFails
    <3>1. /\ pc' = "idle" /\ outcome' = "failed" /\ had' = {}
          /\ asked' = [w \in Worker |-> None] /\ UNCHANGED <<master, workers>>
      BY <2>4 DEF InvalidateFails, Fail, Return, Forget
    <3>2. /\ asked' \in [Worker -> Node \cup {None}] /\ workers' \in [Worker -> Node \cup {None}]
          /\ had' \subseteq Node /\ master' \in Node \cup {Zero, Nil}
          /\ outcome' \in {"none", "failed"} /\ pc' \in {"deploy", "idle"} /\ pc' # "deploy"
      BY <3>1 DEF TypeInv, TypeOK
    <3>. QED BY <2>9, <3>2, Zenon
  <2>. QED BY <1>1, <2>3, <2>4
<1>2. CASE ValidateFails
  BY <1>2 DEF ValidateFails, Fail, Return, Forget, TypeInv, TypeOK, Going, IdOf
<1>3. CASE Deploy
  BY <1>3, TypeDeployOn DEF Deploy, Return, TypeInv, TypeOK
<1>4. CASE DeployFails
  <2>1. /\ pc = "deploy" /\ pc' = "idle" /\ outcome' = "failed"
        /\ asked' \in [Worker -> Node \cup {None}] /\ had' = {}
        /\ \E S, U \in SUBSET ClusterNodes : U \cap (ids \cup S) = {} /\ DeployOn(S, U)
    BY <1>4 DEF DeployFails, Fail, Return, Forget
  <2>. QED BY <2>1, TypeDeployOn
<1>5. CASE CancelBegins
  BY <1>5 DEF CancelBegins, Forget, TypeInv, TypeOK, Going, IdOf
<1>6. ASSUME NEW n \in Node, CancelNode(n) PROVE TypeInv'
  <2>1. Strike(current[n], made[n]) \in Seq(0..made[n])
    BY StrikeType DEF TypeInv, TypeOK
  <2>2. /\ live' = live \ {IdOf(n)} /\ paused' = paused \ {n} /\ ids' = ids \ {n}
        /\ held' = [held EXCEPT ![n] = None]
        /\ current' = [current EXCEPT ![n] = Strike(current[n], made[n])]
        /\ UNCHANGED <<master, workers, ip, subnets, made, pc, outcome, history, strays, bounds>>
        /\ pc = "cancel"
    BY <1>6 DEF CancelNode, End
  <2>3. /\ current' = [m \in Node |-> current'[m]]
        /\ \A m \in Node : current'[m] \in Seq(0..made[m])
    BY <2>1, <2>2 DEF TypeInv, TypeOK
  <2>4. Going' \subseteq Going \ {n}
    BY <2>2 DEF Going, IdOf
  <2>5. \A m \in Going' : held'[m] \in Deployment
    BY <2>2, <2>4 DEF TypeInv, TypeOK, Going
  <2>6. /\ held' \in [Node -> Deployment \cup {None}] /\ ids' \subseteq Node
        /\ live' \subseteq Node \X Nat /\ paused' \subseteq Node
    BY <2>2 DEF TypeInv, TypeOK
  <2>7. UNCHANGED <<master, workers, ip, subnets, made, pc, outcome, asked, had, released, leaked,
                    deploys, edits, losses, moves>>
    BY <2>2
  <2>8. TypeOK'
    <3>1. \A m \in Node : current'[m] \in Seq(0..made'[m])
      BY <2>3, <2>7, Zenon
    <3>2. /\ {live', released', leaked'} \subseteq SUBSET (Node \X Nat)
          /\ {workers', asked'} \subseteq [Worker -> Node \cup {None}]
      BY <2>6, <2>7 DEF TypeInv, TypeOK
    <3>3. /\ master' \in Node \cup {Zero, Nil} /\ ip' \in Machines /\ had' \subseteq Node
          /\ subnets' \in [Node -> Nat \cup {None}] /\ made' \in [Node -> Nat]
          /\ pc' \in {"idle", "deploy", "cancel", "crashed"}
          /\ outcome' \in {"none", "failed", "deployed", "cancelled", "updated"}
          /\ deploys' \in 0..MaxDeploys /\ edits' \in 0..MaxEdits
          /\ losses' \in 0..MaxLosses /\ moves' \in 0..MaxMoves
      BY <2>7 DEF TypeInv, TypeOK
    <3>. QED BY <2>6, <3>1, <3>2, <3>3, Zenon DEF TypeOK
  <2>. QED BY <2>2, <2>3, <2>5, <2>8 DEF TypeInv
<1>7. CASE CancelFails
  <2>1. live' \subseteq live /\ paused' \subseteq paused
        /\ UNCHANGED <<cluster, current, subnets, made, held, strays, bounds>>
        /\ pc' = "idle" /\ outcome' = "failed"
        /\ asked' = [w \in Worker |-> None] /\ had' = {}
    BY <1>7 DEF CancelFails, End, Fail, Return, Forget
  <2>2. Going' \subseteq Going
    BY <2>1 DEF Going, IdOf
  <2>3. \A n \in Going' : held'[n] \in Deployment
    BY <2>1, <2>2 DEF TypeInv
  <2>4. TypeOK'
    BY <2>1 DEF TypeInv, TypeOK
  <2>5. current' = [n \in Node |-> current'[n]]
    BY <2>1 DEF TypeInv
  <2>6. pc' # "deploy"
    BY <2>1
  <2>. QED BY <2>3, <2>4, <2>5, <2>6 DEF TypeInv
<1>8. CASE CancelDone
  BY <1>8 DEF CancelDone, Return, TypeInv, TypeOK, Going, IdOf
<1>9. CASE Updating
  <2>1. RemoveDeletedContracts
    BY <1>9 DEF Updating, UpdateFromRemote, UpdateFails, UpdatePanics
  <2>2. /\ ids' = Going /\ held' \in [Node -> Deployment \cup {None}]
        /\ Going' \subseteq Going /\ Going \subseteq Node
        /\ \A n \in Going : held'[n] = held[n]
        /\ asked' \in [Worker -> Node \cup {None}] /\ had' = {}
        /\ UNCHANGED <<current, subnets, made, live, paused, strays, bounds>>
    BY <2>1 DEF RemoveDeletedContracts, Forget, TypeInv, TypeOK, Going
  <2>3. /\ master' \in Node \cup {Zero, Nil} /\ workers' \in [Worker -> Node \cup {None}]
        /\ ip' \in Machines /\ pc' \in {"idle", "crashed"} /\ outcome' \in {"updated", "failed"}
    <3>1. CASE UpdateFromRemote
      <4>1. PICK at \in Placements :
              /\ master' = IF MasterFound THEN at[Master] ELSE Nil
              /\ PlaceWorkers(at)
              /\ ip' = [v \in Name |-> IF v \in Remote THEN held[at[v]].ips[v] ELSE None]
        BY <3>1 DEF UpdateFromRemote, PlaceMaster
      <4>2. \A v \in Remote : at[v] \in Node /\ at[v] \in Going /\ v \in Name
        BY <4>1 DEF Placements, HoldersOf, Remote
      <4>3. \A v \in Remote : held[at[v]].ips[v] \in Address \cup {None}
        BY <4>2 DEF TypeInv, Deployment, Machines
      <4>4. ip' \in Machines
        BY <4>1, <4>3 DEF Machines
      <4>5. workers' \in [Worker -> Node \cup {None}]
        BY <4>1, <4>2 DEF PlaceWorkers
      <4>6. master' \in Node \cup {Zero, Nil}
        BY <4>1, <4>2 DEF MasterFound
      <4>. QED BY <3>1, <4>4, <4>5, <4>6 DEF UpdateFromRemote, Return
    <3>2. CASE UpdateFails
      <4>1. workers' = workers /\ pc' = "idle" /\ outcome' = "failed"
        BY <3>2 DEF UpdateFails, Return
      <4>2. CASE UNCHANGED <<master, ip>>
        BY <4>1, <4>2 DEF TypeInv, TypeOK
      <4>3. CASE ~ UNCHANGED <<master, ip>>
        <5>1. PICK at \in Placements :
                /\ master' = IF MasterFound THEN at[Master] ELSE Nil
                /\ ip' = [ip EXCEPT ![Master] =
                            IF MasterFound THEN held[at[Master]].ips[Master] ELSE None]
          BY <3>2, <4>3 DEF UpdateFails, PlaceMaster
        <5>2. MasterFound => at[Master] \in Node /\ at[Master] \in Going
          BY DEF MasterFound, Placements, HoldersOf
        <5>3. MasterFound => held[at[Master]].ips[Master] \in Address \cup {None}
          BY <5>2, MasterIsName DEF TypeInv, Deployment, Machines
        <5>4. ip' \in Machines
          BY <5>1, <5>3 DEF TypeInv, TypeOK, Machines
        <5>. QED BY <4>1, <5>1, <5>2, <5>4 DEF TypeInv, TypeOK
      <4>. QED BY <4>2, <4>3
    <3>3. CASE UpdatePanics
      BY <3>3 DEF UpdatePanics, Return, TypeInv, TypeOK
    <3>. QED BY <1>9, <3>1, <3>2, <3>3 DEF Updating
  <2>. QED BY <2>2, <2>3 DEF TypeInv, TypeOK
<1>10. CASE Edit
  <2>1. /\ edits' \in 0..MaxEdits /\ outcome' = "none" /\ pc' = "idle"
        /\ asked' = [w \in Worker |-> None] /\ had' = {}
        /\ UNCHANGED <<ids, current, subnets, grid, strays, deploys, losses, moves>>
    BY <1>10, MaxIsNat DEF Edit, Forget, TypeInv, TypeOK
  <2>2. /\ workers' \in [Worker -> Node \cup {None}] /\ master' \in Node \cup {Zero, Nil}
        /\ ip' \in Machines
    BY <1>10 DEF Edit, TypeInv, TypeOK, Machines
  <2>. QED BY <2>1, <2>2 DEF TypeInv, TypeOK, Going, IdOf
<1>11. ASSUME NEW n \in Node, MoveNetwork(n) PROVE TypeInv'
  <2>1. /\ moves' \in 0..MaxMoves /\ moves' \in Nat /\ outcome' = "none" /\ pc' = "idle"
        /\ asked' = [w \in Worker |-> None] /\ had' = {}
        /\ UNCHANGED <<cluster, current, grid, strays, deploys, edits, losses>>
    BY <1>11, MaxIsNat DEF MoveNetwork, Forget, TypeInv, TypeOK
  <2>2. subnets' \in [Node -> Nat \cup {None}]
    BY <1>11, <2>1 DEF MoveNetwork, TypeInv, TypeOK
  <2>. QED BY <2>1, <2>2 DEF TypeInv, TypeOK, Going, IdOf
<1>12. ASSUME \/ \E c \in live : LoseContract(c)
              \/ \E n \in Node : Pause(n)
       PROVE  TypeInv'
  <2>1. losses' \in 0..MaxLosses
    <3>1. losses' \in {losses} \/ Trouble
      BY <1>12 DEF LoseContract, Pause
    <3>. QED BY <3>1, MaxIsNat DEF Trouble, TypeInv, TypeOK
  <2>2. live' \subseteq live /\ paused' \subseteq Node
    BY <1>12 DEF LoseContract, Pause, Valid, Going, TypeInv, TypeOK
  <2>3. UNCHANGED <<cluster, current, subnets, made, held, pc, outcome, history, strays,
                    deploys, edits, moves>>
    BY <1>12 DEF LoseContract, Pause
  <2>. QED BY <2>1, <2>2, <2>3 DEF TypeInv, TypeOK, RangesKnown, ClusterNodes, Place, Going, IdOf
<1>13. ASSUME NEW n \in Node, Decommission(n) PROVE TypeInv'
  <2>1. /\ UNCHANGED <<cluster, current, subnets, made, live, paused, pc, outcome, history,
                        strays, bounds>>
        /\ n \notin Going /\ held' = [held EXCEPT ![n] = None]
    BY <1>13 DEF Decommission
  <2>2. Going' = Going
    BY <2>1 DEF Going, IdOf
  <2>3. held' \in [Node -> Deployment \cup {None}] /\ \A m \in Going' : held'[m] \in Deployment
    BY <2>1, <2>2 DEF TypeInv, TypeOK
  <2>4. RangesKnown' = RangesKnown
    BY <2>1 DEF RangesKnown, ClusterNodes, Place
  <2>. QED BY <2>1, <2>3, <2>4 DEF TypeInv, TypeOK
<1>14. CASE UNCHANGED vars
  BY <1>14 DEF vars, TypeInv, TypeOK, RangesKnown, ClusterNodes, Place, Going, IdOf
<1>15. CASE Environment
  <2>1. \/ \E c \in live : LoseContract(c)
        \/ \E n \in Node : Pause(n)
        \/ \E n \in Node : MoveNetwork(n)
        \/ \E n \in Node : Decommission(n)
    BY <1>15, Zenon DEF Environment
  <2>. QED BY <1>11, <1>12, <1>13, <2>1, Zenon
<1>16. CASE Deploying \/ Cancelling
  BY <1>1, <1>2, <1>3, <1>4, <1>5, <1>6, <1>7, <1>8, <1>16, Zenon DEF Deploying, Cancelling
<1>. QED BY <1>9, <1>10, <1>14, <1>15, <1>16, Zenon DEF Next

\* TypeInv holds in every state.
LEMMA TypeHolds == Spec => []TypeInv
BY TypeInit, TypeNext, PTL DEF Spec

\* Every variable of K8s keeps its type, for all values of the constants.
THEOREM TypeCorrect == Spec => []TypeOK
<1>1. TypeInv => TypeOK
  BY DEF TypeInv
<1>. QED BY <1>1, TypeHolds, PTL

-----------------------------------------------------------------------------
(* Contracts.                                                              *)

\* Every step keeps the contracts that go on known: what is dropped has ended or is in
\* its grace period, and what is created is in the map or could not be returned.
LEMMA KnownNext == TypeInv /\ LiveIsKnown /\ [Next]_vars => LiveIsKnown'
<1>. SUFFICES ASSUME TypeInv, LiveIsKnown, [Next]_vars PROVE LiveIsKnown'
  OBVIOUS
<1>. USE DEF cluster, grid, history, strays, bounds
<1>1. CASE Invalidate \/ InvalidateFails
  <2>1. PICK gone \in SUBSET ids : Drop(gone)
    BY <1>1 DEF Invalidate, InvalidateFails
  <2>2. /\ ids' = ids \ gone /\ released' = released \cup {IdOf(n) : n \in gone \cap Going}
        /\ UNCHANGED <<made, live, leaked>>
    BY <1>1, <2>1 DEF Drop, Invalidate, InvalidateFails, Call
  <2>3. ASSUME NEW c \in live \ (leaked \cup released), c[1] \in gone
        PROVE  c \in released'
    BY <2>2, <2>3 DEF LiveIsKnown, Going
  <2>. QED BY <2>2, <2>3 DEF LiveIsKnown, IdOf
<1>2. CASE Deploy \/ DeployFails
  <2>1. PICK S \in SUBSET ClusterNodes, U \in SUBSET ClusterNodes :
          pc = "deploy" /\ U \cap (ids \cup S) = {} /\ DeployOn(S, U)
    BY <1>2 DEF Deploy, DeployFails
  <2>2. S \subseteq Node /\ U \subseteq Node
    BY <2>1, AddressesType
  <2>3. /\ ids' = ids \cup S /\ live' = live \cup {<<n, made[n] + 1>> : n \in (S \ ids) \cup U}
        /\ made' = [n \in Node |-> IF n \in (S \ ids) \cup U THEN made[n] + 1 ELSE made[n]]
        /\ leaked' = leaked \cup {<<n, made[n] + 1>> : n \in U} /\ released' = released
    BY <2>1 DEF DeployOn
  <2>4. \A n \in ids : made'[n] = made[n]
    BY <2>1, <2>2, GoingDeployOn DEF TypeInv
  <2>5. ASSUME NEW c \in live' \ (leaked' \cup released')
        PROVE  c[1] \in ids' /\ c = <<c[1], made'[c[1]]>>
    <3>1. CASE c \in live
      BY <2>3, <2>4, <3>1 DEF LiveIsKnown, IdOf
    <3>2. CASE c \notin live
      BY <2>2, <2>3, <3>2
    <3>. QED BY <3>1, <3>2
  <2>. QED BY <2>5 DEF LiveIsKnown, IdOf
<1>3. CASE Updating
  <2>1. ids' = Going /\ UNCHANGED <<made, live, leaked, released>>
    BY <1>3 DEF Updating, UpdateFromRemote, UpdateFails, UpdatePanics, RemoveDeletedContracts
  <2>. QED BY <2>1 DEF LiveIsKnown, Going, IdOf
<1>4. ASSUME NEW n \in Node, CancelNode(n) PROVE LiveIsKnown'
  BY <1>4 DEF CancelNode, End, LiveIsKnown, IdOf
<1>5. CASE \/ ValidateFails \/ CancelBegins \/ CancelFails \/ CancelDone
           \/ Edit \/ Environment \/ UNCHANGED vars
  <2>1. live' \subseteq live /\ UNCHANGED <<ids, made, leaked, released>>
    BY <1>5 DEF ValidateFails, CancelBegins, CancelFails, End, CancelDone, Edit,
                Environment, MoveNetwork, LoseContract, Pause, Decommission, vars
  <2>. QED BY <2>1 DEF LiveIsKnown, IdOf
<1>. QED BY <1>1, <1>2, <1>3, <1>4, <1>5 DEF Next, Deploying, Cancelling

\* LiveIsKnown holds in every state.
LEMMA KnownHolds == Spec => []LiveIsKnown
<1>1. Init => LiveIsKnown
  BY DEF Init, LiveIsKnown
<1>. QED BY <1>1, KnownNext, TypeHolds, PTL DEF Spec

\* LiveIsKnown, for any nodes and machines: no contract of the cluster is out of the
\* sight of its K8sCluster, wherever a call failed, but for those Deployer.Deploy could
\* neither return nor cancel and those dropped in their grace period.
THEOREM LiveKnown == Spec => []LiveIsKnown
BY KnownHolds

-----------------------------------------------------------------------------
(* What a Deploy that returned nil has deployed.                           *)

\* A worker that was asked for is still to be deployed, or was dropped because its node
\* had no contract when others had one.
AskedInv ==
  pc = "deploy" =>
    \A w \in Worker : asked[w] \in {None, workers[w]} \/ (had # {} /\ asked[w] \notin had)

\* As long as the outcome of Deploy stands the master is on a node, and State lists
\* something for every node of the cluster, whose id the cluster has.
DeployedInv ==
  pc = "idle" /\ outcome = "deployed" =>
    /\ master \in Node
    /\ \A n \in ClusterNodes : n \in Node /\ n \in ids /\ DOMAIN current[n] # {}

\* AskedInv begins when attributes that were broken have been invalidated.
LEMMA AskedNext == TypeInv /\ AskedInv /\ [Next]_vars => AskedInv'
<1>. SUFFICES ASSUME TypeInv, AskedInv, [Next]_vars, pc' = "deploy" PROVE AskedInv'
  BY DEF AskedInv
<1>. USE DEF cluster, grid, history, strays, bounds
<1>1. CASE Invalidate
  <2>1. /\ master' # Zero /\ asked' = workers /\ had' = Valid
        /\ workers' = [w \in Worker |-> IF ids # {} /\ workers[w] \notin Valid THEN None
                                        ELSE workers[w]]
        /\ ids = {} \/ master \in Valid
    BY <1>1 DEF Invalidate, Fail, Return
  <2>. QED BY <2>1 DEF AskedInv, Valid, Going
<1>2. CASE UNCHANGED <<pc, workers, asked, had>>
  BY <1>2 DEF AskedInv
<1>3. CASE ~ Invalidate
  <2>1. UNCHANGED <<pc, workers, asked, had>>
    BY <1>3, SMTT(30) DEF Next, Deploying, InvalidateFails, ValidateFails, Deploy, DeployFails, Fail,
                Return, Cancelling, CancelBegins, CancelNode, CancelFails, CancelDone,
                Updating, UpdateFromRemote, UpdateFails, UpdatePanics,
                Edit, Environment, MoveNetwork, LoseContract, Pause, Decommission, vars
  <2>. QED BY <1>2, <2>1
<1>. QED BY <1>1, <1>3

\* Deploy establishes all that is said of what is deployed.
LEMMA DeployEstablishes ==
  ASSUME TypeInv, AskedInv, Deploy
  PROVE  DeploysWhatWasAsked' /\ DeployedInv'
<1>1. /\ pc = "deploy" /\ DeployOn(ClusterNodes, {}) /\ UNCHANGED <<asked, had>>
      /\ UNCHANGED <<master, workers, subnets>>
  BY DEF Deploy, DeployOn, history
<1>2. /\ ClusterNodes \subseteq Node /\ master \in ClusterNodes
      /\ Place(Master) = master /\ \A w \in Worker : Place(w) = workers[w]
  BY <1>1, AddressesType
<1>3. ClusterNodes' = ClusterNodes
  BY <1>1 DEF ClusterNodes, Place
<1>4. /\ ids' = ids \cup ClusterNodes
      /\ \A n \in ClusterNodes : held'[n] = NewDeployment(n)
  BY <1>1, <1>2 DEF DeployOn
<1>5. \A n \in ClusterNodes : DOMAIN current'[n] # {}
  BY <1>1, <1>2, <1>4, StateType
<1>6. ASSUME NEW w \in Worker, asked[w] = workers[w], asked[w] # None
      PROVE  /\ held'[asked[w]].ips[w] = <<asked[w], subnets[asked[w]]>>
             /\ held'[asked[w]].url = held'[master].ips[Master]
  <2>1. w \in Name /\ Master \in Name /\ Place(w) = asked[w] /\ asked[w] \in ClusterNodes
    BY <1>2, <1>6, MasterIsName DEF Worker, ClusterNodes
  <2>2. w \in On(asked[w]) /\ Master \in On(master)
    BY <1>2, <2>1 DEF On
  <2>3. AssignNodesIPs[w] = <<asked[w], subnets[asked[w]]>>
    BY <1>6, <2>1 DEF AssignNodesIPs
  <2>4. held'[asked[w]] = NewDeployment(asked[w]) /\ held'[master] = NewDeployment(master)
    BY <1>2, <1>4, <2>1
  <2>. QED BY <2>1, <2>2, <2>3, <2>4 DEF NewDeployment
<1>7. DeploysWhatWasAsked'
  BY <1>1, <1>6 DEF AskedInv, DeploysWhatWasAsked
<1>8. DeployedInv'
  BY <1>1, <1>2, <1>3, <1>4, <1>5 DEF DeployedInv
<1>. QED BY <1>7, <1>8

\* While its outcome stands the grid may only take deployments away.
LEMMA DeployedStands ==
  ASSUME TypeInv, [Next]_vars, ~ Deploy, pc' = "idle", outcome' = "deployed"
  PROVE  /\ pc = "idle" /\ outcome = "deployed"
         /\ UNCHANGED <<master, workers, ids, current, subnets, made, asked, had>>
         /\ \A n \in Node : held'[n] \in {held[n], None}
<1>. USE DEF cluster, grid, history, strays, bounds
<1>1. CASE \E n \in Node : Decommission(n)
  BY <1>1 DEF Decommission, TypeInv, TypeOK
<1>2. CASE (\E c \in live : LoseContract(c)) \/ (\E n \in Node : Pause(n)) \/ UNCHANGED vars
  BY <1>2 DEF LoseContract, Pause, vars
<1>3. CASE Deploying \/ Cancelling
  BY <1>3 DEF Deploying, Invalidate, InvalidateFails, ValidateFails, DeployFails, Fail, Return,
              Cancelling, CancelBegins, CancelNode, CancelFails, CancelDone
<1>4. CASE Updating \/ Edit \/ \E n \in Node : MoveNetwork(n)
  BY <1>4 DEF Updating, UpdateFromRemote, UpdateFails, UpdatePanics, Return, Edit, MoveNetwork
<1>. QED BY <1>1, <1>2, <1>3, <1>4 DEF Next, Environment

\* Every step keeps what is said of what is deployed.
LEMMA DeployedNext ==
  TypeInv /\ AskedInv /\ DeploysWhatWasAsked /\ DeployedInv /\ [Next]_vars
    => DeploysWhatWasAsked' /\ DeployedInv'
<1>. SUFFICES ASSUME TypeInv, AskedInv, DeploysWhatWasAsked, DeployedInv, [Next]_vars
              PROVE  DeploysWhatWasAsked' /\ DeployedInv'
  OBVIOUS
<1>1. CASE Deploy
  BY <1>1, DeployEstablishes
<1>2. CASE ~ (pc' = "idle" /\ outcome' = "deployed")
  BY <1>2 DEF DeploysWhatWasAsked, DeployedInv
<1>3. CASE ~ Deploy /\ pc' = "idle" /\ outcome' = "deployed"
  <2>1. /\ pc = "idle" /\ outcome = "deployed"
        /\ UNCHANGED <<master, workers, ids, current, subnets, made, asked, had>>
        /\ \A n \in Node : held'[n] \in {held[n], None}
    BY <1>3, DeployedStands
  <2>2. ClusterNodes' = ClusterNodes
    BY <2>1 DEF ClusterNodes, Place
  <2>3. DeployedInv'
    BY <2>1, <2>2 DEF DeployedInv
  <2>4. \A w \in Worker : asked[w] \in Node \cup {None}
    BY DEF TypeInv, TypeOK
  <2>5. DeploysWhatWasAsked'
    BY <2>1, <2>4 DEF DeployedInv, DeploysWhatWasAsked
  <2>. QED BY <2>3, <2>5
<1>. QED BY <1>1, <1>2, <1>3

\* Both hold in every state.
LEMMA DeployedHolds == Spec => [](DeploysWhatWasAsked /\ DeployedInv)
<1>1. Init => AskedInv /\ DeploysWhatWasAsked /\ DeployedInv
  BY DEF Init, AskedInv, DeploysWhatWasAsked, DeployedInv
<1>. QED BY <1>1, AskedNext, DeployedNext, TypeHolds, PTL DEF Spec

\* DeploysWhatWasAsked, for any nodes and machines: a Deploy that returned nil has the
\* workers that were asked for running, in their subnets, and told of the master.
THEOREM AskedDeployed == Spec => []DeploysWhatWasAsked
BY DeployedHolds, PTL

\* LoadsCluster, for any nodes and machines: State leads the loader to every node of a
\* cluster that was deployed, but for the cases the property names.
THEOREM ClusterLoads == Spec => []LoadsCluster
<1>1. TypeInv /\ DeployedInv => LoadsCluster
  <2>. SUFFICES ASSUME TypeInv, DeployedInv, pc = "idle", outcome = "deployed",
                       NEW n \in ClusterNodes,
                       \A i \in DOMAIN current[n] : current[n][i] = made[n], held[n] # None
                PROVE  Loads(n)
    BY DEF LoadsCluster
  <2>1. n \in Node /\ n \in ids /\ DOMAIN current[n] # {}
    BY DEF DeployedInv
  <2>2. Len(current[n]) \in Nat /\ DOMAIN current[n] = 1..Len(current[n])
    BY <2>1 DEF TypeInv, TypeOK
  <2>3. 1 \in DOMAIN current[n]
    BY <2>1, <2>2
  <2>. QED BY <2>1, <2>3 DEF Loads, Readable
<1>. QED BY <1>1, DeployedHolds, TypeHolds, PTL

-----------------------------------------------------------------------------
(* What UpdateFromRemote has seen.                                         *)

\* UpdateFromRemote asks all contracts that go on, and takes a machine from a node that
\* has it.
LEMMA RemoteEstablishes ==
  ASSUME TypeInv, UpdateFromRemote
  PROVE  RemoteIsSeen'
<1>1. PICK at \in Placements :
        /\ master' = IF MasterFound THEN at[Master] ELSE Nil
        /\ PlaceWorkers(at)
        /\ ip' = [v \in Name |-> IF v \in Remote THEN held[at[v]].ips[v] ELSE None]
  BY DEF UpdateFromRemote, PlaceMaster
<1>2. /\ Going' = Going /\ \A n \in Going : held'[n] = held[n]
      /\ MasterFound \/ Missing = {}
  BY DEF UpdateFromRemote, RemoveDeletedContracts, Going, IdOf, TypeInv, TypeOK
<1>3. \A v \in Remote : at[v] \in Node /\ at[v] \in Going
  BY <1>1 DEF Placements, HoldersOf
<1>4. ASSUME NEW n \in Going, NEW v \in Name, held[n].ips[v] # None
      PROVE  /\ Place(v)' = at[v] /\ at[v] \in Node
             /\ held'[at[v]].ips[v] = ip'[v]
  <2>1. v \in Remote
    BY <1>4 DEF Remote, HoldersOf
  <2>2. CASE v = Master
    <3>1. MasterFound
      BY <1>2, <2>1, <2>2 DEF Missing
    <3>. QED BY <1>1, <1>2, <1>3, <2>1, <2>2, <3>1 DEF Place
  <2>3. CASE v # Master
    BY <1>1, <1>2, <1>3, <2>1, <2>3 DEF Place, PlaceWorkers, Worker
  <2>. QED BY <2>2, <2>3
<1>. QED BY <1>2, <1>4 DEF RemoteIsSeen

\* While its outcome stands contracts may end, and deployments go from nodes without one.
LEMMA RemoteStands ==
  ASSUME TypeInv, [Next]_vars, ~ UpdateFromRemote, pc' = "idle", outcome' = "updated"
  PROVE  /\ pc = "idle" /\ outcome = "updated" /\ UNCHANGED <<master, workers, ip>>
         /\ Going' \subseteq Going /\ \A n \in Going' : held'[n] = held[n]
<1>. USE DEF cluster, grid, history, strays, bounds
<1>1. CASE Environment \/ UNCHANGED vars
  BY <1>1 DEF Environment, MoveNetwork, LoseContract, Pause, Decommission, vars, Going, IdOf,
              TypeInv, TypeOK
<1>2. CASE Deploying \/ Cancelling
  BY <1>2 DEF Deploying, Invalidate, InvalidateFails, ValidateFails, Deploy, DeployFails, Fail, Return,
              Cancelling, CancelBegins, CancelNode, CancelFails, CancelDone
<1>3. CASE Updating \/ Edit
  BY <1>3 DEF Updating, UpdateFails, UpdatePanics, Return, Edit
<1>. QED BY <1>1, <1>2, <1>3 DEF Next

\* RemoteIsSeen, for any nodes and machines: UpdateFromRemote leaves out no machine that
\* runs, and has the address it runs with.
THEOREM RemoteSeen == Spec => []RemoteIsSeen
<1>1. Init => RemoteIsSeen
  BY DEF Init, RemoteIsSeen
<1>2. TypeInv /\ RemoteIsSeen /\ [Next]_vars => RemoteIsSeen'
  <2>. SUFFICES ASSUME TypeInv, RemoteIsSeen, [Next]_vars PROVE RemoteIsSeen'
    OBVIOUS
  <2>1. CASE UpdateFromRemote
    BY <2>1, RemoteEstablishes
  <2>2. CASE ~ (pc' = "idle" /\ outcome' = "updated")
    BY <2>2 DEF RemoteIsSeen
  <2>3. CASE ~ UpdateFromRemote /\ pc' = "idle" /\ outcome' = "updated"
    <3>1. /\ pc = "idle" /\ outcome = "updated" /\ UNCHANGED <<master, workers, ip>>
          /\ Going' \subseteq Going /\ \A n \in Going' : held'[n] = held[n]
      BY <2>3, RemoteStands
    <3>2. \A v \in Name : Place(v)' = Place(v)
      BY <3>1 DEF Place
    <3>. QED BY <3>1, <3>2 DEF RemoteIsSeen
  <2>. QED BY <2>1, <2>2, <2>3
<1>. QED BY <1>1, <1>2, TypeHolds, PTL DEF Spec
=============================================================================

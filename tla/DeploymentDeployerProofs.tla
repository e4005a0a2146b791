---------------------- MODULE DeploymentDeployerProofs ----------------------
(***************************************************************************)
(* For any deployments, VMs, host ids, contracts and number of calls: VMs  *)
(* have addresses of their own but for contracts deployed blindly, and no  *)
(* contract that goes on is out of sight.                                  *)
(***************************************************************************)
EXTENDS DeploymentDeployer, FiniteSetTheorems, TLAPS

-----------------------------------------------------------------------------
(* One pass over the VMs and the host ids.                                 *)

\* The ranks in a finite set of numbers are those below its cardinality, each taken
\* by one member.
LEMMA RankType ==
  ASSUME NEW S \in SUBSET Nat, IsFiniteSet(S)
  PROVE  \A x \in S : Rank(S, x) \in 0..Cardinality(S)-1
<1>. SUFFICES ASSUME NEW x \in S PROVE Rank(S, x) \in 0..Cardinality(S)-1
  OBVIOUS
<1>. DEFINE below == {y \in S : y < x}
<1>1. IsFiniteSet(below) /\ Cardinality(below) <= Cardinality(S)
      /\ (Cardinality(S) = Cardinality(below) => S = below)
  BY FS_Subset
<1>2. S # below
  OBVIOUS
<1>3. Cardinality(below) \in Nat /\ Cardinality(S) \in Nat
  BY <1>1, FS_CardinalityType
<1>. QED BY <1>1, <1>2, <1>3 DEF Rank

\* A smaller number has a smaller rank.
LEMMA RankGrows ==
  ASSUME NEW S \in SUBSET Nat, IsFiniteSet(S), NEW x \in S, NEW y \in S, x < y
  PROVE  Rank(S, x) < Rank(S, y)
<1>. DEFINE a == {z \in S : z < x}
            b == {z \in S : z < y}
<1>1. a \subseteq b /\ a # b
  <2>1. x \in b /\ x \notin a
    OBVIOUS
  <2>2. a \subseteq b
    <3>1. ASSUME NEW z \in S, z < x PROVE z < y
      <4>1. x \in Nat /\ y \in Nat /\ z \in Nat
        OBVIOUS
      <4>. QED BY <3>1, <4>1
    <3>. QED BY <3>1
  <2>. QED BY <2>1, <2>2
<1>2. IsFiniteSet(b)
  BY FS_Subset
<1>3. IsFiniteSet(a) /\ Cardinality(a) <= Cardinality(b)
      /\ (Cardinality(b) = Cardinality(a) => b = a)
  BY <1>1, <1>2, FS_Subset
<1>4. Cardinality(a) \in Nat /\ Cardinality(b) \in Nat
  BY <1>2, <1>3, FS_CardinalityType
<1>. QED BY <1>1, <1>3, <1>4 DEF Rank

\* Two numbers have two ranks.
LEMMA RankInjective ==
  ASSUME NEW S \in SUBSET Nat, IsFiniteSet(S), NEW x \in S, NEW y \in S,
         Rank(S, x) = Rank(S, y)
  PROVE  x = y
<1>1. Rank(S, x) \in Int
  BY RankType
<1>2. CASE x < y
  BY <1>1, <1>2, RankGrows
<1>3. CASE y < x
  BY <1>1, <1>3, RankGrows
<1>. QED BY <1>2, <1>3

\* Every number below the cardinality is the rank of a member.
LEMMA RankTaken ==
  ASSUME NEW S \in SUBSET Nat, IsFiniteSet(S), NEW r \in Nat, r < Cardinality(S)
  PROVE  \E x \in S : Rank(S, x) = r
<1>. DEFINE T == 0..Cardinality(S)-1
            f == [x \in S |-> Rank(S, x)]
<1>1. Cardinality(S) \in Nat
  BY FS_CardinalityType
<1>2. IsFiniteSet(T) /\ Cardinality(T) = Cardinality(S)
  <2>. DEFINE last == Cardinality(S) - 1
  <2>1. 0 \in Int /\ last \in Int /\ (IF 0 > last THEN 0 ELSE last - 0 + 1) = Cardinality(S)
    BY <1>1
  <2>. HIDE DEF last
  <2>2. IsFiniteSet(0..last) /\ Cardinality(0..last) = IF 0 > last THEN 0 ELSE last - 0 + 1
    <3>1. \A i, j \in Int :
            IsFiniteSet(i..j) /\ Cardinality(i..j) = IF i > j THEN 0 ELSE j - i + 1
      BY FS_Interval
    <3>. QED BY <2>1, <3>1, Zenon
  <2>. QED BY <2>1, <2>2 DEF last
<1>3. f \in Injection(S, T)
  <2>1. f \in [S -> T]
    BY RankType
  <2>2. \A x, y \in S : f[x] = f[y] => x = y
    BY RankInjective
  <2>. QED BY <2>1, <2>2 DEF Injection, IsInjective
<1>. HIDE DEF f
<1>4. f \in Surjection(S, T)
  BY <1>2, <1>3, FS_Injection
<1>5. r \in T
  BY <1>1
<1>6. PICK x \in S : f[x] = r
  BY <1>4, <1>5 DEF Surjection
<1>. QED BY <1>6 DEF f

-----------------------------------------------------------------------------
(* What assignNodesIPs does to a deployment.                               *)

\* VMs that need an address, and free host ids, are finite sets of numbers.
LEMMA FiniteNumbers ==
  ASSUME NEW d \in Dl
  PROVE  /\ Needing(d) \in SUBSET Nat /\ IsFiniteSet(Needing(d))
         /\ Free(d) \in SUBSET Nat /\ IsFiniteSet(Free(d))
<1>1. Needing(d) \in SUBSET Vm
  BY DEF Needing
<1>2. Free(d) \in SUBSET Nat /\ \A h \in Free(d) : h <= LastHost
  BY LastHostIsNat DEF Free, Host
<1>. QED BY <1>1, <1>2, VmIsNat, LastHostIsNat, FS_Subset, FS_BoundedSetOfNaturals

\* A VM that is given an address is given a free one, and that of its rank.
LEMMA AssignedFree ==
  ASSUME NEW d \in Dl, NEW v \in Needing(d),
         Rank(Needing(d), v) < Cardinality(Free(d))
  PROVE  /\ Assigned(d)[v] \in Free(d)
         /\ Rank(Free(d), Assigned(d)[v]) = Rank(Needing(d), v)
<1>1. v \in Vm
  BY DEF Needing
<1>2. Rank(Needing(d), v) \in Nat
  BY FiniteNumbers, RankType
<1>3. \E h \in Free(d) : Rank(Free(d), h) = Rank(Needing(d), v)
  BY <1>2, FiniteNumbers, RankTaken
<1>. QED BY <1>1, <1>3 DEF Assigned

\* The others keep what they have.
LEMMA AssignedElse ==
  ASSUME NEW d \in Dl, NEW v \in Vm,
         v \notin Needing(d) \/ ~ Rank(Needing(d), v) < Cardinality(Free(d))
  PROVE  Assigned(d)[v] = vms[d][v]
BY DEF Assigned

\* Where the addresses suffice, all VMs that need one are given one, and no two the same.
LEMMA AssignedAll ==
  ASSUME NEW d \in Dl, ~ Exhausted(d)
  PROVE  /\ \A v \in Needing(d) : Assigned(d)[v] \in Free(d)
         /\ \A u, v \in Needing(d) : Assigned(d)[u] = Assigned(d)[v] => u = v
<1>1. Cardinality(Needing(d)) \in Nat /\ Cardinality(Free(d)) \in Nat
  BY FiniteNumbers, FS_CardinalityType
<1>2. ASSUME NEW v \in Needing(d) PROVE Rank(Needing(d), v) < Cardinality(Free(d))
  <2>1. Rank(Needing(d), v) \in 0..Cardinality(Needing(d))-1
    BY FiniteNumbers, RankType
  <2>. QED BY <1>1, <2>1 DEF Exhausted
<1>3. ASSUME NEW u \in Needing(d), NEW v \in Needing(d), Assigned(d)[u] = Assigned(d)[v]
      PROVE  u = v
  <2>1. Rank(Needing(d), u) = Rank(Needing(d), v)
    BY <1>2, <1>3, AssignedFree
  <2>. QED BY <2>1, FiniteNumbers, RankInjective
<1>. QED BY <1>2, <1>3, AssignedFree

\* dl.Vms after assignNodesIPs; on success every VM has an address.
LEMMA AssignedType ==
  ASSUME NEW d \in Dl, vms[d] \in Vms
  PROVE  Assigned(d) \in Vms /\ (~ Exhausted(d) => Assigned(d) \in Running)
<1>1. Free(d) \subseteq Address
  BY DEF Free, Address
<1>2. Assigned(d) = [v \in Vm |-> Assigned(d)[v]]
  BY DEF Assigned
<1>3. ASSUME NEW v \in Vm PROVE Assigned(d)[v] \in Address \cup {None, Gone}
  BY <1>1, AssignedFree, AssignedElse DEF Vms
<1>4. ASSUME ~ Exhausted(d), NEW v \in Vm PROVE Assigned(d)[v] \in Address \cup {Gone}
  <2>1. CASE v \in Needing(d)
    BY <1>1, <1>4, <2>1, AssignedAll
  <2>2. CASE v \notin Needing(d)
    BY <2>2, AssignedElse DEF Vms, Needing
  <2>. QED BY <2>1, <2>2
<1>. QED BY <1>2, <1>3, <1>4 DEF Vms, Running

-----------------------------------------------------------------------------
(* Type correctness.                                                       *)

\* Besides the types: a VM that runs is one of its deployment's, and a contract that
\* was never made has none.
TypeInv ==
  /\ TypeOK
  /\ \A c \in ContractId : held[c] # None => ok[c] \subseteq Present(held[c])
  /\ \A c \in ContractId \ created : ok[c] = {}

\* Before the first call every variable has its type.
LEMMA TypeInit == Init => TypeInv
BY MaxIsNat DEF Init, TypeInv, TypeOK, Vms, Address

\* A call that hands a deployment to the node, under a contract there is.
LEMMA TypeHanded ==
  ASSUME TypeInv, NEW d \in Dl, NEW c \in ContractId, ~ Exhausted(d), Call(d), Hand(d, c),
         c \in created', created' \in {created, created \cup {c}},
         live' \subseteq created', paused' \subseteq live',
         leaked' \subseteq created', released' \subseteq created',
         \/ \E s \in SUBSET Present(Assigned(d)) : ok' = [ok EXCEPT ![c] = s]
         \/ c \notin created /\ UNCHANGED ok,
         contract' \in [Dl -> ContractId \cup {None}],
         deployment' \in [Dl -> ContractId \cup {None}],
         current' \subseteq ContractId
  PROVE  TypeInv'
<1>1. Assigned(d) \in Vms /\ Assigned(d) \in Running
  BY AssignedType DEF TypeInv, TypeOK
<1>2. /\ deploys' \in 0..MaxDeploys /\ vms' \in [Dl -> Vms]
      /\ recorded' = recorded /\ edits' = edits
  BY <1>1, MaxIsNat DEF Call, TypeInv, TypeOK
<1>3. /\ held' = [held EXCEPT ![c] = Assigned(d)]
      /\ blind' \subseteq blind \cup {c}
  BY DEF Hand
<1>4. held' \in [ContractId -> Running \cup {None}]
  BY <1>1, <1>3 DEF TypeInv, TypeOK
<1>5. /\ ok' \in [ContractId -> SUBSET Vm]
      /\ ok'[c] \subseteq Present(Assigned(d)) /\ \A b \in ContractId \ {c} : ok'[b] = ok[b]
  <2>1. Present(Assigned(d)) \subseteq Vm
    BY DEF Present
  <2>. QED BY <2>1 DEF TypeInv, TypeOK
<1>6. /\ \A b \in ContractId : held'[b] # None => ok'[b] \subseteq Present(held'[b])
      /\ \A b \in ContractId \ created' : ok'[b] = {}
  BY <1>3, <1>5 DEF TypeInv, TypeOK
<1>. QED BY <1>2, <1>3, <1>4, <1>5, <1>6 DEF TypeInv, TypeOK

\* Every step keeps the types.
LEMMA TypeNext == TypeInv /\ [Next]_vars => TypeInv'
<1>. SUFFICES ASSUME TypeInv, [Next]_vars PROVE TypeInv'
  OBVIOUS
<1>. USE DEF user, ids, grid
<1>1. ASSUME NEW d \in Dl, AssignFails(d) PROVE TypeInv'
  <2>1. Assigned(d) \in Vms
    BY AssignedType DEF TypeInv, TypeOK
  <2>2. /\ deploys' \in 0..MaxDeploys /\ vms' \in [Dl -> Vms]
        /\ UNCHANGED <<ids, grid, leaked, released, blind, recorded, edits>>
    BY <1>1, <2>1, MaxIsNat DEF AssignFails, Call, TypeInv, TypeOK
  <2>. QED BY <2>2 DEF TypeInv, TypeOK
<1>2. ASSUME NEW d \in Dl, Creates(d) PROVE TypeInv'
  <2>1. PICK c \in ContractId :
          /\ Create(c) /\ Hand(d, c) /\ Record(d, c)
          /\ \E s \in SUBSET Present(Assigned(d)) : ok' = [ok EXCEPT ![c] = s]
    BY <1>2 DEF Creates
  <2>2. /\ created' = created \cup {c} /\ live' = live \cup {c} /\ paused' = paused
        /\ deployment' = [deployment EXCEPT ![d] = c] /\ released' = released \ {c}
        /\ contract' = [contract EXCEPT ![d] = c] /\ current' = current \cup {c}
    BY <2>1 DEF Create, Record
  <2>3. Call(d) /\ ~ Exhausted(d) /\ leaked' = leaked
    BY <1>2 DEF Creates
  <2>4. /\ created' \subseteq ContractId /\ c \in created' /\ live' \subseteq created'
        /\ paused' \subseteq live' /\ leaked' \subseteq created' /\ released' \subseteq created'
        /\ contract' \in [Dl -> ContractId \cup {None}]
        /\ deployment' \in [Dl -> ContractId \cup {None}] /\ current' \subseteq ContractId
    BY <2>2, <2>3 DEF TypeInv, TypeOK
  <2>. QED BY <2>1, <2>2, <2>3, <2>4, TypeHanded
<1>3. ASSUME NEW d \in Dl, CreateFails(d) PROVE TypeInv'
  <2>1. /\ Call(d) /\ ~ Exhausted(d) /\ UNCHANGED ids
        /\ deploys' \in 0..MaxDeploys /\ vms' \in [Dl -> Vms]
        /\ UNCHANGED <<recorded, released, edits>>
    <3>1. Assigned(d) \in Vms
      BY AssignedType DEF TypeInv, TypeOK
    <3>. QED BY <1>3, <3>1, MaxIsNat DEF CreateFails, Call, TypeInv, TypeOK
  <2>2. CASE UNCHANGED <<grid, leaked, blind>>
    BY <2>1, <2>2 DEF TypeInv, TypeOK
  <2>3. ASSUME NEW c \in ContractId, Create(c), leaked' = leaked \cup {c}, UNCHANGED ok,
               Hand(d, c) \/ UNCHANGED <<held, blind>>
        PROVE  TypeInv'
    <3>1. /\ c \notin created /\ created' = created \cup {c}
          /\ live' = live \cup {c} /\ paused' = paused
      BY <2>3 DEF Create, Fresh
    <3>2. CASE Hand(d, c)
      BY <2>1, <2>3, <3>1, <3>2, TypeHanded DEF TypeInv, TypeOK
    <3>3. CASE UNCHANGED <<held, blind>>
      BY <2>1, <2>3, <3>1, <3>3 DEF TypeInv, TypeOK
    <3>. QED BY <2>3, <3>2, <3>3
  <2>. QED BY <1>3, <2>2, <2>3 DEF CreateFails
<1>4. ASSUME NEW d \in Dl, Updates(d) PROVE TypeInv'
  <2>. DEFINE c == deployment[d]
  <2>1. /\ c \in created /\ c \in ContractId /\ UNCHANGED <<created, live, paused, leaked>>
        /\ Call(d) /\ ~ Exhausted(d) /\ Hand(d, c) /\ Record(d, c)
        /\ \E s \in SUBSET Present(Assigned(d)) : ok' = [ok EXCEPT ![c] = s]
    BY <1>4 DEF Updates, TypeInv, TypeOK
  <2>2. /\ deployment' = [deployment EXCEPT ![d] = c] /\ released' = released \ {c}
        /\ contract' = [contract EXCEPT ![d] = c] /\ current' = current \cup {c}
    BY <2>1 DEF Record
  <2>. HIDE DEF c
  <2>. QED BY <2>1, <2>2, TypeHanded DEF TypeInv, TypeOK
<1>5. ASSUME NEW d \in Dl, UpdateComesToNothing(d) PROVE TypeInv'
  <2>. DEFINE c == deployment[d]
  <2>1. /\ c # None /\ c \in ContractId
        /\ deployment' = [deployment EXCEPT ![d] = c] /\ released' = released \ {c}
        /\ contract' = [contract EXCEPT ![d] = c] /\ current' = current \cup {c}
        /\ UNCHANGED <<created, live, paused, held, leaked, blind>>
    BY <1>5 DEF UpdateComesToNothing, Record, TypeInv, TypeOK
  <2>2. /\ deploys' \in 0..MaxDeploys /\ vms' \in [Dl -> Vms]
        /\ UNCHANGED <<recorded, edits>>
    <3>1. Assigned(d) \in Vms
      BY AssignedType DEF TypeInv, TypeOK
    <3>. QED BY <1>5, <3>1, MaxIsNat DEF UpdateComesToNothing, Call, TypeInv, TypeOK
  <2>3. \/ UNCHANGED ok
        \/ /\ c \in live /\ held[c] # None
           /\ \E s \in SUBSET Present(held[c]) : ok' = [ok EXCEPT ![c] = s]
    BY <1>5 DEF UpdateComesToNothing
  <2>. HIDE DEF c
  <2>4. /\ ok' \in [ContractId -> SUBSET Vm]
        /\ \A b \in ContractId : held[b] # None => ok'[b] \subseteq Present(held[b])
        /\ \A b \in ContractId \ created : ok'[b] = {}
    <3>1. Present(held[c]) \subseteq Vm
      BY DEF Present
    <3>. QED BY <2>1, <2>3, <3>1 DEF TypeInv, TypeOK
  <2>. QED BY <2>1, <2>2, <2>4 DEF TypeInv, TypeOK
<1>6. ASSUME NEW d \in Dl, Cancel(d) \/ CancelFails(d) PROVE TypeInv'
  BY <1>6 DEF Cancel, CancelFails, End, TypeInv, TypeOK
<1>7. ASSUME NEW d \in Dl, Sync(d) PROVE TypeInv'
  <2>. DEFINE c == Synced(d)
  <2>1. c \in ContractId /\ held[c] \in Running /\ ok[c] \subseteq Present(held[c]) /\ ok[c] \subseteq Vm
    BY <1>7 DEF Sync, Synced, TypeInv, TypeOK
  <2>2. {held[c][v] : v \in ok[c]} \subseteq Address
    BY <2>1 DEF Running, Present
  <2>3. [v \in Vm |-> IF v \in ok[c] THEN held[c][v] ELSE Gone] \in Vms
    BY <2>1 DEF Running, Vms
  <2>. HIDE DEF c
  <2>4. /\ recorded' = [recorded EXCEPT ![c] = {held[c][v] : v \in ok[c]}]
        /\ vms' = [vms EXCEPT ![d] = [v \in Vm |-> IF v \in ok[c] THEN held[c][v] ELSE Gone]]
        /\ UNCHANGED <<edits, ids, grid, leaked, released, blind, deploys>>
    BY <1>7 DEF Sync, c
  <2>. QED BY <2>1, <2>2, <2>3, <2>4 DEF TypeInv, TypeOK
<1>8. ASSUME NEW d \in Dl, SyncNothing(d) \/ SyncFails(d) PROVE TypeInv'
  <2>1. [v \in Vm |-> Gone] \in Vms /\ Synced(d) \in ContractId \cup {None}
    BY DEF Vms, Synced, TypeInv, TypeOK
  <2>2. /\ contract' \in [Dl -> ContractId \cup {None}]
        /\ released' \subseteq created
    BY <1>8, <2>1 DEF SyncNothing, SyncFails, Release, TypeInv, TypeOK
  <2>. QED BY <1>8, <2>1, <2>2 DEF SyncNothing, SyncFails, TypeInv, TypeOK
<1>9. CASE UpdateNetwork
  BY <1>9 DEF UpdateNetwork, TypeInv, TypeOK
<1>10. ASSUME NEW d \in Dl, NEW v \in Vm, NEW a \in Chosen \cup {None, Gone}, Edit(d, v, a)
       PROVE  TypeInv'
  <2>1. vms' \in [Dl -> Vms]
    BY <1>10 DEF Edit, TypeInv, TypeOK, Vms, Address
  <2>2. edits' \in 0..MaxEdits /\ UNCHANGED <<ids, recorded, grid, leaked, released, blind, deploys>>
    BY <1>10, MaxIsNat DEF Edit, TypeInv, TypeOK
  <2>. QED BY <2>1, <2>2 DEF TypeInv, TypeOK
<1>11. ASSUME NEW c \in ContractId, LoseContract(c) \/ Decommission(c) \/ Pause(c)
       PROVE  TypeInv'
  BY <1>11 DEF LoseContract, Decommission, End, Pause, TypeInv, TypeOK
<1>12. CASE UNCHANGED vars
  BY <1>12 DEF vars, TypeInv, TypeOK
<1>. QED
  BY <1>1, <1>2, <1>3, <1>4, <1>5, <1>6, <1>7, <1>8, <1>9, <1>10, <1>11, <1>12 DEF Next

\* TypeInv holds in every state.
LEMMA TypeHolds == Spec => []TypeInv
BY TypeInit, TypeNext, PTL DEF Spec

\* Every variable of DeploymentDeployer keeps its type, for all values of the constants.
THEOREM TypeCorrect == Spec => []TypeOK
<1>1. TypeInv => TypeOK
  BY DEF TypeInv
<1>. QED BY <1>1, TypeHolds, PTL

-----------------------------------------------------------------------------
(* Addresses.                                                              *)

\* When the code sees what runs, a VM that deployment d hands out under contract c
\* either keeps the address it has there, or gets one that no VM on the node has.
LEMMA HandsKeptOrFree ==
  ASSUME TypeInv, NEW d \in Dl, NEW c \in ContractId, ~ Exhausted(d), ~ Blind(d, c),
         NEW v \in Present(Assigned(d))
  PROVE  \/ /\ v \notin Needing(d) /\ held[c] # None /\ v \in Present(held[c])
            /\ Assigned(d)[v] = held[c][v]
         \/ /\ v \in Needing(d)
            /\ \A b \in ContractId : Assigned(d)[v] \notin On(b)
<1>1. v \in Vm /\ Assigned(d)[v] # Gone
  BY DEF Present
<1>2. CASE v \in Needing(d)
  <2>1. Assigned(d)[v] \notin UNION {recorded[b] : b \in ContractId}
    BY <1>2, AssignedAll DEF Free, UsedHosts
  <2>. QED BY <1>2, <2>1 DEF Blind
<1>3. CASE v \notin Needing(d)
  <2>1. Assigned(d)[v] = vms[d][v]
    BY <1>1, <1>3, AssignedElse
  <2>2. vms[d][v] \in Address
    BY <1>1, <1>3, <2>1 DEF TypeInv, TypeOK, Vms, Needing
  <2>3. held[c] # None /\ held[c][v] = vms[d][v]
    BY <1>1, <2>2 DEF Blind
  <2>. QED BY <1>1, <1>3, <2>1, <2>3 DEF Present
<1>. QED BY <1>2, <1>3

\* Handing a deployment out keeps the addresses apart.
LEMMA DistinctHanded ==
  ASSUME TypeInv, AddressesDistinct,
         NEW d \in Dl, NEW c \in ContractId, ~ Exhausted(d), Hand(d, c)
  PROVE  AddressesDistinct'
<1>. DEFINE new == Assigned(d)
<1>1. /\ held' = [held EXCEPT ![c] = new] /\ held \in [ContractId -> Running \cup {None}]
      /\ blind' = IF Blind(d, c) THEN blind \cup {c} ELSE blind
  BY DEF Hand, TypeInv, TypeOK
<1>2. held'[c] = new /\ \A b \in ContractId \ {c} : held'[b] = held[b]
  BY <1>1
<1>3. ASSUME c \notin blind', NEW v \in Present(new), NEW u \in Present(new), u # v
      PROVE  new[u] # new[v]
  <2>1. ~ Blind(d, c) /\ c \notin blind /\ u \in Vm /\ v \in Vm
    BY <1>1, <1>3 DEF Present
  <2>2. CASE u \in Needing(d) /\ v \in Needing(d)
    BY <1>3, <2>2, AssignedAll
  <2>3. CASE u \notin Needing(d) /\ v \notin Needing(d)
    BY <1>3, <2>1, <2>3, HandsKeptOrFree DEF AddressesDistinct
  <2>4. CASE u \in Needing(d) /\ v \notin Needing(d)
    BY <2>1, <2>4, HandsKeptOrFree DEF On
  <2>5. CASE u \notin Needing(d) /\ v \in Needing(d)
    <3>1. held[c] # None /\ u \in Present(held[c]) /\ new[u] = held[c][u]
      BY <2>1, <2>5, HandsKeptOrFree
    <3>2. new[v] \notin On(c)
      BY <2>1, <2>5, HandsKeptOrFree
    <3>. QED BY <3>1, <3>2 DEF On
  <2>. QED BY <2>2, <2>3, <2>4, <2>5
<1>4. ASSUME c \notin blind', NEW v \in Present(new), NEW b \in ContractId \ {c}, b \notin blind',
             held[b] # None, NEW u \in Present(held[b])
      PROVE  held[b][u] # new[v]
  <2>1. ~ Blind(d, c) /\ c \notin blind /\ b \notin blind /\ u \in Vm /\ v \in Vm
    BY <1>1, <1>4 DEF Present
  <2>2. CASE v \in Needing(d)
    BY <1>4, <2>1, <2>2, HandsKeptOrFree DEF On
  <2>3. CASE v \notin Needing(d)
    <3>1. held[c] # None /\ v \in Present(held[c]) /\ new[v] = held[c][v]
      BY <2>1, <2>3, HandsKeptOrFree
    <3>. QED BY <1>4, <2>1, <3>1 DEF AddressesDistinct
  <2>. QED BY <2>2, <2>3
<1>. HIDE DEF new
<1>. SUFFICES ASSUME NEW b \in ContractId, NEW a \in ContractId, NEW u \in Vm, NEW v \in Vm,
                     <<b, u>> # <<a, v>>, {b, a} \cap blind' = {},
                     held'[b] # None, held'[a] # None,
                     u \in Present(held'[b]), v \in Present(held'[a])
              PROVE  held'[b][u] # held'[a][v]
  BY DEF AddressesDistinct, Present
<1>5. CASE b = c /\ a = c
  BY <1>2, <1>3, <1>5
<1>6. CASE b # c /\ a = c
  BY <1>2, <1>4, <1>6
<1>7. CASE b = c /\ a # c
  BY <1>2, <1>4, <1>7
<1>8. CASE b # c /\ a # c
  <2>1. {b, a} \cap blind = {}
    BY <1>1
  <2>. QED BY <1>2, <1>8, <2>1 DEF AddressesDistinct
<1>. QED BY <1>5, <1>6, <1>7, <1>8

\* Every other step takes VMs away at most, and the blind stay blind.
LEMMA DistinctElse ==
  ASSUME TypeInv, AddressesDistinct, blind \subseteq blind',
         \A c \in ContractId : held'[c] \in {held[c], None}
  PROVE  AddressesDistinct'
BY DEF AddressesDistinct

\* Every step keeps the addresses apart.
LEMMA DistinctNext == TypeInv /\ AddressesDistinct /\ [Next]_vars => AddressesDistinct'
<1>. SUFFICES ASSUME TypeInv, AddressesDistinct, [Next]_vars PROVE AddressesDistinct'
  OBVIOUS
<1>. USE DEF user, ids, grid
<1>1. ASSUME NEW d \in Dl, Creates(d) \/ Updates(d) PROVE AddressesDistinct'
  <2>1. ~ Exhausted(d) /\ \E c \in ContractId : Hand(d, c)
    BY <1>1 DEF Creates, Updates, TypeInv, TypeOK
  <2>. QED BY <2>1, DistinctHanded
<1>2. ASSUME NEW d \in Dl, CreateFails(d) PROVE AddressesDistinct'
  <2>1. ~ Exhausted(d) /\ \/ UNCHANGED <<held, blind>>
                          \/ \E c \in ContractId : Hand(d, c)
    BY <1>2 DEF CreateFails
  <2>. QED BY <2>1, DistinctHanded, DistinctElse
<1>3. ASSUME NEW c \in ContractId, Decommission(c) PROVE AddressesDistinct'
  <2>1. held' = [held EXCEPT ![c] = None] /\ blind' = blind
    BY <1>3 DEF Decommission
  <2>2. \A b \in ContractId : held'[b] \in {held[b], None}
    BY <2>1 DEF TypeInv, TypeOK
  <2>. QED BY <2>1, <2>2, DistinctElse
<1>4. CASE \/ \E d \in Dl : \/ AssignFails(d) \/ UpdateComesToNothing(d)
                            \/ Cancel(d) \/ CancelFails(d)
                            \/ Sync(d) \/ SyncNothing(d) \/ SyncFails(d)
                            \/ \E v \in Vm, a \in Chosen \cup {None, Gone} : Edit(d, v, a)
           \/ UpdateNetwork \/ (\E c \in ContractId : LoseContract(c) \/ Pause(c)) \/ UNCHANGED vars
  <2>1. UNCHANGED <<held, blind>>
    BY <1>4 DEF AssignFails, UpdateComesToNothing, Cancel, CancelFails, Sync, SyncNothing, SyncFails,
                Edit, UpdateNetwork, LoseContract, Pause, vars
  <2>. QED BY <2>1, DistinctElse
<1>. QED BY <1>1, <1>2, <1>3, <1>4 DEF Next

\* AddressesDistinct, for any deployments and VMs, whatever addresses users choose: what
\* assignNodesIPs gives out no other VM on the node has, but for blind contracts.
THEOREM AddressesApart == Spec => []AddressesDistinct
<1>1. Init => AddressesDistinct
  BY DEF Init, AddressesDistinct
<1>. QED BY <1>1, DistinctNext, TypeHolds, PTL DEF Spec

-----------------------------------------------------------------------------
(* Contracts.                                                              *)

\* A contract is not None.
LEMMA NoneIsNoContract == None \notin ContractId
BY ContractIdIsPositive, NoneIsNoNumber

\* Recording contract c for d loses sight of no other, if d had none or had c.
LEMMA TrackedRecorded ==
  ASSUME TypeInv, LiveIsTracked, NEW d \in Dl, NEW c \in ContractId, Record(d, c),
         deployment[d] \in {None, c}, live' \subseteq live \cup {c}, leaked' = leaked
  PROVE  LiveIsTracked'
<1>1. /\ contract'[d] = c /\ deployment'[d] = c /\ current' = current \cup {c}
      /\ released' = released \ {c}
      /\ \A e \in Dl \ {d} : contract'[e] = contract[e] /\ deployment'[e] = deployment[e]
  BY DEF Record, TypeInv, TypeOK
<1>2. live \subseteq ContractId
  BY DEF TypeInv, TypeOK
<1>. QED BY <1>1, <1>2, NoneIsNoContract DEF LiveIsTracked

\* Every step keeps sight of the contracts that go on: the user's maps and State
\* forget one only when it has ended, and a deployment without one gets the new one.
LEMMA TrackedNext == TypeInv /\ LiveIsTracked /\ [Next]_vars => LiveIsTracked'
<1>. SUFFICES ASSUME TypeInv, LiveIsTracked, [Next]_vars PROVE LiveIsTracked'
  OBVIOUS
<1>. USE DEF user, ids, grid
<1>1. ASSUME NEW d \in Dl, Creates(d) PROVE LiveIsTracked'
  <2>1. PICK c \in ContractId : Create(c) /\ Record(d, c)
    BY <1>1 DEF Creates
  <2>2. deployment[d] = None /\ live' = live \cup {c} /\ leaked' = leaked
    BY <1>1, <2>1 DEF Creates, Create
  <2>. QED BY <2>1, <2>2, TrackedRecorded
<1>2. ASSUME NEW d \in Dl, CreateFails(d) PROVE LiveIsTracked'
  <2>1. UNCHANGED <<ids, released>> /\ live' \ leaked' \subseteq live \ leaked
    BY <1>2 DEF CreateFails, Create
  <2>. QED BY <2>1 DEF LiveIsTracked
<1>3. ASSUME NEW d \in Dl, Updates(d) \/ UpdateComesToNothing(d) PROVE LiveIsTracked'
  <2>1. /\ deployment[d] \in ContractId /\ Record(d, deployment[d])
        /\ UNCHANGED <<live, leaked>>
    BY <1>3 DEF Updates, UpdateComesToNothing, TypeInv, TypeOK
  <2>. QED BY <2>1, TrackedRecorded
<1>4. ASSUME NEW d \in Dl, Cancel(d) PROVE LiveIsTracked'
  <2>1. /\ live' = live \ {contract[d]} /\ current' = current \ {contract[d]}
        /\ contract' = [contract EXCEPT ![d] = None]
        /\ deployment' = [deployment EXCEPT ![d] = None] /\ UNCHANGED <<leaked, released>>
    BY <1>4 DEF Cancel, End
  <2>. QED BY <2>1 DEF LiveIsTracked, TypeInv, TypeOK
<1>5. ASSUME NEW d \in Dl, SyncNothing(d) \/ SyncFails(d) PROVE LiveIsTracked'
  <2>1. /\ contract' = [contract EXCEPT ![d] = Synced(d)]
        /\ released' = released \cup (paused \cap {contract[d]})
        /\ UNCHANGED <<deployment, current, live, leaked>>
    BY <1>5 DEF SyncNothing, SyncFails, Release
  <2>2. Synced(d) # contract[d] => contract[d] \notin live \/ contract[d] \in paused
    BY DEF Synced
  <2>3. contract'[d] = Synced(d) /\ \A e \in Dl \ {d} : contract'[e] = contract[e]
    BY <2>1 DEF TypeInv, TypeOK
  <2>. QED BY <2>1, <2>2, <2>3 DEF LiveIsTracked
<1>6. CASE \/ \E d \in Dl : \/ AssignFails(d) \/ CancelFails(d) \/ Sync(d)
                            \/ \E v \in Vm, a \in Chosen \cup {None, Gone} : Edit(d, v, a)
           \/ UpdateNetwork \/ (\E c \in ContractId : LoseContract(c) \/ Decommission(c) \/ Pause(c))
           \/ UNCHANGED vars
  <2>1. live' \subseteq live /\ UNCHANGED <<contract, deployment, current, leaked, released>>
    BY <1>6 DEF AssignFails, CancelFails, Sync, Edit, UpdateNetwork, LoseContract, Decommission,
                Pause, End, vars
  <2>. QED BY <2>1 DEF LiveIsTracked
<1>. QED BY <1>1, <1>2, <1>3, <1>4, <1>5, <1>6 DEF Next

\* LiveIsTracked, for any deployments and contracts: what costs money is in dl and in
\* State after Deploy, Cancel and Sync, but for what the Deployer could not return and
\* what Sync forgot in its grace period, which is in State.
THEOREM ContractsTracked == Spec => []LiveIsTracked
<1>1. Init => LiveIsTracked
  BY DEF Init, LiveIsTracked
<1>. QED BY <1>1, TrackedNext, TypeHolds, PTL DEF Spec
=============================================================================

------------------------------ MODULE Validate ------------------------------
(***************************************************************************)
(* deployer/deployer.go, Validate: "a best effort validation.  it returns  *)
(* an error if it's very sure there's a problem".  It compares what new    *)
(* deployments need with what the grid proxy says is free, what the old    *)
(* ones have included, in the order of Go's maps.                          *)
(*                                                                         *)
(* HRU, which is treated as MRU is, is left out, and so is dl.Valid.  What *)
(* the proxy answers does not change during the call.  Capacities are      *)
(* unsigned words, as wide as Word says.                                   *)
(*                                                                         *)
(* The contract of a deployment reserves public ips from when it is made;  *)
(* an update changes none of that, so that after one that gave ips up it   *)
(* has more than its deployment.  Those it reserves are not free.          *)
(***************************************************************************)
EXTENDS Integers, FiniteSets

CONSTANTS
  Node, Farm, None,
  Word,          \* 2^64
  Infos,         \* what the proxy may say of a node
  Deployments,   \* what is deployed, and what is to be
  FreeIPs,       \* how many public ips of a farm may be free
  GivenUp        \* how many of a contract earlier updates may have given up

NodeInfo == [farm : Farm, total : [mru : Nat, sru : Nat], used : [mru : Nat, sru : Nat],
             ipv4 : BOOLEAN, domain : BOOLEAN]
Deployment == [mru : Nat, sru : Nat, ips : Nat, type : {"plain", "fqdn", "name"}]

ASSUME WordIsPositive == Word \in Nat \ {0}
ASSUME InfosAreInfos == Infos \subseteq NodeInfo
ASSUME DeploymentsAreDeployments == Deployments \subseteq Deployment /\ None \notin Deployments
ASSUME FreeIPsAreNat == FreeIPs \subseteq Nat /\ GivenUp \subseteq Nat
ASSUME NodesAreFinite == IsFiniteSet(Node)
\* Capacities are bytes, far from 2^64 of them: no sum of theirs wraps.
ASSUME CapacitiesFit ==
  \A i \in Infos :
    /\ i.total.mru < Word /\ 2 * i.total.sru < Word
    /\ \A d \in Deployments : /\ i.total.mru + d.mru < Word
                              /\ 2 * (i.total.sru + d.sru) < Word

VARIABLES
  info, free,   \* the proxy's answers
  old, new,     \* oldDeployments, newDeployments
  spare,        \* on the chain: ips that a contract has and its deployment gave up
  farmIPs,      \* the variable of that name
  todo,         \* the nodes a loop has not come to
  pc            \* "read", "count", "check", and what came of it

args == <<info, free, old, new, spare>>
vars == <<args, farmIPs, todo, pc>>

Given(m) == {n \in Node : m[n] # None}
FarmOf(n) == info[n].farm

TypeOK ==
  /\ info \in [Node -> Infos] /\ free \in [Farm -> FreeIPs]
  /\ {old, new} \subseteq [Node -> Deployments \cup {None}] /\ spare \in [Node -> Nat]
  /\ farmIPs \in [Farm -> Nat]
  /\ todo \subseteq Node
  /\ pc \in {"read", "count", "check", "ok", "invalid", "unread"}

Had(n, f) == IF old[n] = None THEN 0 ELSE old[n][f]

\* What a node uses has its old deployment in it.
Init ==
  /\ info \in [Node -> Infos] /\ free \in [Farm -> FreeIPs]
  /\ old \in [Node -> Deployments \cup {None}] /\ new \in [Node -> Deployments \cup {None}]
  /\ \A n \in Node, f \in {"mru", "sru"} : Had(n, f) <= info[n].used[f]
  /\ spare \in [Node -> GivenUp \cup {0}] /\ \A n \in Node : old[n] = None => spare[n] = 0
  /\ farmIPs = [f \in Farm |-> 0]
  /\ todo = {} /\ pc = "read"

\* The nodes of both, and their farms.
Read ==
  /\ pc = "read"
  /\ farmIPs' = [f \in Farm |-> IF \E n \in Given(old) \cup Given(new) : FarmOf(n) = f
                                THEN free[f] ELSE 0]
  /\ todo' = Given(old) /\ pc' = "count"
  /\ UNCHANGED args

ReadFails ==
  /\ pc = "read"
  /\ pc' = "unread"
  /\ UNCHANGED <<args, farmIPs, todo>>

Count(n) ==
  /\ pc = "count" /\ n \in todo
  /\ farmIPs' = [farmIPs EXCEPT ![FarmOf(n)] = @ + old[n].ips]
  /\ todo' = todo \ {n}
  /\ UNCHANGED <<args, pc>>

Counted ==
  /\ pc = "count" /\ todo = {}
  /\ todo' = Given(new) /\ pc' = "check"
  /\ UNCHANGED <<args, farmIPs>>

\* Mutant: what the old deployment frees is not counted.
FreeMRUWithoutOld(n) == (info[n].total.mru - info[n].used.mru) % Word

\* The differences of words; the old deployment's share is added to the total.
FreeMRU(n) == (info[n].total.mru + Had(n, "mru") - info[n].used.mru) % Word

FreeSRU(n) == (2 * (info[n].total.sru + Had(n, "sru")) - info[n].used.sru) % Word

Enough(n) == new[n].mru <= FreeMRU(n) /\ new[n].sru <= FreeSRU(n)

\* contract.PublicIPCount: what the old deployment's contract reserves.
Reserved(n) == old[n].ips + spare[n]

NoMoreIPs(n) == old[n] # None => new[n].ips <= Reserved(n)

Serves(n) == /\ new[n].type = "fqdn" => info[n].ipv4
             /\ new[n].type = "name" => info[n].domain

\* Mutant: the comparison is off by one.
AcceptableButOne(n) ==
  NoMoreIPs(n) /\ new[n].ips <= farmIPs[FarmOf(n)] + 1 /\ Serves(n) /\ Enough(n)

Acceptable(n) ==
  NoMoreIPs(n) /\ new[n].ips <= farmIPs[FarmOf(n)] /\ Serves(n) /\ Enough(n)

\* Mutant: what was accepted is not taken off.
AcceptUncounted(n) ==
  /\ pc = "check" /\ n \in todo
  /\ Acceptable(n)
  /\ todo' = todo \ {n}
  /\ UNCHANGED <<args, farmIPs, pc>>

Accept(n) ==
  /\ pc = "check" /\ n \in todo
  /\ Acceptable(n)
  /\ farmIPs' = [farmIPs EXCEPT ![FarmOf(n)] = @ - new[n].ips]
  /\ todo' = todo \ {n}
  /\ UNCHANGED <<args, pc>>

Reject(n) ==
  /\ pc = "check" /\ n \in todo
  /\ ~ Acceptable(n)
  /\ pc' = "invalid"
  /\ UNCHANGED <<args, farmIPs, todo>>

\* GetContract fails for the contract of an old deployment.
ContractUnread(n) ==
  /\ pc = "check" /\ n \in todo /\ old[n] # None
  /\ pc' = "unread"
  /\ UNCHANGED <<args, farmIPs, todo>>

Accepted ==
  /\ pc = "check" /\ todo = {}
  /\ pc' = "ok"
  /\ UNCHANGED <<args, farmIPs, todo>>

Next == \/ Read \/ ReadFails \/ Counted \/ Accepted
        \/ \E n \in Node : Count(n) \/ Accept(n) \/ Reject(n) \/ ContractUnread(n)

Spec == Init /\ [][Next]_vars

-----------------------------------------------------------------------------
(* What is asked of it.  Once the new deployments are there a node has the *)
(* new one in place of the old one, or keeps the old one if it is not given *)
(* a new one, as Deploy cancels nothing.  A deployment that is updated      *)
(* takes its public ips from those its contract reserves, and frees none;   *)
(* the others take theirs from those that are free in the farm.             *)

Used(n, f) == info[n].used[f] - Had(n, f)

\* Storage is given out twice over.
NodeFits(n) ==
  /\ Used(n, "mru") + new[n].mru <= info[n].total.mru
  /\ Used(n, "sru") + new[n].sru <= 2 * info[n].total.sru

\* The public ips that the deployments m on the nodes of S have, one by one, and
\* how many there are: the sum of the counts.
IPs(m, S) == UNION {{n} \X (1..m[n].ips) : n \in S}
IPsOf(m, S) == Cardinality(IPs(m, S))
InFarm(S, f) == {n \in S : FarmOf(n) = f}
Updated == Given(old) \cap Given(new)
Created == Given(new) \ Given(old)

FarmFits(f) == IPsOf(new, InFarm(Created, f)) <= free[f]

Possible == /\ \A n \in Given(new) : NoMoreIPs(n) /\ Serves(n) /\ NodeFits(n)
            /\ \A f \in Farm : FarmFits(f)

TakesBack(n) == new[n].ips > old[n].ips
GivesUp(n) == new[n].ips < old[n].ips

\* Validate does not stand in the way: what it rejects cannot be deployed, in
\* whatever order it looks at the nodes; public ips that another node of the farm
\* has are not missed, nor what the old deployments use.  The exception is a
\* deployment that takes back public ips it gave up, which its contract still
\* reserves, in a farm that has not as many free: Validate takes them from the free
\* ones.
RejectsOnlyImpossible ==
  pc = "invalid" /\ Possible =>
    \E n \in Updated :
      TakesBack(n) /\ IPsOf(new, InFarm(Given(new), FarmOf(n))) > free[FarmOf(n)]

\* What Validate accepts has room, in whatever order it looks at the nodes: under
\* every contract that is updated; on every node that does not use more than it has;
\* and in every farm where each old deployment is to be replaced and gives up no
\* public ip.  Left out are storage on the nodes that are updated, where the old
\* deployment counts twice, and the farms where Validate counts ips as free that stay
\* reserved: those of a deployment that stays, and those that one gives up.
AcceptsOnlyPossible ==
  pc = "ok" =>
    /\ \A n \in Given(new) :
         /\ NoMoreIPs(n) /\ Serves(n)
         /\ info[n].used.mru <= info[n].total.mru /\ info[n].used.sru <= 2 * info[n].total.sru
              => /\ Used(n, "mru") + new[n].mru <= info[n].total.mru
                 /\ old[n] = None => NodeFits(n)
    /\ \A f \in Farm :
         (\A n \in InFarm(Given(old), f) : n \in Updated /\ ~ GivesUp(n)) => FarmFits(f)
=============================================================================

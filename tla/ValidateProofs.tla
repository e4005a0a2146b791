--------------------------- MODULE ValidateProofs ---------------------------
(***************************************************************************)
(* For any nodes, farms, capacities and deployments, and in whatever order *)
(* Go visits its maps: Validate keeps its types, rejects only what has no  *)
(* room, and accepts only what has.                                        *)
(***************************************************************************)
EXTENDS Validate, FiniteSetTheorems, TLAPS

-----------------------------------------------------------------------------
(* Words.                                                                  *)

\* A difference that is neither negative nor too large is what the word says.
LEMMA WordIsExact ==
  ASSUME NEW x \in Int, 0 <= x, x < Word
  PROVE  x % Word = x
BY WordIsPositive

\* A word never says more than a difference that is not negative.
LEMMA WordIsNoMore ==
  ASSUME NEW x \in Int, 0 <= x
  PROVE  x % Word <= x
<1>1. /\ x = Word * (x \div Word) + (x % Word)
      /\ x % Word \in 0..(Word - 1) /\ x \div Word \in Int
  BY WordIsPositive
<1>2. ASSUME NEW q \in Int, NEW w \in Nat, w > 0, NEW r \in Int, r < w, x = w * q + r
      PROVE  r <= x
  <2>1. q >= 0
    <3>1. SUFFICES ASSUME q <= -1 PROVE FALSE
      OBVIOUS
    <3>2. w * q <= -w
      BY <1>2, <3>1
    <3>. QED BY <1>2, <3>2
  <2>2. w * q >= 0
    BY <2>1
  <2>. QED BY <1>2, <2>2
<1>. QED BY <1>1, <1>2, WordIsPositive

-----------------------------------------------------------------------------
(* Counting public ips.                                                    *)

\* Deployments on nodes have numbers of public ips.
Counts(m, S) == S \subseteq Node /\ \A n \in S : m[n].ips \in Nat

\* No node has no public ip, and finitely many nodes have finitely many.
LEMMA IPsFinite ==
  ASSUME NEW m, NEW S, Counts(m, S)
  PROVE  /\ IsFiniteSet(IPs(m, S)) /\ IPsOf(m, S) \in Nat
         /\ S = {} => IPsOf(m, S) = 0
<1>. DEFINE at == [n \in S |-> {n} \X (1..m[n].ips)]
            all == {{n} \X (1..m[n].ips) : n \in S}
<1>1. IsFiniteSet(S)
  BY NodesAreFinite, FS_Subset DEF Counts
<1>2. at \in Surjection(S, all)
  BY DEF Surjection
<1>3. IsFiniteSet(all)
  BY <1>1, <1>2, FS_Surjection
<1>4. ASSUME NEW n \in S PROVE IsFiniteSet({n} \X (1..m[n].ips))
  <2>1. IsFiniteSet({n})
    BY FS_Singleton
  <2>2. m[n].ips \in Int
    BY DEF Counts
  <2>3. IsFiniteSet(1..m[n].ips)
    BY <2>2, FS_Interval
  <2>. QED BY <2>1, <2>3, FS_Product
<1>5. IsFiniteSet(UNION all)
  BY <1>3, <1>4, FS_UNION
<1>6. IPs(m, S) = UNION all
  BY DEF IPs
<1>7. S = {} => IPs(m, S) = {}
  BY DEF IPs
<1>. QED BY <1>5, <1>6, <1>7, FS_CardinalityType, FS_EmptySet DEF IPsOf

\* One more node, and its public ips come to the count.
LEMMA IPsOfOneMore ==
  ASSUME NEW m, NEW S, Counts(m, S), NEW x \in Node \ S, m[x].ips \in Nat
  PROVE  IPsOf(m, S \cup {x}) = IPsOf(m, S) + m[x].ips
<1>. DEFINE k == m[x].ips
            own == {x} \X (1..k)
<1>1. IsFiniteSet(own) /\ Cardinality(own) = k
  <2>1. IsFiniteSet({x}) /\ Cardinality({x}) = 1
    BY FS_Singleton
  <2>2. k \in Nat
    OBVIOUS
  <2>3. IsFiniteSet(1..k) /\ Cardinality(1..k) = k
    <3>1. ASSUME NEW j \in Nat PROVE IsFiniteSet(1..j) /\ Cardinality(1..j) = j
      <4>1. 1 \in Int /\ j \in Int
        OBVIOUS
      <4>2. IsFiniteSet(1..j) /\ Cardinality(1..j) = IF 1 > j THEN 0 ELSE j - 1 + 1
        BY <4>1, FS_Interval, Zenon
      <4>. QED BY <4>2
    <3>. QED BY <2>2, <3>1
  <2>4. IsFiniteSet(own) /\ Cardinality(own) = Cardinality({x}) * Cardinality(1..k)
    BY <2>1, <2>3, FS_Product
  <2>. QED BY <2>1, <2>2, <2>3, <2>4
<1>2. IPs(m, S \cup {x}) = IPs(m, S) \cup own
  BY DEF IPs
<1>3. IPs(m, S) \cap own = {}
  BY DEF IPs
<1>4. Cardinality(IPs(m, S) \cup own) = Cardinality(IPs(m, S)) + Cardinality(own) - 0
  BY <1>1, <1>3, IPsFinite, FS_Union, FS_EmptySet
<1>5. IPsOf(m, S) \in Nat
  BY IPsFinite
<1>6. IPsOf(m, S \cup {x}) = Cardinality(IPs(m, S) \cup own)
      /\ IPsOf(m, S) = Cardinality(IPs(m, S))
  BY <1>2 DEF IPsOf
<1>. QED BY <1>1, <1>4, <1>5, <1>6

\* Fewer nodes, on which each has no more public ips, do not have more.
LEMMA IPsOfFewer ==
  ASSUME NEW l, NEW m, NEW S, Counts(m, S), NEW T \in SUBSET S, Counts(l, T),
         \A n \in T : l[n].ips <= m[n].ips
  PROVE  IPsOf(l, T) <= IPsOf(m, S)
<1>1. IPs(l, T) \subseteq IPs(m, S)
  <2>1. \A n \in T : 1..l[n].ips \subseteq 1..m[n].ips
    BY DEF Counts
  <2>. QED BY <2>1 DEF IPs
<1>. QED BY <1>1, IPsFinite, FS_Subset DEF IPsOf

\* In particular the same deployments on fewer nodes.
LEMMA IPsOfSome ==
  ASSUME NEW m, NEW S, Counts(m, S), NEW T \in SUBSET S
  PROVE  Counts(m, T) /\ IPsOf(m, T) <= IPsOf(m, S)
<1>1. Counts(m, T)
  BY DEF Counts
<1>2. \A n \in T : m[n].ips <= m[n].ips
  BY <1>1 DEF Counts
<1>. QED BY <1>1, <1>2, IPsOfFewer

\* The public ips of some nodes and of others are counted apart.
LEMMA IPsOfParts ==
  ASSUME NEW m, NEW S, NEW T, Counts(m, S), Counts(m, T), S \cap T = {}
  PROVE  IPsOf(m, S \cup T) = IPsOf(m, S) + IPsOf(m, T)
<1>1. IPs(m, S \cup T) = IPs(m, S) \cup IPs(m, T) /\ IPs(m, S) \cap IPs(m, T) = {}
  BY DEF IPs
<1>2. Cardinality(IPs(m, S) \cup IPs(m, T))
        = Cardinality(IPs(m, S)) + Cardinality(IPs(m, T)) - 0
  BY <1>1, IPsFinite, FS_Union, FS_EmptySet
<1>3. IPsOf(m, S) \in Nat /\ IPsOf(m, T) \in Nat
  BY IPsFinite
<1>4. IPsOf(m, S \cup T) = Cardinality(IPs(m, S) \cup IPs(m, T))
  BY <1>1 DEF IPsOf
<1>5. IPsOf(m, S) = Cardinality(IPs(m, S)) /\ IPsOf(m, T) = Cardinality(IPs(m, T))
  BY DEF IPsOf
<1>. QED BY <1>2, <1>3, <1>4, <1>5

-----------------------------------------------------------------------------
(* Type correctness.                                                       *)

\* What a node uses has its old deployment in it; and a loop visits nodes that it
\* is about.
TypeInv ==
  /\ TypeOK
  /\ \A n \in Node, f \in {"mru", "sru"} : Had(n, f) <= info[n].used[f]
  /\ pc = "count" => todo \subseteq Given(old)
  /\ pc = "check" => todo \subseteq Given(new)

\* The parts of what a proof needs to know of a node.
LEMMA NodeTypes ==
  ASSUME TypeInv, NEW n \in Node
  PROVE  /\ info[n] \in Infos /\ FarmOf(n) \in Farm
         /\ info[n].total.mru \in Nat /\ info[n].total.sru \in Nat
         /\ info[n].used.mru \in Nat /\ info[n].used.sru \in Nat
         /\ n \in Given(old) <=> old[n] # None
         /\ n \in Given(new) <=> new[n] # None
         /\ old[n] # None => old[n] \in Deployments /\ old[n] \in Deployment
         /\ new[n] # None => new[n] \in Deployments /\ new[n] \in Deployment
         /\ Had(n, "mru") \in Nat /\ Had(n, "sru") \in Nat
         /\ Had(n, "mru") <= info[n].used.mru /\ Had(n, "sru") <= info[n].used.sru
<1>1. info[n] \in Infos /\ info[n] \in NodeInfo
  BY InfosAreInfos DEF TypeInv, TypeOK
<1>2. /\ old[n] # None => old[n] \in Deployments /\ old[n] \in Deployment
      /\ new[n] # None => new[n] \in Deployments /\ new[n] \in Deployment
  BY DeploymentsAreDeployments DEF TypeInv, TypeOK
<1>3. Had(n, "mru") \in Nat /\ Had(n, "sru") \in Nat
  BY <1>2 DEF Had, Deployment
<1>4. /\ Had(n, "mru") <= info[n].used["mru"] /\ Had(n, "sru") <= info[n].used["sru"]
  BY DEF TypeInv
<1>. QED BY <1>1, <1>2, <1>3, <1>4 DEF NodeInfo, FarmOf, Given

\* Whatever the proxy says and the maps are, nothing is counted yet.
LEMMA TypeInit == Init => TypeInv
<1>. SUFFICES ASSUME Init PROVE TypeInv
  OBVIOUS
<1>1. spare \in [Node -> Nat]
  <2>1. spare \in [Node -> GivenUp \cup {0}]
    BY Zenon DEF Init
  <2>2. GivenUp \cup {0} \subseteq Nat
    BY FreeIPsAreNat
  <2>. QED BY <2>1, <2>2
<1>. QED BY <1>1 DEF Init, TypeInv, TypeOK

\* Every step keeps the types: no farm is left with fewer than no public ips.
LEMMA TypeNext == TypeInv /\ [Next]_vars => TypeInv'
<1>. SUFFICES ASSUME TypeInv, [Next]_vars PROVE TypeInv'
  OBVIOUS
<1>1. ASSUME UNCHANGED args, farmIPs' \in [Farm -> Nat], todo' \subseteq Node,
             pc' \in {"read", "count", "check", "ok", "invalid", "unread"},
             pc' = "count" => todo' \subseteq Given(old),
             pc' = "check" => todo' \subseteq Given(new)
      PROVE  TypeInv'
  BY <1>1 DEF TypeInv, TypeOK, args, Had, Given
<1>2. CASE Read
  <2>1. farmIPs' \in [Farm -> Nat]
    BY <1>2, FreeIPsAreNat DEF Read, TypeInv, TypeOK
  <2>. QED BY <1>1, <1>2, <2>1 DEF Read, Given
<1>3. CASE ReadFails
  BY <1>1, <1>3 DEF ReadFails, TypeInv, TypeOK
<1>4. ASSUME NEW n \in Node, Count(n) PROVE TypeInv'
  <2>1. old[n].ips \in Nat /\ FarmOf(n) \in Farm
    BY <1>4, NodeTypes DEF Count, TypeInv, Deployment
  <2>2. farmIPs' \in [Farm -> Nat]
    BY <1>4, <2>1 DEF Count, TypeInv, TypeOK
  <2>. QED BY <1>1, <1>4, <2>2 DEF Count, TypeInv, TypeOK
<1>5. CASE Counted
  BY <1>1, <1>5 DEF Counted, TypeInv, TypeOK, Given
<1>6. ASSUME NEW n \in Node, Accept(n) PROVE TypeInv'
  <2>1. new[n].ips \in Nat /\ FarmOf(n) \in Farm
    BY <1>6, NodeTypes DEF Accept, TypeInv, Deployment
  <2>2. farmIPs' \in [Farm -> Nat]
    BY <1>6, <2>1 DEF Accept, Acceptable, TypeInv, TypeOK
  <2>. QED BY <1>1, <1>6, <2>2 DEF Accept, TypeInv, TypeOK
<1>7. ASSUME NEW n \in Node, Reject(n) \/ ContractUnread(n) PROVE TypeInv'
  BY <1>1, <1>7 DEF Reject, ContractUnread, TypeInv, TypeOK
<1>8. CASE Accepted
  BY <1>1, <1>8 DEF Accepted, TypeInv, TypeOK
<1>9. CASE UNCHANGED vars
  BY <1>1, <1>9 DEF vars, TypeInv, TypeOK
<1>. QED BY <1>2, <1>3, <1>4, <1>5, <1>6, <1>7, <1>8, <1>9 DEF Next

\* Every variable of Validate keeps its type; what is left of a farm's public ips
\* never falls below zero.
THEOREM TypeCorrect == Spec => []TypeOK
<1>1. TypeInv => TypeOK
  BY DEF TypeInv
<1>. QED BY <1>1, TypeInit, TypeNext, PTL DEF Spec

-----------------------------------------------------------------------------
(* What Validate counts.                                                   *)

\* The free public ips of the farms that Validate asks the proxy about.
AtFirst(f) == IF \E n \in Given(old) \cup Given(new) : FarmOf(n) = f THEN free[f] ELSE 0

\* While it counts, a farm's number has the public ips of the old deployments that
\* were seen; while it checks, what was accepted is taken off, and every node that
\* was accepted is acceptable, whatever came before it.
CountInv ==
  /\ pc = "count" =>
       \A f \in Farm :
         farmIPs[f] = AtFirst(f) + IPsOf(old, InFarm(Given(old) \ todo, f))
  /\ pc = "ok" => todo = {}
  /\ pc \in {"check", "ok"} =>
       /\ \A f \in Farm :
            farmIPs[f] + IPsOf(new, InFarm(Given(new) \ todo, f))
              = AtFirst(f) + IPsOf(old, InFarm(Given(old), f))
       /\ \A n \in Given(new) \ todo : NoMoreIPs(n) /\ Serves(n) /\ Enough(n)
  /\ RejectsOnlyImpossible

\* The nodes with a deployment, in a farm or not, can be counted over.
LEMMA GivenCounts ==
  ASSUME TypeInv, NEW S
  PROVE  /\ S \subseteq Given(old) => Counts(old, S)
         /\ S \subseteq Given(new) => Counts(new, S)
BY NodeTypes DEF Counts, Given, Deployment

\* What Validate may reject: what cannot be deployed, or takes back public ips that the
\* farm does not have free.
Allowed ==
  Possible => \E n \in Updated :
                TakesBack(n) /\ IPsOf(new, InFarm(Given(new), FarmOf(n))) > free[FarmOf(n)]

\* Nothing that CountInv says but of todo and farmIPs changes while the call lasts.
LEMMA ArgsStay ==
  ASSUME UNCHANGED args
  PROVE  /\ Given(old)' = Given(old) /\ Given(new)' = Given(new)
         /\ \A S, f : InFarm(S, f)' = InFarm(S, f)
         /\ \A f : AtFirst(f)' = AtFirst(f)
         /\ RejectsOnlyImpossible' = (pc' = "invalid" => Allowed)
         /\ \A n : /\ FarmOf(n)' = FarmOf(n) /\ NoMoreIPs(n)' = NoMoreIPs(n)
                   /\ Serves(n)' = Serves(n) /\ Enough(n)' = Enough(n)
<1>. USE DEF args
<1>1. /\ Given(old)' = Given(old) /\ Given(new)' = Given(new)
      /\ \A n : FarmOf(n)' = FarmOf(n)
      /\ \A S, f : InFarm(S, f)' = InFarm(S, f)
  BY DEF Given, FarmOf, InFarm
<1>2. \A f : AtFirst(f)' = AtFirst(f)
  BY <1>1 DEF AtFirst, Given, FarmOf
<1>3. \A n : /\ NoMoreIPs(n)' = NoMoreIPs(n) /\ Serves(n)' = Serves(n)
             /\ Enough(n)' = Enough(n)
  BY DEF NoMoreIPs, Reserved, Serves, Enough, FreeMRU, FreeSRU, Had
<1>4. Allowed' = Allowed
  BY DEF Allowed, Possible, NoMoreIPs, Reserved, Serves, NodeFits, FarmFits, IPsOf, IPs, InFarm,
         FarmOf, Updated, Created, Given, Used, Had, TakesBack
<1>5. RejectsOnlyImpossible' = (pc' = "invalid" => Allowed)
  BY <1>4 DEF RejectsOnlyImpossible, Allowed
<1>. QED BY <1>1, <1>2, <1>3, <1>5

\* A node on which what is asked for fits has enough free, by Validate's words.
LEMMA FitsIsEnough ==
  ASSUME TypeInv, NEW n \in Given(new), NodeFits(n)
  PROVE  Enough(n)
<1>1. n \in Node /\ new[n] \in Deployment
  BY NodeTypes DEF Given
<1>2. new[n].mru \in Nat /\ new[n].sru \in Nat
  BY <1>1 DEF Deployment
<1>. DEFINE m == info[n].total.mru + Had(n, "mru") - info[n].used.mru
            s == 2 * (info[n].total.sru + Had(n, "sru")) - info[n].used.sru
<1>3. /\ info[n].total.mru + Had(n, "mru") < Word
      /\ 2 * (info[n].total.sru + Had(n, "sru")) < Word
  <2>1. CASE old[n] = None
    BY <1>1, <2>1, NodeTypes, CapacitiesFit DEF Had
  <2>2. CASE old[n] # None
    BY <1>1, <2>2, NodeTypes, CapacitiesFit DEF Had
  <2>. QED BY <2>1, <2>2
<1>4. m \in Int /\ new[n].mru <= m /\ m < Word
  BY <1>1, <1>2, <1>3, NodeTypes, WordIsPositive DEF NodeFits, Used
<1>5. s \in Int /\ new[n].sru <= s /\ s < Word
  BY <1>1, <1>2, <1>3, NodeTypes, WordIsPositive DEF NodeFits, Used
<1>6. FreeMRU(n) = m /\ FreeSRU(n) = s
  <2>1. m % Word = m
    BY <1>2, <1>4, WordIsExact
  <2>2. s % Word = s
    BY <1>2, <1>5, WordIsExact
  <2>. QED BY <2>1, <2>2 DEF FreeMRU, FreeSRU
<1>. QED BY <1>4, <1>5, <1>6 DEF Enough

\* A node that lacks public ips is in a farm that lacks them: what other nodes of
\* the farm were promised before cannot be had together with what it asks for, unless
\* an update takes some back.
LEMMA TooFewIPs ==
  ASSUME TypeInv, CountInv, pc = "check", NEW n \in todo, Possible, ~ Allowed
  PROVE  new[n].ips <= farmIPs[FarmOf(n)]
<1>. DEFINE f == FarmOf(n)
            seen == InFarm(Given(new) \ todo, f)
            some == seen \cup {n}
<1>1. n \in Given(new) /\ n \in Node /\ f \in Farm /\ new[n].ips \in Nat
  BY NodeTypes DEF TypeInv, Given, Deployment
<1>2. /\ seen \subseteq Given(new) /\ some \subseteq InFarm(Given(new), f)
      /\ InFarm(Given(new), f) \subseteq Given(new) /\ n \in Node \ seen
  BY <1>1 DEF InFarm
<1>3. IPsOf(new, some) = IPsOf(new, seen) + new[n].ips
  BY <1>1, <1>2, GivenCounts, IPsOfOneMore
<1>4. farmIPs[f] + IPsOf(new, seen) = free[f] + IPsOf(old, InFarm(Given(old), f))
  <2>1. AtFirst(f) = free[f]
    BY <1>1 DEF AtFirst
  <2>. QED BY <1>1, <2>1 DEF CountInv
<1>5. /\ IPsOf(new, seen) \in Nat /\ IPsOf(new, some) \in Nat
      /\ IPsOf(new, InFarm(Given(new), f)) \in Nat
      /\ IPsOf(old, InFarm(Given(old), f)) \in Nat /\ farmIPs[f] \in Nat /\ free[f] \in Nat
  <2>1. InFarm(Given(old), f) \subseteq Given(old) /\ some \subseteq Given(new)
    BY <1>2 DEF InFarm
  <2>2. farmIPs[f] \in Nat /\ free[f] \in Nat
    BY <1>1, FreeIPsAreNat DEF TypeInv, TypeOK
  <2>. QED BY <1>2, <2>1, <2>2, GivenCounts, IPsFinite
<1>6. CASE IPsOf(new, InFarm(Given(new), f)) <= free[f]
  <2>1. IPsOf(new, some) <= IPsOf(new, InFarm(Given(new), f))
    <3>1. Counts(new, InFarm(Given(new), f))
      BY <1>2, GivenCounts
    <3>. QED BY <1>2, <3>1, IPsOfSome
  <2>. QED BY <1>1, <1>3, <1>4, <1>5, <1>6, <2>1
<1>7. CASE \A k \in InFarm(Updated, f) : ~ TakesBack(k)
  <2>. DEFINE A == some \cap Updated
              B == some \cap Created
  <2>1. /\ some = A \cup B /\ A \cap B = {} /\ A \subseteq InFarm(Updated, f)
        /\ A \subseteq InFarm(Given(old), f) /\ B \subseteq InFarm(Created, f)
        /\ A \subseteq Given(new) /\ B \subseteq Given(new)
        /\ InFarm(Given(old), f) \subseteq Given(old) /\ InFarm(Created, f) \subseteq Given(new)
    BY <1>2 DEF Updated, Created, InFarm
  <2>2. /\ Counts(new, A) /\ Counts(new, B) /\ Counts(new, InFarm(Created, f))
        /\ Counts(old, InFarm(Given(old), f))
    BY <2>1, GivenCounts
  <2>3. IPsOf(new, A) <= IPsOf(old, InFarm(Given(old), f))
    <3>1. \A k \in A : ~ TakesBack(k)
      BY <1>7, <2>1
    <3>2. \A k \in A : new[k].ips \in Nat /\ old[k].ips \in Nat
      BY <2>1, <2>2 DEF Counts
    <3>. HIDE DEF A
    <3>3. \A k \in A : new[k].ips <= old[k].ips
      BY <3>1, <3>2 DEF TakesBack
    <3>. QED BY <2>1, <2>2, <3>3, IPsOfFewer
  <2>4. IPsOf(new, B) <= IPsOf(new, InFarm(Created, f))
    BY <2>1, <2>2, IPsOfSome
  <2>5. IPsOf(new, InFarm(Created, f)) <= free[f]
    BY <1>1 DEF Possible, FarmFits
  <2>6. IPsOf(new, some) = IPsOf(new, A) + IPsOf(new, B)
    <3>. HIDE DEF A, B, some
    <3>. QED BY <2>1, <2>2, IPsOfParts
  <2>7. IPsOf(new, A) \in Nat /\ IPsOf(new, B) \in Nat /\ IPsOf(new, InFarm(Created, f)) \in Nat
    BY <2>2, IPsFinite
  <2>8. IPsOf(new, some) <= free[f] + IPsOf(old, InFarm(Given(old), f))
    <3>. HIDE DEF A, B, some
    <3>. QED BY <1>5, <2>3, <2>4, <2>5, <2>6, <2>7
  <2>. QED BY <1>1, <1>3, <1>4, <1>5, <2>8
<1>8. ASSUME NEW k \in InFarm(Updated, f), TakesBack(k)
      PROVE  IPsOf(new, InFarm(Given(new), f)) <= free[f]
  <2>1. k \in Updated /\ FarmOf(k) = f
    BY DEF InFarm
  <2>2. ~ IPsOf(new, InFarm(Given(new), f)) > free[f]
    BY <1>8, <2>1 DEF Allowed
  <2>. QED BY <1>5, <2>2
<1>. QED BY <1>6, <1>7, <1>8

\* Before anything is read there is nothing to count.
LEMMA CountInit == Init => CountInv
BY DEF Init, CountInv, RejectsOnlyImpossible

\* Every step keeps the count: of the old deployments first, then of the new ones.
LEMMA CountNext == TypeInv /\ CountInv /\ [Next]_vars => CountInv'
<1>. SUFFICES ASSUME TypeInv, CountInv, [Next]_vars PROVE CountInv'
  OBVIOUS
<1>0. UNCHANGED args
  BY DEF Next, Read, ReadFails, Count, Counted, Accept, Reject, ContractUnread, Accepted, vars
<1>. DEFINE had(f, T) == IPsOf(old, InFarm(Given(old) \ T, f))
            has(f, T) == IPsOf(new, InFarm(Given(new) \ T, f))
<1>1. \A f \in Farm : \A T : had(f, T) \in Nat /\ has(f, T) \in Nat
  <2>. SUFFICES ASSUME NEW f \in Farm, NEW T PROVE had(f, T) \in Nat /\ has(f, T) \in Nat
    OBVIOUS
  <2>1. InFarm(Given(old) \ T, f) \subseteq Given(old)
        /\ InFarm(Given(new) \ T, f) \subseteq Given(new)
    BY DEF InFarm
  <2>. QED BY <2>1, GivenCounts, IPsFinite
<1>2. ASSUME /\ pc' = "count" => \A f \in Farm : farmIPs'[f] = AtFirst(f) + had(f, todo')
             /\ pc' = "ok" => todo' = {}
             /\ pc' \in {"check", "ok"} =>
                  /\ \A f \in Farm : farmIPs'[f] + has(f, todo')
                                       = AtFirst(f) + IPsOf(old, InFarm(Given(old), f))
                  /\ \A n \in Given(new) \ todo' : NoMoreIPs(n) /\ Serves(n) /\ Enough(n)
             /\ pc' = "invalid" => Allowed
      PROVE  CountInv'
  <2>1. /\ \A f : AtFirst(f)' = AtFirst(f)
        /\ Given(old)' = Given(old) /\ Given(new)' = Given(new)
        /\ RejectsOnlyImpossible' = (pc' = "invalid" => Allowed)
        /\ \A n : NoMoreIPs(n)' = NoMoreIPs(n) /\ Serves(n)' = Serves(n) /\ Enough(n)' = Enough(n)
    BY <1>0, ArgsStay
  <2>2. \A f : /\ IPsOf(old, InFarm(Given(old) \ todo, f))' = had(f, todo')
               /\ IPsOf(new, InFarm(Given(new) \ todo, f))' = has(f, todo')
               /\ IPsOf(old, InFarm(Given(old), f))' = IPsOf(old, InFarm(Given(old), f))
    BY <1>0 DEF args, IPsOf, IPs, InFarm, FarmOf, Given
  <2>3. (pc = "count" => \A f \in Farm :
           farmIPs[f] = AtFirst(f) + IPsOf(old, InFarm(Given(old) \ todo, f)))'
    BY <1>2, <2>1, <2>2
  <2>4. (pc \in {"check", "ok"} =>
           /\ \A f \in Farm :
                farmIPs[f] + IPsOf(new, InFarm(Given(new) \ todo, f))
                  = AtFirst(f) + IPsOf(old, InFarm(Given(old), f))
           /\ \A n \in Given(new) \ todo : NoMoreIPs(n) /\ Serves(n) /\ Enough(n))'
    BY <1>2, <2>1, <2>2
  <2>5. RejectsOnlyImpossible'
    BY <1>2, <2>1
  <2>. QED BY <1>2, <2>3, <2>4, <2>5 DEF CountInv
<1>3. \A f \in Farm : had(f, Given(old)) = 0 /\ has(f, Given(new)) = 0
  <2>1. \A f \in Farm : InFarm(Given(old) \ Given(old), f) = {}
                        /\ InFarm(Given(new) \ Given(new), f) = {}
    BY DEF InFarm
  <2>. QED BY <2>1, GivenCounts, IPsFinite
<1>4. \A f \in Farm : AtFirst(f) \in Nat /\ farmIPs[f] \in Nat
  BY FreeIPsAreNat DEF AtFirst, TypeInv, TypeOK
<1>5. CASE Read
  <2>1. \A f \in Farm : farmIPs'[f] = AtFirst(f)
    BY <1>5 DEF Read, AtFirst
  <2>2. pc' = "count" /\ todo' = Given(old)
    BY <1>5 DEF Read
  <2>. QED BY <1>2, <1>3, <1>4, <2>1, <2>2
<1>6. ASSUME NEW n \in Node, Count(n) PROVE CountInv'
  <2>1. /\ pc = "count" /\ pc' = "count" /\ n \in todo /\ todo' = todo \ {n}
        /\ farmIPs' = [farmIPs EXCEPT ![FarmOf(n)] = @ + old[n].ips]
    BY <1>6 DEF Count
  <2>2. n \in Given(old) /\ todo \in SUBSET Given(old) /\ old[n].ips \in Nat
    BY <2>1, NodeTypes DEF TypeInv, Given, Deployment
  <2>3. ASSUME NEW f \in Farm PROVE farmIPs'[f] = AtFirst(f) + had(f, todo')
    <3>. DEFINE S == InFarm(Given(old) \ todo, f)
    <3>1. farmIPs[f] = AtFirst(f) + IPsOf(old, S)
      BY <2>1 DEF CountInv
    <3>0. IPsOf(old, S) \in Nat /\ AtFirst(f) \in Nat /\ farmIPs[f] \in Nat
      BY <1>1, <1>4
    <3>2. CASE FarmOf(n) = f
      <4>1. InFarm(Given(old) \ (todo \ {n}), f) = S \cup {n} /\ n \notin S
        BY <2>1, <2>2, <3>2 DEF InFarm, FarmOf
      <4>2. S \subseteq Given(old) /\ n \in Node \ S
        BY <4>1 DEF InFarm
      <4>3. had(f, todo') = IPsOf(old, S) + old[n].ips
        BY <2>1, <2>2, <4>1, <4>2, GivenCounts, IPsOfOneMore
      <4>4. farmIPs'[f] = farmIPs[f] + old[n].ips
        BY <2>1, <3>2 DEF TypeInv, TypeOK
      <4>. QED BY <2>2, <3>0, <3>1, <4>3, <4>4
    <3>3. CASE FarmOf(n) # f
      <4>1. had(f, todo') = IPsOf(old, S)
        <5>1. InFarm(Given(old) \ (todo \ {n}), f) = S
          BY <2>1, <2>2, <3>3 DEF InFarm, FarmOf
        <5>. QED BY <2>1, <5>1
      <4>2. farmIPs'[f] = farmIPs[f]
        BY <2>1, <3>3 DEF TypeInv, TypeOK
      <4>. QED BY <3>1, <4>1, <4>2
    <3>. QED BY <3>2, <3>3
  <2>. QED BY <1>2, <2>1, <2>3
<1>7. CASE Counted
  <2>1. /\ pc = "count" /\ todo = {} /\ pc' = "check" /\ todo' = Given(new)
        /\ farmIPs' = farmIPs
    BY <1>7 DEF Counted
  <2>2. Given(old) \ todo = Given(old)
    BY <2>1
  <2>3. \A f \in Farm : farmIPs[f] = AtFirst(f) + IPsOf(old, InFarm(Given(old), f))
    BY <2>1, <2>2 DEF CountInv
  <2>. QED BY <1>2, <1>3, <1>4, <2>1, <2>3
<1>8. ASSUME NEW n \in Node, Accept(n) PROVE CountInv'
  <2>1. /\ pc = "check" /\ pc' = "check" /\ n \in todo /\ todo' = todo \ {n}
        /\ farmIPs' = [farmIPs EXCEPT ![FarmOf(n)] = @ - new[n].ips]
        /\ NoMoreIPs(n) /\ Serves(n) /\ Enough(n)
    BY <1>8 DEF Accept, Acceptable
  <2>2. n \in Given(new) /\ todo \in SUBSET Given(new) /\ new[n].ips \in Nat
    BY <2>1, NodeTypes DEF TypeInv, Given, Deployment
  <2>3. ASSUME NEW f \in Farm
        PROVE  farmIPs'[f] + has(f, todo') = AtFirst(f) + IPsOf(old, InFarm(Given(old), f))
    <3>. DEFINE S == InFarm(Given(new) \ todo, f)
    <3>1. farmIPs[f] + IPsOf(new, S) = AtFirst(f) + IPsOf(old, InFarm(Given(old), f))
      BY <2>1 DEF CountInv
    <3>0. IPsOf(new, S) \in Nat /\ AtFirst(f) \in Nat /\ farmIPs[f] \in Nat
      BY <1>1, <1>4
    <3>2. CASE FarmOf(n) = f
      <4>1. InFarm(Given(new) \ (todo \ {n}), f) = S \cup {n} /\ n \notin S
        BY <2>1, <2>2, <3>2 DEF InFarm, FarmOf
      <4>2. S \subseteq Given(new) /\ n \in Node \ S
        BY <4>1 DEF InFarm
      <4>3. has(f, todo') = IPsOf(new, S) + new[n].ips
        BY <2>1, <2>2, <4>1, <4>2, GivenCounts, IPsOfOneMore
      <4>4. farmIPs'[f] = farmIPs[f] - new[n].ips
        BY <2>1, <3>2 DEF TypeInv, TypeOK
      <4>5. farmIPs'[f] + has(f, todo') = farmIPs[f] + IPsOf(new, S)
        BY <2>2, <3>0, <4>3, <4>4
      <4>. QED BY <3>1, <4>5
    <3>3. CASE FarmOf(n) # f
      <4>1. has(f, todo') = IPsOf(new, S)
        <5>1. InFarm(Given(new) \ (todo \ {n}), f) = S
          BY <2>1, <2>2, <3>3 DEF InFarm, FarmOf
        <5>. QED BY <2>1, <5>1
      <4>2. farmIPs'[f] = farmIPs[f]
        BY <2>1, <3>3 DEF TypeInv, TypeOK
      <4>. QED BY <3>1, <4>1, <4>2
    <3>. QED BY <3>2, <3>3
  <2>4. \A k \in Given(new) \ todo' : NoMoreIPs(k) /\ Serves(k) /\ Enough(k)
    BY <2>1 DEF CountInv
  <2>. QED BY <1>2, <2>1, <2>3, <2>4
<1>9. ASSUME NEW n \in Node, Reject(n) PROVE CountInv'
  <2>1. pc = "check" /\ n \in todo /\ ~ Acceptable(n) /\ pc' = "invalid"
    BY <1>9 DEF Reject
  <2>2. ASSUME Possible, ~ Allowed PROVE Acceptable(n)
    <3>1. n \in Given(new)
      BY <2>1 DEF TypeInv
    <3>2. NoMoreIPs(n) /\ Serves(n) /\ Enough(n)
      BY <2>2, <3>1, FitsIsEnough DEF Possible
    <3>3. new[n].ips <= farmIPs[FarmOf(n)]
      BY <2>1, <2>2, TooFewIPs
    <3>. QED BY <3>2, <3>3 DEF Acceptable
  <2>3. ~ Possible => Allowed
    BY DEF Allowed
  <2>. QED BY <1>2, <2>1, <2>2, <2>3
<1>10. CASE Accepted
  <2>1. pc = "check" /\ pc' = "ok" /\ todo = {} /\ UNCHANGED <<farmIPs, todo>>
    BY <1>10 DEF Accepted
  <2>. QED BY <1>2, <2>1 DEF CountInv
<1>11. ASSUME NEW n \in Node, ContractUnread(n) PROVE CountInv'
  BY <1>2, <1>11 DEF ContractUnread
<1>12. CASE UNCHANGED vars
  BY <1>2, <1>12 DEF vars, CountInv, RejectsOnlyImpossible, Allowed
<1>13. CASE ReadFails
  BY <1>2, <1>13 DEF ReadFails
<1>. QED BY <1>5, <1>6, <1>7, <1>8, <1>9, <1>10, <1>11, <1>12, <1>13 DEF Next

\* What Validate rejects cannot be deployed: some node or some farm has no room for
\* what it would have afterwards; or it takes back public ips that it gave up.
THEOREM RejectsRightly == Spec => []RejectsOnlyImpossible
<1>1. CountInv => RejectsOnlyImpossible
  BY DEF CountInv
<1>. QED BY <1>1, TypeInit, TypeNext, CountInit, CountNext, PTL DEF Spec

-----------------------------------------------------------------------------
(* What Validate accepts.                                                  *)

\* On a node that does not use more than it has, what Validate takes to be enough is
\* there; its storage counts once when nothing is replaced.
LEMMA EnoughFits ==
  ASSUME TypeInv, NEW n \in Given(new), Enough(n),
         info[n].used.mru <= info[n].total.mru, info[n].used.sru <= 2 * info[n].total.sru
  PROVE  /\ Used(n, "mru") + new[n].mru <= info[n].total.mru
         /\ old[n] = None => NodeFits(n)
<1>1. n \in Node /\ new[n] \in Deployment
  BY NodeTypes DEF Given
<1>2. new[n].mru \in Nat /\ new[n].sru \in Nat
  BY <1>1 DEF Deployment
<1>. DEFINE m == info[n].total.mru + Had(n, "mru") - info[n].used.mru
            s == 2 * (info[n].total.sru + Had(n, "sru")) - info[n].used.sru
<1>3. m \in Int /\ 0 <= m /\ s \in Int /\ 0 <= s
  BY <1>1, NodeTypes
<1>4. m % Word \in Int /\ s % Word \in Int
  BY <1>3, WordIsPositive
<1>5. new[n].mru <= m /\ new[n].sru <= s
  <2>1. m % Word <= m /\ s % Word <= s
    BY <1>3, WordIsNoMore
  <2>2. new[n].mru <= m % Word /\ new[n].sru <= s % Word
    BY DEF Enough, FreeMRU, FreeSRU
  <2>. QED BY <1>2, <1>3, <1>4, <2>1, <2>2
<1>6. Used(n, "mru") + new[n].mru <= info[n].total.mru
  BY <1>1, <1>2, <1>5, NodeTypes DEF Used
<1>7. ASSUME old[n] = None PROVE Used(n, "sru") + new[n].sru <= 2 * info[n].total.sru
  <2>1. Had(n, "sru") = 0
    BY <1>7 DEF Had
  <2>. QED BY <1>1, <1>2, <1>5, <2>1, NodeTypes DEF Used
<1>. QED BY <1>6, <1>7 DEF NodeFits

\* When every old deployment of a farm is to be replaced and gives up no public ip,
\* what Validate took off the farm's, one by one, was there all together.
LEMMA CountedFits ==
  ASSUME TypeInv, CountInv, pc = "ok", NEW f \in Farm,
         \A n \in InFarm(Given(old), f) : n \in Updated /\ ~ GivesUp(n)
  PROVE  FarmFits(f)
<1>. DEFINE A == InFarm(Given(old), f)
            B == InFarm(Created, f)
            all == InFarm(Given(new), f)
<1>1. /\ all = A \cup B /\ A \cap B = {} /\ A \subseteq Given(old)
      /\ A \subseteq Given(new) /\ B \subseteq Given(new) /\ all \subseteq Given(new)
  BY DEF InFarm, Updated, Created
<1>2. Counts(old, A) /\ Counts(new, A) /\ Counts(new, B) /\ Counts(new, all)
  BY <1>1, GivenCounts
<1>3. farmIPs[f] + IPsOf(new, all) = AtFirst(f) + IPsOf(old, A)
  <2>1. Given(new) \ todo = Given(new)
    BY DEF CountInv
  <2>. QED BY <2>1 DEF CountInv
<1>4. AtFirst(f) \in Nat /\ AtFirst(f) <= free[f] /\ free[f] \in Nat /\ farmIPs[f] \in Nat
  <2>1. free[f] \in Nat /\ farmIPs[f] \in Nat
    BY FreeIPsAreNat DEF TypeInv, TypeOK
  <2>2. AtFirst(f) \in {0, free[f]}
    BY DEF AtFirst
  <2>. QED BY <2>1, <2>2
<1>5. IPsOf(old, A) <= IPsOf(new, A)
  <2>1. \A n \in A : old[n].ips <= new[n].ips
    BY <1>2 DEF GivesUp, Counts
  <2>2. A \in SUBSET A
    OBVIOUS
  <2>. QED BY <1>2, <2>1, <2>2, IPsOfFewer
<1>6. IPsOf(new, all) = IPsOf(new, A) + IPsOf(new, B)
  BY <1>1, <1>2, IPsOfParts
<1>7. /\ IPsOf(old, A) \in Nat /\ IPsOf(new, A) \in Nat /\ IPsOf(new, B) \in Nat
      /\ IPsOf(new, all) \in Nat
  BY <1>2, IPsFinite
<1>8. IPsOf(new, B) <= free[f]
  <2>. HIDE DEF A, B, all
  <2>. QED BY <1>3, <1>4, <1>5, <1>6, <1>7
<1>. QED BY <1>8 DEF FarmFits

\* What Validate accepts has room: on the nodes that are not overused, with storage
\* where nothing is replaced, and in the farms whose old deployments are all
\* replaced and give up no public ip.
THEOREM AcceptsRightly == Spec => []AcceptsOnlyPossible
<1>1. TypeInv /\ CountInv => AcceptsOnlyPossible
  <2>. SUFFICES ASSUME TypeInv, CountInv, pc = "ok" PROVE AcceptsOnlyPossible
    BY DEF AcceptsOnlyPossible
  <2>1. ASSUME NEW n \in Given(new)
        PROVE  /\ NoMoreIPs(n) /\ Serves(n)
               /\ info[n].used.mru <= info[n].total.mru /\ info[n].used.sru <= 2 * info[n].total.sru
                    => /\ Used(n, "mru") + new[n].mru <= info[n].total.mru
                       /\ old[n] = None => NodeFits(n)
    <3>1. NoMoreIPs(n) /\ Serves(n) /\ Enough(n)
      BY DEF CountInv
    <3>. QED BY <3>1, EnoughFits
  <2>2. ASSUME NEW f \in Farm,
               \A n \in InFarm(Given(old), f) : n \in Updated /\ ~ GivesUp(n)
        PROVE  FarmFits(f)
    BY <2>2, CountedFits
  <2>. QED BY <2>1, <2>2 DEF AcceptsOnlyPossible
<1>. QED BY <1>1, TypeInit, TypeNext, CountInit, CountNext, PTL DEF Spec
=============================================================================

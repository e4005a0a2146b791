---------------------------- MODULE ClientProofs ----------------------------
(***************************************************************************)
(* For any nodes, gateways, names, projects and number of contracts: what  *)
(* one client keeps of its contracts is true to the chain, and cancelling  *)
(* a project leaves nothing of it that its nodes lead to.                  *)
(***************************************************************************)
EXTENDS Client, SequenceTheorems, TLAPS

-----------------------------------------------------------------------------
(* Lists of contracts without repetitions.                                 *)

\* What Note makes of a list.
WithContract(s, c) == IF Contains(s, c) THEN s ELSE Append(s, c)

\* Noting c lists it once more, and only if it was not listed.
LEMMA NoteList ==
  ASSUME NEW S, NEW s \in Seq(S), IsInjective(s), NEW c \in S
  PROVE  /\ WithContract(s, c) \in Seq(S)
         /\ IsInjective(WithContract(s, c))
         /\ ToSet(WithContract(s, c)) = ToSet(s) \cup {c}
<1>. DEFINE t == WithContract(s, c)
<1>1. CASE Contains(s, c)
  BY <1>1 DEF Contains, ToSet, WithContract
<1>2. CASE ~ Contains(s, c)
  <2>1. /\ t \in Seq(S) /\ Len(t) = Len(s) + 1 /\ t[Len(s) + 1] = c /\ Len(s) \in Nat
        /\ \A i \in 1..Len(s) : t[i] = s[i]
        /\ DOMAIN t = 1..Len(t) /\ DOMAIN s = 1..Len(s)
    BY <1>2 DEF WithContract
  <2>. HIDE DEF t
  <2>2. \A i \in 1..Len(s) : s[i] # c
    BY <1>2 DEF Contains
  <2>3. IsInjective(t)
    BY <2>1, <2>2 DEF IsInjective
  <2>4. ToSet(t) = ToSet(s) \cup {c}
    <3>1. ASSUME NEW x \in ToSet(t) PROVE x \in ToSet(s) \cup {c}
      BY <2>1, <3>1 DEF ToSet
    <3>2. c \in ToSet(t)
      BY <2>1 DEF ToSet
    <3>3. ASSUME NEW x \in ToSet(s) PROVE x \in ToSet(t)
      BY <2>1, <3>3 DEF ToSet
    <3>. QED BY <3>1, <3>2, <3>3
  <2>. QED BY <2>1, <2>3, <2>4 DEF t
<1>. QED BY <1>1, <1>2

\* Striking c removes its only entry, if it has one.
LEMMA StrikeList ==
  ASSUME NEW S, NEW s \in Seq(S), IsInjective(s), NEW c
  PROVE  /\ RemoveFirst(s, c) \in Seq(S)
         /\ IsInjective(RemoveFirst(s, c))
         /\ ToSet(RemoveFirst(s, c)) = ToSet(s) \ {c}
<1>. DEFINE t == RemoveFirst(s, c)
<1>0. Len(s) \in Nat /\ DOMAIN s = 1..Len(s) /\ \A i \in 1..Len(s) : s[i] \in S
  OBVIOUS
<1>1. CASE \A i \in 1..Len(s) : s[i] # c
  <2>1. t = s
    BY <1>1 DEF RemoveFirst
  <2>2. c \notin ToSet(s)
    BY <1>0, <1>1 DEF ToSet
  <2>. QED BY <2>1, <2>2
<1>2. ASSUME NEW k \in 1..Len(s), s[k] = c
      PROVE  t \in Seq(S) /\ IsInjective(t) /\ ToSet(t) = ToSet(s) \ {c}
  <2>1. t = SubSeq(s, 1, k - 1) \o SubSeq(s, k + 1, Len(s))
    <3>1. {i \in 1..Len(s) : s[i] = c} = {k}
      BY <1>0, <1>2 DEF IsInjective
    <3>2. Min({k}) = k
      BY DEF Min
    <3>3. SelectInSeq(s, LAMBDA v : v = c) = k
      BY <3>1, <3>2 DEF SelectInSeq
    <3>. QED BY <1>2, <3>3 DEF RemoveFirst, RemoveAt
  <2>. DEFINE a == SubSeq(s, 1, k - 1)
              b == SubSeq(s, k + 1, Len(s))
  <2>2. /\ a \in Seq(S) /\ Len(a) = k - 1 /\ \A i \in 1..k-1 : a[i] = s[i]
        /\ b \in Seq(S) /\ Len(b) = Len(s) - k /\ \A i \in 1..Len(s)-k : b[i] = s[k + i]
    <3>1. /\ a \in Seq(S) /\ Len(a) = IF 1 <= k - 1 THEN (k - 1) - 1 + 1 ELSE 0
          /\ \A i \in 1 .. (k - 1) - 1 + 1 : a[i] = s[1 + i - 1]
      BY <1>0, SubSeqProperties
    <3>2. /\ b \in Seq(S) /\ Len(b) = IF k + 1 <= Len(s) THEN Len(s) - (k + 1) + 1 ELSE 0
          /\ \A i \in 1 .. Len(s) - (k + 1) + 1 : b[i] = s[(k + 1) + i - 1]
      BY <1>0, SubSeqProperties
    <3>. HIDE DEF a, b
    <3>3. Len(a) = k - 1 /\ Len(b) = Len(s) - k
      <4>1. Len(s) \in Nat /\ k \in 1..Len(s)
        BY <1>0
      <4>2. \A l \in Nat : \A m \in 1..l :
              /\ (IF 1 <= m - 1 THEN (m - 1) - 1 + 1 ELSE 0) = m - 1
              /\ (IF m + 1 <= l THEN l - (m + 1) + 1 ELSE 0) = l - m
        OBVIOUS
      <4>3. /\ (IF 1 <= k - 1 THEN (k - 1) - 1 + 1 ELSE 0) = k - 1
            /\ (IF k + 1 <= Len(s) THEN Len(s) - (k + 1) + 1 ELSE 0) = Len(s) - k
        BY <4>1, <4>2
      <4>. QED BY <3>1, <3>2, <4>3
    <3>4. ASSUME NEW i \in 1..k-1 PROVE a[i] = s[i]
      <4>1. i \in 1 .. (k - 1) - 1 + 1 /\ 1 + i - 1 = i
        OBVIOUS
      <4>2. a[i] = s[1 + i - 1]
        BY <3>1, <4>1
      <4>. QED BY <4>1, <4>2
    <3>5. ASSUME NEW i \in 1..Len(s)-k PROVE b[i] = s[k + i]
      <4>1. i \in 1 .. Len(s) - (k + 1) + 1 /\ (k + 1) + i - 1 = k + i
        BY <1>0
      <4>2. b[i] = s[(k + 1) + i - 1]
        BY <3>2, <4>1
      <4>. QED BY <4>1, <4>2
    <3>. QED BY <3>1, <3>2, <3>3, <3>4, <3>5
  <2>. HIDE DEF a, b, t
  <2>3. /\ t \in Seq(S) /\ Len(t) = Len(s) - 1
        /\ \A i \in 1..Len(s)-1 : t[i] = IF i < k THEN s[i] ELSE s[i + 1]
    <3>1. /\ t \in Seq(S) /\ Len(t) = Len(a) + Len(b)
          /\ \A i \in 1 .. Len(a) + Len(b) : t[i] = IF i <= Len(a) THEN a[i] ELSE b[i - Len(a)]
      BY <2>1, <2>2, ConcatProperties DEF a, b
    <3>2. Len(a) + Len(b) = Len(s) - 1
      BY <1>0, <2>2
    <3>3. ASSUME NEW i \in 1..Len(s)-1 PROVE t[i] = IF i < k THEN s[i] ELSE s[i + 1]
      <4>1. i \in 1 .. Len(a) + Len(b)
        BY <3>2
      <4>2. CASE i < k
        BY <1>0, <2>2, <3>1, <4>1, <4>2
      <4>3. CASE i >= k
        <5>1. i - Len(a) \in 1..Len(s)-k /\ k + (i - Len(a)) = i + 1 /\ ~ i <= Len(a)
          BY <1>0, <2>2, <4>3
        <5>2. t[i] = b[i - Len(a)]
          BY <3>1, <4>1, <5>1
        <5>3. b[i - Len(a)] = s[k + (i - Len(a))]
          BY <2>2, <5>1
        <5>. QED BY <4>3, <5>1, <5>2, <5>3
      <4>. QED BY <1>0, <4>2, <4>3
    <3>. QED BY <3>1, <3>2, <3>3
  <2>4. DOMAIN t = 1..Len(s)-1
    BY <2>3
  <2>5. IsInjective(t)
    <3>1. \A i, j \in 1..Len(s) : s[i] = s[j] => i = j
      BY <1>0 DEF IsInjective
    <3>2. ASSUME NEW i \in 1..Len(s)-1, NEW j \in 1..Len(s)-1, t[i] = t[j] PROVE i = j
      <4>. DEFINE at(n) == IF n < k THEN n ELSE n + 1
      <4>1. at(i) \in 1..Len(s) /\ at(j) \in 1..Len(s)
        BY <1>0
      <4>2. t[i] = s[at(i)] /\ t[j] = s[at(j)]
        BY <2>3
      <4>3. at(i) = at(j)
        <5>. HIDE DEF at
        <5>. QED BY <3>1, <3>2, <4>1, <4>2
      <4>. QED BY <1>0, <4>3
    <3>. QED BY <2>4, <3>2 DEF IsInjective
  <2>6. ToSet(t) = ToSet(s) \ {c}
    <3>1. ASSUME NEW x \in ToSet(t) PROVE x \in ToSet(s) /\ x # c
      BY <1>0, <1>2, <2>3, <2>4, <3>1 DEF ToSet, IsInjective
    <3>2. ASSUME NEW x \in ToSet(s), x # c PROVE x \in ToSet(t)
      <4>1. PICK j \in 1..Len(s) : x = s[j]
        BY <1>0, <3>2 DEF ToSet
      <4>2. CASE j < k
        BY <1>0, <2>3, <2>4, <4>1, <4>2 DEF ToSet
      <4>3. CASE j > k
        <5>1. j - 1 \in 1..Len(s)-1 /\ t[j - 1] = s[j]
          BY <1>0, <2>3, <4>3
        <5>. QED BY <2>4, <4>1, <5>1 DEF ToSet
      <4>. QED BY <1>0, <1>2, <3>2, <4>1, <4>2, <4>3
    <3>. QED BY <3>1, <3>2
  <2>. QED BY <2>3, <2>5, <2>6
<1>. QED BY <1>1, <1>2
-----------------------------------------------------------------------------
(* Type correctness.                                                       *)

\* State has a list for every node.
TypeInv == TypeOK /\ current \in [Node -> Seq(Contract)]

\* After a step the lists are of members of S, without repetitions, and only that of
\* g's node has changed: it has the members M.
ListsBecome(S, g, M) ==
  /\ current' \in [Node -> Seq(S)]
  /\ \A n \in Node : IsInjective(current'[n])
  /\ \A n \in Node : ToSet(current'[n]) = IF n = NodeOf[g] THEN M ELSE Listed(n)

\* The list of a gateway's node once a contract is noted there.
LEMMA Noted ==
  ASSUME TypeInv, NEW g \in Gateway, NEW c, NEW S, Contract \subseteq S, c \in S, Note(g, c)
  PROVE  ListsBecome(S, g, Listed(NodeOf[g]) \cup {c})
<1>. DEFINE m == NodeOf[g]
            t == WithContract(current[m], c)
<1>1. m \in Node /\ \A n \in Node : current[n] \in Seq(S) /\ IsInjective(current[n])
  <2>1. m \in Node
    BY NodeOfIsNode
  <2>2. \A n \in Node : current[n] \in Seq(Contract) /\ IsInjective(current[n])
    BY DEF TypeInv, TypeOK
  <2>. QED BY <2>1, <2>2, SeqMonotonic
<1>2. current' = [current EXCEPT ![m] = t]
  BY DEF Note, WithContract
<1>3. t \in Seq(S) /\ IsInjective(t) /\ ToSet(t) = Listed(m) \cup {c}
  BY <1>1, NoteList DEF Listed
<1>. HIDE DEF t
<1>4. \A n \in Node : current'[n] = IF n = m THEN t ELSE current[n]
  BY <1>1, <1>2 DEF TypeInv
<1>5. current' \in [Node -> Seq(S)]
  BY <1>1, <1>2, <1>3 DEF TypeInv
<1>. QED BY <1>1, <1>3, <1>4, <1>5 DEF ListsBecome, Listed

\* The list of a gateway's node once a contract is struck off it.
LEMMA Struck ==
  ASSUME TypeInv, NEW g \in Gateway, NEW c, Strike(g, c)
  PROVE  ListsBecome(Contract, g, Listed(NodeOf[g]) \ {c})
<1>. DEFINE m == NodeOf[g]
            t == RemoveFirst(current[m], c)
<1>1. m \in Node /\ \A n \in Node : current[n] \in Seq(Contract) /\ IsInjective(current[n])
  BY NodeOfIsNode DEF TypeInv, TypeOK
<1>2. current' = [current EXCEPT ![m] = t]
  BY DEF Strike
<1>3. t \in Seq(Contract) /\ IsInjective(t) /\ ToSet(t) = Listed(m) \ {c}
  BY <1>1, StrikeList DEF Listed
<1>. HIDE DEF t
<1>4. \A n \in Node : current'[n] = IF n = m THEN t ELSE current[n]
  BY <1>1, <1>2 DEF TypeInv
<1>5. current' \in [Node -> Seq(Contract)]
  BY <1>1, <1>2, <1>3 DEF TypeInv
<1>. QED BY <1>1, <1>3, <1>4, <1>5 DEF ListsBecome, Listed

\* At first the chain and the client have nothing.
LEMMA TypeInit == Init => TypeInv
<1>. SUFFICES ASSUME Init PROVE TypeInv
  OBVIOUS
<1>1. owner \in Seq(Gateway) /\ Len(owner) = 0
  BY DEF Init
<1>2. \A n \in Node : current[n] \in Seq(Contract) /\ IsInjective(current[n])
  BY DEF Init, IsInjective
<1>. QED BY <1>1, <1>2, MaxContractsIsNat DEF Init, TypeInv, TypeOK, Contract

\* A new contract is the last one.
LEMMA NewContract ==
  ASSUME TypeInv, NEW g \in Gateway, Deploy(g)
  PROVE  /\ owner' \in Seq(Gateway) /\ Len(owner') = Len(owner) + 1 /\ Len(owner) \in Nat
         /\ Contract' = Contract \cup {Len(owner) + 1}
         /\ Len(owner) + 1 \notin Contract /\ 0 \notin Contract
         /\ owner'[Len(owner) + 1] = g /\ \A c \in Contract : owner'[c] = owner[c]
<1>1. owner \in Seq(Gateway) /\ Len(owner) \in Nat
  <2>1. owner \in Seq(Gateway)
    BY DEF TypeInv, TypeOK
  <2>. QED BY <2>1
<1>2. owner' = Append(owner, g)
  BY DEF Deploy
<1>3. /\ owner' \in Seq(Gateway) /\ Len(owner') = Len(owner) + 1
      /\ owner'[Len(owner) + 1] = g /\ \A c \in 1..Len(owner) : owner'[c] = owner[c]
  BY <1>1, <1>2
<1>4. \A l \in Nat : /\ 1..(l + 1) = (1..l) \cup {l + 1}
                     /\ l + 1 \notin 1..l /\ 0 \notin 1..l
  OBVIOUS
<1>. QED BY <1>1, <1>3, <1>4 DEF Contract

\* Whatever a call made of a name contract, only names of its gateway's change.
LEMMA NameTypes ==
  ASSUME TypeInv, NEW g \in NameGateways, EnsureName(g) \/ EnsureNameFails(g)
  PROVE  /\ names' \subseteq Names /\ nameId' \in [NameGateways -> Names \cup {None}]
         /\ \A n \in names' : n[1] # g => n \in names /\ nameId'[n[1]] = nameId[n[1]]
         /\ EnsureName(g) => nameId'[g] = NameOf(g)
         /\ EnsureNameFails(g) => nameId'[g] = None
<1>1. NameOf(g) \in Names /\ NameOf(g)[1] = g /\ names \subseteq Names
  BY DEF NameOf, Names, TypeInv, TypeOK
<1>2. \A r \in Invalidated(g) : r.names \subseteq names
  BY DEF Invalidated
<1>3. /\ names' \subseteq names \cup {NameOf(g)}
      /\ nameId' = [nameId EXCEPT ![g] = NameOf(g)] \/ nameId' = [nameId EXCEPT ![g] = None]
  BY <1>2, Zenon DEF EnsureName, EnsureNameFails
<1>4. nameId \in [NameGateways -> Names \cup {None}]
  BY DEF TypeInv, TypeOK
<1>5. /\ EnsureName(g) => nameId'[g] = NameOf(g)
      /\ EnsureNameFails(g) => nameId'[g] = None
  BY <1>4, Zenon DEF EnsureName, EnsureNameFails
<1>6. \A n \in names' : n[1] # g => n \in names /\ nameId'[n[1]] = nameId[n[1]]
  <2>1. \A n \in names : n[1] \in NameGateways
    BY <1>1 DEF Names
  <2>. QED BY <1>1, <1>3, <1>4, <2>1
<1>. QED BY <1>1, <1>3, <1>4, <1>5, <1>6

\* A call that leaves the name contract to EnsureName keeps their types.
LEMMA NameContractTypes ==
  ASSUME TypeInv, NEW g \in Gateway, NameContract(g)
  PROVE  names' \subseteq Names /\ nameId' \in [NameGateways -> Names \cup {None}]
<1>1. CASE g \in NameGateways
  BY <1>1, NameTypes DEF NameContract
<1>2. CASE g \notin NameGateways
  BY <1>2 DEF NameContract, TypeInv, TypeOK
<1>. QED BY <1>1, <1>2

\* What a node comes to serve.
LEMMA ServeTypes ==
  ASSUME TypeInv, NEW g \in Gateway, NEW c \in 1..MaxContracts, Serve(g, c)
  PROVE  /\ serves' \in [1..MaxContracts -> Label \cup {None}]
         /\ \A d \in 1..MaxContracts : d # c => serves'[d] = serves[d]
         /\ g \in NameGateways => serves'[c] = label[g]
<1>1. serves \in [1..MaxContracts -> Label \cup {None}] /\ label \in [NameGateways -> Label]
  BY DEF TypeInv, TypeOK
<1>. QED BY <1>1 DEF Serve

\* The contracts are among those there may be.
LEMMA FewContracts == TypeInv => Contract \subseteq 1..MaxContracts
<1>. SUFFICES ASSUME TypeInv PROVE Contract \subseteq 1..MaxContracts
  OBVIOUS
<1>1. owner \in Seq(Gateway) /\ Len(owner) <= MaxContracts
  BY DEF TypeInv, TypeOK
<1>2. Len(owner) \in Nat
  BY <1>1
<1>. QED BY <1>1, <1>2, MaxContractsIsNat DEF Contract

\* Every step keeps the types; a call that notes or strikes a contract keeps the
\* list of the node without repetitions.
LEMMA TypeNext == TypeInv /\ [Next]_vars => TypeInv'
<1>. SUFFICES ASSUME TypeInv, [Next]_vars PROVE TypeInv'
  OBVIOUS
<1>. USE DEF chain, nodes, gws, call, history
<1>1. ASSUME NEW g \in Gateway, Deploy(g) PROVE TypeInv'
  <2>. DEFINE c == Len(owner) + 1
  <2>1. /\ owner' \in Seq(Gateway) /\ Len(owner') = Len(owner) + 1 /\ Len(owner) \in Nat
        /\ Contract' = Contract \cup {c}
    BY <1>1, NewContract
  <2>2. ListsBecome(Contract', g, Listed(NodeOf[g]) \cup {c})
    BY <1>1, <2>1, Noted DEF Deploy
  <2>3. id' \in [Gateway -> Contract' \cup {0}]
    BY <1>1, <2>1 DEF Deploy, TypeInv, TypeOK
  <2>4. names' \subseteq Names /\ nameId' \in [NameGateways -> Names \cup {None}]
    BY <1>1, NameContractTypes DEF Deploy
  <2>5. serves' \in [1..MaxContracts -> Label \cup {None}]
    <3>1. c \in 1..MaxContracts
      BY <1>1, <2>1, MaxContractsIsNat DEF Deploy
    <3>. QED BY <1>1, <3>1, ServeTypes DEF Deploy
  <2>. HIDE DEF c
  <2>6. /\ live' = live \cup {c} /\ held' = held \cup {c} /\ c <= MaxContracts
        /\ alone' \subseteq alone
    BY <1>1 DEF Deploy, c
  <2>. QED BY <1>1, <2>1, <2>2, <2>3, <2>4, <2>5, <2>6
           DEF Deploy, Call, TypeInv, TypeOK, ListsBecome, c
<1>2. ASSUME NEW g \in Gateway, Redeploy(g) PROVE TypeInv'
  <2>1. Contract' = Contract
    BY <1>2 DEF Redeploy, Contract
  <2>2. id[g] \in Contract
    BY <1>2 DEF Redeploy, TypeInv, TypeOK
  <2>3. ListsBecome(Contract', g, Listed(NodeOf[g]) \cup {id[g]})
    BY <1>2, <2>1, <2>2, Noted DEF Redeploy
  <2>4. names' \subseteq Names /\ nameId' \in [NameGateways -> Names \cup {None}]
    BY <1>2, NameContractTypes DEF Redeploy
  <2>5. serves' \in [1..MaxContracts -> Label \cup {None}]
    BY <1>2, <2>2, FewContracts, ServeTypes DEF Redeploy
  <2>. QED BY <1>2, <2>1, <2>3, <2>4, <2>5 DEF Redeploy, Call, TypeInv, TypeOK, ListsBecome
<1>3. ASSUME NEW g \in Gateway, DeployFails(g) PROVE TypeInv'
  <2>1. Contract' = Contract /\ g \in NameGateways
    BY <1>3 DEF DeployFails, Contract
  <2>2. names' \subseteq Names /\ nameId' \in [NameGateways -> Names \cup {None}]
    BY <1>3, <2>1, NameTypes DEF DeployFails
  <2>3. serves' \in [1..MaxContracts -> Label \cup {None}]
    <3>1. CASE UNCHANGED serves
      BY <3>1 DEF TypeInv, TypeOK
    <3>2. CASE id[g] \in live /\ Serve(g, id[g])
      BY <3>2, FewContracts, ServeTypes DEF TypeInv, TypeOK
    <3>. QED BY <1>3, <3>1, <3>2 DEF DeployFails
  <2>4. alone' \subseteq NameGateways
    BY <1>3, <2>1 DEF DeployFails, TypeInv, TypeOK
  <2>. QED BY <1>3, <2>1, <2>2, <2>3, <2>4 DEF DeployFails, Call, TypeInv, TypeOK
<1>4. ASSUME NEW g \in Gateway, Cancel(g) PROVE TypeInv'
  <2>1. Contract' = Contract
    BY <1>4 DEF Cancel, Contract
  <2>2. ListsBecome(Contract', g, Listed(NodeOf[g]) \ {id[g]})
    BY <1>4, <2>1, Struck DEF Cancel
  <2>. QED BY <1>4, <2>1, <2>2 DEF Cancel, Call, TypeInv, TypeOK, ListsBecome
<1>5. ASSUME NEW g \in Gateway, CancelFails(g) PROVE TypeInv'
  BY <1>5 DEF CancelFails, Call, TypeInv, TypeOK, Contract
<1>6. ASSUME NEW g \in Gateway, Sync(g) \/ SyncFails(g) PROVE TypeInv'
  <2>1. /\ UNCHANGED <<owner, live, paused, names, nodes, label, nameId, lost, elsewhere, alone>>
        /\ SyncContracts(g)
        /\ named' \subseteq named
    BY <1>6 DEF Sync, SyncFails
  <2>. QED BY <2>1 DEF SyncContracts, Call, TypeInv, TypeOK, Contract
<1>7. ASSUME NEW g \in Gateway, SetName(g) PROVE TypeInv'
  BY <1>7 DEF SetName, Call, TypeInv, TypeOK, Contract
<1>8. CASE ListContractsOfProjectName
  BY <1>8 DEF ListContractsOfProjectName, ListedContracts, TypeInv, TypeOK, Contract
<1>9. CASE ProjectFails
  <2>1. live' \subseteq live /\ paused' \subseteq live' /\ names' \subseteq names
        /\ elsewhere' \subseteq elsewhere \cup qNodes /\ elsewhere \subseteq elsewhere'
    BY <1>9 DEF ProjectFails, TypeInv, TypeOK
  <2>. QED BY <1>9, <2>1 DEF ProjectFails, TypeInv, TypeOK, Contract
<1>10. CASE ProjectDone
  BY <1>10 DEF ProjectDone, TypeInv, TypeOK, Contract
<1>11. ASSUME NEW n \in Names, CancelName(n) PROVE TypeInv'
  BY <1>11 DEF CancelName, TypeInv, TypeOK, Contract
<1>12. ASSUME NEW c \in Contract, CancelContract(c) PROVE TypeInv'
  BY <1>12 DEF CancelContract, TypeInv, TypeOK, Contract
<1>13. ASSUME NEW c \in Contract, Pause(c) \/ LoseContract(c) \/ Decommission(c) PROVE TypeInv'
  BY <1>13 DEF Pause, LoseContract, Decommission, TypeInv, TypeOK, Contract
<1>14. ASSUME NEW g \in Gateway, NameFails(g) PROVE TypeInv'
  <2>1. Contract' = Contract /\ g \in NameGateways
    BY <1>14 DEF NameFails, Contract
  <2>2. names' \subseteq Names /\ nameId' \in [NameGateways -> Names \cup {None}]
    BY <1>14, <2>1, NameTypes DEF NameFails
  <2>. QED BY <1>14, <2>1, <2>2 DEF NameFails, Call, TypeInv, TypeOK
<1>15. ASSUME NEW g \in Gateway, Rename(g) PROVE TypeInv'
  <2>1. label' \in [NameGateways -> Label]
    BY <1>15 DEF Rename, TypeInv, TypeOK
  <2>. QED BY <1>15, <2>1 DEF Rename, Call, TypeInv, TypeOK, Contract
<1>16. ASSUME NEW n \in Names, LoseName(n) PROVE TypeInv'
  BY <1>16 DEF LoseName, TypeInv, TypeOK, Contract
<1>17. CASE UNCHANGED vars
  BY <1>17 DEF vars, TypeInv, TypeOK, Contract
<1>18. CASE Gateways
  BY <1>1, <1>2, <1>3, <1>4, <1>5, <1>6, <1>7, <1>14, <1>15, <1>18 DEF Gateways
<1>19. CASE Projects
  BY <1>8, <1>9, <1>10, <1>11, <1>12, <1>19 DEF Projects
<1>20. CASE Environment
  BY <1>13, <1>16, <1>20 DEF Environment
<1>. QED BY <1>17, <1>18, <1>19, <1>20 DEF Next

\* Every variable of Client keeps its type, for all values of the constants.
THEOREM TypeCorrect == Spec => []TypeOK
<1>1. TypeInv => TypeOK
  BY DEF TypeInv
<1>. QED BY <1>1, TypeInit, TypeNext, PTL DEF Spec
-----------------------------------------------------------------------------
(* What the client keeps is true to the chain.                             *)

\* Besides LiveIsTracked: a gateway's id is of a contract of its own; State lists a
\* contract for the node it is on, and only if it goes on or did not end by Cancel;
\* and a node has the deployment of every contract that goes on.
TrackInv ==
  /\ LiveIsTracked
  /\ \A g \in Gateway : id[g] # 0 => owner[id[g]] = g
  /\ \A n \in Node : \A c \in Listed(n) : NodeOf[owner[c]] = n /\ c \in live \cup elsewhere
  /\ live \subseteq held

\* The types TrackInv is about.
LEMMA TrackTypes ==
  ASSUME TypeInv
  PROVE  /\ owner \in [Contract -> Gateway] /\ 0 \notin Contract
         /\ live \subseteq Contract /\ paused \subseteq live
         /\ id \in [Gateway -> Contract \cup {0}]
         /\ released \subseteq Contract /\ elsewhere \subseteq Contract /\ lost \subseteq elsewhere
         /\ \A n \in Node : Listed(n) \subseteq Contract
<1>1. owner \in [Contract -> Gateway]
  <2>1. owner \in Seq(Gateway)
    BY DEF TypeInv, TypeOK
  <2>. QED BY <2>1 DEF Contract
<1>2. 0 \notin Contract
  BY DEF Contract
<1>3. ASSUME NEW n \in Node PROVE Listed(n) \subseteq Contract
  <2>1. current[n] \in Seq(Contract)
    BY DEF TypeInv, TypeOK
  <2>. QED BY <2>1 DEF Listed, ToSet
<1>. QED BY <1>1, <1>2, <1>3 DEF TypeInv, TypeOK

\* The lists after a call that keeps them.
LEMMA SameLists ==
  ASSUME UNCHANGED current, NEW n \in Node
  PROVE  Listed(n)' = Listed(n)
BY DEF Listed

\* Deploy lists its contract and gives the gateway its id; a contract of the gateway
\* from before can only be one that Sync dropped, as the gateway had no id.
LEMMA TrackDeploy ==
  ASSUME TypeInv, TrackInv, NEW g \in Gateway, Deploy(g)
  PROVE  TrackInv'
<1>. DEFINE c == Len(owner) + 1
<1>1. /\ Contract' = Contract \cup {c} /\ c \notin Contract /\ 0 \notin Contract
      /\ owner'[c] = g /\ \A d \in Contract : owner'[d] = owner[d]
      /\ Len(owner) \in Nat
  BY NewContract
<1>2. ListsBecome(Contract', g, Listed(NodeOf[g]) \cup {c})
  BY <1>1, Noted DEF Deploy
<1>. HIDE DEF c
<1>3. /\ id[g] = 0 /\ live' = live \cup {c} /\ held' = held \cup {c}
      /\ id' = [id EXCEPT ![g] = c] /\ UNCHANGED <<released, elsewhere>>
  BY DEF Deploy, c
<1>4. \A n \in Node : Listed(n)' = IF n = NodeOf[g] THEN Listed(n) \cup {c} ELSE Listed(n)
  BY <1>2 DEF ListsBecome, Listed
<1>5. LiveIsTracked'
  BY <1>1, <1>3, <1>4, TrackTypes, NodeOfIsNode DEF TrackInv, LiveIsTracked
<1>6. \A x \in Gateway : id'[x] # 0 => owner'[id'[x]] = x
  BY <1>1, <1>3, TrackTypes DEF TrackInv
<1>7. \A n \in Node : \A d \in Listed(n)' : NodeOf[owner'[d]] = n /\ d \in live' \cup elsewhere'
  BY <1>1, <1>3, <1>4, TrackTypes DEF TrackInv
<1>. QED BY <1>3, <1>5, <1>6, <1>7 DEF TrackInv

\* Cancel takes the contract off all three lists.
LEMMA TrackCancel ==
  ASSUME TypeInv, TrackInv, NEW g \in Gateway, Cancel(g)
  PROVE  TrackInv'
<1>1. ListsBecome(Contract, g, Listed(NodeOf[g]) \ {id[g]})
  BY Struck DEF Cancel
<1>2. \A n \in Node : Listed(n)' = IF n = NodeOf[g] THEN Listed(n) \ {id[g]} ELSE Listed(n)
  BY <1>1 DEF ListsBecome, Listed
<1>3. /\ live' = live \ {id[g]} /\ id' = [id EXCEPT ![g] = 0]
      /\ UNCHANGED <<owner, held, released, elsewhere>>
  BY DEF Cancel, history, nodes
<1>4. LiveIsTracked'
  BY <1>2, <1>3, TrackTypes, NodeOfIsNode DEF TrackInv, LiveIsTracked
<1>5. \A n \in Node : \A d \in Listed(n)' : NodeOf[owner'[d]] = n /\ d \in live' \cup elsewhere'
  BY <1>2, <1>3, TrackTypes DEF TrackInv
<1>. QED BY <1>3, <1>4, <1>5, TrackTypes DEF TrackInv

\* Where the chain ends a contract behind the client's back, State and the gateway
\* may go on with it.
LEMMA TrackEnds ==
  ASSUME TypeInv, TrackInv, UNCHANGED <<owner, held, id, current, released>>,
         live' \subseteq live, elsewhere \subseteq elsewhere', live \ live' \subseteq elsewhere'
  PROVE  TrackInv'
<1>1. \A n \in Node : Listed(n)' = Listed(n)
  BY SameLists
<1>. QED BY <1>1, TrackTypes, NodeOfIsNode DEF TrackInv, LiveIsTracked

\* Every step keeps what the client knows true.
LEMMA TrackNext == TypeInv /\ TrackInv /\ [Next]_vars => TrackInv'
<1>. SUFFICES ASSUME TypeInv, TrackInv, [Next]_vars PROVE TrackInv'
  OBVIOUS
<1>. USE DEF chain, nodes, gws, call, history
<1>1. ASSUME NEW g \in Gateway, Redeploy(g) PROVE TrackInv'
  <2>1. ListsBecome(Contract, g, Listed(NodeOf[g]) \cup {id[g]})
    BY <1>1, Noted DEF Redeploy, TypeInv, TypeOK
  <2>2. \A n \in Node : Listed(n)' =
          IF n = NodeOf[g] THEN Listed(n) \cup {id[g]} ELSE Listed(n)
    BY <2>1 DEF ListsBecome, Listed
  <2>3. id[g] \in live /\ UNCHANGED <<owner, live, held, id, released, elsewhere>>
    BY <1>1 DEF Redeploy
  <2>. QED BY <2>2, <2>3, TrackTypes, NodeOfIsNode DEF TrackInv, LiveIsTracked
<1>2. ASSUME NEW g \in Gateway, Sync(g) \/ SyncFails(g) PROVE TrackInv'
  <2>1. /\ UNCHANGED <<owner, live, paused, held, current, elsewhere>>
        /\ id' = [id EXCEPT ![g] = IF Valid(id[g]) THEN id[g] ELSE 0]
        /\ released' = released \cup ({id[g]} \cap paused)
    BY <1>2 DEF Sync, SyncFails, SyncContracts
  <2>2. \A n \in Node : Listed(n)' = Listed(n)
    BY <2>1, SameLists
  <2>. QED BY <2>1, <2>2, TrackTypes, NodeOfIsNode DEF TrackInv, LiveIsTracked, Valid
<1>3. ASSUME NEW g \in Gateway, CancelFails(g) PROVE TrackInv'
  BY <1>3, TrackEnds DEF CancelFails
<1>4. ASSUME NEW c \in Contract, CancelContract(c) PROVE TrackInv'
  BY <1>4, TrackEnds DEF CancelContract
<1>5. ASSUME NEW c \in Contract, Pause(c) \/ LoseContract(c) PROVE TrackInv'
  BY <1>5, TrackEnds DEF Pause, LoseContract
<1>6. CASE ProjectFails
  <2>1. /\ UNCHANGED <<owner, held, id, current, released>>
        /\ live' \subseteq live /\ elsewhere \subseteq elsewhere' /\ live \ live' \subseteq elsewhere'
    BY <1>6 DEF ProjectFails
  <2>. QED BY <2>1, TrackEnds
<1>7. ASSUME NEW c \in Contract, Decommission(c) PROVE TrackInv'
  <2>1. /\ c \notin live /\ held' = held \ {c}
        /\ UNCHANGED <<owner, live, id, current, released, elsewhere>>
    BY <1>7 DEF Decommission
  <2>2. \A n \in Node : Listed(n)' = Listed(n)
    BY <2>1, SameLists
  <2>. QED BY <2>1, <2>2, TrackTypes, NodeOfIsNode DEF TrackInv, LiveIsTracked
<1>8. CASE \/ \E g \in Gateway : DeployFails(g) \/ NameFails(g) \/ SetName(g) \/ Rename(g)
           \/ \E n \in Names : CancelName(n) \/ LoseName(n)
           \/ ListContractsOfProjectName \/ ProjectDone \/ UNCHANGED vars
  <2>1. UNCHANGED <<owner, live, held, id, current, released, elsewhere>>
    BY <1>8 DEF DeployFails, NameFails, SetName, Rename, CancelName, LoseName,
                ListContractsOfProjectName, ProjectDone, vars
  <2>. QED BY <2>1, TrackEnds
<1>. QED
  BY <1>1, <1>2, <1>3, <1>4, <1>5, <1>6, <1>7, <1>8, TrackDeploy, TrackCancel
  DEF Next, Gateways, Projects, Environment

\* At first there is no contract.
LEMMA TrackInit == Init => TrackInv
<1>. SUFFICES ASSUME Init PROVE TrackInv
  OBVIOUS
<1>1. \A n \in Node : Listed(n) = {}
  BY DEF Init, Listed, ToSet
<1>. QED BY <1>1 DEF Init, TrackInv, LiveIsTracked

\* TrackInv holds in every state.
LEMMA TrackHolds == Spec => [](TypeInv /\ TrackInv)
<1>. QED BY TypeInit, TypeNext, TrackInit, TrackNext, PTL DEF Spec

\* LiveIsTracked, for any number of gateways on any number of nodes: State lists every
\* contract that goes on for its node, and its gateway has its id unless Sync dropped it.
THEOREM LiveKnown == Spec => []LiveIsTracked
<1>1. TrackInv => LiveIsTracked
  BY DEF TrackInv
<1>. QED BY <1>1, TrackHolds, PTL

\* Of the contracts listed for its node only the gateway's own can pass the test of
\* the search: none is unreadable, and the gateway owns no other.
LEMMA LoadsInv == TypeInv /\ TrackInv => LoadsWhatIsThere
<1>. SUFFICES ASSUME TypeInv, TrackInv, NEW g \in Gateway, id[g] \in live,
                     Listed(NodeOf[g]) \cap (elsewhere \cup released) = {}
              PROVE  Current(g)[Found(g, Serving(id[g]))] = id[g] /\ id[g] \in held
  BY DEF LoadsWhatIsThere
<1>. DEFINE s == Current(g)
            Test(c) == c \notin held \/ Serving(c) = Serving(id[g])
<1>1. /\ s \in Seq(Contract) /\ IsInjective(s) /\ Len(s) \in Nat /\ DOMAIN s = 1..Len(s)
      /\ Listed(NodeOf[g]) = ToSet(s)
  <2>1. s \in Seq(Contract) /\ IsInjective(s)
    <3>1. NodeOf[g] \in Node
      BY NodeOfIsNode
    <3>. QED BY <3>1 DEF TypeInv, TypeOK, Current
  <2>2. Listed(NodeOf[g]) = ToSet(s)
    BY DEF Current, Listed
  <2>. QED BY <2>1, <2>2
<1>2. owner[id[g]] = g /\ id[g] \in ToSet(s) /\ id[g] \in held
  BY <1>1, TrackTypes DEF TrackInv, LiveIsTracked
<1>3. ASSUME NEW c \in ToSet(s), Test(c) PROVE c = id[g]
  <2>1. c \in live /\ c \in held /\ c \notin released
    BY <1>1, <1>3, NodeOfIsNode DEF TrackInv
  <2>2. owner[c] = g
    BY <1>2, <1>3, <2>1 DEF Serving
  <2>. QED BY <2>1, <2>2 DEF TrackInv, LiveIsTracked
<1>. HIDE DEF s
<1>4. PICK k \in 1..Len(s) : s[k] = id[g]
  BY <1>1, <1>2 DEF ToSet
<1>5. {i \in 1..Len(s) : Test(s[i])} = {k}
  <2>1. Test(s[k])
    BY <1>2, <1>4
  <2>2. ASSUME NEW i \in 1..Len(s), Test(s[i]) PROVE i = k
    <3>1. s[i] = id[g]
      BY <1>1, <1>3, <2>2 DEF ToSet
    <3>. QED BY <1>1, <1>4, <3>1 DEF IsInjective
  <2>. QED BY <2>1, <2>2
<1>6. Found(g, Serving(id[g])) = k
  <2>1. Min({k}) = k
    BY DEF Min
  <2>. QED BY <1>5, <2>1 DEF Found, SelectInSeq, s
<1>. QED BY <1>2, <1>4, <1>6 DEF s

\* LoadsWhatIsThere, for any number of gateways on any number of nodes: a gateway that is
\* up is loaded from State with the contract it has, whichever were cancelled before.
THEOREM LoadsTheContract == Spec => []LoadsWhatIsThere
<1>. QED BY LoadsInv, TrackHolds, PTL

-----------------------------------------------------------------------------
(* Name contracts, and what CancelByProjectName leaves.                    *)

\* Besides NamesNotStranded: while CancelByProjectName runs, a node contract it will
\* cancel has the name that its node serves on the list too, if there is a name contract.
NamesInv ==
  /\ NamesNotStranded
  /\ pc = "project" => \A n \in names : \A c \in qNodes : Serving(c) = n => n \in qNames

\* A step keeps NamesInv if the names that stay, and are in step, have a contract
\* afterwards if they had one before, and the lists only lose names that are gone.
LEMMA NamesKept ==
  ASSUME TypeInv, NamesInv, UNCHANGED <<owner, serves, nameId>>,
         names' \subseteq names, alone \subseteq alone',
         \A n \in names' : \A c \in live \cup lost : Serving(c) = n => c \in live' \cup lost',
         pc' = "project" => /\ pc = "project" /\ qNodes' \subseteq qNodes
                            /\ qNames \cap names' \subseteq qNames'
  PROVE  NamesInv'
<1>1. InStep' \subseteq InStep \cap names' /\ \A c : Serving(c)' = Serving(c)
  BY DEF InStep, Serving
<1>2. NamesNotStranded'
  BY <1>1 DEF NamesInv, NamesNotStranded, Stranded
<1>. QED BY <1>1, <1>2 DEF NamesInv

\* A Deploy of gateway g keeps NamesInv: what nodes serve to others stays as it is, and
\* if the name of g's is in step now, a contract that goes on serves it.
LEMMA NamesDeployed ==
  ASSUME TypeInv, NamesInv, NEW g \in NameGateways, EnsureName(g) \/ EnsureNameFails(g),
         alone \subseteq alone' \cup {g}, pc' = "idle",
         \A c \in live \cup lost : owner[c] # g => c \in live' \cup lost' /\ Serving(c)' = Serving(c),
         EnsureName(g) => g \in alone' \/ \E c \in live' : Serving(c)' = NameOf(g)
  PROVE  NamesInv'
<1>1. ASSUME NEW n \in InStep' PROVE ~ Stranded(n)'
  <2>1. n \in names' /\ n = nameId'[n[1]] /\ n[1] \notin alone' /\ n \in Names
    BY NameTypes DEF InStep
  <2>2. CASE n[1] = g
    <3>1. EnsureName(g)
      BY <2>1, <2>2, NameTypes, NoneIsNoName DEF Names
    <3>2. n = NameOf(g)
      BY <2>1, <2>2, <3>1, NameTypes
    <3>. QED BY <2>1, <2>2, <3>1, <3>2 DEF Stranded
  <2>3. CASE n[1] # g
    <3>1. n \in InStep
      BY <2>1, <2>3, NameTypes DEF InStep
    <3>2. PICK c \in live \cup lost : Serving(c) = n
      BY <3>1 DEF NamesInv, NamesNotStranded, Stranded
    <3>3. owner[c] # g
      BY <2>3, <3>2 DEF Serving
    <3>. QED BY <3>2, <3>3 DEF Stranded
  <2>. QED BY <2>2, <2>3
<1>. QED BY <1>1 DEF NamesInv, NamesNotStranded

\* Every step keeps NamesInv: a name contract is made together with a node contract,
\* and CancelByProjectName leaves the node contracts to the last.
LEMMA NamesNext == TypeInv /\ TrackInv /\ NamesInv /\ [Next]_vars => NamesInv'
<1>. SUFFICES ASSUME TypeInv, TrackInv, NamesInv, [Next]_vars PROVE NamesInv'
  OBVIOUS
<1>. USE DEF chain, nodes, gws, call, history
<1>0. /\ names \subseteq Names /\ qNodes \subseteq Contract /\ lost \subseteq Contract
      /\ Contract \subseteq 1..MaxContracts
  BY FewContracts DEF TypeInv, TypeOK
<1>1. ASSUME NEW g \in Gateway, Deploy(g) PROVE NamesInv'
  <2>. DEFINE c == Len(owner) + 1
  <2>1. /\ c \notin Contract /\ owner'[c] = g /\ \A d \in Contract : owner'[d] = owner[d]
    BY <1>1, NewContract
  <2>2. c \in 1..MaxContracts
    BY <1>1, NewContract, MaxContractsIsNat DEF Deploy
  <2>3. /\ live' = live \cup {c} /\ alone' = alone \ {g} /\ lost' = lost /\ pc' = "idle"
        /\ NameContract(g) /\ Serve(g, c)
    BY <1>1 DEF Deploy, Call
  <2>. HIDE DEF c
  <2>4. \A d \in live \cup lost : Serving(d)' = Serving(d)
    BY <1>0, <2>1, <2>2, <2>3, ServeTypes, TrackTypes DEF Serving
  <2>5. CASE g \in NameGateways
    <3>1. \A d \in {c} : Serving(d)' = NameOf(g)
      <4>1. owner'[c] = g /\ serves'[c] = label[g]
        BY <2>1, <2>2, <2>3, <2>5, ServeTypes
      <4>. QED BY <4>1 DEF Serving, NameOf
    <3>. QED BY <2>3, <2>4, <2>5, <3>1, NamesDeployed DEF NameContract
  <2>6. CASE g \notin NameGateways
    <3>1. UNCHANGED <<names, nameId>>
      BY <2>3, <2>6 DEF NameContract
    <3>2. InStep' \subseteq InStep
      BY <1>0, <2>3, <2>6, <3>1 DEF InStep, Names
    <3>. QED BY <2>3, <2>4, <3>2 DEF NamesInv, NamesNotStranded, Stranded
  <2>. QED BY <2>5, <2>6
<1>2. ASSUME NEW g \in Gateway, Redeploy(g) PROVE NamesInv'
  <2>1. /\ id[g] \in live /\ NameContract(g) /\ Serve(g, id[g]) /\ alone' = alone \ {g}
        /\ pc' = "idle" /\ UNCHANGED <<owner, live, lost>>
    BY <1>2 DEF Redeploy, Call
  <2>2. owner[id[g]] = g /\ id[g] \in 1..MaxContracts
    <3>1. id[g] \in Contract /\ id[g] # 0
      BY <2>1, TrackTypes
    <3>. QED BY <1>0, <3>1 DEF TrackInv
  <2>3. \A d \in live \cup lost : owner[d] # g => Serving(d)' = Serving(d)
    <3>1. \A d \in 1..MaxContracts : d # id[g] => serves'[d] = serves[d]
      BY <2>1, <2>2, ServeTypes
    <3>2. \A d \in live \cup lost : d \in 1..MaxContracts
      BY <1>0, TrackTypes
    <3>. QED BY <2>1, <2>2, <3>1, <3>2 DEF Serving
  <2>4. CASE g \in NameGateways
    <3>1. \A d \in {id[g]} : Serving(d)' = NameOf(g)
      <4>1. serves'[id[g]] = label[g]
        BY <2>1, <2>2, <2>4, ServeTypes
      <4>. QED BY <2>1, <2>2, <4>1 DEF Serving, NameOf
    <3>. QED BY <2>1, <2>3, <2>4, <3>1, NamesDeployed DEF NameContract
  <2>5. CASE g \notin NameGateways
    <3>1. UNCHANGED <<names, nameId>>
      BY <2>1, <2>5 DEF NameContract
    <3>2. InStep' \subseteq InStep
      BY <1>0, <2>1, <2>5, <3>1 DEF InStep, Names
    <3>3. \A n \in InStep : \E d \in live \cup lost : Serving(d) = n /\ owner[d] # g
      BY <1>0, <2>5 DEF NamesInv, NamesNotStranded, Stranded, InStep, Names, Serving
    <3>. QED BY <2>1, <2>3, <3>2, <3>3 DEF NamesInv, NamesNotStranded, Stranded
  <2>. QED BY <2>4, <2>5
<1>3. ASSUME NEW g \in Gateway, DeployFails(g) PROVE NamesInv'
  <2>1. /\ g \in NameGateways /\ EnsureName(g) /\ pc' = "idle"
        /\ UNCHANGED <<owner, live, lost, id>>
        /\ UNCHANGED serves \/ (id[g] \in live /\ Serve(g, id[g]))
        /\ alone' = IF id[g] \in live /\ serves'[id[g]] = label[g] THEN alone \ {g} ELSE alone \cup {g}
    BY <1>3 DEF DeployFails, Call
  <2>2. id[g] \in live => owner[id[g]] = g /\ id[g] \in 1..MaxContracts
    <3>1. id[g] \in live => id[g] \in Contract /\ id[g] # 0
      BY TrackTypes
    <3>. QED BY <1>0, <3>1 DEF TrackInv
  <2>3. \A d \in live \cup lost : owner[d] # g => Serving(d)' = Serving(d)
    <3>1. ASSUME id[g] \in live, Serve(g, id[g])
          PROVE  \A d \in 1..MaxContracts : d # id[g] => serves'[d] = serves[d]
      BY <2>2, <3>1, ServeTypes
    <3>2. \A d \in live \cup lost : d \in 1..MaxContracts
      BY <1>0, TrackTypes
    <3>. QED BY <2>1, <2>2, <3>1, <3>2 DEF Serving
  <2>4. CASE g \in alone'
    BY <2>1, <2>3, <2>4, NamesDeployed
  <2>5. CASE g \notin alone'
    <3>1. id[g] \in live /\ serves'[id[g]] = label[g]
      BY <2>1, <2>5
    <3>2. \A d \in {id[g]} : Serving(d)' = NameOf(g)
      BY <2>1, <2>2, <3>1 DEF Serving, NameOf
    <3>. QED BY <2>1, <2>3, <3>1, <3>2, NamesDeployed
  <2>. QED BY <2>4, <2>5
<1>4. ASSUME NEW g \in Gateway, NameFails(g) PROVE NamesInv'
  <2>1. /\ g \in NameGateways /\ EnsureNameFails(g) /\ pc' = "idle"
        /\ UNCHANGED <<owner, serves, live, lost, alone>>
    BY <1>4 DEF NameFails, Call
  <2>2. ~ EnsureName(g)
    <3>1. NameOf(g) \in Names
      BY <2>1 DEF NameOf, Names, TypeInv, TypeOK
    <3>. QED BY <2>1, <3>1, NameTypes, NoneIsNoName DEF Names
  <2>. QED BY <2>1, <2>2, NamesDeployed DEF Serving
<1>5. ASSUME NEW g \in Gateway, Cancel(g) \/ CancelFails(g) PROVE NamesInv'
  <2>1. /\ g \notin NameGateways /\ live' = live \ {id[g]}
        /\ pc' = "idle" /\ UNCHANGED <<owner, serves, nameId, names, lost, alone>>
    BY <1>5 DEF Cancel, CancelFails, Call
  <2>2. ASSUME NEW n \in names, NEW c \in live \cup lost, Serving(c) = n PROVE c # id[g]
    <3>1. owner[c] \in NameGateways
      BY <1>0, <2>2 DEF Serving, Names
    <3>. QED BY <2>1, <2>2, <3>1, TrackTypes, <1>0 DEF TrackInv
  <2>. QED BY <2>1, <2>2, NamesKept
<1>6. CASE ListContractsOfProjectName
  <2>1. /\ qNames' = {n \in names : \E c \in qNodes' : Serving(c) = n}
        /\ UNCHANGED <<owner, serves, nameId, names, live, lost, alone>>
    BY <1>6 DEF ListContractsOfProjectName
  <2>. QED BY <2>1 DEF NamesInv, NamesNotStranded, Stranded, InStep, Serving
<1>7. ASSUME NEW n \in Names, CancelName(n) \/ LoseName(n) PROVE NamesInv'
  <2>1. /\ names' = names \ {n} /\ qNames \ {n} \subseteq qNames'
        /\ UNCHANGED <<owner, serves, nameId, live, lost, alone, qNodes, pc>>
    BY <1>7 DEF CancelName, LoseName
  <2>. QED BY <2>1, NamesKept
<1>8. ASSUME NEW c \in Contract, CancelContract(c) PROVE NamesInv'
  <2>1. /\ pc = "project" /\ qNames = {} /\ c \in qNodes /\ live' = live \ {c}
        /\ qNodes' = qNodes \ {c} /\ UNCHANGED <<owner, serves, nameId, names, lost, alone, qNames, pc>>
    BY <1>8 DEF CancelContract
  <2>2. Serving(c) \notin names
    BY <2>1 DEF NamesInv
  <2>. QED BY <2>1, <2>2, NamesKept
<1>9. CASE ProjectFails
  <2>1. /\ pc = "project" /\ pc' = "idle" /\ names' \subseteq names
        /\ UNCHANGED <<owner, serves, nameId, lost, alone>>
        /\ \/ UNCHANGED live
           \/ qNames = {} /\ \E c \in qNodes : live' = live \ {c}
    BY <1>9 DEF ProjectFails
  <2>2. \A n \in names' : \A c \in live \cup lost : Serving(c) = n => c \in live' \cup lost'
    BY <2>1 DEF NamesInv
  <2>. QED BY <2>1, <2>2, NamesKept
<1>10. ASSUME NEW c \in Contract, Pause(c) \/ LoseContract(c) \/ Decommission(c) PROVE NamesInv'
  <2>1. /\ UNCHANGED <<owner, serves, nameId, names, alone, pc, qNames, qNodes>>
        /\ live \cup lost \subseteq live' \cup lost'
    BY <1>10 DEF Pause, LoseContract, Decommission
  <2>. QED BY <2>1, NamesKept
<1>11. CASE \/ \E g \in Gateway : Sync(g) \/ SyncFails(g) \/ SetName(g) \/ Rename(g)
            \/ ProjectDone \/ UNCHANGED vars
  <2>1. /\ UNCHANGED <<owner, serves, nameId, live, names, lost, alone, qNames, qNodes>>
        /\ pc' = "idle" \/ pc' = pc
    BY <1>11 DEF Sync, SyncFails, SyncContracts, SetName, Rename, Call, ProjectDone, vars
  <2>. QED BY <2>1, NamesKept
<1>12. CASE Gateways
  BY <1>1, <1>2, <1>3, <1>4, <1>5, <1>11, <1>12 DEF Gateways
<1>13. CASE Projects
  BY <1>6, <1>7, <1>8, <1>9, <1>11, <1>13 DEF Projects
<1>14. CASE Environment
  BY <1>7, <1>10, <1>14 DEF Environment
<1>. QED BY <1>11, <1>12, <1>13, <1>14 DEF Next

\* NamesInv holds in every state.
LEMMA NamesHolds == Spec => []NamesInv
<1>1. Init => NamesInv
  BY DEF Init, NamesInv, NamesNotStranded, InStep
<1>. QED BY <1>1, NamesNext, TrackHolds, PTL DEF Spec

\* NamesNotStranded, for any gateways, names and project: through renaming and wherever
\* CancelByProjectName fails, a name contract that its gateway knows, and whose node
\* followed suit, is that of a name that the node of a contract of the gateway's serves.
THEOREM NamesFollow == Spec => []NamesNotStranded
<1>1. NamesInv => NamesNotStranded
  BY DEF NamesInv
<1>. QED BY <1>1, NamesHolds, PTL

\* While CancelByProjectName runs, no contract of the project goes on but those it has
\* yet to cancel; and none does once it has returned nil.
ProjectInv ==
  /\ pc = "project" => /\ outcome = "none"
                       /\ \A c \in live : owner[c] \in Project => c \in qNodes
  /\ outcome = "project cancelled" => \A c \in live : owner[c] \notin Project

\* Every step keeps ProjectInv: nothing is deployed while CancelByProjectName runs,
\* and what is deployed afterwards takes the outcome back.
LEMMA ProjectNext == TypeInv /\ ProjectInv /\ [Next]_vars => ProjectInv'
<1>. SUFFICES ASSUME TypeInv, ProjectInv, [Next]_vars PROVE ProjectInv'
  OBVIOUS
<1>. USE DEF chain, nodes, gws, call, history
<1>1. CASE Gateways
  <2>1. pc' = "idle" /\ outcome' = "none"
    BY <1>1 DEF Gateways, Deploy, Redeploy, DeployFails, NameFails, Cancel, CancelFails, Sync,
                SyncFails, SyncContracts, SetName, Rename, Call
  <2>. QED BY <2>1 DEF ProjectInv
<1>2. CASE ListContractsOfProjectName
  BY <1>2 DEF ListContractsOfProjectName, ListedContracts, ProjectInv
<1>3. ASSUME NEW n \in Names, CancelName(n) \/ LoseName(n) PROVE ProjectInv'
  BY <1>3 DEF CancelName, LoseName, ProjectInv
<1>4. ASSUME NEW c \in Contract, CancelContract(c) PROVE ProjectInv'
  BY <1>4 DEF CancelContract, ProjectInv
<1>5. CASE ProjectFails
  <2>1. pc = "project" /\ pc' = "idle" /\ outcome' = outcome
    BY <1>5 DEF ProjectFails
  <2>. QED BY <2>1 DEF ProjectInv
<1>6. CASE ProjectDone
  BY <1>6 DEF ProjectDone, ProjectInv
<1>7. ASSUME NEW c \in Contract, Pause(c) \/ LoseContract(c) \/ Decommission(c) PROVE ProjectInv'
  <2>1. live' \subseteq live /\ UNCHANGED <<owner, pc, outcome, qNodes>>
    BY <1>7 DEF Pause, LoseContract, Decommission
  <2>. QED BY <2>1 DEF ProjectInv
<1>8. CASE UNCHANGED vars
  BY <1>8 DEF vars, ProjectInv
<1>. QED BY <1>1, <1>2, <1>3, <1>4, <1>5, <1>6, <1>7, <1>8 DEF Next, Projects, Environment

\* ProjectLeavesNothing, for any gateways, names and project: a CancelByProjectName that
\* returned nil has ended all the node contracts of the project, and of its name contracts
\* those in step with their nodes whose node contract the chain has not ended before.
THEOREM ProjectGone == Spec => []ProjectLeavesNothing
<1>1. Init => ProjectInv
  BY DEF Init, ProjectInv
<1>2. NamesInv /\ ProjectInv => ProjectLeavesNothing
  <2>. SUFFICES ASSUME NamesInv, ProjectInv, outcome = "project cancelled",
                       NEW n \in InStep, n[1] \in Project
                PROVE  \E c \in lost : Serving(c) = n
    BY DEF ProjectInv, ProjectLeavesNothing
  <2>1. PICK c \in live \cup lost : Serving(c) = n
    BY DEF NamesInv, NamesNotStranded, Stranded
  <2>2. owner[c] \in Project
    BY <2>1 DEF Serving
  <2>. QED BY <2>1, <2>2 DEF ProjectInv
<1>. QED BY <1>1, <1>2, ProjectNext, TrackHolds, NamesHolds, PTL DEF Spec
=============================================================================

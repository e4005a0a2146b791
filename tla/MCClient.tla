------------------------------ MODULE MCClient ------------------------------
(* Client with two FQDN gateways, one of them not of the project, and a     *)
(* name gateway, all on one node.                                           *)
EXTENDS Client, TLC

CONSTANTS n1, f, g, h

MCNodeOf == [x \in Gateway |-> n1]

\* Names are compared, and nothing else.
Symmetry == Permutations(Label)

\* Of a contract that has ended it matters whether its node has it still and how it
\* ended if it is listed or a gateway's, and the name if the chain ended it; of a name
\* contract that has ended, nothing does.
Named == {c \in Contract : owner[c] \in NameGateways}
Seen == live \cup UNION {Listed(n) : n \in Node} \cup {id[x] : x \in Gateway}
Knows(x) == nameId[x] \in names

View ==
  <<[c \in Contract |-> IF c \in Seen \cup (lost \cap Named) THEN owner[c] ELSE None],
    live, paused, names, held \cap Seen,
    [c \in live \cup (lost \cap Named) |-> serves[c]],
    id, named, label, [x \in NameGateways |-> IF Knows(x) THEN nameId[x] ELSE None],
    current, pc, outcome, qNames, qNodes,
    released \cap Seen, lost \cap Named, elsewhere \cap Seen, {x \in alone : Knows(x)}>>
=============================================================================

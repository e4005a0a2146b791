----------------------------- MODULE MCDeployer -----------------------------
(* Deployer on two nodes, two workload names and two contents.              *)
EXTENDS Deployer, TLC

CONSTANTS n1, n2, w1, w2, a, b

On(m) == [n \in Node |-> IF n \in DOMAIN m THEN Versionless(m[n]) ELSE None]

OneVM    == n1 :> (w1 :> a)
TwoNodes == n1 :> (w1 :> b) @@ n2 :> (w2 :> b)
Changed  == n1 :> (w1 :> b @@ w2 :> a) @@ n2 :> (w1 :> a)

\* The same request twice leaves the node alone.  From OneVM to TwoNodes: a
\* workload changed and a node added.  From OneVM to Changed: a workload changed,
\* one added, and a node added.  Between the other two: updates on both nodes,
\* which change, add, rename and drop workloads.
MCRequests == {On(OneVM), On(TwoNodes), On(Changed)}

\* From one node to two and back, for a creation and an update in one call.
MCGrow == {On(OneVM), On(Changed)}

\* One node, so that longer sequences of calls fit.
MCOneNode == {On(OneVM), On(n1 :> (w1 :> b @@ w2 :> a))}
=============================================================================

------------------------------- MODULE MCK8s -------------------------------
(* K8s with a master and up to two workers on two nodes.                    *)
EXTENDS K8s, TLC

Symmetry == Permutations(Node) \cup Permutations(Worker)

\* Of an id in State it matters whether it is 0, or the one in NodeDeploymentID; of the
\* contracts, whether those in NodeDeploymentID go on and which others do that nothing
\* excuses; and of the addresses in K8sNode, what UpdateFromRemote put there, since
\* Deploy assigns all anew.  States that differ in the rest alone are one.
Kind(n, c) == IF c = 0 THEN 0 ELSE IF n \in ids /\ c = made[n] THEN 1 ELSE 2
View ==
  <<master, workers, ids, IF outcome = "updated" THEN ip ELSE <<>>,
    [n \in Node |-> [i \in DOMAIN current[n] |-> Kind(n, current[n][i])]],
    subnets, Going, {c \in live \ (leaked \cup released) : c \notin {IdOf(n) : n \in Going}},
    paused, held, pc, outcome, history, bounds>>
=============================================================================

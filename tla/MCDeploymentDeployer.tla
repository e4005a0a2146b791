------------------------ MODULE MCDeploymentDeployer ------------------------
(***************************************************************************)
(* DeploymentDeployer for TLC.                                             *)
(***************************************************************************)
EXTENDS DeploymentDeployer, TLC

\* The deployments are alike.
Symmetry == Permutations(Dl)

\* To every step and property a contract that has ended is as good as none, but for
\* what the node holds under it, and dl.NodeDeploymentID is as good as any other that
\* has ended; after the last Deploy nobody reads dl.Vms and NetworkState again.  States
\* that differ in these alone are one, if both are of the type.
Known == {c \in ContractId : c \in live \/ held[c] # None}
View ==
  <<IF deploys < MaxDeploys THEN <<vms, recorded, edits>> ELSE <<>>,
    [d \in Dl |-> IF contract[d] \in live THEN contract[d] ELSE None],
    [d \in Dl |-> IF deployment[d] \in Known \cup {None} THEN deployment[d] ELSE Gone],
    current \cap live, created, live, paused, held, ok,
    leaked \cap live, released \cap live, blind \cap Known, deploys, TypeOK>>
=============================================================================

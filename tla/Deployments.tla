----------------------------- MODULE Deployments -----------------------------
(***************************************************************************)
(* Deployments as the client handles them: a version and a set of named    *)
(* workloads, each with its own version and its data.  The operators are   *)
(* those of deployer/deployment_utils.go and the version arithmetic of the *)
(* update loop in deployer/deployer.go.                                    *)
(*                                                                         *)
(* A Go slice of workloads with distinct names is a function from Name     *)
(* that is None where the deployment has no such workload.                 *)
(***************************************************************************)
EXTENDS Naturals, FiniteSets

CONSTANTS
  Name,      \* workload names
  Data,      \* what a workload says, its type included
  None       \* no workload, no deployment, no entry in a map

Workload   == [version : Nat, data : Data]
Deployment == [version : Nat, workloads : [Name -> Workload \cup {None}]]

ASSUME NoneIsNoWorkload == None \notin Workload
ASSUME NoneIsNoDeployment == None \notin Deployment

\* The names of the workloads of deployment d.
Names(d) == {w \in Name : d.workloads[w] # None}

\* What the user wrote, whatever versions it carries.
Content(d) == [w \in Names(d) |-> d.workloads[w].data]

\* Workload.Challenge feeds the version, the name and the data to md5; two
\* workloads have the same hash exactly when they agree on all three.
WorkloadHash(w, wl) == <<wl.version, w, wl.data>>

GetWorkloadHashes(d) == [w \in Names(d) |-> WorkloadHash(w, d.workloads[w])]

\* Deployment.Challenge covers the version and every workload, and not the
\* contract id.
HashDeployment(d) == <<d.version, GetWorkloadHashes(d)>>

SameWorkloadsNames(d1, d2) ==
  /\ Cardinality(Names(d1)) = Cardinality(Names(d2))
  /\ Names(d2) \subseteq Names(d1)

ConstructWorkloadVersions(d) ==
  [w \in Name |-> IF w \in Names(d) THEN d.workloads[w].version ELSE None]

\* Mutant: only the names are compared.
UnchangedByNames(dl, held) == SameWorkloadsNames(dl, held)

\* The update loop leaves a node alone when nothing distinguishes what it holds
\* from what is asked for.
Unchanged(dl, held) ==
  /\ HashDeployment(dl) = HashDeployment(held)
  /\ SameWorkloadsNames(dl, held)

\* Mutant: the lookup of the old version misses the test of ok.
UpdatedVersionUnguarded(dl, held, w) == ConstructWorkloadVersions(held)[w]

\* Mutant: a workload that is known keeps its version, whatever its hash.
UpdatedVersionByName(dl, held, w) ==
  IF w \in Names(held) THEN held.workloads[w].version ELSE held.version + 1

\* The version workload w of dl is given when dl replaces held.
UpdatedVersion(dl, held, w) ==
  IF /\ w \in Names(held)
     /\ WorkloadHash(w, dl.workloads[w]) = WorkloadHash(w, held.workloads[w])
  THEN ConstructWorkloadVersions(held)[w]
  ELSE held.version + 1

\* The deployment sent to a node that holds held when the caller asks for dl.
Update(dl, held) ==
  [version   |-> held.version + 1,
   workloads |-> [w \in Name |->
                    IF w \in Names(dl)
                    THEN [dl.workloads[w] EXCEPT !.version = UpdatedVersion(dl, held, w)]
                    ELSE None]]

\* A deployment whose workloads are at versions it went through.
WellVersioned(d) == \A w \in Names(d) : d.workloads[w].version <= d.version

\* A deployment as the workloads package generates it, before it has versions.
Versionless(content) ==
  [version   |-> 0,
   workloads |-> [w \in Name |->
                    IF w \in DOMAIN content THEN [version |-> 0, data |-> content[w]]
                                            ELSE None]]
=============================================================================

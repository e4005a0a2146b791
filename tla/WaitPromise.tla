----------------------------- MODULE WaitPromise -----------------------------
(***************************************************************************)
(* What Deployer.Wait promises to deploy, and all that Deployer relies on: *)
(* it answers in the end, and it answers nil only when the node reports    *)
(* every workload waited for as ok, at the version waited for.             *)
(***************************************************************************)
EXTENDS Naturals

CONSTANTS
  Name, Version,   \* names and versions a node reports on
  Absent           \* a name nobody waits for

VARIABLES
  wanted,          \* workloadVersions: the version waited for, or Absent
  report,          \* what the node says: the state of each name at each version
  answer           \* "none" until Wait returns

vars == <<wanted, report, answer>>

State == {"none", "init", "ok", "error", "deleted", "paused", "unchanged"}

WantedNames == {w \in Name : wanted[w] # Absent}

AllOk == \A w \in WantedNames : report[w][wanted[w]] = "ok"

Init == /\ wanted \in [Name -> Version \cup {Absent}]
        /\ report \in [Name -> [Version -> State]]
        /\ answer = "none"

Answer == /\ answer = "none"
          /\ \/ AllOk /\ answer' = "nil"
             \/ answer' = "error"
          /\ UNCHANGED <<wanted, report>>

Work == /\ report' \in [Name -> [Version -> State]]
        /\ UNCHANGED <<wanted, answer>>

Spec == Init /\ [][Answer \/ Work]_vars /\ WF_vars(Answer)
=============================================================================

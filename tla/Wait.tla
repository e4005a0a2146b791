-------------------------------- MODULE Wait --------------------------------
(***************************************************************************)
(* Deployer.Wait (deployer/deployer.go): poll the node for the changes of  *)
(* a deployment until every workload waited for is ok, one of them has     *)
(* failed, four minutes have passed without progress, or backoff.Retry     *)
(* gives up.                                                               *)
(*                                                                         *)
(* The node reports a state per workload name and version: an update       *)
(* leaves the entries of earlier versions, and of dropped names, in its    *)
(* answer.  Time is counted in units of the caller's choice.               *)
(***************************************************************************)
EXTENDS Integers, FiniteSets

CONSTANTS
  Name, Version, Absent,   \* as in WaitPromise
  Patience,      \* lastProgress: "> 4*time.Minute"
  MaxInterval,   \* of the exponential backoff: 40 seconds, its jitter included
  MaxElapsed,    \* of the exponential backoff: 50 minutes
  CallTimeout,   \* of one DeploymentChanges: 10 seconds
  Deadlines      \* of ctx: four minutes when creating, the caller's otherwise

ASSUME TimesAreNat ==
  /\ Patience \in Nat /\ MaxInterval \in Nat \ {0} /\ MaxElapsed \in Nat
  /\ CallTimeout \in Nat /\ Deadlines \subseteq Nat

\* A deployment is a list of workloads.
ASSUME NamesAreFinite == IsFiniteSet(Name)
ASSUME AbsentIsNoVersion == Absent \notin Version

VARIABLES
  wanted,      \* workloadVersions
  report,      \* at the node: what DeploymentChanges answers
  pc,          \* "poll", "sleep" or "done"
  now,         \* time since Wait was called
  by,          \* when the poll times out, or the sleep ends
  deadline,    \* when ctx is done
  progress,    \* lastProgress: its time and stateOk
  result,      \* what Wait returns
  okAt         \* when each workload waited for became ok, or -1 (history)

vars == <<wanted, report, pc, now, by, deadline, progress, result, okAt>>

State == {"none", "init", "ok", "error", "deleted", "paused", "unchanged"}
Bad == {"error", "deleted", "paused", "unchanged"}
Result == {"none", "nil", "workload", "timeout", "call", "stopped"}

WantedNames == {w \in Name : wanted[w] # Absent}

StateOf(w) == report[w][wanted[w]]
\* Mutant: an ok at any version counts.
OkAtSomeVersion == {w \in WantedNames : \E v \in Version : report[w][v] = "ok"}

OkNames == {w \in WantedNames : StateOf(w) = "ok"}

TypeOK ==
  /\ wanted \in [Name -> Version \cup {Absent}]
  /\ report \in [Name -> [Version -> State]]
  /\ pc \in {"poll", "sleep", "done"}
  /\ now \in Nat /\ by \in Nat /\ deadline \in Deadlines
  /\ progress \in [time : Nat, stateOk : 0..Cardinality(Name)]
  /\ result \in Result
  /\ okAt \in [Name -> Nat \cup {-1}]

\* Wait is called when the node has taken the deployment.  Entries of earlier
\* versions are settled; what is waited for is settled already when the update
\* left it alone.
Init ==
  /\ wanted \in [Name -> Version \cup {Absent}]
  /\ WantedNames # {}
  /\ report \in [Name -> [Version -> {"none", "init", "ok", "deleted"}]]
  /\ \A w \in Name, v \in Version :
       /\ report[w][v] = "init" => wanted[w] = v
       /\ report[w][v] = "deleted" => wanted[w] = Absent
       /\ wanted[w] = v => report[w][v] \in {"init", "ok"}
       /\ wanted[w] # Absent /\ v > wanted[w] => report[w][v] = "none"
  /\ pc = "poll" /\ now = 0 /\ by = CallTimeout
  /\ deadline \in Deadlines
  /\ progress = [time |-> 0, stateOk |-> 0]
  /\ result = "none"
  /\ okAt = [w \in Name |-> IF w \in OkNames THEN 0 ELSE -1]

-----------------------------------------------------------------------------
(* The operation that backoff.Retry retries.                               *)

Stop(r) == /\ pc' = "done" /\ result' = r
           /\ UNCHANGED <<wanted, report, now, by, deadline, progress, okAt>>

\* NextBackOff: no more once the time is up or ctx is done.
Retry == IF now > MaxElapsed \/ now >= deadline
         THEN pc' = "done" /\ result' = "stopped" /\ UNCHANGED by
         ELSE /\ pc' = "sleep" /\ UNCHANGED result
              /\ \E d \in 1..MaxInterval : by' = now + d

Polled == pc = "poll" /\ now < deadline
NoneBad == \A w \in WantedNames : StateOf(w) \notin Bad

\* DeploymentChanges fails, by itself or because its time or ctx is up.
PollFails == pc = "poll" /\ Stop("call")

SeesFailure ==
  /\ Polled
  /\ ~ NoneBad
  /\ Stop("workload")

SeesAllOk ==
  /\ Polled
  /\ NoneBad /\ Cardinality(OkNames) = Cardinality(WantedNames)
  /\ Stop("nil")

Unfinished == Polled /\ NoneBad /\ Cardinality(OkNames) # Cardinality(WantedNames)
MoreOk == progress.stateOk < Cardinality(OkNames)

\* Mutant: the time of the last progress is not recorded.
SeesProgressUndated ==
  /\ Unfinished /\ MoreOk
  /\ progress' = [progress EXCEPT !.stateOk = Cardinality(OkNames)]
  /\ Retry
  /\ UNCHANGED <<wanted, report, now, deadline, okAt>>

\* Mutant: progress is counted from what is missing.
SeesWhatIsMissing ==
  /\ Unfinished /\ MoreOk
  /\ progress' = [time |-> now, stateOk |-> Cardinality(OkNames) - Cardinality(WantedNames)]
  /\ Retry
  /\ UNCHANGED <<wanted, report, now, deadline, okAt>>

SeesProgress ==
  /\ Unfinished /\ MoreOk
  /\ progress' = [time |-> now, stateOk |-> Cardinality(OkNames)]
  /\ Retry
  /\ UNCHANGED <<wanted, report, now, deadline, okAt>>

\* Mutant: every poll is recorded as the last progress.
SeesAnything ==
  /\ Unfinished /\ ~ MoreOk
  /\ now - progress.time <= Patience
  /\ progress' = [progress EXCEPT !.time = now]
  /\ Retry
  /\ UNCHANGED <<wanted, report, now, deadline, okAt>>

SeesNoProgress ==
  /\ Unfinished /\ ~ MoreOk
  /\ now - progress.time <= Patience
  /\ Retry
  /\ UNCHANGED <<wanted, report, now, deadline, progress, okAt>>

TimesOut ==
  /\ Unfinished /\ ~ MoreOk
  /\ now - progress.time > Patience
  /\ Stop("timeout")

\* The timer of backoff.Retry fires, or ctx is done first.
Wake ==
  /\ pc = "sleep" /\ now = by
  /\ pc' = "poll"
  /\ by' = now + CallTimeout
  /\ UNCHANGED <<wanted, report, now, deadline, progress, result, okAt>>

Interrupted ==
  /\ pc = "sleep" /\ now >= deadline
  /\ Stop("stopped")

Waiting == \/ PollFails \/ SeesFailure \/ SeesAllOk
           \/ SeesProgress \/ SeesNoProgress \/ TimesOut
           \/ Wake \/ Interrupted

-----------------------------------------------------------------------------
(* The node and the clock.                                                 *)

\* A workload being provisioned comes to an end, and a running one is paused or
\* deleted with its contract.
Work(w) ==
  /\ pc # "done"
  /\ w \in WantedNames
  /\ \/ StateOf(w) = "init" /\ \E s \in {"ok", "error", "unchanged"} :
          report' = [report EXCEPT ![w][wanted[w]] = s]
     \/ StateOf(w) = "ok" /\ \E s \in {"paused", "deleted"} :
          report' = [report EXCEPT ![w][wanted[w]] = s]
  /\ okAt' = [okAt EXCEPT ![w] = IF report'[w][wanted[w]] = "ok" THEN now ELSE @]
  /\ UNCHANGED <<wanted, pc, now, by, deadline, progress, result>>

Tick ==
  /\ pc # "done" /\ now < by
  /\ now' = now + 1
  /\ UNCHANGED <<wanted, report, pc, by, deadline, progress, result, okAt>>

Next == Waiting \/ Tick \/ \E w \in Name : Work(w)

\* A call is answered or times out and a timer fires; the node owes nothing.
Spec == Init /\ [][Next]_vars /\ WF_vars(Waiting) /\ WF_vars(Tick)

-----------------------------------------------------------------------------
(* What is asked of it.                                                    *)

\* Wait keeps the promise that deploy builds on: nil only when every workload
\* waited for is ok at the version sent, and an answer in the end, whatever the
\* node does (the count of StateOk entries against the number of names).
Promise == INSTANCE WaitPromise WITH
  answer <- CASE result = "none" -> "none" [] result = "nil" -> "nil" [] OTHER -> "error"

KeepsPromise == Promise!Spec

\* Wait does not give up on a deployment that moves: when it reports a timeout,
\* no workload waited for has become ok in the last four minutes (lastProgress).
TimeoutMeansStuck ==
  result = "timeout" => \A w \in WantedNames : okAt[w] >= 0 => now - okAt[w] > Patience

\* Wait does not outlive a deployment that stands still: while it waits, a
\* workload became ok, or Wait was called, within four minutes and the two polls
\* it takes to see both the progress and its end.
GivesUpInTime ==
  result = "none" =>
    \E t \in {0} \cup {okAt[w] : w \in WantedNames} :
      t >= 0 /\ now - t <= Patience + 2 * (MaxInterval + CallTimeout)
=============================================================================

----------------------------- MODULE WaitProofs -----------------------------
(***************************************************************************)
(* For any workloads, versions, periods of time and deadlines: Wait keeps  *)
(* its types, does what WaitPromise says, gives up on no deployment that   *)
(* moves, and does not outlive one that stands still.                      *)
(***************************************************************************)
EXTENDS Wait, FiniteSetTheorems, TLAPS

\* A set of names has a number of members, which a subset does not exceed and
\* reaches only if it is the same set.
LEMMA CountOfNames ==
  ASSUME NEW S \in SUBSET Name, NEW T \in SUBSET S
  PROVE  /\ Cardinality(S) \in Nat /\ Cardinality(T) \in Nat
         /\ Cardinality(S) <= Cardinality(Name)
         /\ Cardinality(T) <= Cardinality(S)
         /\ Cardinality(T) = Cardinality(S) => T = S
<1>1. IsFiniteSet(S) /\ Cardinality(S) <= Cardinality(Name)
  BY NamesAreFinite, FS_Subset
<1>2. IsFiniteSet(T) /\ Cardinality(T) <= Cardinality(S) /\ (Cardinality(T) = Cardinality(S) => T = S)
  BY <1>1, FS_Subset
<1>. QED BY <1>1, <1>2, FS_CardinalityType

-----------------------------------------------------------------------------
(* Type correctness.                                                       *)

\* Wait returns once, with a result.
TypeInv == TypeOK /\ (pc = "done" <=> result # "none")

\* The count of workloads that are ok is one of 0 to the number of names.
LEMMA OkCount ==
  /\ Cardinality(OkNames) \in 0..Cardinality(Name) /\ Cardinality(Name) \in Nat
  /\ Cardinality(WantedNames) \in Nat
  /\ Cardinality(OkNames) = Cardinality(WantedNames) => OkNames = WantedNames
<1>1. OkNames \in SUBSET WantedNames /\ WantedNames \in SUBSET Name /\ Name \in SUBSET Name
  BY DEF OkNames, WantedNames
<1>. QED BY <1>1, CountOfNames

\* Whatever the node reports when Wait is called, every variable has its type.
LEMMA TypeInit == Init => TypeInv
<1>. SUFFICES ASSUME Init PROVE TypeInv
  OBVIOUS
<1>1. report \in [Name -> [Version -> State]]
  BY DEF Init, State
<1>2. 0 \in 0..Cardinality(Name)
  <2>1. Cardinality(Name) \in Nat
    BY OkCount
  <2>. QED BY <2>1
<1>3. progress \in [time : Nat, stateOk : 0..Cardinality(Name)]
  BY <1>2 DEF Init
<1>4. okAt \in [Name -> Nat \cup {-1}]
  BY DEF Init
<1>5. now \in Nat /\ by \in Nat /\ deadline \in Deadlines
  BY TimesAreNat DEF Init
<1>. QED BY <1>1, <1>3, <1>4, <1>5 DEF Init, TypeInv, TypeOK, Result

\* A retry sleeps for some time, or is the end.
LEMMA RetryType ==
  ASSUME TypeInv, Retry
  PROVE  /\ \/ pc' = "done" /\ result' = "stopped" /\ by' = by
            \/ pc' = "sleep" /\ result' = result
         /\ by' \in Nat
BY TimesAreNat DEF TypeInv, TypeOK, Retry

\* Every poll, sleep and tick, and everything the node does, keeps the types.
LEMMA TypeNext == TypeInv /\ [Next]_vars => TypeInv'
<1>. SUFFICES ASSUME TypeInv, [Next]_vars PROVE TypeInv'
  OBVIOUS
<1>1. ASSUME NEW r \in Result \ {"none"}, Stop(r) PROVE TypeInv'
  BY <1>1 DEF Stop, TypeInv, TypeOK
<1>2. CASE PollFails \/ SeesFailure \/ SeesAllOk \/ TimesOut \/ Interrupted
  BY <1>1, <1>2 DEF PollFails, SeesFailure, SeesAllOk, TimesOut, Interrupted, Result
<1>3. CASE SeesProgress
  <2>1. pc = "poll"
    BY <1>3 DEF SeesProgress, Unfinished, Polled
  <2>2. progress' \in [time : Nat, stateOk : 0..Cardinality(Name)]
    BY <1>3, OkCount DEF SeesProgress, TypeInv, TypeOK
  <2>3. UNCHANGED <<wanted, report, now, deadline, okAt>> /\ Retry
    BY <1>3 DEF SeesProgress
  <2>. QED BY <2>1, <2>2, <2>3, RetryType DEF TypeInv, TypeOK, Result
<1>4. CASE SeesNoProgress
  <2>1. pc = "poll"
    BY <1>4 DEF SeesNoProgress, Unfinished, Polled
  <2>2. UNCHANGED <<wanted, report, now, deadline, progress, okAt>> /\ Retry
    BY <1>4 DEF SeesNoProgress
  <2>. QED BY <2>1, <2>2, RetryType DEF TypeInv, TypeOK, Result
<1>5. CASE Wake
  BY <1>5, TimesAreNat DEF Wake, TypeInv, TypeOK
<1>6. ASSUME NEW w \in Name, Work(w) PROVE TypeInv'
  <2>1. PICK s \in State : report' = [report EXCEPT ![w][wanted[w]] = s]
    BY <1>6 DEF Work, State
  <2>2. report' \in [Name -> [Version -> State]]
    BY <2>1 DEF TypeInv, TypeOK
  <2>3. okAt' \in [Name -> Nat \cup {-1}]
    BY <1>6 DEF Work, TypeInv, TypeOK
  <2>. QED BY <1>6, <2>2, <2>3 DEF Work, TypeInv, TypeOK
<1>7. CASE Tick
  BY <1>7 DEF Tick, TypeInv, TypeOK
<1>8. CASE UNCHANGED vars
  BY <1>8 DEF vars, TypeInv, TypeOK
<1>. QED BY <1>2, <1>3, <1>4, <1>5, <1>6, <1>7, <1>8 DEF Next, Waiting

\* Every variable of Wait keeps its type, for all values of the constants.
THEOREM TypeCorrect == Spec => []TypeOK
<1>1. TypeInv => TypeOK
  BY DEF TypeInv
<1>. QED BY <1>1, TypeInit, TypeNext, PTL DEF Spec

-----------------------------------------------------------------------------
(* The promise.                                                            *)

\* Each step of Wait, of the node or of the clock is an answer that WaitPromise
\* allows, the node at work, or nothing to it: the count of workloads that are ok
\* is that of the names only if all of them are.
LEMMA StepKeepsPromise ==
  TypeInv /\ TypeInv' /\ [Next]_vars => [Promise!Answer \/ Promise!Work]_(Promise!vars)
<1>. SUFFICES ASSUME TypeInv, TypeInv', [Next]_vars
              PROVE  Promise!Answer \/ Promise!Work \/ UNCHANGED Promise!vars
  OBVIOUS
<1>. DEFINE answer == CASE result = "none" -> "none" [] result = "nil" -> "nil" [] OTHER -> "error"
<1>1. ASSUME result = "none", result' \notin {"none", "nil"}, UNCHANGED <<wanted, report>>
      PROVE  Promise!Answer
  <2>1. answer = "none" /\ answer' = "error"
    BY <1>1
  <2>. QED BY <1>1, <2>1 DEF Promise!Answer
<1>2. CASE PollFails \/ SeesFailure \/ TimesOut \/ Interrupted
  BY <1>1, <1>2
  DEF PollFails, SeesFailure, TimesOut, Interrupted, Unfinished, Polled, Stop, TypeInv
<1>3. CASE SeesAllOk
  <2>1. OkNames = WantedNames
    BY <1>3, OkCount DEF SeesAllOk
  <2>2. Promise!AllOk
    BY <2>1 DEF Promise!AllOk, Promise!WantedNames, WantedNames, OkNames, StateOf
  <2>3. /\ result = "none" /\ result' = "nil" /\ UNCHANGED <<wanted, report>>
    BY <1>3 DEF SeesAllOk, Polled, Stop, TypeInv
  <2>4. answer = "none" /\ answer' = "nil"
    BY <2>3
  <2>. QED BY <2>2, <2>3, <2>4 DEF Promise!Answer
<1>4. CASE SeesProgress \/ SeesNoProgress
  <2>1. /\ result = "none" /\ UNCHANGED <<wanted, report>> /\ Retry
    BY <1>4 DEF SeesProgress, SeesNoProgress, Unfinished, Polled, TypeInv
  <2>2. result' \in {"none", "stopped"}
    BY <2>1 DEF Retry
  <2>3. CASE result' = "none"
    BY <2>1, <2>3 DEF Promise!vars
  <2>4. CASE result' = "stopped"
    BY <1>1, <2>1, <2>4
  <2>. QED BY <2>2, <2>3, <2>4
<1>5. CASE Wake \/ Tick \/ UNCHANGED vars
  BY <1>5 DEF Wake, Tick, vars, Promise!vars
<1>6. ASSUME NEW w \in Name, Work(w) PROVE Promise!Work
  <2>1. UNCHANGED <<wanted, result>>
    BY <1>6 DEF Work
  <2>. QED BY <2>1 DEF Promise!Work, TypeInv, TypeOK, State, Promise!State
<1>. QED BY <1>2, <1>3, <1>4, <1>5, <1>6 DEF Next, Waiting

\* Wait does only what its promise to deploy allows: it answers once, and nil only
\* when every workload waited for is ok at the version sent.
THEOREM PromiseKept ==
  Spec => Promise!Init /\ [][Promise!Answer \/ Promise!Work]_(Promise!vars)
<1>1. Init => Promise!Init
  BY TypeInit DEF Init, Promise!Init, TypeInv, TypeOK, State, Promise!State
<1>. QED BY <1>1, TypeInit, TypeNext, StepKeepsPromise, PTL DEF Spec

-----------------------------------------------------------------------------
(* A timeout.                                                              *)

\* The workloads that were ok when progress was last recorded, or before.
Early == {w \in WantedNames : okAt[w] >= 0 /\ okAt[w] <= progress.time}

\* What is recorded as progress was reached by then, and a workload that was ok is
\* so still or is bad, which ends the wait: so when the count has not grown and none
\* is bad, none became ok since.
StuckInv ==
  /\ progress.time <= now
  /\ \A w \in WantedNames : /\ okAt[w] <= now
                            /\ StateOf(w) = "ok" => okAt[w] >= 0
                            /\ okAt[w] >= 0 => StateOf(w) \in Bad \cup {"ok"}
  /\ progress.stateOk <= Cardinality(Early)
  /\ TimeoutMeansStuck

\* When Wait is called no progress is recorded.
LEMMA StuckInit == Init => StuckInv
<1>. SUFFICES ASSUME Init PROVE StuckInv
  OBVIOUS
<1>1. Cardinality(Early) \in Nat
  <2>1. Early \in SUBSET WantedNames /\ WantedNames \in SUBSET Name
    BY DEF Early, WantedNames
  <2>. QED BY <2>1, CountOfNames
<1>2. \A w \in WantedNames : /\ okAt[w] \in {0, -1}
                             /\ okAt[w] = 0 <=> StateOf(w) = "ok"
  BY DEF Init, OkNames, WantedNames
<1>. QED BY <1>1, <1>2 DEF Init, StuckInv, TimeoutMeansStuck

\* What the node does to a workload: it becomes ok now, or goes bad.
LEMMA WorkEffect ==
  ASSUME TypeInv, NEW w \in Name, Work(w)
  PROVE  /\ pc # "done" /\ UNCHANGED <<wanted, pc, now, by, deadline, progress, result>>
         /\ WantedNames' = WantedNames /\ w \in WantedNames
         /\ \A v \in WantedNames \ {w} : StateOf(v)' = StateOf(v) /\ okAt'[v] = okAt[v]
         /\ \/ StateOf(w) = "init" /\ StateOf(w)' = "ok" /\ okAt'[w] = now
            \/ /\ StateOf(w) \in {"init", "ok"} /\ StateOf(w)' \in Bad
               /\ okAt'[w] = okAt[w]
<1>1. PICK s \in State :
        /\ report' = [report EXCEPT ![w][wanted[w]] = s]
        /\ \/ StateOf(w) = "init" /\ s = "ok"
           \/ StateOf(w) \in {"init", "ok"} /\ s \in Bad
  BY DEF Work, State, Bad
<1>2. wanted[w] \in Version /\ w \in WantedNames
  BY DEF Work, WantedNames, TypeInv, TypeOK
<1>3. UNCHANGED <<wanted, pc, now, by, deadline, progress, result>> /\ pc # "done"
  BY DEF Work
<1>4. \A v \in Name : report'[v] = IF v = w THEN [report[w] EXCEPT ![wanted[w]] = s] ELSE report[v]
  BY <1>1 DEF TypeInv, TypeOK
<1>5. StateOf(w)' = s
  <2>1. report[w] \in [Version -> State]
    BY DEF TypeInv, TypeOK
  <2>. QED BY <1>2, <1>3, <1>4, <2>1 DEF StateOf
<1>6. \A v \in Name \ {w} : StateOf(v)' = StateOf(v)
  BY <1>3, <1>4 DEF StateOf
<1>7. okAt' = [okAt EXCEPT ![w] = IF s = "ok" THEN now ELSE @]
  BY <1>3, <1>5 DEF Work, StateOf
<1>8. \A v \in Name : okAt'[v] = IF v = w /\ s = "ok" THEN now ELSE okAt[v]
  BY <1>7 DEF TypeInv, TypeOK
<1>9. WantedNames' = WantedNames /\ WantedNames \subseteq Name
  BY <1>3 DEF WantedNames
<1>. QED BY <1>1, <1>2, <1>3, <1>5, <1>6, <1>8, <1>9 DEF Bad

\* Every step keeps the record of progress true, and a timeout is reported only
\* when none of the workloads became ok since.
LEMMA StuckNext == TypeInv /\ StuckInv /\ [Next]_vars => StuckInv'
<1>. SUFFICES ASSUME TypeInv, StuckInv, [Next]_vars PROVE StuckInv'
  OBVIOUS
<1>0. /\ now \in Nat /\ progress.time \in Nat /\ progress.stateOk \in Nat /\ Patience \in Nat
      /\ \A w \in WantedNames : w \in Name /\ okAt[w] \in Nat \cup {-1}
      /\ Early \in SUBSET WantedNames /\ OkNames \in SUBSET WantedNames /\ WantedNames \in SUBSET Name
  <2>1. Cardinality(Name) \in Nat /\ progress.stateOk \in 0..Cardinality(Name)
    BY OkCount DEF TypeInv, TypeOK
  <2>. QED BY <2>1, TimesAreNat DEF TypeInv, TypeOK, WantedNames, OkNames, Early
<1>1. ASSUME UNCHANGED <<wanted, report, okAt, progress>>, now <= now', now' \in Nat,
             result' = "timeout" => result = "timeout" /\ now' = now
      PROVE  StuckInv'
  <2>1. /\ WantedNames' = WantedNames /\ Early' = Early
        /\ \A w \in WantedNames : StateOf(w)' = StateOf(w)
    BY <1>1 DEF WantedNames, Early, StateOf
  <2>. QED BY <1>0, <1>1, <2>1 DEF StuckInv, TimeoutMeansStuck
<1>2. CASE PollFails \/ SeesFailure \/ SeesAllOk \/ Interrupted \/ SeesNoProgress \/ Wake
  <2>1. UNCHANGED <<wanted, report, okAt, progress, now>>
    BY <1>2 DEF PollFails, SeesFailure, SeesAllOk, Interrupted, SeesNoProgress, Wake, Stop
  <2>2. result' = "timeout" => result = "timeout"
    BY <1>2 DEF PollFails, SeesFailure, SeesAllOk, Interrupted, SeesNoProgress, Wake, Stop, Retry
  <2>. QED BY <1>0, <1>1, <2>1, <2>2
<1>3. CASE Tick
  BY <1>0, <1>1, <1>3 DEF Tick, TypeInv
<1>4. CASE SeesProgress
  <2>1. /\ UNCHANGED <<wanted, report, now, okAt>>
        /\ progress'.time = now /\ progress'.stateOk = Cardinality(OkNames)
        /\ result' # "timeout"
    BY <1>4 DEF SeesProgress, Unfinished, Polled, Retry, TypeInv
  <2>2. /\ WantedNames' = WantedNames
        /\ \A w \in WantedNames : StateOf(w)' = StateOf(w)
    BY <2>1 DEF WantedNames, StateOf
  <2>3. OkNames \in SUBSET Early'
    BY <2>1, <2>2 DEF Early, OkNames, StuckInv
  <2>4. Early' \in SUBSET Name
    BY <1>0, <2>2 DEF Early
  <2>5. Cardinality(OkNames) <= Cardinality(Early')
    BY <2>3, <2>4, CountOfNames
  <2>. QED BY <1>0, <2>1, <2>2, <2>5 DEF StuckInv, TimeoutMeansStuck
<1>5. CASE TimesOut
  <2>1. /\ UNCHANGED <<wanted, report, okAt, progress, now>>
        /\ NoneBad /\ Cardinality(OkNames) <= progress.stateOk
        /\ now - progress.time > Patience
    <3>1. Cardinality(OkNames) \in Nat
      BY <1>0, CountOfNames
    <3>. QED BY <1>0, <1>5, <3>1 DEF TimesOut, Unfinished, MoreOk, Stop
  <2>2. Early \in SUBSET OkNames
    BY <2>1 DEF Early, OkNames, StuckInv, NoneBad
  <2>3. Early = OkNames
    <3>1. Cardinality(OkNames) <= Cardinality(Early)
      BY <1>0, <2>1, CountOfNames DEF StuckInv
    <3>. QED BY <1>0, <2>2, <3>1, CountOfNames
  <2>4. \A w \in WantedNames : okAt[w] >= 0 => w \in Early
    BY <2>1, <2>3 DEF StuckInv, NoneBad, OkNames
  <2>5. \A w \in WantedNames : okAt[w] >= 0 => now - okAt[w] > Patience
    BY <1>0, <2>1, <2>4 DEF Early
  <2>6. /\ WantedNames' = WantedNames /\ Early' = Early
        /\ \A w \in WantedNames : StateOf(w)' = StateOf(w)
    BY <2>1 DEF WantedNames, Early, StateOf
  <2>. QED BY <2>1, <2>5, <2>6 DEF StuckInv, TimeoutMeansStuck
<1>6. ASSUME NEW w \in Name, Work(w) PROVE StuckInv'
  <2>1. /\ UNCHANGED <<now, progress, result>> /\ WantedNames' = WantedNames /\ result = "none"
        /\ \A v \in WantedNames \ {w} : StateOf(v)' = StateOf(v) /\ okAt'[v] = okAt[v]
        /\ \/ StateOf(w) = "init" /\ StateOf(w)' = "ok" /\ okAt'[w] = now
           \/ /\ StateOf(w) \in {"init", "ok"} /\ StateOf(w)' \in Bad
              /\ okAt'[w] = okAt[w]
        /\ w \in WantedNames
    BY <1>6, WorkEffect DEF TypeInv
  <2>2. StateOf(w) = "init" => ~ okAt[w] >= 0
    BY <2>1 DEF StuckInv, Bad
  <2>3. Early \in SUBSET Early' /\ Early' \in SUBSET Name
    BY <1>0, <2>1, <2>2 DEF Early
  <2>4. /\ Cardinality(Early) <= Cardinality(Early')
        /\ Cardinality(Early) \in Nat /\ Cardinality(Early') \in Nat
    BY <2>3, CountOfNames
  <2>5. \A v \in WantedNames : /\ okAt'[v] <= now
                               /\ StateOf(v)' = "ok" => okAt'[v] >= 0
                               /\ okAt'[v] >= 0 => StateOf(v)' \in Bad \cup {"ok"}
    <3>1. ASSUME NEW v \in WantedNames \ {w}
          PROVE  /\ okAt'[v] <= now
                 /\ StateOf(v)' = "ok" => okAt'[v] >= 0
                 /\ okAt'[v] >= 0 => StateOf(v)' \in Bad \cup {"ok"}
      BY <2>1 DEF StuckInv
    <3>2. /\ okAt'[w] <= now
          /\ StateOf(w)' = "ok" => okAt'[w] >= 0
          /\ okAt'[w] >= 0 => StateOf(w)' \in Bad \cup {"ok"}
      BY <1>0, <2>1 DEF StuckInv, Bad
    <3>. QED BY <3>1, <3>2
  <2>6. progress'.stateOk <= Cardinality(Early')
    BY <1>0, <2>1, <2>4 DEF StuckInv
  <2>. QED BY <2>1, <2>5, <2>6 DEF StuckInv, TimeoutMeansStuck
<1>7. CASE UNCHANGED vars
  BY <1>0, <1>1, <1>7 DEF vars
<1>. QED BY <1>2, <1>3, <1>4, <1>5, <1>6, <1>7 DEF Next, Waiting

\* When Wait reports a timeout, no workload waited for has become ok within Patience.
THEOREM MovingIsNotStuck == Spec => []TimeoutMeansStuck
<1>1. StuckInv => TimeoutMeansStuck
  BY DEF StuckInv
<1>. QED BY <1>1, TypeInit, TypeNext, StuckInit, StuckNext, PTL DEF Spec
-----------------------------------------------------------------------------
(* Giving up.                                                              *)

\* The longest time from one poll to the answer of the next.
Round == MaxInterval + CallTimeout

\* Wait was called, or a workload became ok, at time t.
Event(t) == t = 0 \/ \E w \in WantedNames : okAt[w] >= 0 /\ okAt[w] = t

\* What was ok before time q, and still is.
OkBefore(q) == {w \in OkNames : okAt[w] < q}

\* At time q Wait last looked, or was called: what had become ok by then is recorded,
\* and the last progress was not too long ago.
LookedAt(q) ==
  /\ q <= now /\ now <= by
  /\ by <= q + Round /\ (pc = "sleep" => by <= q + MaxInterval)
  /\ q <= progress.time + Patience
  /\ Cardinality(OkBefore(q)) <= progress.stateOk

\* While Wait goes on it looked not long ago, and recorded progress not long after
\* there was some.
InTimeInv ==
  result = "none" =>
    /\ \E q \in Nat : LookedAt(q)
    /\ \E t \in Nat : Event(t) /\ progress.time <= t + Round

\* Wait looks first when it is called.
LEMMA InTimeInit == Init => InTimeInv
<1>. SUFFICES ASSUME Init PROVE InTimeInv
  OBVIOUS
<1>1. OkBefore(0) = {}
  BY DEF Init, OkBefore, OkNames, WantedNames
<1>2. LookedAt(0)
  <2>1. Cardinality(OkBefore(0)) = 0
    BY <1>1, FS_EmptySet
  <2>2. now = 0 /\ by = CallTimeout /\ pc = "poll" /\ progress = [time |-> 0, stateOk |-> 0]
    BY DEF Init
  <2>. QED BY <2>1, <2>2, TimesAreNat DEF LookedAt, Round
<1>3. Event(0) /\ progress.time <= 0 + Round
  BY TimesAreNat DEF Init, Event, Round
<1>. QED BY <1>2, <1>3 DEF InTimeInv

\* The times are numbers.
LEMMA Times ==
  ASSUME TypeInv
  PROVE  /\ now \in Nat /\ by \in Nat /\ progress.time \in Nat /\ progress.stateOk \in Nat
         /\ Patience \in Nat /\ MaxInterval \in Nat /\ CallTimeout \in Nat /\ Round \in Nat
         /\ \A w \in WantedNames : w \in Name /\ okAt[w] \in Nat \cup {-1}
<1>1. Cardinality(Name) \in Nat /\ progress.stateOk \in 0..Cardinality(Name)
  BY OkCount DEF TypeInv, TypeOK
<1>. QED BY <1>1, TimesAreNat DEF TypeInv, TypeOK, Round, WantedNames

\* What was recorded when Wait looks next: if the count has grown, something became
\* ok since it last looked.
LEMMA GrownSince ==
  ASSUME TypeInv, StuckInv, NEW q \in Nat, LookedAt(q), MoreOk
  PROVE  \E w \in OkNames : okAt[w] >= q
<1>. SUFFICES ASSUME \A w \in OkNames : ~ okAt[w] >= q
              PROVE  FALSE
  OBVIOUS
<1>1. \A w \in OkNames : okAt[w] < q
  BY Times DEF OkNames
<1>2. OkBefore(q) = OkNames
  BY <1>1 DEF OkBefore
<1>3. Cardinality(OkNames) \in Nat
  BY OkCount
<1>. QED BY <1>2, <1>3, Times DEF LookedAt, MoreOk

\* Looking again, whether or not there is progress, keeps the time.
LEMMA LookAgain ==
  ASSUME TypeInv, StuckInv, InTimeInv, SeesProgress \/ SeesNoProgress
  PROVE  InTimeInv'
<1>. SUFFICES ASSUME result' = "none"
              PROVE  /\ \E q \in Nat : LookedAt(q)'
                     /\ \E t \in Nat : Event(t)' /\ progress'.time <= t + Round
  BY DEF InTimeInv, Round
<1>1. /\ result = "none" /\ pc = "poll" /\ pc' = "sleep"
      /\ UNCHANGED <<wanted, report, now, okAt>>
      /\ now < by' /\ by' <= now + MaxInterval /\ by' \in Nat
  BY Times DEF SeesProgress, SeesNoProgress, Unfinished, Polled, Retry, TypeInv
<1>2. PICK q \in Nat, t \in Nat : LookedAt(q) /\ Event(t) /\ progress.time <= t + Round
  BY <1>1 DEF InTimeInv
<1>3. /\ WantedNames' = WantedNames /\ OkNames' = OkNames
      /\ \A u \in Nat : (Event(u) => Event(u)') /\ OkBefore(u)' = OkBefore(u)
  BY <1>1 DEF WantedNames, OkNames, StateOf, Event, OkBefore
<1>4. Cardinality(OkBefore(now)) <= Cardinality(OkNames) /\ Cardinality(OkNames) \in Nat
      /\ Cardinality(OkBefore(now)) \in Nat
  BY CountOfNames DEF OkBefore, OkNames, WantedNames
<1>5. CASE SeesProgress
  <2>1. progress'.time = now /\ progress'.stateOk = Cardinality(OkNames) /\ MoreOk
    BY <1>5 DEF SeesProgress
  <2>2. PICK w \in OkNames : okAt[w] >= q
    BY <1>2, <2>1, GrownSince
  <2>3. PICK u \in Nat : u = okAt[w]
    BY <1>2, <2>2, Times DEF OkNames
  <2>4. Event(u)'
    <3>1. Event(u)
      BY <2>2, <2>3 DEF Event, OkNames
    <3>. QED BY <1>3, <3>1
  <2>5. now <= u + Round
    BY <1>2, <2>2, <2>3, Times DEF LookedAt
  <2>6. ASSUME NEW p \in Nat, p = now PROVE LookedAt(p)'
    BY <1>1, <1>3, <1>4, <2>1, <2>6, Times DEF LookedAt, Round
  <2>. QED BY <2>1, <2>4, <2>5, <2>6, Times
<1>6. CASE SeesNoProgress
  <2>1. progress' = progress /\ now - progress.time <= Patience
        /\ Cardinality(OkNames) <= progress.stateOk
    BY <1>4, <1>6, Times DEF SeesNoProgress, MoreOk
  <2>2. ASSUME NEW p \in Nat, p = now PROVE LookedAt(p)'
    BY <1>1, <1>3, <1>4, <2>1, <2>2, Times DEF LookedAt, Round
  <2>. QED BY <1>2, <1>3, <2>1, <2>2, Times
<1>. QED BY <1>5, <1>6

\* No step lets Wait go on for too long without looking, or look away from progress.
LEMMA InTimeNext == TypeInv /\ StuckInv /\ InTimeInv /\ [Next]_vars => InTimeInv'
<1>. SUFFICES ASSUME TypeInv, StuckInv, InTimeInv, [Next]_vars PROVE InTimeInv'
  OBVIOUS
<1>1. CASE PollFails \/ SeesFailure \/ SeesAllOk \/ TimesOut \/ Interrupted
  BY <1>1 DEF PollFails, SeesFailure, SeesAllOk, TimesOut, Interrupted, Stop, InTimeInv
<1>2. CASE SeesProgress \/ SeesNoProgress
  BY <1>2, LookAgain
<1>3. ASSUME UNCHANGED <<wanted, report, okAt, progress, result>>,
             \A q \in Nat : LookedAt(q) => /\ q <= now' /\ now' <= by' /\ by' <= q + Round
                                           /\ pc' = "sleep" => by' <= q + MaxInterval
      PROVE  InTimeInv'
  <2>1. /\ WantedNames' = WantedNames /\ OkNames' = OkNames
        /\ \A u \in Nat : (Event(u) => Event(u)') /\ OkBefore(u)' = OkBefore(u)
    BY <1>3 DEF WantedNames, OkNames, StateOf, Event, OkBefore
  <2>2. \A q \in Nat : LookedAt(q) => LookedAt(q)'
    BY <1>3, <2>1 DEF LookedAt, Round
  <2>. QED BY <1>3, <2>1, <2>2 DEF InTimeInv, Round
<1>4. CASE Wake
  BY <1>3, <1>4, Times DEF Wake, LookedAt, Round
<1>5. CASE Tick
  BY <1>3, <1>5, Times DEF Tick, LookedAt
<1>6. ASSUME NEW w \in Name, Work(w) PROVE InTimeInv'
  <2>1. /\ UNCHANGED <<pc, now, by, progress, result>>
        /\ WantedNames' = WantedNames /\ w \in WantedNames
        /\ \A v \in WantedNames \ {w} : StateOf(v)' = StateOf(v) /\ okAt'[v] = okAt[v]
        /\ \/ StateOf(w) = "init" /\ StateOf(w)' = "ok" /\ okAt'[w] = now
           \/ /\ StateOf(w) \in {"init", "ok"} /\ StateOf(w)' \in Bad
              /\ okAt'[w] = okAt[w]
    BY <1>6, WorkEffect
  <2>2. StateOf(w) = "init" => ~ okAt[w] >= 0
    BY <2>1 DEF StuckInv, Bad
  <2>3. \A t \in Nat : Event(t) => Event(t)'
    BY <2>1, <2>2 DEF Event
  <2>4. ASSUME NEW q \in Nat, q <= now PROVE OkBefore(q)' \in SUBSET OkBefore(q)
    BY <2>1, <2>4, Times DEF OkBefore, OkNames, Bad
  <2>5. ASSUME NEW q \in Nat, LookedAt(q) PROVE LookedAt(q)'
    <3>1. OkBefore(q)' \in SUBSET OkBefore(q) /\ OkBefore(q) \in SUBSET Name
      BY <2>4, <2>5 DEF LookedAt, OkBefore, OkNames, WantedNames
    <3>2. Cardinality(OkBefore(q)') <= Cardinality(OkBefore(q))
          /\ Cardinality(OkBefore(q)') \in Nat /\ Cardinality(OkBefore(q)) \in Nat
      BY <3>1, CountOfNames
    <3>. QED BY <2>1, <2>5, <3>2, Times DEF LookedAt, Round
  <2>. QED BY <2>1, <2>3, <2>5 DEF InTimeInv, Round
<1>7. CASE UNCHANGED vars
  BY <1>3, <1>7 DEF vars, LookedAt
<1>. QED BY <1>1, <1>2, <1>4, <1>5, <1>6, <1>7 DEF Next, Waiting

\* While Wait waits, a workload became ok, or Wait was called, within Patience and the
\* two rounds it takes to see the progress and to see its end.
THEOREM StuckIsNotWaitedFor == Spec => []GivesUpInTime
<1>1. TypeInv /\ InTimeInv => GivesUpInTime
  <2>. SUFFICES ASSUME TypeInv, InTimeInv, result = "none"
                PROVE  \E t \in {0} \cup {okAt[w] : w \in WantedNames} :
                         t >= 0 /\ now - t <= Patience + 2 * (MaxInterval + CallTimeout)
    BY DEF GivesUpInTime
  <2>1. PICK q \in Nat, t \in Nat : LookedAt(q) /\ Event(t) /\ progress.time <= t + Round
    BY DEF InTimeInv
  <2>2. now - t <= Patience + 2 * (MaxInterval + CallTimeout)
    BY <2>1, Times DEF LookedAt, Round
  <2>3. t \in {0} \cup {okAt[w] : w \in WantedNames}
    BY <2>1 DEF Event
  <2>. QED BY <2>2, <2>3
<1>. QED
  BY <1>1, TypeInit, TypeNext, StuckInit, StuckNext, InTimeInit, InTimeNext, PTL DEF Spec
=============================================================================

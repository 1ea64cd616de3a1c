--------------------------- MODULE WorkflowProofs ---------------------------
(***************************************************************************)
(* Theorems about the workflow of the desktop application, for any         *)
(* launches, any number of sessions, tasks and runs, any stages and        *)
(* retries, and any number of crashes.                                     *)
(***************************************************************************)
EXTENDS WorkflowSession, FiniteSetTheorems, WellFoundedInduction, TLAPS

-----------------------------------------------------------------------------
(* Numbers and sequences *)

\* A set of numbers that is not empty has a least one.
LEMMA LeastIsThere ==
  ASSUME NEW ids, ids \subseteq Nat, ids # {}
  PROVE  \E least \in ids : \A n \in ids : least <= n
  <1> DEFINE Less == OpToRel(<, Nat)
  <1>1. IsWellFoundedOn(Less, Nat)
    BY NatLessThanWellFounded
  <1>2. PICK least \in ids : \A n \in ids : <<n, least>> \notin Less
    <2> HIDE DEF Less
    <2> QED BY <1>1, WFMin
  <1>3. \A n \in ids : ~(n < least)
    BY <1>2 DEF OpToRel
  <1> HIDE DEF Less
  <1> QED BY <1>3

LEMMA FirstIsLeast ==
  ASSUME NEW ids, ids \subseteq Nat, ids # {}
  PROVE  First(ids) \in ids /\ \A n \in ids : First(ids) <= n
  BY LeastIsThere DEF First

LEMMA SomeOf ==
  ASSUME NEW n \in Nat, NEW ids, ids \subseteq 1..n
  PROVE  IsFiniteSet(ids) /\ Cardinality(ids) \in 0..n
  <1>1. IsFiniteSet(1..n) /\ Cardinality(1..n) = n
    BY FS_Interval
  <1>2. ids \in SUBSET (1..n)
    OBVIOUS
  <1>3. IsFiniteSet(ids) /\ Cardinality(ids) <= n
    BY <1>1, <1>2, FS_Subset
  <1>4. Cardinality(ids) \in Nat
    BY <1>3, FS_CardinalityType
  <1> QED BY <1>3, <1>4

\* The numbers of a set in their order.
LEMMA InOrderIsSeq ==
  ASSUME NEW n \in Nat, NEW ids, ids \subseteq 1..n
  PROVE  InOrder(ids) \in Seq(ids) /\ Len(InOrder(ids)) = Cardinality(ids)
  <1> DEFINE Below(k) == {m \in ids : m <= k}
             f == [k \in 0..n |-> Cardinality(Below(k))]
  <1>1. IsFiniteSet(ids) /\ Cardinality(ids) \in Nat
    <2>1. IsFiniteSet(ids) /\ Cardinality(ids) \in 0..n
      BY SomeOf
    <2> QED BY <2>1
  <1>0. \A m \in ids : m \in Int /\ 1 <= m /\ m <= n
    OBVIOUS
  <1>2. ASSUME NEW k \in 0..n PROVE f[k] \in Nat /\ f[k] = Cardinality(Below(k)) /\ IsFiniteSet(Below(k))
    <2>1. Below(k) \in SUBSET ids
      OBVIOUS
    <2>2. IsFiniteSet(Below(k))
      BY <1>1, <2>1, FS_Subset
    <2>3. Cardinality(Below(k)) \in Nat
      BY <2>2, FS_CardinalityType
    <2>4. f[k] = Cardinality(Below(k))
      OBVIOUS
    <2> QED BY <2>2, <2>3, <2>4
  <1>3. f[0] = 0
    <2>1. Below(0) = {}
      <3>1. \A m \in ids : ~(m <= 0)
        BY <1>0
      <3> QED BY <3>1
    <2>2. Cardinality(Below(0)) = 0
      BY <2>1, FS_EmptySet
    <2> QED BY <2>2, <1>2
  <1>4. f[n] = Cardinality(ids)
    <2>1. Below(n) = ids
      BY <1>0
    <2>2. f[n] = Cardinality(Below(n))
      BY <1>2
    <2> QED BY <2>1, <2>2
  <1>5. ASSUME NEW k \in 1..n PROVE f[k] = IF k \in ids THEN f[k - 1] + 1 ELSE f[k - 1]
    <2>0. k - 1 \in 0..n /\ k \in 0..n /\ k \in Int
      OBVIOUS
    <2>1. Below(k) = IF k \in ids THEN Below(k - 1) \cup {k} ELSE Below(k - 1)
      <3>1. \A m \in ids : m <= k <=> m <= k - 1 \/ m = k
        BY <1>0, <2>0
      <3> QED BY <3>1
    <2>2. k \notin Below(k - 1)
      BY <2>0
    <2>3. /\ IsFiniteSet(Below(k - 1)) /\ f[k] = Cardinality(Below(k))
          /\ f[k - 1] = Cardinality(Below(k - 1))
      BY <1>2, <2>0
    <2> HIDE DEF Below, f
    <2>4. Cardinality(Below(k - 1) \cup {k}) = Cardinality(Below(k - 1)) + 1
      BY <2>2, <2>3, FS_AddElement
    <2> QED BY <2>1, <2>3, <2>4
  <1> HIDE DEF f
  <1>6. ASSUME NEW i \in 1..Cardinality(ids) PROVE \E k \in ids : Cardinality(Below(k)) = i
    <2> DEFINE reached == {k \in 0..n : f[k] >= i}
    <2>1. n \in reached /\ reached \subseteq Nat /\ i \in Nat \ {0}
      BY <1>1, <1>4
    <2> HIDE DEF reached
    <2>2. PICK k \in reached : \A m \in reached : k <= m
      BY <2>1, LeastIsThere
    <2> USE DEF reached
    <2>3. k # 0 /\ k \in 0..n /\ f[k] >= i
      BY <2>2, <1>3, <2>1
    <2>4. k \in 1..n /\ k - 1 \in 0..n /\ k - 1 \notin reached
      BY <2>2, <2>3
    <2>5. f[k] \in Nat /\ f[k - 1] \in Nat
      BY <1>2, <2>4, <2>3
    <2>6. f[k - 1] < i
      BY <2>4, <2>5, <2>1
    <2>7. k \in ids /\ f[k] = i
      BY <2>3, <2>4, <2>5, <2>6, <1>5, <2>1
    <2> QED BY <2>7, <1>2, <2>3
  <1>7. ASSUME NEW i \in 1..Cardinality(ids)
        PROVE  (CHOOSE k \in ids : Cardinality(Below(k)) = i) \in ids
    <2>1. PICK k \in ids : Cardinality(Below(k)) = i
      BY <1>6
    <2> HIDE DEF Below
    <2> QED BY <2>1
  <1>8. InOrder(ids) = [i \in 1..Cardinality(ids) |-> CHOOSE k \in ids : Cardinality(Below(k)) = i]
    BY DEF InOrder
  <1> HIDE DEF Below
  <1> QED BY <1>1, <1>7, <1>8, SMTT(30)

LEMMA FunTyped ==
  ASSUME NEW T, NEW k \in Nat, NEW f \in [1..k -> T]
  PROVE  f \in Seq(T) /\ Len(f) = k
  OBVIOUS

LEMMA PartTyped ==
  ASSUME NEW T, NEW q \in Seq(T), NEW k \in Int, k <= Len(q)
  PROVE  SubSeq(q, 1, k) \in Seq(T)
  <1>1. CASE k <= 0
    <2>1. SubSeq(q, 1, k) = <<>>
      BY <1>1
    <2> QED BY <2>1
  <1>2. CASE k > 0
    <2>1. k \in 1..Len(q)
      BY <1>2
    <2> QED BY <2>1
  <1> QED BY <1>1, <1>2

LEMMA SeqMono ==
  ASSUME NEW S, NEW T, S \subseteq T
  PROVE  Seq(S) \subseteq Seq(T)
  <1> SUFFICES ASSUME NEW q \in Seq(S) PROVE q \in Seq(T)
    OBVIOUS
  <1>1. Len(q) \in Nat /\ q \in [1..Len(q) -> S]
    OBVIOUS
  <1>2. q \in [1..Len(q) -> T]
    BY <1>1
  <1> QED BY <1>1, <1>2

-----------------------------------------------------------------------------
(* Types *)

\* What is typed for n sessions, k tasks and m runs.
Typed(n, k, m) ==
  /\ session \in Seq(SessionType) /\ task \in Seq(TaskType(n, m)) /\ run \in Seq(RunType(n))
  /\ exec \in [1..MaxRuns -> {"none", "active", "stopping"}] /\ covering \subseteq 1..k
  /\ inbox \in Seq(EventType(m)) /\ turn \in TurnType(n, k, m) /\ loop \in Seq(StepType(n, k, m))
  /\ asking \subseteq AskType(n, k, m) /\ Len(run) <= MaxRuns
  /\ up \in {"down", "starting", "up"} /\ crashes \in Nat
  /\ n \in Nat /\ k \in Nat /\ m \in Nat

LEMMA TypedNow == TypeOK => Typed(Len(session), Len(task), Len(run))
  <1>1. TypeOK => Len(session) \in Nat /\ Len(task) \in Nat /\ Len(run) \in Nat
    BY DEF TypeOK
  <1> QED BY <1>1 DEF Typed, TypeOK, MemoryType

\* What was typed stays typed when there are more sessions, tasks or runs.
LEMMA TypedMore ==
  ASSUME NEW n, NEW k, NEW m, Typed(n, k, m), NEW n2 \in Nat, NEW k2 \in Nat, NEW m2 \in Nat,
         n <= n2, k <= k2, m <= m2
  PROVE  Typed(n2, k2, m2) /\ Seq(StepType(n, k, m)) \subseteq Seq(StepType(n2, k2, m2))
         /\ TurnType(n, k, m) \subseteq TurnType(n2, k2, m2)
         /\ AskType(n, k, m) \subseteq AskType(n2, k2, m2) /\ Seq(TaskType(n, m)) \subseteq Seq(TaskType(n2, m2))
         /\ Seq(RunType(n)) \subseteq Seq(RunType(n2))
  <1>0. n \in Nat /\ k \in Nat /\ m \in Nat
    BY DEF Typed
  <1>1. 1..n \subseteq 1..n2 /\ 1..k \subseteq 1..k2 /\ 1..m \subseteq 1..m2 /\ 0..m \subseteq 0..m2
    BY <1>0
  <1>2. TaskType(n, m) \subseteq TaskType(n2, m2)
    BY <1>1 DEF TaskType
  <1>3. RunType(n) \subseteq RunType(n2)
    BY <1>1 DEF RunType
  <1>4. EventType(m) \subseteq EventType(m2)
    BY <1>1 DEF EventType
  <1>5. StepType(n, k, m) \subseteq StepType(n2, k2, m2)
    BY <1>1 DEF StepType
  <1>6. AskType(n, k, m) \subseteq AskType(n2, k2, m2)
    BY <1>1 DEF AskType
  <1>7. FirstType(k, m) \subseteq FirstType(k2, m2)
    BY <1>0, <1>1 DEF FirstType
  <1>8. /\ Seq(TaskType(n, m)) \subseteq Seq(TaskType(n2, m2))
        /\ Seq(RunType(n)) \subseteq Seq(RunType(n2))
        /\ Seq(EventType(m)) \subseteq Seq(EventType(m2))
        /\ Seq(StepType(n, k, m)) \subseteq Seq(StepType(n2, k2, m2))
    BY <1>2, <1>3, <1>4, <1>5, SeqMono
  <1>9. TurnType(n, k, m) \subseteq TurnType(n2, k2, m2)
    <2>1. Seq(StepType(n, k, m) \cup FirstType(k, m)) \subseteq Seq(StepType(n2, k2, m2) \cup FirstType(k2, m2))
      BY <1>5, <1>7, SeqMono
    <2> QED BY <1>8, <2>1 DEF TurnType
  <1> QED BY <1>1, <1>6, <1>8, <1>9 DEF Typed

LEMMA TypeOKNext ==
  ASSUME NEW n \in Nat, NEW k \in Nat, NEW m \in Nat,
         session' \in Seq(SessionType), Len(session') = n,
         task' \in Seq(TaskType(n, m)), Len(task') = k,
         run' \in Seq(RunType(n)), Len(run') = m, m <= MaxRuns,
         exec' \in [1..MaxRuns -> {"none", "active", "stopping"}], covering' \subseteq 1..k,
         inbox' \in Seq(EventType(m)), turn' \in TurnType(n, k, m), loop' \in Seq(StepType(n, k, m)),
         asking' \subseteq AskType(n, k, m), up' \in {"down", "starting", "up"}, crashes' \in Nat
  PROVE  TypeOK'
  <1>1. /\ session' \in Seq(SessionType) /\ task' \in Seq(TaskType(Len(session'), Len(run')))
        /\ run' \in Seq(RunType(Len(session'))) /\ Len(run') <= MaxRuns
        /\ exec' \in [1..MaxRuns -> {"none", "active", "stopping"}] /\ covering' \subseteq 1..Len(task')
        /\ inbox' \in Seq(EventType(Len(run')))
        /\ turn' \in TurnType(Len(session'), Len(task'), Len(run'))
        /\ loop' \in Seq(StepType(Len(session'), Len(task'), Len(run')))
        /\ asking' \subseteq AskType(Len(session'), Len(task'), Len(run'))
        /\ up' \in {"down", "starting", "up"} /\ crashes' \in Nat
    OBVIOUS
  <1> QED BY <1>1 DEF TypeOK, MemoryType, TaskType, RunType, EventType, TurnType, StepType, FirstType, AskType

\* The steps of a turn, and what is put before those that remain of it.
LEMMA TurnTyped ==
  ASSUME NEW n, NEW k, NEW m, turn \in TurnType(n, k, m), turn # <<>>
  PROVE  /\ Head(turn) \in StepType(n, k, m) \cup FirstType(k, m) /\ Tail(turn) \in Seq(StepType(n, k, m))
         /\ \A steps \in Seq(StepType(n, k, m)) : steps \o Tail(turn) \in Seq(StepType(n, k, m))
         /\ \A x \in FirstType(k, m) : <<x>> \o Tail(turn) \in TurnType(n, k, m)
  <1> DEFINE T == StepType(n, k, m) F == FirstType(k, m)
  <1>1. turn \in Seq(T \cup F) /\ Tail(turn) \in Seq(T)
    BY DEF TurnType
  <1>2. \A q : q \in Seq(T \cup F) /\ (q # <<>> => Tail(q) \in Seq(T)) => q \in TurnType(n, k, m)
    BY DEF TurnType
  <1> HIDE DEF T, F
  <1>3. Head(turn) \in T \cup F
    BY <1>1
  <1>4. \A steps \in Seq(T) : steps \o Tail(turn) \in Seq(T)
    BY <1>1
  <1>5. ASSUME NEW x \in F PROVE <<x>> \o Tail(turn) \in TurnType(n, k, m)
    <2> DEFINE rest == Tail(turn) q == <<x>> \o rest
    <2>1. rest \in Seq(T) /\ Seq(T) \subseteq Seq(T \cup F)
      BY <1>1, SeqMono
    <2> HIDE DEF rest
    <2>2. <<x>> \in Seq(T \cup F) /\ rest \in Seq(T \cup F) /\ Len(<<x>>) = 1
      BY <2>1
    <2>3. /\ q \in Seq(T \cup F) /\ Len(q) = Len(rest) + 1 /\ Len(rest) \in Nat
          /\ \A i \in 1..Len(rest) : q[i + 1] = rest[i]
      BY <2>2
    <2> HIDE DEF q
    <2>4. Tail(q) \in Seq(T \cup F) /\ Len(Tail(q)) = Len(rest) /\ \A i \in 1..Len(rest) : Tail(q)[i] = q[i + 1]
      BY <2>3
    <2> DEFINE p == Tail(q)
    <2>5. p \in Seq(T \cup F) /\ Len(p) = Len(rest) /\ \A i \in 1..Len(rest) : p[i] = rest[i] /\ rest[i] \in T
      BY <2>1, <2>3, <2>4
    <2> HIDE DEF p
    <2>6. p \in Seq(T)
      <3>1. p \in [1..Len(rest) -> T]
        BY <2>5
      <3> QED BY <3>1, <2>3, FunTyped
    <2> QED BY <1>2, <2>3, <2>6 DEF p, q, rest
  <1> QED BY <1>1, <1>3, <1>4, <1>5 DEF T, F

LEMMA StepsAreTurns ==
  ASSUME NEW n, NEW k, NEW m
  PROVE  Seq(StepType(n, k, m)) \subseteq TurnType(n, k, m)
  <1> DEFINE T == StepType(n, k, m) F == FirstType(k, m)
  <1>1. Seq(T) \subseteq Seq(T \cup F)
    BY SeqMono
  <1>2. \A q \in Seq(T) : q # <<>> => Tail(q) \in Seq(T)
    <2> HIDE DEF T
    <2> QED OBVIOUS
  <1> HIDE DEF T, F
  <1> QED BY <1>1, <1>2 DEF TurnType, T, F

LEMMA StepsTyped ==
  ASSUME NEW n \in Nat, NEW k \in Nat, NEW m \in Nat
  PROVE  /\ \A do \in SessionSteps, x \in 1..n : Step(do, x) \in StepType(n, k, m)
         /\ \A do \in TaskSteps, x \in 1..k : Step(do, x) \in StepType(n, k, m)
         /\ \A do \in RunSteps, x \in 1..m : Step(do, x) \in StepType(n, k, m)
  BY DEF StepType, Step

LEMMA OneTyped ==
  ASSUME NEW T, NEW x \in T
  PROVE  <<x>> \in Seq(T) /\ <<>> \in Seq(T)
  OBVIOUS

LEMMA EachTyped ==
  ASSUME NEW T, NEW V, NEW ids \in Seq(V), NEW do, \A v \in V : Step(do, v) \in T
  PROVE  Each(do, ids) \in Seq(T) /\ Len(Each(do, ids)) = Len(ids)
  <1>1. Len(ids) \in Nat /\ \A i \in 1..Len(ids) : ids[i] \in V
    OBVIOUS
  <1>2. \A i \in 1..Len(ids) : Step(do, ids[i]) \in T
    BY <1>1
  <1> HIDE DEF Step
  <1> QED BY <1>1, <1>2 DEF Each

LEMMA HeadOf ==
  ASSUME TypeOK, turn # <<>>
  PROVE  /\ Head(turn).do \in SessionSteps => Of \in 1..Len(session)
         /\ Head(turn).do \in TaskSteps \cup {"link"} => Of \in 1..Len(task)
         /\ Head(turn).do \in RunSteps \cup {"fail"} => Of \in 1..Len(run)
         /\ Head(turn).do = "link" => Len(run) > 0
  <1>1. Head(turn) \in StepType(Len(session), Len(task), Len(run)) \cup FirstType(Len(task), Len(run))
    <2>1. turn \in TurnType(Len(session), Len(task), Len(run))
      BY DEF TypeOK, MemoryType
    <2> QED BY <2>1, TurnTyped
  <1> QED BY <1>1 DEF StepType, FirstType, SessionSteps, TaskSteps, RunSteps, Of

\* A task, its session and its run.
LEMMA TaskFields ==
  ASSUME TypeOK, NEW t \in 1..Len(task)
  PROVE  /\ t \in DOMAIN task /\ task[t] \in TaskType(Len(session), Len(run))
         /\ task[t].session \in 1..Len(session) /\ task[t].session \in DOMAIN session
         /\ session[task[t].session] \in SessionType
         /\ task[t].run \in 0..Len(run) /\ (task[t].run # 0 => task[t].run \in 1..Len(run))
  <1>1. session \in Seq(SessionType) /\ task \in Seq(TaskType(Len(session), Len(run)))
    BY DEF TypeOK
  <1>2. t \in DOMAIN task /\ task[t] \in TaskType(Len(session), Len(run))
    BY <1>1
  <1>3. task[t].session \in 1..Len(session) /\ task[t].run \in 0..Len(run)
    BY <1>2 DEF TaskType
  <1> QED BY <1>1, <1>2, <1>3

LEMMA RunFields ==
  ASSUME TypeOK, NEW r \in 1..Len(run)
  PROVE  /\ r \in DOMAIN run /\ run[r] \in RunType(Len(session)) /\ r \in 1..MaxRuns /\ r \in DOMAIN exec
         /\ run[r].session \in 1..Len(session) /\ run[r].calls \in Seq(CallType)
         /\ run[r].acked \subseteq Nat
  <1>1. run \in Seq(RunType(Len(session))) /\ Len(run) <= MaxRuns
        /\ exec \in [1..MaxRuns -> {"none", "active", "stopping"}]
    BY DEF TypeOK, MemoryType
  <1>2. MaxRuns \in Nat
    BY BoundsAssumption
  <1>3. r \in DOMAIN run /\ run[r] \in RunType(Len(session))
    BY <1>1
  <1> QED BY <1>1, <1>2, <1>3 DEF RunType

\* A session, a task or a run that is changed.
LEMMA SessionTyped ==
  ASSUME session \in Seq(SessionType), NEW s \in 1..Len(session)
  PROVE  /\ session[s] \in SessionType
         /\ \A x \in SessionType : /\ [session EXCEPT ![s] = x] \in Seq(SessionType)
                                   /\ Len([session EXCEPT ![s] = x]) = Len(session)
  OBVIOUS

SessionStates == Busy \cup {"paused", "waiting-for-review", "finished"}
Outcomes == {"none", "target-met", "partial", "no-qualifying-ideas", "failed", "cancelled", "needs-attention"}
TaskStates == Settled \cup {"ready", "running"}

LEMMA SessionChanged ==
  ASSUME session \in Seq(SessionType), NEW s \in 1..Len(session)
  PROVE  \A state \in SessionStates, outcome \in Outcomes :
           /\ [session EXCEPT ![s].state = state] \in Seq(SessionType)
           /\ Len([session EXCEPT ![s].state = state]) = Len(session)
           /\ [session EXCEPT ![s].state = state, ![s].outcome = outcome] \in Seq(SessionType)
           /\ Len([session EXCEPT ![s].state = state, ![s].outcome = outcome]) = Len(session)
  <1> SUFFICES ASSUME NEW state \in SessionStates, NEW outcome \in Outcomes
               PROVE  /\ [session EXCEPT ![s].state = state] \in Seq(SessionType)
                      /\ Len([session EXCEPT ![s].state = state]) = Len(session)
                      /\ [session EXCEPT ![s].state = state, ![s].outcome = outcome] \in Seq(SessionType)
                      /\ Len([session EXCEPT ![s].state = state, ![s].outcome = outcome]) = Len(session)
    OBVIOUS
  <1>1. session[s] \in SessionType
    OBVIOUS
  <1>2. [session[s] EXCEPT !.state = state] \in SessionType
    BY <1>1 DEF SessionType, SessionStates
  <1>3. [session[s] EXCEPT !.state = state, !.outcome = outcome] \in SessionType
    BY <1>1 DEF SessionType, SessionStates, Outcomes
  <1>4. /\ [session EXCEPT ![s].state = state] = [session EXCEPT ![s] = [session[s] EXCEPT !.state = state]]
        /\ [session EXCEPT ![s].state = state, ![s].outcome = outcome]
             = [session EXCEPT ![s] = [session[s] EXCEPT !.state = state, !.outcome = outcome]]
    OBVIOUS
  <1> HIDE DEF SessionType
  <1> QED BY <1>2, <1>3, <1>4, SessionTyped

LEMMA TaskChanged ==
  ASSUME NEW n, NEW m, task \in Seq(TaskType(n, m)), NEW t \in 1..Len(task)
  PROVE  \A state \in TaskStates : /\ [task EXCEPT ![t].state = state] \in Seq(TaskType(n, m))
                                   /\ Len([task EXCEPT ![t].state = state]) = Len(task)
  <1> SUFFICES ASSUME NEW state \in TaskStates
               PROVE  /\ [task EXCEPT ![t].state = state] \in Seq(TaskType(n, m))
                      /\ Len([task EXCEPT ![t].state = state]) = Len(task)
    OBVIOUS
  <1>1. task[t] \in TaskType(n, m)
    OBVIOUS
  <1>2. [task[t] EXCEPT !.state = state] \in TaskType(n, m)
    BY <1>1 DEF TaskType, TaskStates
  <1>3. [task EXCEPT ![t].state = state] = [task EXCEPT ![t] = [task[t] EXCEPT !.state = state]]
    OBVIOUS
  <1> HIDE DEF TaskType
  <1> QED BY <1>2, <1>3

LEMMA TasksChanged ==
  ASSUME NEW n, NEW m, NEW q \in Seq(TaskType(n, m))
  PROVE  \A state \in TaskStates : \A ts :
           To(q, ts, state) \in Seq(TaskType(n, m)) /\ Len(To(q, ts, state)) = Len(q)
  <1>1. DOMAIN q = 1..Len(q) /\ Len(q) \in Nat /\ \A t \in 1..Len(q) : q[t] \in TaskType(n, m)
    OBVIOUS
  <1>2. \A t \in 1..Len(q) : \A state \in TaskStates : [q[t] EXCEPT !.state = state] \in TaskType(n, m)
    BY <1>1, ZenonT(60) DEF TaskType, TaskStates, Settled
  <1> HIDE DEF TaskType
  <1>3. ASSUME NEW state \in TaskStates, NEW ts PROVE To(q, ts, state) \in [1..Len(q) -> TaskType(n, m)]
    BY <1>1, <1>2 DEF To
  <1> QED BY <1>1, <1>3, FunTyped

LEMMA TasksDeferred ==
  ASSUME NEW n, NEW m, NEW q \in Seq(TaskType(n, m))
  PROVE  \A s : SkipReady(q, s, TRUE) \in Seq(TaskType(n, m)) /\ Len(SkipReady(q, s, TRUE)) = Len(q)
  <1>1. DOMAIN q = 1..Len(q) /\ Len(q) \in Nat /\ \A t \in 1..Len(q) : q[t] \in TaskType(n, m)
    OBVIOUS
  <1>2. \A t \in 1..Len(q) : [q[t] EXCEPT !.state = "skipped", !.deferred = TRUE] \in TaskType(n, m)
    BY <1>1, ZenonT(60) DEF TaskType, Settled
  <1> HIDE DEF TaskType
  <1>3. ASSUME NEW s PROVE SkipReady(q, s, TRUE) \in [1..Len(q) -> TaskType(n, m)]
    BY <1>1, <1>2 DEF SkipReady
  <1> QED BY <1>1, <1>3, FunTyped

LEMMA TasksSkipped ==
  ASSUME NEW n, NEW m, NEW q \in Seq(TaskType(n, m))
  PROVE  \A s : SkipReady(q, s, FALSE) \in Seq(TaskType(n, m)) /\ Len(SkipReady(q, s, FALSE)) = Len(q)
  <1>1. DOMAIN q = 1..Len(q) /\ Len(q) \in Nat /\ \A t \in 1..Len(q) : q[t] \in TaskType(n, m)
    OBVIOUS
  <1>2. \A t \in 1..Len(q) : [q[t] EXCEPT !.state = "skipped", !.deferred = FALSE] \in TaskType(n, m)
    BY <1>1, ZenonT(60) DEF TaskType, Settled
  <1> HIDE DEF TaskType
  <1>3. ASSUME NEW s PROVE SkipReady(q, s, FALSE) \in [1..Len(q) -> TaskType(n, m)]
    BY <1>1, <1>2 DEF SkipReady
  <1> QED BY <1>1, <1>3, FunTyped

LEMMA StaleTyped ==
  ASSUME NEW n, NEW k, NEW m, asking \subseteq AskType(n, k, m), NEW s
  PROVE  Stale(s) \subseteq AskType(n, k, m)
  <1>1. \A a \in AskType(n, k, m) : \A s2 : [a EXCEPT !.fresh = a.fresh /\ a.session # s2] \in AskType(n, k, m)
    BY DEF AskType
  <1> QED BY <1>1 DEF Stale

-----------------------------------------------------------------------------
(* Every step keeps to the types *)

LEMMA DispatchTypes == TypeOK /\ Dispatch => TypeOK'
  <1> SUFFICES ASSUME TypeOK, Dispatch PROVE TypeOK'
    OBVIOUS
  <1> DEFINE n == Len(session) k == Len(task) m == Len(run) t == Of s == task[t].session
  <1>1. Typed(n, k, m)
    BY TypedNow
  <1>2. turn # <<>> /\ Head(turn).do = "dispatch" /\ t \in 1..k
    BY HeadOf DEF Dispatch, At, TaskSteps
  <1>3. s \in 1..n
    BY <1>2, TaskFields
  <1> HIDE DEF n, k, m, t, s
  <1>4. Stale(s) \subseteq AskType(n, k, m)
    BY <1>1, StaleTyped DEF Typed
  <1>5. Step("plan", s) \in StepType(n, k, m) /\ Step("create", t) \in StepType(n, k, m)
    BY <1>1, <1>2, <1>3, StepsTyped DEF SessionSteps, TaskSteps, Typed
  <1>6. /\ Tail(turn) \in Seq(StepType(n, k, m))
        /\ <<Step("plan", s)>> \o Tail(turn) \in Seq(StepType(n, k, m))
        /\ <<Step("create", t)>> \o Tail(turn) \in Seq(StepType(n, k, m))
        /\ <<>> \o Tail(turn) \in Seq(StepType(n, k, m))
    BY <1>1, <1>2, <1>5, OneTyped, TurnTyped DEF Typed
  <1>7. turn' \in TurnType(n, k, m)
    BY <1>6, StepsAreTurns DEF Dispatch, Go, t, s
  <1>8. task' \in Seq(TaskType(n, m)) /\ Len(task') = k
    <2>1. "succeeded" \in TaskStates /\ "running" \in TaskStates
      BY DEF TaskStates, Settled
    <2>2. \A state \in TaskStates :
            [task EXCEPT ![t].state = state] \in Seq(TaskType(n, m)) /\ Len([task EXCEPT ![t].state = state]) = k
      BY <1>1, <1>2, TaskChanged DEF k, Typed
    <2>3. \/ task' = task
          \/ task' = [task EXCEPT ![t].state = "succeeded"]
          \/ task' = [task EXCEPT ![t].state = "running"]
      BY DEF Dispatch, t
    <2>4. task \in Seq(TaskType(n, m)) /\ Len(task) = k
      BY <1>1 DEF Typed, k
    <2> QED BY <2>1, <2>2, <2>3, <2>4
  <1>9. session' \in Seq(SessionType) /\ Len(session') = n
    <2>1. session[s] \in SessionType
      BY <1>1, <1>3 DEF Typed, n
    <2> DEFINE state == IF session[s].contract.mode = "vibe" THEN "running" ELSE "waiting-for-review"
    <2>2. [session[s] EXCEPT !.problems = 1, !.state = state] \in SessionType
      BY <2>1 DEF SessionType, Busy
    <2>3. /\ [session EXCEPT ![s] = [session[s] EXCEPT !.problems = 1, !.state = state]] \in Seq(SessionType)
          /\ Len([session EXCEPT ![s] = [session[s] EXCEPT !.problems = 1, !.state = state]]) = n
      BY <1>1, <1>3, <2>2, SessionTyped DEF Typed, n
    <2>4. \/ session' = session
          \/ session' = [session EXCEPT ![s] = [session[s] EXCEPT !.problems = 1, !.state = state]]
      BY <1>1, <1>3 DEF Dispatch, KeepSession, Typed, n, t, s
    <2>5. session \in Seq(SessionType) /\ Len(session) = n
      BY <1>1 DEF Typed, n
    <2> QED BY <2>3, <2>4, <2>5
  <1>10. asking' \subseteq AskType(n, k, m)
    BY <1>1, <1>4 DEF Dispatch, KeepSession, Typed, t, s
  <1> QED BY <1>1, <1>7, <1>8, <1>9, <1>10, TypeOKNext DEF Dispatch, Typed, m

LEMMA CreateRunTypes == TypeOK /\ CreateRun => TypeOK'
  <1> SUFFICES ASSUME TypeOK, CreateRun PROVE TypeOK'
    OBVIOUS
  <1> DEFINE n == Len(session) k == Len(task) m == Len(run) t == Of s == task[t].session
  <1>1. Typed(n, k, m)
    BY TypedNow
  <1>2. turn # <<>> /\ t \in 1..k
    BY HeadOf DEF CreateRun, At, TaskSteps
  <1>3. s \in 1..n
    BY <1>2, TaskFields
  <1>4. PICK started \in BOOLEAN :
          LET ideas == task[t].kind = "ideas" IN
          IF started /\ ~Blocking(ideas, s, 0) /\ Len(run) < MaxRuns
          THEN run' = Append(run, NewRun(s, ideas)) /\ Go(<<Step("link", t)>>)
          ELSE Go(<<Step("failDispatch", t)>>) /\ UNCHANGED run
    BY DEF CreateRun
  <1> HIDE DEF n, k, m, t, s
  <1>5. <<Step("failDispatch", t)>> \o Tail(turn) \in TurnType(n, k, m)
    <2>1. Step("failDispatch", t) \in StepType(n, k, m)
      BY <1>1, <1>2, StepsTyped DEF TaskSteps, Typed
    <2>2. <<Step("failDispatch", t)>> \in Seq(StepType(n, k, m))
      BY <2>1, OneTyped
    <2> QED BY <1>1, <1>2, <2>2, TurnTyped, StepsAreTurns DEF Typed
  <1>6. CASE UNCHANGED run /\ Go(<<Step("failDispatch", t)>>)
    BY <1>1, <1>5, <1>6, TypeOKNext DEF CreateRun, Typed, Go, n, k, m
  <1>7. CASE run' = Append(run, NewRun(s, task[t].kind = "ideas")) /\ Go(<<Step("link", t)>>) /\ Len(run) < MaxRuns
    <2>1. NewRun(s, task[t].kind = "ideas") \in RunType(n)
      <3>1. \A ideas \in BOOLEAN : NewRun(s, ideas) \in RunType(n)
        BY <1>3 DEF NewRun, RunType, RunStates
      <3> QED BY <3>1
    <2>2. run' \in Seq(RunType(n)) /\ Len(run') = m + 1
      BY <1>1, <1>7, <2>1 DEF Typed, m
    <2>3. /\ n \in Nat /\ k \in Nat /\ m \in Nat /\ m + 1 \in Nat
          /\ n <= n /\ k <= k /\ m <= m + 1 /\ m + 1 <= MaxRuns
      BY <1>1, <1>7, BoundsAssumption, SMTT(30) DEF Typed, m
    <2>4. Typed(n, k, m + 1) /\ Seq(StepType(n, k, m)) \subseteq Seq(StepType(n, k, m + 1))
      BY <1>1, <2>3, TypedMore
    <2>5. turn' \in TurnType(n, k, m + 1)
      <3>1. Step("link", t) \in FirstType(k, m + 1)
        BY <1>1, <1>2, <2>3 DEF FirstType, Step, Typed
      <3> QED BY <1>2, <1>7, <2>4, <3>1, TurnTyped DEF Typed, Go
    <2> QED BY <2>2, <2>3, <2>4, <2>5, TypeOKNext DEF CreateRun, Typed, n, k
  <1> QED BY <1>4, <1>6, <1>7

\* One step, or none, put before what remains of the turn, or in its place.
LEMMA GoTyped ==
  ASSUME NEW n, NEW k, NEW m, Typed(n, k, m), turn # <<>>
  PROVE  /\ <<>> \o Tail(turn) \in TurnType(n, k, m) /\ Tail(turn) \in TurnType(n, k, m)
         /\ \A x \in StepType(n, k, m) : <<x>> \o Tail(turn) \in TurnType(n, k, m)
  <1>1. <<>> \in Seq(StepType(n, k, m)) /\ \A x \in StepType(n, k, m) : <<x>> \in Seq(StepType(n, k, m))
    BY OneTyped
  <1> QED BY <1>1, TurnTyped, StepsAreTurns DEF Typed

LEMMA NowTyped ==
  ASSUME NEW n, NEW k, NEW m
  PROVE  /\ <<>> \in TurnType(n, k, m) /\ <<>> \in Seq(StepType(n, k, m))
         /\ \A x \in StepType(n, k, m) : <<x>> \in TurnType(n, k, m)
  <1>1. <<>> \in Seq(StepType(n, k, m)) /\ \A x \in StepType(n, k, m) : <<x>> \in Seq(StepType(n, k, m))
    BY OneTyped
  <1> QED BY <1>1, StepsAreTurns

LEMMA LinkRunTypes == TypeOK /\ LinkRun => TypeOK'
  <1> SUFFICES ASSUME TypeOK, LinkRun PROVE TypeOK'
    OBVIOUS
  <1> DEFINE n == Len(session) k == Len(task) m == Len(run) t == Of s == task[t].session
             begins == session[s].state # "finished" /\ task[t].state = "running" /\ ~Stopping(s)
  <1>1. Typed(n, k, m)
    BY TypedNow
  <1>2. turn # <<>> /\ t \in 1..k /\ m > 0
    BY HeadOf DEF LinkRun, At
  <1>3. task' = task \/ task' = [task EXCEPT ![t].run = m]
    BY DEF LinkRun
  <1>4. /\ exec' = exec \/ exec' = [exec EXCEPT ![m] = "active"]
        /\ run' = run \/ run' = [run EXCEPT ![m].status = "cancelled"]
        /\ inbox' = inbox \/ inbox' = Append(inbox, [run |-> m, type |-> "cancelled"])
    BY DEF LinkRun, AdmitRun
  <1> HIDE DEF n, k, m, t, s, begins
  <1>5. turn' \in TurnType(n, k, m)
    BY <1>1, <1>2, GoTyped DEF LinkRun, Go
  <1>6. task' \in Seq(TaskType(n, m)) /\ Len(task') = k
    <2>1. task \in Seq(TaskType(n, m)) /\ Len(task) = k /\ k \in Nat /\ m \in Nat
      BY <1>1 DEF Typed, k
    <2>2. [task[t] EXCEPT !.run = m] \in TaskType(n, m)
      <3>1. task[t] \in TaskType(n, m)
        BY <1>2, <2>1
      <3>2. m \in 0..m
        BY <2>1
      <3>3. \A x \in TaskType(n, m), r \in 0..m : [x EXCEPT !.run = r] \in TaskType(n, m)
        BY DEF TaskType
      <3> QED BY <3>1, <3>2, <3>3
    <2>3. [task EXCEPT ![t].run = m] = [task EXCEPT ![t] = [task[t] EXCEPT !.run = m]]
      BY <2>1
    <2> QED BY <1>2, <1>3, <2>1, <2>2, <2>3
  <1>7. run' \in Seq(RunType(n)) /\ Len(run') = m
    <2>1. run \in Seq(RunType(n)) /\ Len(run) = m /\ m \in Nat
      BY <1>1 DEF Typed, m
    <2>2. [run[m] EXCEPT !.status = "cancelled"] \in RunType(n)
      <3>1. run[m] \in RunType(n)
        BY <1>2, <2>1
      <3> QED BY <3>1 DEF RunType, RunStates
    <2>3. [run EXCEPT ![m].status = "cancelled"] = [run EXCEPT ![m] = [run[m] EXCEPT !.status = "cancelled"]]
      BY <2>1
    <2> QED BY <1>2, <1>4, <2>1, <2>2, <2>3
  <1>8. exec' \in [1..MaxRuns -> {"none", "active", "stopping"}]
    BY <1>1, <1>4 DEF Typed
  <1>9. inbox' \in Seq(EventType(m))
    <2>1. [run |-> m, type |-> "cancelled"] \in EventType(m)
      BY <1>1, <1>2 DEF EventType, Typed
    <2>2. inbox \in Seq(EventType(m))
      BY <1>1 DEF Typed
    <2>3. Append(inbox, [run |-> m, type |-> "cancelled"]) \in Seq(EventType(m))
      BY <2>1, <2>2
    <2> QED BY <1>4, <2>2, <2>3
  <1> QED BY <1>1, <1>5, <1>6, <1>7, <1>8, <1>9, TypeOKNext DEF LinkRun, Typed, m, n

LEMMA FailDispatchTypes == TypeOK /\ FailDispatch => TypeOK'
  <1> SUFFICES ASSUME TypeOK, FailDispatch PROVE TypeOK'
    OBVIOUS
  <1> DEFINE n == Len(session) k == Len(task) m == Len(run) t == Of s == task[t].session
             unknown == task[t].run # 0 /\ UnknownCompletion(task[t].run)
             failed == IF task[t].state \in {"ready", "running"}
                       THEN [task EXCEPT ![t].state = IF unknown THEN "unknown" ELSE "failed"] ELSE task
             after == SkipReady(failed, s, TRUE)
             outcome == IF unknown THEN "needs-attention" ELSE "failed"
  <1>1. Typed(n, k, m)
    BY TypedNow
  <1>2. turn # <<>> /\ t \in 1..k
    BY HeadOf DEF FailDispatch, At, TaskSteps
  <1>3. s \in 1..n
    BY <1>2, TaskFields
  <1>4. /\ session' = session \/ session' = [session EXCEPT ![s].state = "finished", ![s].outcome = outcome]
        /\ asking' = asking \/ asking' = Stale(s)
        /\ task' = task \/ task' = after
    BY DEF FailDispatch, KeepSession, Outcome
  <1>5. outcome \in Outcomes /\ "finished" \in SessionStates
    BY DEF Outcomes, SessionStates
  <1>6. failed \in Seq(TaskType(n, m)) /\ Len(failed) = k
    <2>1. (IF unknown THEN "unknown" ELSE "failed") \in TaskStates
      BY DEF TaskStates, Settled
    <2> HIDE DEF unknown
    <2> QED BY <1>1, <1>2, <2>1, TaskChanged DEF Typed
  <1> HIDE DEF n, k, m, t, s, failed, outcome, unknown
  <1>7. after \in Seq(TaskType(n, m)) /\ Len(after) = k
    <2>1. SkipReady(failed, s, TRUE) \in Seq(TaskType(n, m)) /\ Len(SkipReady(failed, s, TRUE)) = Len(failed)
      BY <1>6, TasksDeferred
    <2> QED BY <1>6, <2>1 DEF after
  <1>8. session' \in Seq(SessionType) /\ Len(session') = n
    <2>1. session \in Seq(SessionType) /\ s \in 1..Len(session)
      BY <1>1, <1>3 DEF Typed, n
    <2> QED BY <1>4, <1>5, <2>1, SessionChanged DEF n
  <1>9. asking' \subseteq AskType(n, k, m)
    BY <1>1, <1>4, StaleTyped DEF Typed
  <1>10. turn' \in TurnType(n, k, m)
    BY <1>1, <1>2, GoTyped DEF FailDispatch, Go
  <1> HIDE DEF after
  <1> QED BY <1>1, <1>4, <1>7, <1>8, <1>9, <1>10, TypeOKNext DEF FailDispatch, Typed, k, m

\* The task a run belongs to.
LEMMA OwnerOf ==
  ASSUME TypeOK, NEW r, Owner(r) # {}
  PROVE  First(Owner(r)) \in Owner(r) /\ First(Owner(r)) \in 1..Len(task) /\ task[First(Owner(r))].run = r
  <1>1. DOMAIN task = 1..Len(task) /\ Len(task) \in Nat
    BY DEF TypeOK
  <1>2. Owner(r) \subseteq 1..Len(task) /\ Owner(r) \subseteq Nat
    BY <1>1 DEF Owner
  <1>3. First(Owner(r)) \in Owner(r)
    BY <1>2, FirstIsLeast
  <1> QED BY <1>2, <1>3 DEF Owner

LEMMA LoopStepTypes == TypeOK /\ LoopStep => TypeOK'
  <1> SUFFICES ASSUME TypeOK, LoopStep PROVE TypeOK'
    OBVIOUS
  <1> DEFINE n == Len(session) k == Len(task) m == Len(run)
  <1>1. Typed(n, k, m)
    BY TypedNow
  <1> HIDE DEF n, k, m
  <1> DEFINE T == StepType(n, k, m)
  <1>2. loop \in Seq(T) /\ loop # <<>>
    BY <1>1 DEF Typed, LoopStep
  <1> HIDE DEF T
  <1>3. Head(loop) \in T /\ Tail(loop) \in Seq(T)
    BY <1>2
  <1>4. turn' \in TurnType(n, k, m)
    BY <1>3, NowTyped DEF T, LoopStep, Now
  <1> QED BY <1>1, <1>3, <1>4, TypeOKNext DEF LoopStep, saved, Typed, T, n, k, m

LEMMA TakeEventTypes == TypeOK /\ TakeEvent => TypeOK'
  <1> SUFFICES ASSUME TypeOK, TakeEvent PROVE TypeOK'
    OBVIOUS
  <1> DEFINE n == Len(session) k == Len(task) m == Len(run)
  <1>1. Typed(n, k, m)
    BY TypedNow
  <1> HIDE DEF n, k, m
  <1>2. inbox \in Seq(EventType(m)) /\ inbox # <<>>
    BY <1>1 DEF Typed, TakeEvent
  <1>3. Head(inbox) \in EventType(m) /\ Tail(inbox) \in Seq(EventType(m))
    BY <1>2
  <1>4. Head(inbox).type \in RunSteps /\ Head(inbox).run \in 1..m
    BY <1>3 DEF EventType, RunSteps
  <1>5. Step(Head(inbox).type, Head(inbox).run) \in StepType(n, k, m)
    BY <1>1, <1>4, StepsTyped DEF Typed
  <1>6. turn' \in TurnType(n, k, m)
    BY <1>5, NowTyped DEF TakeEvent, Now
  <1> QED BY <1>1, <1>3, <1>6, TypeOKNext DEF TakeEvent, saved, Typed, n, k, m

LEMMA MissingResultTypes == TypeOK /\ MissingResult => TypeOK'
  <1> SUFFICES ASSUME TypeOK, MissingResult PROVE TypeOK'
    OBVIOUS
  <1> DEFINE n == Len(session) k == Len(task) m == Len(run) t == First(Owner(Of))
  <1>1. Typed(n, k, m)
    BY TypedNow
  <1>2. turn # <<>> /\ t \in 1..k
    BY OwnerOf DEF MissingResult, Handling, At, Heard
  <1> HIDE DEF n, k, m, t
  <1>3. Step("failDispatch", t) \in StepType(n, k, m)
    BY <1>1, <1>2, StepsTyped DEF TaskSteps, Typed
  <1>4. turn' \in TurnType(n, k, m)
    BY <1>1, <1>2, <1>3, GoTyped DEF MissingResult, Go, t
  <1> QED BY <1>1, <1>4, TypeOKNext DEF MissingResult, saved, Typed, n, k, m

\* A run that is changed, and what is said of it.
LEMMA RunTyped ==
  ASSUME NEW n, run \in Seq(RunType(n)), NEW r \in 1..Len(run)
  PROVE  /\ run[r] \in RunType(n)
         /\ \A x \in RunType(n) : /\ [run EXCEPT ![r] = x] \in Seq(RunType(n))
                                  /\ Len([run EXCEPT ![r] = x]) = Len(run)
  OBVIOUS

LEMMA StatusChanged ==
  ASSUME NEW n, run \in Seq(RunType(n)), NEW r \in 1..Len(run)
  PROVE  \A status \in RunStates : /\ [run EXCEPT ![r].status = status] \in Seq(RunType(n))
                                   /\ Len([run EXCEPT ![r].status = status]) = Len(run)
  <1> SUFFICES ASSUME NEW status \in RunStates
               PROVE  /\ [run EXCEPT ![r].status = status] \in Seq(RunType(n))
                      /\ Len([run EXCEPT ![r].status = status]) = Len(run)
    OBVIOUS
  <1>1. run[r] \in RunType(n)
    OBVIOUS
  <1>2. [run[r] EXCEPT !.status = status] \in RunType(n)
    BY <1>1 DEF RunType
  <1>3. [run EXCEPT ![r].status = status] = [run EXCEPT ![r] = [run[r] EXCEPT !.status = status]]
    OBVIOUS
  <1> HIDE DEF RunType
  <1> QED BY <1>2, <1>3, RunTyped

LEMMA EventTyped ==
  ASSUME NEW m, NEW r \in 1..m, inbox \in Seq(EventType(m))
  PROVE  \A type \in {"completed", "failed", "cancelled"} :
           Append(inbox, [run |-> r, type |-> type]) \in Seq(EventType(m))
  <1> SUFFICES ASSUME NEW type \in {"completed", "failed", "cancelled"}
               PROVE  Append(inbox, [run |-> r, type |-> type]) \in Seq(EventType(m))
    OBVIOUS
  <1>1. [run |-> r, type |-> type] \in EventType(m)
    BY DEF EventType
  <1> HIDE DEF EventType
  <1> QED BY <1>1

LEMMA FailRunTypes == TypeOK /\ FailRun => TypeOK'
  <1> SUFFICES ASSUME TypeOK, FailRun PROVE TypeOK'
    OBVIOUS
  <1> DEFINE n == Len(session) k == Len(task) m == Len(run) r == Of
  <1>1. Typed(n, k, m)
    BY TypedNow
  <1>2. turn # <<>> /\ r \in 1..m
    BY HeadOf DEF FailRun, At
  <1>3. "failed" \in RunStates
    BY DEF RunStates
  <1> HIDE DEF n, k, r
  <1>4. run' \in Seq(RunType(n)) /\ Len(run') = m
    BY <1>1, <1>2, <1>3, StatusChanged DEF FailRun, Report, Typed, r
  <1>5. inbox' \in Seq(EventType(m))
    BY <1>1, <1>2, EventTyped DEF FailRun, Report, Typed, r
  <1> HIDE DEF m
  <1>6. turn' \in TurnType(n, k, m)
    BY <1>1, <1>2, GoTyped DEF FailRun, Go
  <1>7. exec' \in [1..MaxRuns -> {"none", "active", "stopping"}]
    BY <1>1 DEF FailRun, Report, Typed
  <1> QED BY <1>1, <1>4, <1>5, <1>6, <1>7, TypeOKNext DEF FailRun, Typed, n, k, m

LEMMA CancelRunTypes == TypeOK /\ CancelRun => TypeOK'
  <1> SUFFICES ASSUME TypeOK, CancelRun PROVE TypeOK'
    OBVIOUS
  <1> DEFINE n == Len(session) k == Len(task) m == Len(run) r == Of
  <1>1. Typed(n, k, m)
    BY TypedNow
  <1>2. turn # <<>> /\ r \in 1..m
    BY HeadOf DEF CancelRun, RunSteps
  <1>3. "cancelled" \in RunStates
    BY DEF RunStates
  <1> HIDE DEF n, k, r
  <1>4. run' \in Seq(RunType(n)) /\ Len(run') = m
    <2>1. run' = run \/ run' = [run EXCEPT ![r].status = "cancelled"]
      BY DEF CancelRun, r
    <2>2. run \in Seq(RunType(n)) /\ r \in 1..Len(run)
      BY <1>1, <1>2 DEF Typed
    <2>3. [run EXCEPT ![r].status = "cancelled"] \in Seq(RunType(n)) /\ Len([run EXCEPT ![r].status = "cancelled"]) = m
      BY <1>3, <2>2, StatusChanged
    <2> QED BY <2>1, <2>2, <2>3
  <1>5. inbox' \in Seq(EventType(m))
    <2>1. inbox' = inbox \/ inbox' = Append(inbox, [run |-> r, type |-> "cancelled"])
      BY DEF CancelRun, r
    <2> QED BY <1>1, <1>2, <2>1, EventTyped DEF Typed
  <1> HIDE DEF m
  <1>6. turn' \in TurnType(n, k, m)
    <2>1. turn' = <<>> \/ turn' = Tail(turn) \/ turn' = <<>> \o Tail(turn)
      BY DEF CancelRun, Go
    <2> QED BY <1>1, <1>2, <2>1, GoTyped, NowTyped
  <1>7. exec' \in [1..MaxRuns -> {"none", "active", "stopping"}]
    <2>1. exec' = exec \/ exec' = [exec EXCEPT ![r] = "stopping"]
      BY DEF CancelRun, r
    <2> QED BY <1>1, <2>1 DEF Typed
  <1> QED BY <1>1, <1>4, <1>5, <1>6, <1>7, TypeOKNext DEF CancelRun, Typed, n, k, m

LEMMA ResumeRunTypes == TypeOK /\ ResumeRun => TypeOK'
  <1> SUFFICES ASSUME TypeOK, ResumeRun PROVE TypeOK'
    OBVIOUS
  <1> DEFINE n == Len(session) k == Len(task) m == Len(run) r == Of owners == Owner(r)
             steps == [i \in 1..Cardinality(owners) |-> Step("failDispatch", First(owners))]
             again == [run EXCEPT ![r].status = "running", ![r].interrupted = FALSE]
             over == [run EXCEPT ![r].status = "failed", ![r].interrupted = TRUE]
  <1>1. Typed(n, k, m)
    BY TypedNow
  <1>2. turn # <<>> /\ r \in 1..m
    BY HeadOf DEF ResumeRun, RunSteps
  <1>3. /\ run' = run \/ run' = again \/ run' = over
        /\ exec' = exec \/ exec' = [exec EXCEPT ![r] = "active"]
        /\ turn' = <<>> \o Tail(turn) \/ turn' = steps \o Tail(turn)
    BY DEF ResumeRun, Go
  <1>4. steps \in Seq(StepType(n, k, m))
    <2>1. owners \subseteq 1..k
      BY <1>1 DEF Owner, Typed
    <2>2. Cardinality(owners) \in Nat
      <3>1. k \in Nat
        BY <1>1 DEF Typed
      <3> HIDE DEF owners, k
      <3>2. Cardinality(owners) \in 0..k
        BY <2>1, <3>1, SomeOf
      <3> QED BY <3>1, <3>2
    <2>3. owners # {} => First(owners) \in 1..k
      BY OwnerOf
    <2>4. owners # {} => Step("failDispatch", First(owners)) \in StepType(n, k, m)
      BY <1>1, <2>3, StepsTyped DEF TaskSteps, Typed
    <2>5. owners = {} => Cardinality(owners) = 0
      BY FS_EmptySet
    <2> HIDE DEF owners, n, k, m
    <2> QED BY <2>2, <2>4, <2>5
  <1>5. again \in Seq(RunType(n)) /\ Len(again) = m /\ over \in Seq(RunType(n)) /\ Len(over) = m
    <2>1. run \in Seq(RunType(n)) /\ r \in 1..Len(run)
      BY <1>1, <1>2 DEF Typed
    <2> HIDE DEF n, r
    <2>2. run[r] \in RunType(n)
      BY <2>1
    <2>3. /\ [run[r] EXCEPT !.status = "running", !.interrupted = FALSE] \in RunType(n)
          /\ [run[r] EXCEPT !.status = "failed", !.interrupted = TRUE] \in RunType(n)
      BY <2>2 DEF RunType, RunStates
    <2>4. /\ again = [run EXCEPT ![r] = [run[r] EXCEPT !.status = "running", !.interrupted = FALSE]]
          /\ over = [run EXCEPT ![r] = [run[r] EXCEPT !.status = "failed", !.interrupted = TRUE]]
      BY <2>1
    <2> DEFINE x == [run[r] EXCEPT !.status = "running", !.interrupted = FALSE]
               y == [run[r] EXCEPT !.status = "failed", !.interrupted = TRUE]
    <2> HIDE DEF x, y
    <2>5. /\ [run EXCEPT ![r] = x] \in Seq(RunType(n)) /\ Len([run EXCEPT ![r] = x]) = Len(run)
          /\ [run EXCEPT ![r] = y] \in Seq(RunType(n)) /\ Len([run EXCEPT ![r] = y]) = Len(run)
      BY <2>1, <2>3, RunTyped DEF x, y
    <2> QED BY <2>4, <2>5 DEF x, y
  <1> HIDE DEF n, k, r, steps, again, over, m, owners
  <1>6. turn' \in TurnType(n, k, m)
    <2>1. steps \o Tail(turn) \in TurnType(n, k, m)
      BY <1>1, <1>2, <1>4, TurnTyped, StepsAreTurns DEF Typed
    <2> QED BY <1>1, <1>2, <1>3, <2>1, GoTyped
  <1>7. exec' \in [1..MaxRuns -> {"none", "active", "stopping"}]
    BY <1>1, <1>3 DEF Typed
  <1>8. run' \in Seq(RunType(n)) /\ Len(run') = m
    BY <1>1, <1>3, <1>5 DEF Typed, m
  <1> QED BY <1>1, <1>6, <1>7, <1>8, TypeOKNext DEF ResumeRun, Typed, n, k, m

LEMMA CloseEngineTypes == TypeOK /\ CloseEngine => TypeOK'
  <1> SUFFICES ASSUME TypeOK, CloseEngine PROVE TypeOK'
    OBVIOUS
  <1> DEFINE n == Len(session) k == Len(task) m == Len(run)
             ids == {r \in DOMAIN run : exec[r] = "active"}
  <1>1. Typed(n, k, m)
    BY TypedNow
  <1>2. ids \subseteq 1..m /\ m \in Nat
    BY <1>1 DEF Typed
  <1>3. turn' = Each("cancelNext", InOrder(ids))
    BY DEF CloseEngine, Now
  <1> HIDE DEF n, k, m, ids
  <1>4. InOrder(ids) \in Seq(ids)
    BY <1>2, InOrderIsSeq
  <1>5. \A r \in ids : Step("cancelNext", r) \in StepType(n, k, m)
    BY <1>1, <1>2, StepsTyped DEF RunSteps, Typed
  <1>6. turn' \in TurnType(n, k, m)
    BY <1>3, <1>4, <1>5, EachTyped, StepsAreTurns
  <1> QED BY <1>1, <1>6, TypeOKNext DEF CloseEngine, saved, Typed, n, k, m

-----------------------------------------------------------------------------
(* Requests *)

CallStates == {"prepared", "sent", "done", "failed", "limit", "rejected", "lost", "never"}

\* The state of a request is changed, and with it what the owner was told.
LEMMA CallChanged ==
  ASSUME NEW n, run \in Seq(RunType(n)), NEW r \in 1..Len(run), NEW i \in DOMAIN run[r].calls
  PROVE  \A state \in CallStates :
           /\ [run EXCEPT ![r].calls[i].state = state] \in Seq(RunType(n))
           /\ Len([run EXCEPT ![r].calls[i].state = state]) = Len(run)
           /\ [run EXCEPT ![r].calls[i].state = state, ![r].acked = @ \cup {i}] \in Seq(RunType(n))
           /\ Len([run EXCEPT ![r].calls[i].state = state, ![r].acked = @ \cup {i}]) = Len(run)
  <1> SUFFICES ASSUME NEW state \in CallStates
      PROVE /\ [run EXCEPT ![r].calls[i].state = state] \in Seq(RunType(n))
            /\ Len([run EXCEPT ![r].calls[i].state = state]) = Len(run)
            /\ [run EXCEPT ![r].calls[i].state = state, ![r].acked = @ \cup {i}] \in Seq(RunType(n))
            /\ Len([run EXCEPT ![r].calls[i].state = state, ![r].acked = @ \cup {i}]) = Len(run)
    OBVIOUS
  <1>1. run[r] \in RunType(n)
    OBVIOUS
  <1>2. run[r].calls \in Seq(CallType) /\ run[r].acked \subseteq Nat
    BY <1>1 DEF RunType
  <1>3. i \in 1..Len(run[r].calls) /\ i \in Nat /\ run[r].calls[i] \in CallType
    BY <1>2
  <1>4. [run[r].calls[i] EXCEPT !.state = state] \in CallType
    BY <1>3 DEF CallType, CallStates
  <1> DEFINE calls == [run[r].calls EXCEPT ![i] = [run[r].calls[i] EXCEPT !.state = state]]
  <1>5. calls \in Seq(CallType)
    BY <1>2, <1>3, <1>4
  <1>6. /\ [run EXCEPT ![r].calls[i].state = state] = [run EXCEPT ![r] = [run[r] EXCEPT !.calls = calls]]
        /\ [run EXCEPT ![r].calls[i].state = state, ![r].acked = @ \cup {i}]
             = [run EXCEPT ![r] = [run[r] EXCEPT !.calls = calls, !.acked = run[r].acked \cup {i}]]
    BY <1>1, <1>2, <1>3 DEF RunType
  <1>7. run[r].acked \cup {i} \subseteq Nat
    BY <1>2, <1>3
  <1> HIDE DEF calls
  <1>8. /\ [run[r] EXCEPT !.calls = calls] \in RunType(n)
        /\ [run[r] EXCEPT !.calls = calls, !.acked = run[r].acked \cup {i}] \in RunType(n)
    BY <1>1, <1>5, <1>7 DEF RunType
  <1> HIDE DEF RunType
  <1> DEFINE x == [run[r] EXCEPT !.calls = calls] y == [run[r] EXCEPT !.calls = calls, !.acked = run[r].acked \cup {i}]
  <1> HIDE DEF x, y
  <1>9. /\ [run EXCEPT ![r] = x] \in Seq(RunType(n)) /\ Len([run EXCEPT ![r] = x]) = Len(run)
        /\ [run EXCEPT ![r] = y] \in Seq(RunType(n)) /\ Len([run EXCEPT ![r] = y]) = Len(run)
    BY <1>8, RunTyped DEF x, y
  <1> QED BY <1>6, <1>9 DEF x, y

LEMMA OnlyRunTypes ==
  ASSUME TypeOK, run' \in Seq(RunType(Len(session))), Len(run') = Len(run),
         UNCHANGED <<session, task, memory, up, crashes>>
  PROVE  TypeOK'
  BY TypedNow, TypeOKNext DEF Typed, memory

\* The next stage to ask is one there is, unless all are done.
LEMMA NextStageIsNat ==
  ASSUME NEW r
  PROVE  NextStage(r) \in 1..Stages + 1
  <1> DEFINE doneStages == {k \in 1..Stages : StageDone(r, k)}
  <1>1. Stages \in Nat
    BY BoundsAssumption
  <1>2. doneStages \subseteq 1..Stages
    OBVIOUS
  <1> HIDE DEF doneStages
  <1>3. Cardinality(doneStages) \in 0..Stages
    BY <1>1, <1>2, SomeOf
  <1> QED BY <1>1, <1>3 DEF NextStage, doneStages

LEMMA PrepareTypes == ASSUME TypeOK, NEW r \in DOMAIN run, Prepare(r) PROVE TypeOK'
  <1> DEFINE n == Len(session) stage == NextStage(r) call == [stage |-> stage, state |-> "prepared"]
             calls == Append(run[r].calls, call)
  <1>1. run \in Seq(RunType(n)) /\ r \in 1..Len(run)
    BY DEF TypeOK
  <1>2. run' = [run EXCEPT ![r] = [run[r] EXCEPT !.calls = calls]]
    BY <1>1 DEF Prepare
  <1>3. stage \in 1..Stages
    BY NextStageIsNat, BoundsAssumption DEF Prepare
  <1>4. run[r] \in RunType(n)
    BY <1>1
  <1> HIDE DEF stage, n
  <1>5. run[r].calls \in Seq(CallType) /\ call \in CallType
    BY <1>3, <1>4 DEF RunType, CallType
  <1> HIDE DEF call
  <1>6. calls \in Seq(CallType)
    BY <1>5
  <1> HIDE DEF calls
  <1> DEFINE x == [run[r] EXCEPT !.calls = calls]
  <1>7. x \in RunType(n)
    BY <1>4, <1>6 DEF RunType
  <1> HIDE DEF x
  <1>8. run' \in Seq(RunType(n)) /\ Len(run') = Len(run)
    <2>1. [run EXCEPT ![r] = x] \in Seq(RunType(n)) /\ Len([run EXCEPT ![r] = x]) = Len(run)
      BY <1>1, <1>7, RunTyped
    <2> QED BY <1>2, <2>1 DEF x
  <1> QED BY <1>8, OnlyRunTypes DEF Prepare, n

LEMMA SendTypes == ASSUME TypeOK, NEW r \in DOMAIN run, Send(r) PROVE TypeOK'
  <1> DEFINE n == Len(session)
  <1>1. run \in Seq(RunType(n)) /\ r \in 1..Len(run)
    BY DEF TypeOK
  <1> HIDE DEF n
  <1>2. PICK i \in DOMAIN run[r].calls : run' = [run EXCEPT ![r].calls[i].state = "sent"]
    BY DEF Send, Ask, InFlight
  <1>3. "sent" \in CallStates
    BY DEF CallStates
  <1>4. run' \in Seq(RunType(n)) /\ Len(run') = Len(run)
    BY <1>1, <1>2, <1>3, CallChanged
  <1> QED BY <1>4, OnlyRunTypes DEF Send, n

LEMMA StoppedCallTypes == ASSUME TypeOK, NEW r \in DOMAIN run, StoppedCall(r) PROVE TypeOK'
  <1> DEFINE n == Len(session)
  <1>1. run \in Seq(RunType(n)) /\ r \in 1..Len(run)
    BY DEF TypeOK
  <1> HIDE DEF n
  <1>2. PICK i \in DOMAIN run[r].calls, ended \in {"done", "rejected", "lost", "never"} :
           run' = [run EXCEPT ![r].calls[i].state = ended]
    BY DEF StoppedCall, Ask, InFlight
  <1>3. ended \in CallStates
    BY DEF CallStates
  <1>4. run' \in Seq(RunType(n)) /\ Len(run') = Len(run)
    BY <1>1, <1>2, <1>3, CallChanged
  <1> QED BY <1>4, OnlyRunTypes DEF StoppedCall, n

LEMMA CallEndsTypes == ASSUME TypeOK, NEW r \in DOMAIN run, CallEnds(r) PROVE TypeOK'
  <1> DEFINE n == Len(session) k == Len(task) m == Len(run)
  <1>0. Typed(n, k, m)
    BY TypedNow
  <1>1. run \in Seq(RunType(n)) /\ r \in 1..Len(run) /\ m \in Nat
    BY <1>0 DEF Typed
  <1> HIDE DEF n, k
  <1>2. PICK i \in DOMAIN run[r].calls, ended \in {"done", "failed", "limit", "rejected", "lost", "never"} :
           /\ \/ run' = [run EXCEPT ![r].calls[i].state = ended]
              \/ run' = [run EXCEPT ![r].calls[i].state = ended, ![r].acked = IF ended = "lost" THEN @ \cup {i} ELSE @]
           /\ turn' = turn \/ turn' = <<Step("fail", r)>>
    BY SMTT(30), ZenonT(60) DEF CallEnds, Ask, InFlight, Now
  <1>3. ended \in CallStates
    BY DEF CallStates
  <1>4. run' \in Seq(RunType(n)) /\ Len(run') = Len(run)
    <2>1. ended = "lost" \/ ended # "lost"
      OBVIOUS
    <2>2. \/ run' = [run EXCEPT ![r].calls[i].state = ended]
          \/ run' = [run EXCEPT ![r].calls[i].state = ended, ![r].acked = @ \cup {i}]
          \/ run' = [run EXCEPT ![r].calls[i].state = ended, ![r].acked = @]
      BY <1>2
    <2>3. [run EXCEPT ![r].calls[i].state = ended, ![r].acked = @] = [run EXCEPT ![r].calls[i].state = ended]
      <3>1. run[r] \in RunType(n)
        BY <1>1
      <3> QED BY <1>1, <3>1 DEF RunType
    <2>4. /\ [run EXCEPT ![r].calls[i].state = ended] \in Seq(RunType(n))
          /\ Len([run EXCEPT ![r].calls[i].state = ended]) = Len(run)
      BY <1>1, <1>3, CallChanged
    <2>5. /\ [run EXCEPT ![r].calls[i].state = ended, ![r].acked = @ \cup {i}] \in Seq(RunType(n))
          /\ Len([run EXCEPT ![r].calls[i].state = ended, ![r].acked = @ \cup {i}]) = Len(run)
      BY <1>1, <1>3, CallChanged
    <2> QED BY <2>2, <2>3, <2>4, <2>5
  <1>5. <<Step("fail", r)>> \in TurnType(n, k, m)
    <2> DEFINE x == Step("fail", r) T == StepType(n, k, m) F == FirstType(k, m)
    <2>1. x \in F
      BY <1>0, <1>1 DEF FirstType, Step
    <2> HIDE DEF x, T, F
    <2>2. <<x>> \in Seq(T \cup F) /\ Tail(<<x>>) = <<>> /\ <<>> \in Seq(T)
      BY <2>1
    <2> QED BY <2>2 DEF TurnType, x, T, F
  <1> HIDE DEF m
  <1>6. turn' \in TurnType(n, k, m)
    BY <1>0, <1>2, <1>5 DEF Typed
  <1> QED BY <1>0, <1>4, <1>6, TypeOKNext DEF CallEnds, Typed, n, k, m

LEMMA RunEndsTypes == ASSUME TypeOK, NEW r \in DOMAIN run, RunEnds(r) PROVE TypeOK'
  <1> DEFINE n == Len(session) k == Len(task) m == Len(run)
  <1>0. Typed(n, k, m)
    BY TypedNow
  <1>1. run \in Seq(RunType(n)) /\ r \in 1..Len(run) /\ m \in Nat
    BY <1>0 DEF Typed
  <1> HIDE DEF n, k
  <1>2. PICK result \in Nat : run' = [run EXCEPT ![r].status = "completed", ![r].result = result]
    <2>1. Results(r) \subseteq Nat
      BY BoundsAssumption DEF Results
    <2> QED BY <2>1 DEF RunEnds
  <1>3. run' \in Seq(RunType(n)) /\ Len(run') = m
    <2> DEFINE x == [run[r] EXCEPT !.status = "completed", !.result = result]
    <2>1. run[r] \in RunType(n)
      BY <1>1
    <2>2. x \in RunType(n)
      BY <2>1 DEF RunType, RunStates
    <2>3. run' = [run EXCEPT ![r] = x]
      BY <1>1, <1>2
    <2> HIDE DEF x
    <2> QED BY <1>1, <2>2, <2>3, RunTyped
  <1>4. inbox' \in Seq(EventType(m))
    BY <1>0, <1>1, EventTyped DEF RunEnds, Typed
  <1> HIDE DEF m
  <1>5. exec' \in [1..MaxRuns -> {"none", "active", "stopping"}]
    BY <1>0 DEF RunEnds, Typed
  <1> QED BY <1>0, <1>3, <1>4, <1>5, TypeOKNext DEF RunEnds, Typed, n, k, m

LEMMA StoppedExitTypes == ASSUME TypeOK, NEW r \in DOMAIN run, StoppedExit(r) PROVE TypeOK'
  <1> DEFINE n == Len(session) k == Len(task) m == Len(run)
  <1>0. Typed(n, k, m)
    BY TypedNow
  <1>1. run \in Seq(RunType(n)) /\ r \in 1..Len(run) /\ m \in Nat
    BY <1>0 DEF Typed
  <1> HIDE DEF n, k
  <1>2. run[r].status \in RunStates
    <2>1. run[r] \in RunType(n)
      BY <1>1
    <2> QED BY <2>1 DEF RunType
  <1>3. run' \in Seq(RunType(n)) /\ Len(run') = m
    BY <1>1, <1>2, StatusChanged DEF StoppedExit, Report
  <1>4. inbox' \in Seq(EventType(m))
    BY <1>0, <1>1, EventTyped DEF StoppedExit, Report, Typed
  <1> HIDE DEF m
  <1>5. exec' \in [1..MaxRuns -> {"none", "active", "stopping"}]
    BY <1>0 DEF StoppedExit, Report, Typed
  <1> QED BY <1>0, <1>3, <1>4, <1>5, TypeOKNext DEF StoppedExit, Typed, n, k, m

-----------------------------------------------------------------------------
(* Tasks *)

TaskKinds == Runnable \cup {"known", "coverage"}

LEMMA NewTaskTyped ==
  ASSUME NEW n \in Nat, NEW m \in Nat, NEW s \in 1..n
  PROVE  /\ \A kind \in TaskKinds : NewTask(s, kind) \in TaskType(n, m)
         /\ \A kind \in TaskKinds, t \in Nat :
              /\ [NewTask(s, kind) EXCEPT !.round = t] \in TaskType(n, m)
              /\ [NewTask(s, kind) EXCEPT !.retryOf = t] \in TaskType(n, m)
         /\ \A p \in Nat, round \in Nat : IdeaTask(s, p, round) \in TaskType(n, m)
  <1>1. ASSUME NEW kind \in TaskKinds PROVE NewTask(s, kind) \in TaskType(n, m)
    BY DEF TaskKinds, NewTask, TaskType
  <1>2. \A x \in TaskType(n, m) : \A t \in Nat :
          [x EXCEPT !.round = t] \in TaskType(n, m) /\ [x EXCEPT !.retryOf = t] \in TaskType(n, m)
    BY DEF TaskType
  <1>3. ASSUME NEW p \in Nat, NEW round \in Nat PROVE IdeaTask(s, p, round) \in TaskType(n, m)
    <2> DEFINE x == NewTask(s, "ideas") parallel == round = 0
    <2>1. "ideas" \in TaskKinds
      BY DEF TaskKinds, Runnable
    <2>2. x \in TaskType(n, m)
      BY <1>1, <2>1
    <2>3. parallel \in BOOLEAN
      OBVIOUS
    <2> HIDE DEF x, parallel
    <2>4. [x EXCEPT !.problem = p, !.round = round, !.parallel = parallel] \in TaskType(n, m)
      BY <2>2, <2>3 DEF TaskType
    <2> QED BY <2>4 DEF IdeaTask, x, parallel
  <1> QED BY <1>1, <1>2, <1>3

LEMMA AdmitIdeasTyped ==
  ASSUME NEW n \in Nat, NEW m \in Nat, NEW s \in 1..n, session \in Seq(SessionType), Len(session) = n
  PROVE  AdmitIdeas(s) \in Seq(TaskType(n, m)) /\ Len(AdmitIdeas(s)) \in Nat
  <1> DEFINE b == session[s].contract.batches p == session[s].problems
  <1>1. session[s] \in SessionType
    OBVIOUS
  <1>2. b \in Nat \ {0} /\ p \in Nat
    BY <1>1 DEF SessionType, Contract
  <1> HIDE DEF b, p
  <1>3. p * b \in Nat
    BY <1>2
  <1>4. \A i \in 1..p * b : (i - 1) \div b + 1 \in Nat
    <2>1. \A x \in Nat : x \div b \in Nat
      BY <1>2
    <2> DEFINE q == p * b
    <2>2. q \in Nat
      BY <1>3
    <2> HIDE DEF q
    <2>3. \A i \in 1..q : i - 1 \in Nat
      BY <2>2
    <2>4. \A i \in 1..q : (i - 1) \div b \in Nat
      BY <2>1, <2>3
    <2> QED BY <2>4 DEF q
  <1>5. \A i \in 1..p * b : IdeaTask(s, (i - 1) \div b + 1, 0) \in TaskType(n, m)
    BY <1>4, NewTaskTyped
  <1>6. AdmitIdeas(s) = [i \in 1..p * b |-> IdeaTask(s, (i - 1) \div b + 1, 0)]
    BY DEF AdmitIdeas, b, p
  <1>7. AdmitIdeas(s) \in [1..p * b -> TaskType(n, m)]
    BY <1>5, <1>6
  <1> QED BY <1>3, <1>7, FunTyped

\* More tasks come after those that there are.
LEMMA TasksAdded ==
  ASSUME TypeOK, NEW more \in Seq(TaskType(Len(session), Len(run)))
  PROVE  /\ task \o more \in Seq(TaskType(Len(session), Len(run)))
         /\ Len(task \o more) = Len(task) + Len(more) /\ Len(more) \in Nat
  BY DEF TypeOK

LEMMA TaskAdded ==
  ASSUME TypeOK, NEW x \in TaskType(Len(session), Len(run))
  PROVE  /\ Append(task, x) \in Seq(TaskType(Len(session), Len(run)))
         /\ Len(Append(task, x)) = Len(task) + 1
  BY DEF TypeOK

LEMMA PlanGenerationTypes == TypeOK /\ PlanGeneration => TypeOK'
  <1> SUFFICES ASSUME TypeOK, PlanGeneration PROVE TypeOK'
    OBVIOUS
  <1> DEFINE n == Len(session) k == Len(task) m == Len(run) s == Of more == AdmitIdeas(s)
  <1>1. Typed(n, k, m)
    BY TypedNow
  <1>2. turn # <<>> /\ s \in 1..n
    BY HeadOf DEF PlanGeneration, At, SessionSteps
  <1>3. /\ turn' = <<Step("next", s)>> \o Tail(turn)
        /\ \/ UNCHANGED <<task, session, asking>>
           \/ task' = task \o more /\ session' = [session EXCEPT ![s].state = "running"] /\ asking' = Stale(s)
    BY DEF PlanGeneration, Go, Put
  <1>4. more \in Seq(TaskType(n, m))
    BY <1>1, <1>2, AdmitIdeasTyped DEF Typed
  <1> HIDE DEF more, s
  <1>5. task \o more \in Seq(TaskType(n, m)) /\ Len(task \o more) = k + Len(more) /\ Len(more) \in Nat
    BY <1>4, TasksAdded
  <1>6. [session EXCEPT ![s].state = "running"] \in Seq(SessionType) /\ Len([session EXCEPT ![s].state = "running"]) = n
    <2>1. "running" \in SessionStates /\ "none" \in Outcomes
      BY DEF SessionStates, Busy, Outcomes
    <2> QED BY <1>1, <1>2, <2>1, SessionChanged DEF Typed
  <1> HIDE DEF n, k, m
  <1>7. turn' \in TurnType(n, k, m)
    <2>1. Step("next", s) \in StepType(n, k, m)
      BY <1>1, <1>2, StepsTyped DEF SessionSteps, Typed
    <2> QED BY <1>1, <1>2, <1>3, <2>1, GoTyped
  <1>8. Stale(s) \subseteq AskType(n, k, m)
    BY <1>1, StaleTyped DEF Typed
  <1>9. CASE UNCHANGED <<task, session, asking>>
    BY <1>1, <1>7, <1>9, TypeOKNext DEF PlanGeneration, Typed, n, k, m
  <1>10. CASE task' = task \o more /\ session' = [session EXCEPT ![s].state = "running"] /\ asking' = Stale(s)
    <2> DEFINE k2 == k + Len(more)
    <2>1. n \in Nat /\ k2 \in Nat /\ m \in Nat /\ n <= n /\ k <= k2 /\ m <= m
      BY <1>1, <1>5 DEF Typed
    <2> HIDE DEF k2
    <2>2. /\ Typed(n, k2, m) /\ TurnType(n, k, m) \subseteq TurnType(n, k2, m)
          /\ AskType(n, k, m) \subseteq AskType(n, k2, m)
      BY <1>1, <2>1, TypedMore
    <2>3. turn' \in TurnType(n, k2, m) /\ asking' \subseteq AskType(n, k2, m)
      BY <1>7, <1>8, <1>10, <2>2
    <2>4. Len(task') = k2
      BY <1>5, <1>10 DEF k2
    <2>5. task' \in Seq(TaskType(n, m)) /\ session' \in Seq(SessionType) /\ Len(session') = n
      BY <1>5, <1>6, <1>10
    <2> QED BY <2>1, <2>2, <2>3, <2>4, <2>5, TypeOKNext DEF PlanGeneration, Typed, n, m
  <1> QED BY <1>3, <1>9, <1>10

LEMMA DispatchNextTypes == TypeOK /\ DispatchNext => TypeOK'
  <1> SUFFICES ASSUME TypeOK, DispatchNext PROVE TypeOK'
    OBVIOUS
  <1> DEFINE n == Len(session) k == Len(task) m == Len(run) s == Of
             ideas == OfKind(s, {"ideas"})
             running == {t \in ideas : task[t].state = "running"}
             ready == {t \in ideas : task[t].state = "ready"}
             coverage == {t \in OfKind(s, {"coverage"}) : task[t].state \in {"ready", "running"}}
             all == InOrder({t \in ready : SideBySide(t)})
             room == IF Len(all) + Cardinality(running) <= Side THEN Len(all) ELSE Side - Cardinality(running)
             batch == IF SideBySide(First(ready)) THEN SubSeq(all, 1, room) ELSE <<First(ready)>>
             skipped == To(task, {t \in ready \cup coverage : task[t].state = "ready"}, "skipped")
  <1>1. Typed(n, k, m)
    BY TypedNow
  <1>2. turn # <<>> /\ s \in 1..n
    BY HeadOf DEF DispatchNext, At, SessionSteps
  <1>3. /\ \/ turn' = <<>> \o Tail(turn) /\ loop' = loop
           \/ turn' = <<Step("collect", s)>> \o Tail(turn) /\ loop' = loop
           \/ coverage # {} /\ turn' = <<Step("cover", First(coverage))>> \o Tail(turn) /\ loop' = loop
           \/ /\ ready # {} /\ batch # <<>>
              /\ turn' = <<Step("dispatch", Head(batch))>> \o Tail(turn)
              /\ loop' = loop \o Each("dispatch", Tail(batch))
        /\ task' = task \/ task' = skipped
    <2>1. PICK short \in BOOLEAN :
       IF session[s].state # "running" \/ \E t \in running : ~SideBySide(t)
       THEN Go(<<>>) /\ UNCHANGED <<task, loop>>
       ELSE IF TargetMet(s) \/ short
       THEN /\ task' = skipped
            /\ Go(IF running = {} THEN <<Step("collect", s)>> ELSE <<>>)
            /\ UNCHANGED loop
       ELSE IF coverage # {}
       THEN /\ Go(IF running = {} /\ task[First(coverage)].state = "ready"
                  THEN <<Step("cover", First(coverage))>> ELSE <<>>)
            /\ UNCHANGED <<task, loop>>
       ELSE IF ready = {} THEN Go(IF running = {} THEN <<Step("collect", s)>> ELSE <<>>) /\ UNCHANGED <<task, loop>>
       ELSE IF batch = <<>> \/ (running # {} /\ ~SideBySide(First(ready))) THEN Go(<<>>) /\ UNCHANGED <<task, loop>>
       ELSE /\ Go(<<Step("dispatch", Head(batch))>>)
            /\ loop' = loop \o Each("dispatch", Tail(batch))
            /\ UNCHANGED task
      BY DEF DispatchNext
    <2> HIDE DEF skipped, batch, coverage, ready, running, s
    <2> QED BY <2>1 DEF Go
  <1>4. ready \subseteq 1..k /\ coverage \subseteq 1..k /\ running \subseteq 1..k /\ k \in Nat
    BY <1>1 DEF OfKind, TasksOf, Typed
  <1>5. skipped \in Seq(TaskType(n, m)) /\ Len(skipped) = k
    <2>1. "skipped" \in TaskStates
      BY DEF TaskStates, Settled
    <2> QED BY <1>1, <2>1, TasksChanged DEF Typed
  <1>6. ready # {} /\ batch # <<>> => Head(batch) \in 1..k /\ Tail(batch) \in Seq(1..k)
    <2> SUFFICES ASSUME ready # {}, batch # <<>> PROVE Head(batch) \in 1..k /\ Tail(batch) \in Seq(1..k)
      OBVIOUS
    <2> DEFINE side == {t \in ready : SideBySide(t)}
    <2>1. side \subseteq 1..k
      BY <1>4
    <2> HIDE DEF side, ready, running, k
    <2>2. InOrder(side) \in Seq(side) /\ Seq(side) \subseteq Seq(1..k)
      BY <1>4, <2>1, InOrderIsSeq, SeqMono
    <2>3. First(ready) \in 1..k
      <3>1. ready \subseteq Nat
        BY <1>4
      <3> QED BY <1>4, <3>1, FirstIsLeast
    <2>4. Cardinality(running) \in Nat /\ Side \in Nat
      <3>1. Cardinality(running) \in 0..k
        BY <1>4, SomeOf
      <3> QED BY <1>4, <3>1, BoundsAssumption
    <2>5. all \in Seq(1..k) /\ Len(all) \in Nat
      BY <2>2 DEF side
    <2> HIDE DEF all
    <2>6. SubSeq(all, 1, room) \in Seq(1..k)
      <3>1. room \in Int /\ room <= Len(all)
        BY <2>4, <2>5
      <3> HIDE DEF room
      <3> QED BY <2>5, <3>1, PartTyped
    <2>7. <<First(ready)>> \in Seq(1..k)
      BY <2>3
    <2>8. batch \in Seq(1..k)
      BY <2>6, <2>7
    <2> DEFINE T == 1..k
    <2> HIDE DEF batch, T
    <2>9. Head(batch) \in T /\ Tail(batch) \in Seq(T)
      <3>1. batch \in Seq(T) /\ batch # <<>>
        BY <2>8 DEF T
      <3> QED BY <3>1
    <2> QED BY <2>9 DEF T
  <1> HIDE DEF n, k, m, s, ready, coverage, running, skipped, batch
  <1>7. /\ Step("collect", s) \in StepType(n, k, m)
        /\ coverage # {} => Step("cover", First(coverage)) \in StepType(n, k, m)
        /\ \A t \in 1..k : Step("dispatch", t) \in StepType(n, k, m)
    <2>1. coverage # {} => First(coverage) \in 1..k
      <3>1. coverage \subseteq Nat
        BY <1>4
      <3> QED BY <1>4, <3>1, FirstIsLeast
    <2> QED BY <1>1, <1>2, <2>1, StepsTyped DEF SessionSteps, TaskSteps, Typed
  <1>8. turn' \in TurnType(n, k, m)
    BY <1>1, <1>2, <1>3, <1>6, <1>7, GoTyped
  <1>9. loop' \in Seq(StepType(n, k, m))
    <2>1. ready # {} /\ batch # <<>> => Each("dispatch", Tail(batch)) \in Seq(StepType(n, k, m))
      BY <1>6, <1>7, EachTyped
    <2>2. loop \in Seq(StepType(n, k, m))
      BY <1>1 DEF Typed
    <2>3. ready # {} /\ batch # <<>> => loop \o Each("dispatch", Tail(batch)) \in Seq(StepType(n, k, m))
      <3> DEFINE T == StepType(n, k, m) more == Each("dispatch", Tail(batch))
      <3> HIDE DEF T, more
      <3>1. loop \in Seq(T) /\ (ready # {} /\ batch # <<>> => more \in Seq(T))
        BY <2>1, <2>2 DEF T, more
      <3>2. ready # {} /\ batch # <<>> => loop \o more \in Seq(T)
        BY <3>1
      <3> QED BY <3>2 DEF T, more
    <2> QED BY <1>3, <2>2, <2>3
  <1>10. task' \in Seq(TaskType(n, m)) /\ Len(task') = k
    BY <1>1, <1>3, <1>5 DEF Typed, k
  <1> QED BY <1>1, <1>8, <1>9, <1>10, TypeOKNext DEF DispatchNext, Typed, n, k, m

\* The sessions and tasks become more, or stay as many, and a turn and commands are about them.
LEMMA TypeOKMore ==
  ASSUME TypeOK, NEW n \in Nat, NEW k \in Nat, Len(session) <= n, Len(task) <= k,
         session' \in Seq(SessionType), Len(session') = n,
         task' \in Seq(TaskType(n, Len(run))), Len(task') = k,
         turn' \in TurnType(n, k, Len(run)), asking' \subseteq AskType(n, k, Len(run)),
         UNCHANGED <<run, exec, inbox, loop, crashes>>, covering' \subseteq 1..k, up' \in {"down", "starting", "up"}
  PROVE  TypeOK'
  <1> DEFINE m == Len(run)
  <1>1. Typed(Len(session), Len(task), m)
    BY TypedNow
  <1>2. m \in Nat /\ m <= m
    BY <1>1 DEF Typed
  <1> HIDE DEF m
  <1>3. Typed(n, k, m)
    BY <1>1, <1>2, TypedMore
  <1> QED BY <1>2, <1>3, TypeOKNext DEF Typed, m

LEMMA SomeSession ==
  ASSUME TypeOK, NEW s \in 1..Len(session)
  PROVE  /\ session \in Seq(SessionType) /\ session[s] \in SessionType
         /\ \A state \in SessionStates :
              [session EXCEPT ![s].state = state] \in Seq(SessionType) /\ Len([session EXCEPT ![s].state = state]) = Len(session)
         /\ \A outcome \in Outcomes :
              /\ [session EXCEPT ![s].state = "finished", ![s].outcome = outcome] \in Seq(SessionType)
              /\ Len([session EXCEPT ![s].state = "finished", ![s].outcome = outcome]) = Len(session)
         /\ Stale(s) \subseteq AskType(Len(session), Len(task), Len(run))
  <1>1. session \in Seq(SessionType) /\ asking \subseteq AskType(Len(session), Len(task), Len(run))
    BY DEF TypeOK, MemoryType
  <1>2. session[s] \in SessionType
    BY <1>1
  <1>3. "none" \in Outcomes /\ "finished" \in SessionStates
    BY DEF Outcomes, SessionStates
  <1>4. \A state \in SessionStates :
          [session EXCEPT ![s].state = state] \in Seq(SessionType) /\ Len([session EXCEPT ![s].state = state]) = Len(session)
    BY <1>1, <1>3, SessionChanged
  <1>5. \A outcome \in Outcomes :
          /\ [session EXCEPT ![s].state = "finished", ![s].outcome = outcome] \in Seq(SessionType)
          /\ Len([session EXCEPT ![s].state = "finished", ![s].outcome = outcome]) = Len(session)
    BY <1>1, <1>3, SessionChanged
  <1> QED BY <1>1, <1>2, <1>4, <1>5, StaleTyped

LEMMA FinalOutcomeTyped == ASSUME NEW s PROVE FinalOutcome(s) \in Outcomes \ {"none"}
  BY DEF FinalOutcome, Outcomes

\* As many values as arguments at the most.
LEMMA ImageFinite ==
  ASSUME NEW S, IsFiniteSet(S), NEW f, f = [x \in S |-> f[x]]
  PROVE  IsFiniteSet({f[x] : x \in S}) /\ Cardinality({f[x] : x \in S}) \in Nat
  <1> DEFINE T == {f[x] : x \in S}
  <1>1. f \in Surjection(S, T)
    BY DEF Surjection
  <1>2. IsFiniteSet(T)
    BY <1>1, FS_Surjection
  <1> QED BY <1>2, FS_CardinalityType

LEMMA FinishCollectionTypes == TypeOK /\ FinishCollection => TypeOK'
  <1> SUFFICES ASSUME TypeOK, FinishCollection PROVE TypeOK'
    OBVIOUS
  <1> DEFINE n == Len(session) k == Len(task) m == Len(run) s == Of
             rounds == {task[t].round : t \in OfKind(s, {"ideas"})}
             round == 1 + Cardinality(rounds \ {0})
             cover == [NewTask(s, "coverage") EXCEPT !.round = round]
  <1>1. Typed(n, k, m)
    BY TypedNow
  <1>2. turn # <<>> /\ s \in 1..n
    BY HeadOf DEF FinishCollection, At, SessionSteps
  <1>3. round \in Nat
    <2> DEFINE ideas == OfKind(s, {"ideas"}) f == [t \in ideas |-> task[t].round]
    <2>1. ideas \subseteq 1..k
      BY <1>1 DEF OfKind, TasksOf, Typed
    <2>2. IsFiniteSet(ideas)
      <3>1. k \in Nat
        BY <1>1 DEF Typed
      <3> HIDE DEF ideas, k
      <3> QED BY <2>1, <3>1, SomeOf
    <2>3. f = [t \in ideas |-> f[t]] /\ rounds = {f[t] : t \in ideas}
      OBVIOUS
    <2> HIDE DEF f, ideas, rounds
    <2>4. IsFiniteSet(rounds) /\ Cardinality(rounds) \in Nat
      BY <2>2, <2>3, ImageFinite
    <2>5. rounds \ {0} \in SUBSET rounds
      OBVIOUS
    <2>6. IsFiniteSet(rounds \ {0})
      BY <2>4, <2>5, FS_Subset
    <2>7. Cardinality(rounds \ {0}) \in Nat
      BY <2>6, FS_CardinalityType
    <2> QED BY <2>7
  <1> HIDE DEF round, rounds
  <1>4. \A p \in Requested(s) : p \in Nat
    <2>1. \A t \in 1..k : task[t].problem \in Nat
      <3>1. task \in Seq(TaskType(n, m))
        BY <1>1 DEF Typed
      <3>2. \A t \in 1..k : task[t] \in TaskType(n, m)
        BY <3>1
      <3> QED BY <3>2 DEF TaskType
    <2> QED BY <1>1, <2>1 DEF Requested, OfKind, TasksOf, Typed
  <1>5. PICK x \in TaskType(n, m) :
          /\ task' = task \/ task' = Append(task, x)
          /\ \/ session' = session
             \/ session' = [session EXCEPT ![s].state = "running"]
             \/ session' = [session EXCEPT ![s].state = "finished", ![s].outcome = FinalOutcome(s)]
          /\ asking' = asking \/ asking' = Stale(s)
          /\ \/ turn' = <<>> \o Tail(turn)
             \/ turn' = <<Step("next", s)>> \o Tail(turn)
             \/ turn' = <<Step("cover", k + 1)>> \o Tail(turn) /\ task' = Append(task, x)
    <2>1. /\ cover \in TaskType(n, m)
          /\ \A p \in Requested(s) : IdeaTask(s, p, round) \in TaskType(n, m)
      <3>1. n \in Nat /\ m \in Nat /\ "coverage" \in TaskKinds
        BY <1>1 DEF Typed, TaskKinds
      <3> HIDE DEF n, m, s
      <3> QED BY <1>2, <1>3, <1>4, <3>1, NewTaskTyped
    <2>2. \/ /\ task' = task
             /\ UNCHANGED <<session, asking>> \/ Outcome(s, FinalOutcome(s))
             /\ Go(<<>>) \/ Go(<<Step("next", s)>>)
          \/ task' = Append(task, cover) /\ Put(s, "running") /\ Go(<<Step("cover", k + 1)>>)
          \/ /\ \E p \in Requested(s) : task' = Append(task, IdeaTask(s, p, round))
             /\ Put(s, "running") /\ Go(<<Step("next", s)>>)
      BY DEF FinishCollection, round, rounds
    <2> HIDE DEF n, k, m, s, cover
    <2> QED BY <2>1, <2>2 DEF Go, Put, Outcome
  <1> HIDE DEF cover, s
  <1>6. Append(task, x) \in Seq(TaskType(n, m)) /\ Len(Append(task, x)) = k + 1
    BY TaskAdded
  <1>7. session' \in Seq(SessionType) /\ Len(session') = n /\ asking' \subseteq AskType(n, k, m)
    <2>1. "running" \in SessionStates /\ FinalOutcome(s) \in Outcomes
      BY FinalOutcomeTyped DEF SessionStates, Busy
    <2>2. /\ session \in Seq(SessionType) /\ Stale(s) \subseteq AskType(n, k, m)
          /\ [session EXCEPT ![s].state = "running"] \in Seq(SessionType)
          /\ Len([session EXCEPT ![s].state = "running"]) = n
          /\ [session EXCEPT ![s].state = "finished", ![s].outcome = FinalOutcome(s)] \in Seq(SessionType)
          /\ Len([session EXCEPT ![s].state = "finished", ![s].outcome = FinalOutcome(s)]) = n
      BY <1>2, <2>1, SomeSession
    <2>3. asking \subseteq AskType(n, k, m)
      BY <1>1 DEF Typed
    <2> QED BY <1>5, <2>2, <2>3
  <1> DEFINE k2 == IF task' = task THEN k ELSE k + 1
  <1>8. k2 \in Nat /\ k <= k2 /\ n \in Nat /\ m \in Nat /\ n <= n /\ m <= m
    BY <1>1 DEF Typed
  <1>9. task' \in Seq(TaskType(n, m)) /\ Len(task') = k2
    BY <1>1, <1>5, <1>6 DEF Typed
  <1>10. k + 1 \in 1..k2 \/ task' = task
    BY <1>8
  <1>11. Append(task, x) # task
    BY <1>1, <1>6 DEF Typed
  <1> HIDE DEF k2, n, k, m
  <1>12. /\ TurnType(n, k, m) \subseteq TurnType(n, k2, m) /\ AskType(n, k, m) \subseteq AskType(n, k2, m)
         /\ Typed(n, k2, m)
    BY <1>1, <1>8, TypedMore
  <1>13. turn' \in TurnType(n, k2, m)
    <2>1. Step("next", s) \in StepType(n, k2, m) /\ (task' # task => Step("cover", k + 1) \in StepType(n, k2, m))
      BY <1>2, <1>8, <1>10, StepsTyped DEF SessionSteps, TaskSteps
    <2> QED BY <1>2, <1>5, <1>11, <1>12, <2>1, GoTyped
  <1> QED BY <1>7, <1>8, <1>9, <1>12, <1>13, TypeOKMore DEF FinishCollection, Typed, n, k, m

LEMMA SomeTask ==
  ASSUME TypeOK, NEW t \in 1..Len(task)
  PROVE  LET T == TaskType(Len(session), Len(run)) IN
         /\ task \in Seq(T) /\ task[t] \in T
         /\ \A x \in T : [task EXCEPT ![t] = x] \in Seq(T) /\ Len([task EXCEPT ![t] = x]) = Len(task)
         /\ \A state \in TaskStates :
              [task EXCEPT ![t].state = state] \in Seq(T) /\ Len([task EXCEPT ![t].state = state]) = Len(task)
  <1> DEFINE T == TaskType(Len(session), Len(run))
  <1>1. task \in Seq(T)
    BY DEF TypeOK
  <1>2. \A state \in TaskStates :
          [task EXCEPT ![t].state = state] \in Seq(T) /\ Len([task EXCEPT ![t].state = state]) = Len(task)
    BY <1>1, TaskChanged
  <1> HIDE DEF T
  <1>3. task[t] \in T /\ \A x \in T : [task EXCEPT ![t] = x] \in Seq(T) /\ Len([task EXCEPT ![t] = x]) = Len(task)
    BY <1>1
  <1> QED BY <1>1, <1>2, <1>3 DEF T

LEMMA AttemptTyped ==
  ASSUME TypeOK, NEW t \in 1..Len(task), NEW attempt \in {"none", "sent", "completed", "failed", "lost"}
  PROVE  /\ [task EXCEPT ![t].attempt = attempt] \in Seq(TaskType(Len(session), Len(run)))
         /\ Len([task EXCEPT ![t].attempt = attempt]) = Len(task)
  <1> DEFINE T == TaskType(Len(session), Len(run)) x == [task[t] EXCEPT !.attempt = attempt]
  <1>1. task \in Seq(T) /\ task[t] \in T
    BY SomeTask
  <1>2. x \in T
    BY <1>1 DEF TaskType
  <1>3. [task EXCEPT ![t].attempt = attempt] = [task EXCEPT ![t] = x]
    BY <1>1
  <1> HIDE DEF x
  <1> QED BY <1>2, <1>3, SomeTask, SMTT(30)

LEMMA CoverTypes == TypeOK /\ Cover => TypeOK'
  <1> SUFFICES ASSUME TypeOK, Cover PROVE TypeOK'
    OBVIOUS
  <1> DEFINE n == Len(session) k == Len(task) m == Len(run) t == Of
  <1>1. Typed(n, k, m)
    BY TypedNow
  <1>2. turn # <<>> /\ t \in 1..k
    BY HeadOf DEF Cover, At, TaskSteps
  <1>3. /\ task' = task \/ task' = [task EXCEPT ![t].state = "running"]
        /\ covering' = covering \/ covering' = covering \cup {t}
        /\ turn' = <<>> \o Tail(turn)
    BY DEF Cover, Go
  <1> HIDE DEF t
  <1>4. task' \in Seq(TaskType(n, m)) /\ Len(task') = k
    <2>1. "running" \in TaskStates
      BY DEF TaskStates
    <2>2. /\ task \in Seq(TaskType(n, m)) /\ [task EXCEPT ![t].state = "running"] \in Seq(TaskType(n, m))
          /\ Len([task EXCEPT ![t].state = "running"]) = k
      BY <1>2, <2>1, SomeTask
    <2> QED BY <1>3, <2>2
  <1> HIDE DEF n, k, m
  <1>5. covering' \subseteq 1..k /\ turn' \in TurnType(n, k, m)
    BY <1>1, <1>2, <1>3, GoTyped DEF Typed
  <1> QED BY <1>1, <1>4, <1>5, TypeOKNext DEF Cover, Typed, n, k, m

LEMMA OnlyTaskTypes ==
  ASSUME TypeOK, task' \in Seq(TaskType(Len(session), Len(run))), Len(task') = Len(task),
         UNCHANGED <<session, run, memory, up, crashes>>
  PROVE  TypeOK'
  BY TypedNow, TypeOKNext DEF Typed, memory

LEMMA CoverSentTypes == ASSUME TypeOK, NEW t \in DOMAIN task, CoverSent(t) PROVE TypeOK'
  <1>1. t \in 1..Len(task)
    BY DEF TypeOK
  <1>2. task' = [task EXCEPT ![t].attempt = "sent"]
    BY DEF CoverSent
  <1>3. task' \in Seq(TaskType(Len(session), Len(run))) /\ Len(task') = Len(task)
    BY <1>1, <1>2, AttemptTyped
  <1> QED BY <1>3, OnlyTaskTypes DEF CoverSent

LEMMA CoverAnsweredTypes == ASSUME TypeOK, NEW t \in DOMAIN task, CoverAnswered(t) PROVE TypeOK'
  <1>1. t \in 1..Len(task)
    BY DEF TypeOK
  <1>2. PICK st \in {"completed", "failed", "lost"} : task' = [task EXCEPT ![t].attempt = st]
    BY DEF CoverAnswered
  <1>3. task' \in Seq(TaskType(Len(session), Len(run))) /\ Len(task') = Len(task)
    BY <1>1, <1>2, AttemptTyped
  <1> QED BY <1>3, OnlyTaskTypes DEF CoverAnswered

LEMMA CoverSettledTypes == ASSUME TypeOK, NEW t \in DOMAIN task, CoverSettled(t) PROVE TypeOK'
  <1> DEFINE n == Len(session) k == Len(task) m == Len(run) s == task[t].session
  <1>1. Typed(n, k, m)
    BY TypedNow
  <1>2. t \in 1..k /\ s \in 1..n
    BY <1>1, TaskFields DEF Typed
  <1>3. PICK state \in TaskStates, outcome \in Outcomes, st \in SessionStates :
          /\ task' = task \/ task' = [task EXCEPT ![t].state = state]
          /\ \/ session' = session
             \/ session' = [session EXCEPT ![s].state = st]
             \/ session' = [session EXCEPT ![s].state = "finished", ![s].outcome = outcome]
          /\ asking' = asking \/ asking' = Stale(s)
          /\ turn' = turn \/ turn' = <<>> \/ turn' = <<Step("collect", s)>>
    <2> DEFINE stopped == Stopping(s) unknown == task[t].attempt \in {"sent", "lost"}
               lost == IF stopped THEN "cancelled" ELSE IF unknown THEN "unknown" ELSE "failed"
               ends == IF stopped THEN "cancelled" ELSE IF unknown THEN "needs-attention"
                       ELSE IF Accepted(task, s) # {} THEN "partial" ELSE "failed"
    <2>1. /\ lost \in TaskStates /\ "succeeded" \in TaskStates /\ ends \in Outcomes /\ "cancelled" \in Outcomes
          /\ "paused" \in SessionStates /\ "running" \in SessionStates
      BY DEF TaskStates, Settled, Outcomes, SessionStates, Busy
    <2>2. \/ UNCHANGED <<task, session, asking, turn>>
          \/ /\ task' = [task EXCEPT ![t].state = "succeeded"]
             /\ Outcome(s, "cancelled") \/ Put(s, "paused") \/ Put(s, "running")
             /\ Now(<<Step("collect", s)>>) \/ Now(<<>>)
          \/ task' = [task EXCEPT ![t].state = lost] /\ Outcome(s, ends) /\ Now(<<>>)
      BY DEF CoverSettled
    <2> HIDE DEF lost, ends, s
    <2> QED BY <2>1, <2>2 DEF Put, Outcome, Now
  <1>4. task' \in Seq(TaskType(n, m)) /\ Len(task') = k
    BY <1>2, <1>3, SomeTask, SMTT(30)
  <1> HIDE DEF s
  <1>5. session' \in Seq(SessionType) /\ Len(session') = n /\ asking' \subseteq AskType(n, k, m)
    <2>1. asking \subseteq AskType(n, k, m)
      BY <1>1 DEF Typed
    <2>2. /\ session \in Seq(SessionType) /\ Stale(s) \subseteq AskType(n, k, m)
          /\ [session EXCEPT ![s].state = st] \in Seq(SessionType)
          /\ Len([session EXCEPT ![s].state = st]) = n
          /\ [session EXCEPT ![s].state = "finished", ![s].outcome = outcome] \in Seq(SessionType)
          /\ Len([session EXCEPT ![s].state = "finished", ![s].outcome = outcome]) = n
      BY <1>2, SomeSession
    <2> QED BY <1>3, <2>1, <2>2
  <1> HIDE DEF n, k, m
  <1>6. turn' \in TurnType(n, k, m)
    <2>1. Step("collect", s) \in StepType(n, k, m)
      BY <1>1, <1>2, StepsTyped DEF SessionSteps, Typed
    <2> QED BY <1>1, <1>3, <2>1, NowTyped DEF Typed
  <1>7. covering' \subseteq 1..k
    BY <1>1 DEF CoverSettled, Typed
  <1> QED BY <1>1, <1>4, <1>5, <1>6, <1>7, TypeOKNext DEF CoverSettled, Typed, n, k, m

-----------------------------------------------------------------------------
(* What the events of runs change *)

LEMMA HandlingIs ==
  ASSUME TypeOK, NEW type \in {"completed", "failed", "cancelled"}, NEW kinds, Handling(type, kinds)
  PROVE  /\ turn # <<>> /\ Of \in 1..Len(run) /\ First(Owner(Of)) \in 1..Len(task)
         /\ task[First(Owner(Of))].session \in 1..Len(session)
  <1>1. turn # <<>> /\ Head(turn).do \in RunSteps /\ Owner(Of) # {}
    BY DEF Handling, At, Heard, RunSteps
  <1>2. Of \in 1..Len(run) /\ First(Owner(Of)) \in 1..Len(task)
    BY <1>1, HeadOf, OwnerOf
  <1> QED BY <1>1, <1>2, TaskFields

LEMMA RestTyped ==
  ASSUME NEW s, NEW next \in SessionStates
  PROVE  Rest(s, next) \in SessionStates
  BY DEF Rest, SessionStates, Busy

LEMMA SettledTyped ==
  ASSUME TypeOK, NEW s \in 1..Len(session), NEW state \in SessionStates, NEW outcome \in Outcomes,
         Settle(s, state, outcome)
  PROVE  /\ session' \in Seq(SessionType) /\ Len(session') = Len(session)
         /\ asking' \subseteq AskType(Len(session), Len(task), Len(run))
  <1> DEFINE ends == IF state = "finished" THEN outcome ELSE "none"
  <1>1. session \in Seq(SessionType)
    BY DEF TypeOK
  <1>2. ends \in Outcomes
    BY DEF Outcomes
  <1>3. session' = [session EXCEPT ![s].state = state, ![s].outcome = ends]
    BY DEF Settle
  <1> HIDE DEF ends
  <1>4. session' \in Seq(SessionType) /\ Len(session') = Len(session)
    BY <1>1, <1>2, <1>3, SessionChanged
  <1>5. asking' \subseteq AskType(Len(session), Len(task), Len(run))
    BY SomeSession DEF Settle
  <1> QED BY <1>4, <1>5

LEMMA CompleteAssessmentTypes == TypeOK /\ CompleteAssessment => TypeOK'
  <1> SUFFICES ASSUME TypeOK, CompleteAssessment PROVE TypeOK'
    OBVIOUS
  <1> DEFINE n == Len(session) k == Len(task) m == Len(run) t == First(Owner(Of)) s == task[t].session
  <1>1. Typed(n, k, m)
    BY TypedNow
  <1>2. turn # <<>> /\ t \in 1..k /\ s \in 1..n
    BY HandlingIs DEF CompleteAssessment
  <1>3. /\ task' = [task EXCEPT ![t].state = "succeeded"] /\ turn' = <<>> \o Tail(turn)
        /\ Settle(s, Rest(s, "waiting-for-review"), "cancelled")
    BY DEF CompleteAssessment, Go
  <1> HIDE DEF t, s
  <1>4. task' \in Seq(TaskType(n, m)) /\ Len(task') = k
    <2>1. "succeeded" \in TaskStates
      BY DEF TaskStates, Settled
    <2> QED BY <1>2, <1>3, <2>1, SomeTask
  <1>5. session' \in Seq(SessionType) /\ Len(session') = n /\ asking' \subseteq AskType(n, k, m)
    <2>1. Rest(s, "waiting-for-review") \in SessionStates /\ "cancelled" \in Outcomes
      <3>1. "waiting-for-review" \in SessionStates
        BY DEF SessionStates
      <3> QED BY <3>1, RestTyped DEF Outcomes
    <2> QED BY <1>2, <1>3, <2>1, SettledTyped
  <1> HIDE DEF n, k, m
  <1>6. turn' \in TurnType(n, k, m)
    BY <1>1, <1>2, <1>3, GoTyped
  <1> QED BY <1>1, <1>4, <1>5, <1>6, TypeOKNext DEF CompleteAssessment, Typed, n, k, m

LEMMA CompleteGenerationTypes == TypeOK /\ CompleteGeneration => TypeOK'
  <1> SUFFICES ASSUME TypeOK, CompleteGeneration PROVE TypeOK'
    OBVIOUS
  <1> DEFINE n == Len(session) k == Len(task) m == Len(run) t == First(Owner(Of)) s == task[t].session
             over == IF run[Of].result = 0 THEN "failed" ELSE "succeeded"
             out == run[Of].result = 2
             done == [task EXCEPT ![t].state = over, ![t].out = out]
             rests == IF IdeasRunning(done, s) THEN session[s].state ELSE Rest(s, "running")
  <1>1. Typed(n, k, m)
    BY TypedNow
  <1>2. turn # <<>> /\ t \in 1..k /\ s \in 1..n
    BY HandlingIs DEF CompleteGeneration
  <1>3. /\ task' = done /\ Settle(s, rests, "cancelled")
        /\ turn' = <<>> \o Tail(turn) \/ turn' = <<Step("next", s)>> \o Tail(turn)
    BY DEF CompleteGeneration, Go
  <1>4. over \in TaskStates /\ out \in BOOLEAN
    BY DEF TaskStates, Settled
  <1> HIDE DEF t, s, over, out
  <1>5. done \in Seq(TaskType(n, m)) /\ Len(done) = k
    <2> DEFINE x == [task[t] EXCEPT !.state = over, !.out = out]
    <2>1. task \in Seq(TaskType(n, m)) /\ task[t] \in TaskType(n, m)
      BY <1>2, SomeTask
    <2>2. x \in TaskType(n, m)
      BY <1>4, <2>1 DEF TaskType, TaskStates
    <2>3. done = [task EXCEPT ![t] = x]
      BY <1>2, <2>1
    <2> HIDE DEF x, done
    <2> QED BY <1>2, <2>2, <2>3, SomeTask
  <1> HIDE DEF done
  <1>6. session' \in Seq(SessionType) /\ Len(session') = n /\ asking' \subseteq AskType(n, k, m)
    <2>1. rests \in SessionStates /\ "cancelled" \in Outcomes
      <3>1. "running" \in SessionStates
        BY DEF SessionStates, Busy
      <3>2. session[s] \in SessionType
        BY <1>2, SomeSession
      <3>3. session[s].state \in SessionStates
        BY <3>2 DEF SessionType, SessionStates
      <3> QED BY <3>1, <3>3, RestTyped DEF Outcomes
    <2> HIDE DEF rests
    <2> QED BY <1>2, <1>3, <2>1, SettledTyped
  <1> HIDE DEF n, k, m
  <1>7. turn' \in TurnType(n, k, m)
    <2>1. Step("next", s) \in StepType(n, k, m)
      BY <1>1, <1>2, StepsTyped DEF SessionSteps, Typed
    <2> QED BY <1>1, <1>2, <1>3, <2>1, GoTyped
  <1> QED BY <1>1, <1>3, <1>5, <1>6, <1>7, TypeOKNext DEF CompleteGeneration, Typed, n, k, m

LEMMA CompleteDiscoveryTypes == TypeOK /\ CompleteDiscovery => TypeOK'
  <1> SUFFICES ASSUME TypeOK, CompleteDiscovery PROVE TypeOK'
    OBVIOUS
  <1> DEFINE n == Len(session) k == Len(task) m == Len(run) t == First(Owner(Of)) s == task[t].session
             found == run[Of].result
             vibe == session[s].contract.mode = "vibe"
             state == IF found = 0 /\ vibe THEN "finished"
                      ELSE Rest(s, IF vibe THEN "running" ELSE "waiting-for-review")
             outcome == IF Stopping(s) THEN "cancelled" ELSE IF state = "finished" THEN "no-qualifying-ideas" ELSE "none"
  <1>1. Typed(n, k, m)
    BY TypedNow
  <1>2. turn # <<>> /\ t \in 1..k /\ s \in 1..n /\ Of \in 1..m
    BY HandlingIs DEF CompleteDiscovery
  <1>3. /\ task' = [task EXCEPT ![t].state = "succeeded"]
        /\ session' = [session EXCEPT ![s].state = state, ![s].problems = found, ![s].outcome = outcome]
        /\ asking' = Stale(s)
        /\ turn' = <<>> \o Tail(turn) \/ turn' = <<Step("plan", s)>> \o Tail(turn)
    BY DEF CompleteDiscovery, Go
  <1>4. state \in SessionStates /\ outcome \in Outcomes /\ found \in Nat
    <2>1. "running" \in SessionStates /\ "waiting-for-review" \in SessionStates /\ "finished" \in SessionStates
      BY DEF SessionStates, Busy
    <2>2. outcome \in Outcomes
      BY DEF Outcomes
    <2>3. found \in Nat
      BY <1>2, RunFields DEF RunType
    <2> QED BY <2>1, <2>2, <2>3, RestTyped
  <1> HIDE DEF t, s, found, state, outcome
  <1>5. task' \in Seq(TaskType(n, m)) /\ Len(task') = k
    <2>1. "succeeded" \in TaskStates
      BY DEF TaskStates, Settled
    <2> QED BY <1>2, <1>3, <2>1, SomeTask
  <1>6. session' \in Seq(SessionType) /\ Len(session') = n
    <2> DEFINE x == [session[s] EXCEPT !.state = state, !.problems = found, !.outcome = outcome]
    <2>1. session \in Seq(SessionType) /\ session[s] \in SessionType
      BY <1>2, SomeSession
    <2>2. x \in SessionType
      BY <1>4, <2>1 DEF SessionType, SessionStates, Outcomes
    <2>3. session' = [session EXCEPT ![s] = x]
      BY <1>2, <1>3, <2>1
    <2> HIDE DEF x
    <2> QED BY <1>2, <2>1, <2>2, <2>3, SessionTyped
  <1>7. asking' \subseteq AskType(n, k, m)
    BY <1>2, <1>3, SomeSession
  <1> HIDE DEF n, k, m
  <1>8. turn' \in TurnType(n, k, m)
    <2>1. Step("plan", s) \in StepType(n, k, m)
      BY <1>1, <1>2, StepsTyped DEF SessionSteps, Typed
    <2> QED BY <1>1, <1>2, <1>3, <2>1, GoTyped
  <1> QED BY <1>1, <1>5, <1>6, <1>7, <1>8, TypeOKNext DEF CompleteDiscovery, Typed, n, k, m

LEMMA ResearchTaskTyped ==
  ASSUME NEW n \in Nat, NEW m \in Nat, NEW s \in 1..n
  PROVE  ResearchTask(s) \in TaskType(n, m)
  <1> DEFINE kind == IF session[s].contract.purpose = "known" THEN "known" ELSE "research"
  <1>1. kind \in TaskKinds
    BY DEF TaskKinds, Runnable
  <1> HIDE DEF kind
  <1> QED BY <1>1, NewTaskTyped DEF ResearchTask, kind

LEMMA CompleteFrameTypes == TypeOK /\ CompleteFrame => TypeOK'
  <1> SUFFICES ASSUME TypeOK, CompleteFrame PROVE TypeOK'
    OBVIOUS
  <1> DEFINE n == Len(session) k == Len(task) m == Len(run) t == First(Owner(Of)) s == task[t].session
             done == [task EXCEPT ![t].state = "succeeded"]
             goesOn == session[s].state = "running" /\ session[s].contract.mode = "vibe"
             frame == IF goesOn THEN "approved" ELSE "draft"
             state == IF goesOn THEN "running" ELSE Rest(s, "waiting-for-review")
             outcome == IF Stopping(s) THEN "cancelled" ELSE "none"
  <1>1. Typed(n, k, m)
    BY TypedNow
  <1>2. turn # <<>> /\ t \in 1..k /\ s \in 1..n /\ Of \in 1..m
    BY HandlingIs DEF CompleteFrame
  <1>3. /\ session' = [session EXCEPT ![s].frame = frame, ![s].state = state, ![s].outcome = outcome]
        /\ asking' = Stale(s)
        /\ \/ task' = done /\ turn' = <<>> \o Tail(turn)
           \/ task' = Append(done, ResearchTask(s)) /\ turn' = <<Step("dispatch", k + 1)>> \o Tail(turn)
    BY DEF CompleteFrame, Go
  <1>4. state \in SessionStates /\ outcome \in Outcomes /\ frame \in {"none", "draft", "approved"}
    <2>1. "running" \in SessionStates /\ "waiting-for-review" \in SessionStates
      BY DEF SessionStates, Busy
    <2> QED BY <2>1, RestTyped DEF Outcomes
  <1> HIDE DEF t, s, frame, state, outcome
  <1>5. done \in Seq(TaskType(n, m)) /\ Len(done) = k
    <2>1. "succeeded" \in TaskStates
      BY DEF TaskStates, Settled
    <2> QED BY <1>2, <2>1, SomeTask
  <1>6. session' \in Seq(SessionType) /\ Len(session') = n
    <2> DEFINE x == [session[s] EXCEPT !.frame = frame, !.state = state, !.outcome = outcome]
    <2>1. session \in Seq(SessionType) /\ session[s] \in SessionType
      BY <1>2, SomeSession
    <2>2. x \in SessionType
      BY <1>4, <2>1 DEF SessionType, SessionStates, Outcomes
    <2>3. session' = [session EXCEPT ![s] = x]
      BY <1>2, <1>3, <2>1
    <2> HIDE DEF x
    <2> QED BY <1>2, <2>1, <2>2, <2>3, SessionTyped
  <1>7. asking' \subseteq AskType(n, k, m)
    BY <1>2, <1>3, SomeSession
  <1> HIDE DEF done, n, k, m
  <1>8. CASE task' = done /\ turn' = <<>> \o Tail(turn)
    <2>1. turn' \in TurnType(n, k, m)
      BY <1>1, <1>2, <1>8, GoTyped
    <2> QED BY <1>1, <1>5, <1>6, <1>7, <1>8, <2>1, TypeOKNext DEF CompleteFrame, Typed, n, k, m
  <1>9. CASE task' = Append(done, ResearchTask(s)) /\ turn' = <<Step("dispatch", k + 1)>> \o Tail(turn)
    <2>1. n \in Nat /\ k \in Nat /\ m \in Nat /\ k + 1 \in Nat /\ n <= n /\ k <= k + 1 /\ m <= m /\ k + 1 \in 1..k + 1
      BY <1>1 DEF Typed
    <2>2. /\ Typed(n, k + 1, m) /\ TurnType(n, k, m) \subseteq TurnType(n, k + 1, m)
          /\ AskType(n, k, m) \subseteq AskType(n, k + 1, m)
      BY <1>1, <2>1, TypedMore
    <2>3. task' \in Seq(TaskType(n, m)) /\ Len(task') = k + 1
      <3> DEFINE T == TaskType(n, m) x == ResearchTask(s)
      <3>1. x \in T
        BY <1>2, <2>1, ResearchTaskTyped
      <3> HIDE DEF x, T
      <3>2. done \in Seq(T) /\ task' = Append(done, x) /\ Len(done) = k
        BY <1>5, <1>9 DEF x, T
      <3>3. task' \in Seq(T) /\ Len(task') = k + 1
        BY <3>1, <3>2
      <3> QED BY <3>3 DEF T
    <2>4. turn' \in TurnType(n, k + 1, m)
      <3>1. Step("dispatch", k + 1) \in StepType(n, k + 1, m)
        BY <2>1, StepsTyped DEF TaskSteps
      <3> QED BY <1>2, <1>9, <2>2, <3>1, GoTyped
    <2>5. asking' \subseteq AskType(n, k + 1, m)
      BY <1>7, <2>2
    <2> QED BY <1>6, <2>1, <2>2, <2>3, <2>4, <2>5, TypeOKNext DEF CompleteFrame, Typed, m
  <1> QED BY <1>3, <1>8, <1>9

LEMMA RunEndedShortTypes ==
  ASSUME TypeOK, NEW type \in {"failed", "cancelled"}, RunEndedShort(type)
  PROVE  TypeOK'
  <1> DEFINE n == Len(session) k == Len(task) m == Len(run) t == First(Owner(Of)) s == task[t].session
             unknown == UnknownCompletion(Of)
             over == IF unknown THEN "unknown" ELSE type
             done == [task EXCEPT ![t].state = over]
             after == SkipReady(done, s, type # "cancelled")
             ends == IF \E u \in TasksOf(s) : after[u].state = "unknown" THEN "needs-attention"
                     ELSE IF type = "cancelled" THEN "cancelled"
                     ELSE IF Accepted(after, s) # {} THEN "partial" ELSE "failed"
  <1>1. Typed(n, k, m)
    BY TypedNow
  <1>2. turn # <<>> /\ t \in 1..k /\ s \in 1..n
    BY HandlingIs DEF RunEndedShort
  <1>3. /\ task' = after /\ turn' = <<>> \o Tail(turn)
        /\ \/ UNCHANGED <<session, asking>>
           \/ session' = [session EXCEPT ![s].state = "finished", ![s].outcome = ends] /\ asking' = Stale(s)
    BY DEF RunEndedShort, KeepSession, Outcome, Go
  <1>4. over \in TaskStates /\ ends \in Outcomes
    BY DEF TaskStates, Settled, Outcomes
  <1> HIDE DEF t, s, over, ends
  <1>5. done \in Seq(TaskType(n, m)) /\ Len(done) = k
    BY <1>2, <1>4, SomeTask
  <1> HIDE DEF done
  <1>6. after \in Seq(TaskType(n, m)) /\ Len(after) = k
    <2>1. CASE type = "failed"
      <3>1. after = SkipReady(done, s, TRUE)
        BY <2>1 DEF SkipReady
      <3>2. SkipReady(done, s, TRUE) \in Seq(TaskType(n, m)) /\ Len(SkipReady(done, s, TRUE)) = Len(done)
        <4> HIDE DEF n, k, m
        <4> QED BY <1>5, TasksDeferred
      <3> QED BY <1>5, <3>1, <3>2
    <2>2. CASE type = "cancelled"
      <3>1. after = SkipReady(done, s, FALSE)
        BY <2>2 DEF SkipReady
      <3>2. SkipReady(done, s, FALSE) \in Seq(TaskType(n, m)) /\ Len(SkipReady(done, s, FALSE)) = Len(done)
        <4> HIDE DEF n, k, m
        <4> QED BY <1>5, TasksSkipped
      <3> QED BY <1>5, <3>1, <3>2
    <2> QED BY <2>1, <2>2
  <1> HIDE DEF after
  <1>7. session' \in Seq(SessionType) /\ Len(session') = n /\ asking' \subseteq AskType(n, k, m)
    <2>1. asking \subseteq AskType(n, k, m)
      BY <1>1 DEF Typed
    <2>2. /\ session \in Seq(SessionType) /\ Stale(s) \subseteq AskType(n, k, m)
          /\ [session EXCEPT ![s].state = "finished", ![s].outcome = ends] \in Seq(SessionType)
          /\ Len([session EXCEPT ![s].state = "finished", ![s].outcome = ends]) = n
      BY <1>2, <1>4, SomeSession
    <2> QED BY <1>3, <2>1, <2>2
  <1> HIDE DEF n, k, m
  <1>8. turn' \in TurnType(n, k, m)
    BY <1>1, <1>2, <1>3, GoTyped
  <1> QED BY <1>1, <1>3, <1>6, <1>7, <1>8, TypeOKNext DEF RunEndedShort, Typed, n, k, m

-----------------------------------------------------------------------------
(* What the owner changes *)

LEMMA AskTyped ==
  ASSUME TypeOK
  PROVE  LET A == AskType(Len(session), Len(task), Len(run)) IN
         /\ Awaiting("start", 0, 0, 0) \in A
         /\ \A s \in 1..Len(session) : Awaiting("generate", s, 0, 0) \in A /\ Awaiting("assess", s, 0, 0) \in A
         /\ \A s \in 1..Len(session), t \in 1..Len(task), i \in Nat : task[t].run # 0 =>
              /\ Awaiting("recover", s, t, i) \in A /\ Awaiting("retry", s, t, i) \in A
              /\ Awaiting("reassess", s, t, i) \in A
  <1>1. \A t \in 1..Len(task) : t # 0 /\ (task[t].run # 0 => task[t].run \in 1..Len(run))
    <2>1. Len(task) \in Nat
      BY DEF TypeOK
    <2> QED BY <2>1, TaskFields
  <1> QED BY <1>1 DEF Awaiting, AskType

LEMMA OnlyAskingTypes ==
  ASSUME TypeOK, asking' \subseteq AskType(Len(session), Len(task), Len(run)),
         UNCHANGED <<saved, exec, covering, inbox, turn, loop, up, crashes>>
  PROVE  TypeOK'
  BY TypedNow, TypeOKNext DEF Typed, saved

LEMMA AwaitTypes ==
  ASSUME TypeOK, NEW a \in AskType(Len(session), Len(task), Len(run)), Await(a)
  PROVE  TypeOK'
  <1>1. asking \subseteq AskType(Len(session), Len(task), Len(run))
    BY DEF TypeOK, MemoryType
  <1>2. asking' = asking \cup {a}
    BY DEF Await
  <1>3. asking' \subseteq AskType(Len(session), Len(task), Len(run))
    BY <1>1, <1>2
  <1> QED BY <1>3, OnlyAskingTypes DEF Await

LEMMA StartAskTypes == TypeOK /\ StartAsk => TypeOK'
  BY AskTyped, AwaitTypes DEF StartAsk

LEMMA GenerateAskTypes == ASSUME TypeOK, NEW s \in Sessions, GenerateAsk(s) PROVE TypeOK'
  <1>1. s \in 1..Len(session)
    BY DEF TypeOK, Sessions
  <1>2. Awaiting("generate", s, 0, 0) \in AskType(Len(session), Len(task), Len(run))
    BY <1>1, AskTyped
  <1> QED BY <1>2, AwaitTypes DEF GenerateAsk

LEMMA AssessAskTypes == ASSUME TypeOK, NEW s \in Sessions, AssessAsk(s) PROVE TypeOK'
  <1>1. s \in 1..Len(session)
    BY DEF TypeOK, Sessions
  <1>2. Awaiting("assess", s, 0, 0) \in AskType(Len(session), Len(task), Len(run))
    BY <1>1, AskTyped
  <1> QED BY <1>2, AwaitTypes DEF AssessAsk

LEMMA ReassessAskTypes == ASSUME TypeOK, NEW t \in DOMAIN task, ReassessAsk(t) PROVE TypeOK'
  <1>1. t \in 1..Len(task)
    BY DEF TypeOK
  <1>2. task[t].session \in 1..Len(session) /\ 0 \in Nat
    BY <1>1, TaskFields
  <1>3. Awaiting("reassess", task[t].session, t, 0) \in AskType(Len(session), Len(task), Len(run))
    BY <1>1, <1>2, AskTyped DEF ReassessAsk
  <1> QED BY <1>3, AwaitTypes DEF ReassessAsk

LEMMA LatestIs ==
  ASSUME TypeOK, NEW r \in 1..Len(run)
  PROVE  Latest(r) \subseteq DOMAIN run[r].calls /\ Latest(r) \subseteq Nat
  <1>1. run[r].calls \in Seq(CallType)
    BY RunFields
  <1>2. DOMAIN run[r].calls \subseteq Nat
    BY <1>1
  <1> QED BY <1>2 DEF Latest, Unresolved

LEMMA RetryAskTypes == ASSUME TypeOK, NEW t \in DOMAIN task, RetryAsk(t) PROVE TypeOK'
  <1> DEFINE n == Len(session) k == Len(task) m == Len(run) r == task[t].run s == task[t].session
  <1>1. t \in 1..k /\ r # 0
    BY DEF TypeOK, RetryAsk, MayRetry
  <1>2. s \in 1..n /\ r \in 1..m
    BY <1>1, TaskFields
  <1>3. PICK i \in Latest(r) :
          \/ /\ run' = [run EXCEPT ![r].acked = @ \cup {i}]
             /\ UNCHANGED <<session, task, exec, covering, inbox, turn, loop, asking, up, crashes>>
          \/ Await(Awaiting("recover", s, t, i)) \/ Await(Awaiting("retry", s, t, i))
    BY DEF RetryAsk
  <1>4. i \in Nat
    BY <1>2, LatestIs
  <1> HIDE DEF r, s
  <1>5. CASE Await(Awaiting("recover", s, t, i)) \/ Await(Awaiting("retry", s, t, i))
    <2>1. Awaiting("recover", s, t, i) \in AskType(n, k, m) /\ Awaiting("retry", s, t, i) \in AskType(n, k, m)
      BY <1>1, <1>2, <1>4, AskTyped DEF r
    <2> QED BY <1>5, <2>1, AwaitTypes
  <1>6. CASE /\ run' = [run EXCEPT ![r].acked = @ \cup {i}]
             /\ UNCHANGED <<session, task, exec, covering, inbox, turn, loop, asking, up, crashes>>
    <2> DEFINE x == [run[r] EXCEPT !.acked = @ \cup {i}]
    <2>1. run \in Seq(RunType(n)) /\ run[r] \in RunType(n) /\ run[r].acked \subseteq Nat
      BY <1>2, RunFields DEF TypeOK
    <2>2. x \in RunType(n)
      BY <1>4, <2>1 DEF RunType
    <2>3. run' = [run EXCEPT ![r] = x]
      BY <1>2, <1>6, <2>1
    <2> HIDE DEF x
    <2>4. run' \in Seq(RunType(n)) /\ Len(run') = m
      BY <1>2, <2>1, <2>2, <2>3, RunTyped
    <2> QED BY <1>6, <2>4, OnlyRunTypes DEF memory
  <1> QED BY <1>3, <1>5, <1>6

LEMMA RefuseTypes == ASSUME TypeOK, NEW a \in asking, Refuse(a) PROVE TypeOK'
  <1>1. asking' \subseteq AskType(Len(session), Len(task), Len(run))
    BY DEF TypeOK, MemoryType, Refuse
  <1> QED BY <1>1, OnlyAskingTypes DEF Refuse

LEMMA ReviseOnlyTypes == ASSUME TypeOK, NEW s \in Sessions, ReviseOnly(s) PROVE TypeOK'
  <1>1. s \in 1..Len(session)
    BY DEF TypeOK, Sessions
  <1>2. asking' \subseteq AskType(Len(session), Len(task), Len(run))
    BY <1>1, SomeSession DEF ReviseOnly
  <1> QED BY <1>2, OnlyAskingTypes DEF ReviseOnly

LEMMA PauseTypes == ASSUME TypeOK, NEW s \in Sessions, Pause(s) PROVE TypeOK'
  <1> DEFINE n == Len(session) k == Len(task) m == Len(run)
  <1>1. s \in 1..n
    BY DEF TypeOK, Sessions
  <1>2. session' = [session EXCEPT ![s].state = "pause-requested"] /\ asking' = Stale(s)
    BY DEF Pause, Put
  <1>3. "pause-requested" \in SessionStates
    BY DEF SessionStates, Busy
  <1>4. session' \in Seq(SessionType) /\ Len(session') = n /\ asking' \subseteq AskType(n, k, m)
    BY <1>1, <1>2, <1>3, SomeSession
  <1>5. Typed(n, k, m)
    BY TypedNow
  <1> HIDE DEF n, k, m
  <1> QED BY <1>4, <1>5, TypeOKNext DEF Pause, Typed, n, k, m

\* A command that is admitted: what it is about.
LEMMA AskFields ==
  ASSUME TypeOK, NEW a \in asking
  PROVE  /\ a \in AskType(Len(session), Len(task), Len(run)) /\ a.attempt \in Nat
         /\ a.do \in {"generate", "assess", "recover", "retry", "reassess"} => a.session \in 1..Len(session)
         /\ a.do \in {"recover", "retry", "reassess"} => a.task \in 1..Len(task) /\ a.run \in 1..Len(run)
  <1>1. a \in AskType(Len(session), Len(task), Len(run))
    BY DEF TypeOK, MemoryType
  <1> QED BY <1>1 DEF AskType

LEMMA AnsweredTyped ==
  ASSUME TypeOK, NEW a, NEW s \in 1..Len(session), Answered(a, s)
  PROVE  asking' \subseteq AskType(Len(session), Len(task), Len(run))
  BY SomeSession DEF Answered

LEMMA NewSessionTyped ==
  ASSUME NEW c \in Contract, NEW p \in Nat
  PROVE  NewSession(c) \in SessionType /\ [NewSession(c) EXCEPT !.problems = p] \in SessionType
  BY DEF NewSession, SessionType, Busy

LEMMA SessionAdded ==
  ASSUME TypeOK, NEW x \in SessionType
  PROVE  Append(session, x) \in Seq(SessionType) /\ Len(Append(session, x)) = Len(session) + 1
  BY DEF TypeOK

\* A task is added, to a session that is there or to a new one, and dispatched.
LEMMA DispatchedTypes ==
  ASSUME TypeOK, NEW n \in Nat, Len(session) <= n, session' \in Seq(SessionType), Len(session') = n,
         NEW x \in TaskType(n, Len(run)), task' = Append(task, x),
         asking' \subseteq AskType(Len(session), Len(task), Len(run)), turn' = <<Step("dispatch", Len(task) + 1)>>,
         UNCHANGED <<run, exec, covering, inbox, loop, up, crashes>>
  PROVE  TypeOK'
  <1> DEFINE n0 == Len(session) k == Len(task) m == Len(run)
  <1>1. Typed(n0, k, m)
    BY TypedNow
  <1>2. k \in Nat /\ k + 1 \in Nat /\ m \in Nat /\ k <= k /\ k <= k + 1 /\ m <= m /\ k + 1 \in 1..k + 1
    BY <1>1 DEF Typed
  <1>3. n0 <= n
    OBVIOUS
  <1>4. task' \in Seq(TaskType(n, m)) /\ Len(task') = k + 1
    <2>1. Seq(TaskType(n0, m)) \subseteq Seq(TaskType(n, m))
      <3> HIDE DEF n0, k, m
      <3> QED BY <1>1, <1>2, <1>3, TypedMore
    <2>2. task \in Seq(TaskType(n, m))
      BY <1>1, <2>1 DEF Typed
    <2> QED BY <2>2
  <1> HIDE DEF n0, k, m
  <1>5. AskType(n0, k, m) \subseteq AskType(n, k + 1, m)
    BY <1>1, <1>2, <1>3, TypedMore
  <1>6. turn' \in TurnType(n, k + 1, m)
    <2>1. Step("dispatch", k + 1) \in StepType(n, k + 1, m)
      BY <1>2, StepsTyped DEF TaskSteps
    <2>2. turn' = <<Step("dispatch", k + 1)>>
      BY DEF k
    <2> QED BY <2>1, <2>2, NowTyped
  <1>7. covering' \subseteq 1..k + 1 /\ up' \in {"down", "starting", "up"}
    BY <1>1, <1>2 DEF Typed
  <1>8. asking' \subseteq AskType(n, k + 1, m)
    BY <1>5 DEF n0, k, m
  <1> QED BY <1>2, <1>3, <1>4, <1>6, <1>7, <1>8, TypeOKMore DEF n0, k, m

LEMMA StartTypes == ASSUME TypeOK, NEW a \in asking, Start(a) PROVE TypeOK'
  <1> DEFINE n == Len(session) k == Len(task) m == Len(run)
  <1>1. Typed(n, k, m)
    BY TypedNow
  <1>2. n + 1 \in Nat /\ m \in Nat /\ n + 1 \in 1..n + 1 /\ n <= n + 1
    BY <1>1 DEF Typed
  <1>3. PICK c \in Contracts, kind \in TaskKinds :
          session' = Append(session, NewSession(c)) /\ task' = Append(task, NewTask(n + 1, kind))
    BY DEF Start, TaskKinds, Runnable
  <1> DEFINE x == NewTask(n + 1, kind)
  <1>4. x \in TaskType(n + 1, m)
    <2> HIDE DEF n, m
    <2> QED BY <1>2, <1>3, NewTaskTyped
  <1>5. session' \in Seq(SessionType) /\ Len(session') = n + 1
    <2>1. c \in Contract /\ 0 \in Nat
      BY ContractsAssumption
    <2>2. NewSession(c) \in SessionType
      BY <2>1, NewSessionTyped
    <2> QED BY <1>3, <2>2, SessionAdded
  <1>6. asking' \subseteq AskType(n, k, m)
    BY <1>1 DEF Start, Typed
  <1> HIDE DEF x
  <1>7. task' = Append(task, x) /\ turn' = <<Step("dispatch", k + 1)>>
    BY <1>3 DEF Start, Now, x
  <1> QED BY <1>2, <1>4, <1>5, <1>6, <1>7, DispatchedTypes DEF Start

LEMMA AdmitTypes ==
  ASSUME TypeOK, NEW s \in Sessions, NEW x \in TaskType(Len(session), Len(run)), NEW frame \in {"approved", "draft"},
         Admit(s, x, frame)
  PROVE  TypeOK'
  <1> DEFINE n == Len(session) k == Len(task)
  <1>1. s \in 1..n /\ n \in Nat /\ n <= n
    BY DEF TypeOK, Sessions
  <1>2. session' \in Seq(SessionType) /\ Len(session') = n
    <2> DEFINE y == [session[s] EXCEPT !.state = "running", !.frame = frame]
    <2>1. session \in Seq(SessionType) /\ session[s] \in SessionType
      BY <1>1, SomeSession
    <2>2. y \in SessionType
      BY <2>1 DEF SessionType, Busy
    <2>3. session' = [session EXCEPT ![s] = y]
      BY <1>1, <2>1 DEF Admit
    <2> HIDE DEF y
    <2> QED BY <1>1, <2>1, <2>2, <2>3, SessionTyped
  <1>3. asking' \subseteq AskType(n, k, Len(run))
    BY <1>1, SomeSession DEF Admit
  <1>4. task' = Append(task, x) /\ turn' = <<Step("dispatch", k + 1)>>
    BY DEF Admit, Now
  <1> QED BY <1>1, <1>2, <1>3, <1>4, DispatchedTypes DEF Admit

LEMMA FrameTypes ==
  ASSUME TypeOK, NEW s \in Sessions, ApproveFrame(s) \/ RegenerateFrame(s)
  PROVE  TypeOK'
  <1> DEFINE n == Len(session) m == Len(run) x == ResearchTask(s) y == NewTask(s, "frame")
  <1>1. s \in 1..n /\ n \in Nat /\ m \in Nat
    BY DEF TypeOK, Sessions
  <1>2. x \in TaskType(n, m) /\ y \in TaskType(n, m)
    <2>1. "frame" \in TaskKinds
      BY DEF TaskKinds, Runnable
    <2> HIDE DEF n, m
    <2> QED BY <1>1, <2>1, ResearchTaskTyped, NewTaskTyped
  <1>3. Admit(s, x, "approved") \/ Admit(s, y, "draft")
    BY DEF ApproveFrame, RegenerateFrame
  <1> HIDE DEF x, y
  <1> QED BY <1>2, <1>3, AdmitTypes

LEMMA GenerateTypes == ASSUME TypeOK, NEW a \in asking, Generate(a) PROVE TypeOK'
  <1> DEFINE n == Len(session) k == Len(task) m == Len(run) s == a.session more == AdmitIdeas(s)
  <1>1. Typed(n, k, m)
    BY TypedNow
  <1>2. s \in 1..n
    BY AskFields DEF Generate, Admitting
  <1>3. /\ task' = task \o more /\ session' = [session EXCEPT ![s].state = "running"]
        /\ turn' = <<Step("next", s)>> /\ Answered(a, s)
    BY DEF Generate, Now
  <1>4. more \in Seq(TaskType(n, m))
    BY <1>1, <1>2, AdmitIdeasTyped DEF Typed
  <1> HIDE DEF more, s
  <1>5. task' \in Seq(TaskType(n, m)) /\ Len(task') = k + Len(more) /\ Len(more) \in Nat
    BY <1>3, <1>4, TasksAdded
  <1>6. session' \in Seq(SessionType) /\ Len(session') = n
    <2>1. "running" \in SessionStates
      BY DEF SessionStates, Busy
    <2> QED BY <1>2, <1>3, <2>1, SomeSession
  <1>7. asking' \subseteq AskType(n, k, m)
    BY <1>2, <1>3, AnsweredTyped
  <1> HIDE DEF n, k, m
  <1> DEFINE k2 == k + Len(more)
  <1>8. n \in Nat /\ k2 \in Nat /\ m \in Nat /\ n <= n /\ k <= k2 /\ m <= m
    BY <1>1, <1>5 DEF Typed
  <1> HIDE DEF k2
  <1>9. Typed(n, k2, m) /\ AskType(n, k, m) \subseteq AskType(n, k2, m)
    BY <1>1, <1>8, TypedMore
  <1>10. turn' \in TurnType(n, k2, m)
    <2>1. Step("next", s) \in StepType(n, k2, m)
      BY <1>2, <1>8, StepsTyped DEF SessionSteps
    <2> QED BY <1>3, <2>1, NowTyped
  <1>11. asking' \subseteq AskType(n, k2, m)
    BY <1>7, <1>9
  <1> QED BY <1>5, <1>6, <1>8, <1>9, <1>10, <1>11, TypeOKNext DEF Generate, Typed, k2, m

\* The session of a task is reopened.
LEMMA ReopenedTyped ==
  ASSUME TypeOK, NEW s \in 1..Len(session)
  PROVE  /\ [session EXCEPT ![s].state = "running", ![s].outcome = "none"] \in Seq(SessionType)
         /\ Len([session EXCEPT ![s].state = "running", ![s].outcome = "none"]) = Len(session)
         /\ [session EXCEPT ![s].state = "running", ![s].outcome = "none", ![s].reassessed = TRUE] \in Seq(SessionType)
         /\ Len([session EXCEPT ![s].state = "running", ![s].outcome = "none", ![s].reassessed = TRUE]) = Len(session)
  <1> DEFINE x == [session[s] EXCEPT !.state = "running", !.outcome = "none"]
             y == [session[s] EXCEPT !.state = "running", !.outcome = "none", !.reassessed = TRUE]
  <1>1. session \in Seq(SessionType) /\ session[s] \in SessionType
    BY SomeSession
  <1>2. x \in SessionType /\ y \in SessionType
    BY <1>1 DEF SessionType, Busy
  <1>3. /\ [session EXCEPT ![s].state = "running", ![s].outcome = "none"] = [session EXCEPT ![s] = x]
        /\ [session EXCEPT ![s].state = "running", ![s].outcome = "none", ![s].reassessed = TRUE] = [session EXCEPT ![s] = y]
    BY <1>1
  <1> HIDE DEF x, y
  <1>4. /\ [session EXCEPT ![s] = x] \in Seq(SessionType) /\ Len([session EXCEPT ![s] = x]) = Len(session)
        /\ [session EXCEPT ![s] = y] \in Seq(SessionType) /\ Len([session EXCEPT ![s] = y]) = Len(session)
    BY <1>1, <1>2, SessionTyped
  <1> QED BY <1>3, <1>4

LEMMA RecoverTypes == ASSUME TypeOK, NEW a \in asking, Recover(a) PROVE TypeOK'
  <1> DEFINE n == Len(session) k == Len(task) m == Len(run) s == a.session t == a.task r == a.run i == a.attempt
  <1>1. Typed(n, k, m)
    BY TypedNow
  <1>2. s \in 1..n /\ t \in 1..k /\ r \in 1..m /\ i \in Nat
    BY AskFields DEF Recover, Admitting
  <1>3. /\ task' = [task EXCEPT ![t].state = "running"]
        /\ session' = [session EXCEPT ![s].state = "running", ![s].outcome = "none"]
        /\ turn' = <<Step("recover", r)>> /\ Answered(a, s)
        /\ run' = [run EXCEPT ![r].acked = @ \cup {i}]
    BY DEF Recover, Reopen, Now
  <1> HIDE DEF s, t, r, i
  <1>4. task' \in Seq(TaskType(n, m)) /\ Len(task') = k
    <2>1. "running" \in TaskStates
      BY DEF TaskStates
    <2> QED BY <1>2, <1>3, <2>1, SomeTask
  <1>5. session' \in Seq(SessionType) /\ Len(session') = n
    BY <1>2, <1>3, ReopenedTyped
  <1>6. asking' \subseteq AskType(n, k, m)
    BY <1>2, <1>3, AnsweredTyped
  <1>7. run' \in Seq(RunType(n)) /\ Len(run') = m
    <2> DEFINE x == [run[r] EXCEPT !.acked = @ \cup {i}]
    <2>1. run \in Seq(RunType(n)) /\ run[r] \in RunType(n) /\ run[r].acked \subseteq Nat
      BY <1>2, RunFields DEF TypeOK
    <2>2. x \in RunType(n)
      BY <1>2, <2>1 DEF RunType
    <2>3. run' = [run EXCEPT ![r] = x]
      BY <1>2, <1>3, <2>1
    <2> HIDE DEF x
    <2> QED BY <1>2, <2>1, <2>2, <2>3, RunTyped
  <1> HIDE DEF n, k, m
  <1>8. turn' \in TurnType(n, k, m)
    <2>1. Step("recover", r) \in StepType(n, k, m)
      BY <1>1, <1>2, StepsTyped DEF RunSteps, Typed
    <2> QED BY <1>3, <2>1, NowTyped
  <1> QED BY <1>1, <1>4, <1>5, <1>6, <1>7, <1>8, TypeOKNext DEF Recover, Typed, n, k, m

LEMMA ReassessTypes == ASSUME TypeOK, NEW a \in asking, Reassess(a) PROVE TypeOK'
  <1> DEFINE n == Len(session) k == Len(task) m == Len(run) s == a.session t == a.task r == a.run
  <1>1. Typed(n, k, m)
    BY TypedNow
  <1>2. s \in 1..n /\ t \in 1..k /\ r \in 1..m
    BY AskFields DEF Reassess, Admitting
  <1>3. /\ task' = [task EXCEPT ![t].state = "running"]
        /\ session' = [session EXCEPT ![s].state = "running", ![s].outcome = "none", ![s].reassessed = TRUE]
        /\ turn' = <<Step("reassess", r)>> /\ Answered(a, s)
    BY DEF Reassess, Now
  <1> HIDE DEF s, t, r
  <1>4. task' \in Seq(TaskType(n, m)) /\ Len(task') = k
    <2>1. "running" \in TaskStates
      BY DEF TaskStates
    <2> QED BY <1>2, <1>3, <2>1, SomeTask
  <1>5. session' \in Seq(SessionType) /\ Len(session') = n
    BY <1>2, <1>3, ReopenedTyped
  <1>6. asking' \subseteq AskType(n, k, m)
    BY <1>2, <1>3, AnsweredTyped
  <1> HIDE DEF n, k, m
  <1>7. turn' \in TurnType(n, k, m)
    <2>1. Step("reassess", r) \in StepType(n, k, m)
      BY <1>1, <1>2, StepsTyped DEF RunSteps, Typed
    <2> QED BY <1>3, <2>1, NowTyped
  <1> QED BY <1>1, <1>4, <1>5, <1>6, <1>7, TypeOKNext DEF Reassess, Typed, n, k, m

LEMMA AssessTypes == ASSUME TypeOK, NEW a \in asking, Assess(a) PROVE TypeOK'
  <1> DEFINE n == Len(session) k == Len(task) m == Len(run) s == a.session
             c == [session[s].contract EXCEPT !.mode = "babysit", !.purpose = "research-followup"]
             p == session[s].problems
  <1>1. Typed(n, k, m)
    BY TypedNow
  <1>2. s \in 1..n /\ n \in Nat /\ m \in Nat /\ n + 1 \in Nat /\ n <= n /\ n <= n + 1 /\ n + 1 \in 1..n + 1
    BY <1>1, AskFields DEF Assess, Admitting, Typed
  <1>3. session[s] \in SessionType /\ c \in Contract /\ p \in Nat
    <2>1. session[s] \in SessionType
      BY <1>2, SomeSession
    <2> QED BY <2>1 DEF SessionType, Contract
  <1>4. "assess" \in TaskKinds
    BY DEF TaskKinds, Runnable
  <1>5. turn' = <<Step("dispatch", k + 1)>>
    BY DEF Assess, Now
  <1>6. CASE session[s].state = "finished"
    <2> DEFINE x == NewTask(n + 1, "assess")
    <2>1. /\ session' = Append(session, [NewSession(c) EXCEPT !.problems = p])
          /\ task' = Append(task, x) /\ asking' = asking \ {a}
      BY <1>6 DEF Assess
    <2> HIDE DEF c, p
    <2>2. session' \in Seq(SessionType) /\ Len(session') = n + 1
      <3>1. [NewSession(c) EXCEPT !.problems = p] \in SessionType
        BY <1>3, NewSessionTyped
      <3> QED BY <2>1, <3>1, SessionAdded
    <2>3. x \in TaskType(n + 1, m)
      <3> HIDE DEF n, m
      <3> QED BY <1>2, <1>4, NewTaskTyped
    <2>4. asking' \subseteq AskType(n, k, m)
      BY <1>1, <2>1 DEF Typed
    <2> HIDE DEF x
    <2> QED BY <1>2, <1>5, <2>1, <2>2, <2>3, <2>4, DispatchedTypes DEF Assess
  <1>7. CASE session[s].state # "finished"
    <2> DEFINE x == NewTask(s, "assess")
    <2>1. /\ session' = [session EXCEPT ![s].state = "running"]
          /\ task' = Append(task, x) /\ Answered(a, s)
      BY <1>7 DEF Assess
    <2> HIDE DEF s
    <2>2. session' \in Seq(SessionType) /\ Len(session') = n
      <3>1. "running" \in SessionStates
        BY DEF SessionStates, Busy
      <3> QED BY <1>2, <2>1, <3>1, SomeSession
    <2>3. x \in TaskType(n, m)
      <3> HIDE DEF n, m
      <3> QED BY <1>2, <1>4, NewTaskTyped
    <2>4. asking' \subseteq AskType(n, k, m)
      BY <1>2, <2>1, AnsweredTyped
    <2> HIDE DEF x
    <2> QED BY <1>2, <1>5, <2>1, <2>2, <2>3, <2>4, DispatchedTypes DEF Assess
  <1> QED BY <1>6, <1>7

LEMMA RetryTypes == ASSUME TypeOK, NEW a \in asking, Retry(a) PROVE TypeOK'
  <1> DEFINE n == Len(session) k == Len(task) m == Len(run) s == a.session t == a.task new == n + 1
             p == IF task[t].kind = "ideas" THEN session[s].problems ELSE 0
             ids == {u \in OfKind(s, {"ideas"}) : u = t \/ task[u].state \in {"succeeded", "ready"} \/ task[u].deferred}
             ideas == InOrder(ids)
             Carried(u) == [NewTask(new, "ideas") EXCEPT !.problem = task[u].problem, !.round = task[u].round,
                              !.parallel = task[u].parallel, !.out = task[u].out,
                              !.state = IF task[u].state = "succeeded" THEN "succeeded" ELSE "ready",
                              !.retryOf = IF u = t THEN t ELSE 0]
             more == [i \in DOMAIN ideas |-> Carried(ideas[i])]
             one == [NewTask(new, task[t].kind) EXCEPT !.retryOf = t]
  <1>1. Typed(n, k, m)
    BY TypedNow
  <1>2. s \in 1..n /\ t \in 1..k /\ n \in Nat /\ m \in Nat /\ k \in Nat /\ n + 1 \in Nat /\ n <= n + 1 /\ n + 1 \in 1..n + 1
    <2>1. s \in 1..n /\ t \in 1..k
      BY AskFields DEF Retry, Admitting
    <2>2. n \in Nat /\ m \in Nat /\ k \in Nat
      BY <1>1 DEF Typed
    <2> HIDE DEF n, k, m, s, t
    <2> QED BY <2>1, <2>2
  <1>3. session[s] \in SessionType /\ session[s].contract \in Contract /\ p \in Nat
    <2>1. session[s] \in SessionType
      BY <1>2, SomeSession
    <2> QED BY <2>1 DEF SessionType
  <1>4. /\ session' = Append(session, [NewSession(session[s].contract) EXCEPT !.problems = p])
        /\ \/ task' = task \o more /\ turn' = <<Step("next", new)>>
           \/ task' = Append(task, one) /\ turn' = <<Step("dispatch", k + 1)>>
        /\ asking' = asking \ {a}
    BY DEF Retry, Now
  <1>5. \A u \in 1..k : task[u] \in TaskType(n, m)
    BY <1>1 DEF Typed
  <1>6. one \in TaskType(n + 1, m)
    <2>1. task[t].kind \in TaskKinds /\ t \in Nat
      BY <1>2, <1>5 DEF TaskType, TaskKinds
    <2> HIDE DEF n, m, t
    <2> QED BY <1>2, <2>1, NewTaskTyped
  <1>7. \A u \in 1..k : Carried(u) \in TaskType(n + 1, m)
    <2> SUFFICES ASSUME NEW u \in 1..k PROVE Carried(u) \in TaskType(n + 1, m)
      OBVIOUS
    <2> DEFINE x == NewTask(new, "ideas") st == IF task[u].state = "succeeded" THEN "succeeded" ELSE "ready"
               of == IF u = t THEN t ELSE 0 par == task[u].parallel out == task[u].out
               problem == task[u].problem round == task[u].round
    <2>1. problem \in Nat /\ round \in Nat /\ par \in BOOLEAN /\ out \in BOOLEAN
      <3>1. task[u] \in TaskType(n, m)
        BY <1>5
      <3> QED BY <3>1 DEF TaskType
    <2>2. of \in Nat /\ st \in TaskStates /\ "ideas" \in TaskKinds
      BY <1>2 DEF TaskStates, Settled, TaskKinds, Runnable
    <2>3. x \in TaskType(n + 1, m)
      <3> HIDE DEF n, m
      <3> QED BY <1>2, <2>2, NewTaskTyped
    <2> HIDE DEF x, st, of, par, out, problem, round
    <2>4. [x EXCEPT !.problem = problem, !.round = round, !.parallel = par, !.out = out, !.state = st, !.retryOf = of]
            \in TaskType(n + 1, m)
      BY <2>1, <2>2, <2>3 DEF TaskType, TaskStates
    <2> QED BY <2>4 DEF x, st, of, par, out, problem, round
  <1> HIDE DEF Carried
  <1>8. more \in Seq(TaskType(n + 1, m)) /\ Len(more) \in Nat
    <2>1. ids \subseteq 1..k
      BY <1>1 DEF OfKind, TasksOf, Typed
    <2> HIDE DEF ids, k
    <2>2. ideas \in Seq(ids)
      BY <1>2, <2>1, InOrderIsSeq
    <2> HIDE DEF ideas
    <2>3. Len(ideas) \in Nat /\ DOMAIN ideas = 1..Len(ideas) /\ \A i \in 1..Len(ideas) : ideas[i] \in 1..k
      <3>1. Len(ideas) \in Nat /\ DOMAIN ideas = 1..Len(ideas) /\ \A i \in 1..Len(ideas) : ideas[i] \in ids
        BY <2>2
      <3> QED BY <2>1, <3>1
    <2>4. more \in [1..Len(ideas) -> TaskType(n + 1, m)]
      BY <1>7, <2>3
    <2> HIDE DEF more
    <2> QED BY <2>3, <2>4, FunTyped
  <1> HIDE DEF more, one, p, ids, ideas
  <1>9. session' \in Seq(SessionType) /\ Len(session') = n + 1
    <2>1. [NewSession(session[s].contract) EXCEPT !.problems = p] \in SessionType
      BY <1>3, NewSessionTyped
    <2> QED BY <1>4, <2>1, SessionAdded
  <1>10. asking' \subseteq AskType(n, k, m)
    BY <1>1, <1>4 DEF Typed
  <1>11. CASE task' = Append(task, one) /\ turn' = <<Step("dispatch", k + 1)>>
    BY <1>2, <1>6, <1>9, <1>10, <1>11, DispatchedTypes DEF Retry
  <1>12. CASE task' = task \o more /\ turn' = <<Step("next", new)>>
    <2> DEFINE k2 == k + Len(more)
    <2>1. k2 \in Nat /\ k <= k2 /\ m <= m
      BY <1>2, <1>8
    <2>2. Seq(TaskType(n, m)) \subseteq Seq(TaskType(n + 1, m))
      <3> HIDE DEF n, k, m, k2
      <3> QED BY <1>1, <1>2, <2>1, TypedMore
    <2>3. task' \in Seq(TaskType(n + 1, m)) /\ Len(task') = k2
      <3> DEFINE T == TaskType(n + 1, m)
      <3>1. task \in Seq(T) /\ more \in Seq(T) /\ Len(task) = k
        BY <1>1, <1>8, <2>2 DEF Typed
      <3> HIDE DEF T, n, m
      <3>2. task' \in Seq(T) /\ Len(task') = k2
        BY <1>12, <3>1
      <3> QED BY <3>2 DEF T
    <2> HIDE DEF n, k, m, k2
    <2>4. AskType(n, k, m) \subseteq AskType(n + 1, k2, m)
      BY <1>1, <1>2, <2>1, TypedMore
    <2>5. turn' \in TurnType(n + 1, k2, m)
      <3>1. Step("next", n + 1) \in StepType(n + 1, k2, m)
        BY <1>2, <2>1, StepsTyped DEF SessionSteps
      <3> QED BY <1>12, <3>1, NowTyped
    <2>6. covering' \subseteq 1..k2 /\ up' \in {"down", "starting", "up"} /\ asking' \subseteq AskType(n + 1, k2, m)
      <3>1. 1..k \subseteq 1..k2
        BY <1>2, <2>1
      <3> QED BY <1>1, <1>10, <2>4, <3>1 DEF Retry, Typed
    <2> QED BY <1>2, <1>9, <2>1, <2>3, <2>5, <2>6, TypeOKMore DEF Retry, n, k, m
  <1> QED BY <1>4, <1>11, <1>12

\* The runs of a session's tasks, one after the other.
LEMMA RunsOfTyped ==
  ASSUME TypeOK, NEW s, NEW statuses
  PROVE  RunsOf(s, statuses) \in Seq(1..Len(run))
  <1> DEFINE ids == {t \in Running(s) : task[t].run # 0 /\ run[task[t].run].status \in statuses}
             linked == InOrder(ids) k == Len(task) runs == [i \in DOMAIN linked |-> task[linked[i]].run]
  <1>1. k \in Nat /\ ids \subseteq 1..k
    BY DEF TypeOK, Running, TasksOf
  <1>2. \A t \in ids : task[t].run \in 1..Len(run)
    <2>1. \A t \in ids : t \in 1..k /\ task[t].run # 0
      BY <1>1
    <2> QED BY <2>1, TaskFields
  <1>3. RunsOf(s, statuses) = runs
    BY DEF RunsOf
  <1> HIDE DEF ids, k
  <1>4. linked \in Seq(ids)
    BY <1>1, InOrderIsSeq
  <1> HIDE DEF linked
  <1>5. Len(linked) \in Nat /\ DOMAIN linked = 1..Len(linked) /\ \A i \in 1..Len(linked) : linked[i] \in ids
    BY <1>4
  <1>6. runs \in [1..Len(linked) -> 1..Len(run)]
    BY <1>2, <1>5
  <1> HIDE DEF runs
  <1> QED BY <1>3, <1>5, <1>6, FunTyped

LEMMA ResumeSavedTypes == ASSUME TypeOK, NEW s \in Sessions, ResumeSaved(s) PROVE TypeOK'
  <1> DEFINE n == Len(session) k == Len(task) m == Len(run) again == RunsOf(s, {"running"}) over == RunsOf(s, {"completed"})
  <1>1. Typed(n, k, m)
    BY TypedNow
  <1>2. s \in 1..n
    BY DEF TypeOK, Sessions
  <1>3. again \in Seq(1..m) /\ over \in Seq(1..m)
    BY RunsOfTyped
  <1>4. /\ turn' = Each("resume", Lead(again)) \o Each("completed", over)
        /\ loop' = IF again = <<>> THEN <<>> ELSE Each("resume", Tail(again))
        /\ session' = [session EXCEPT ![s].state = "running"] /\ asking' = Stale(s)
    BY DEF ResumeSaved, AfterResume, Put, Now
  <1>5. session' \in Seq(SessionType) /\ Len(session') = n /\ asking' \subseteq AskType(n, k, m)
    <2>1. "running" \in SessionStates
      BY DEF SessionStates, Busy
    <2> QED BY <1>2, <1>4, <2>1, SomeSession
  <1> HIDE DEF n, k, m, again, over
  <1>6. \A r \in 1..m : Step("resume", r) \in StepType(n, k, m) /\ Step("completed", r) \in StepType(n, k, m)
    BY <1>1, StepsTyped DEF RunSteps, Typed
  <1> DEFINE R == 1..m T == StepType(n, k, m)
  <1>7. Lead(again) \in Seq(R) /\ (again # <<>> => Tail(again) \in Seq(R))
    <2> HIDE DEF R
    <2>1. again \in Seq(R)
      BY <1>3 DEF R
    <2> QED BY <2>1 DEF Lead
  <1>8. turn' \in Seq(T)
    <2> DEFINE x == Each("resume", Lead(again)) y == Each("completed", over)
    <2>1. x \in Seq(T)
      BY <1>6, <1>7, EachTyped
    <2>2. y \in Seq(T)
      BY <1>3, <1>6, EachTyped
    <2> HIDE DEF x, y, T
    <2>3. x \o y \in Seq(T)
      BY <2>1, <2>2
    <2> QED BY <1>4, <2>3 DEF x, y
  <1>9. loop' \in Seq(T)
    <2>1. again # <<>> => Each("resume", Tail(again)) \in Seq(T)
      BY <1>6, <1>7, EachTyped
    <2>2. <<>> \in Seq(T)
      OBVIOUS
    <2> HIDE DEF T
    <2> QED BY <1>4, <2>1, <2>2
  <1>10. turn' \in TurnType(n, k, m)
    BY <1>8, StepsAreTurns
  <1> QED BY <1>1, <1>5, <1>9, <1>10, TypeOKNext DEF ResumeSaved, Typed, n, k, m

LEMMA StopTypes == ASSUME TypeOK, NEW s \in Sessions, Stop(s) PROVE TypeOK'
  <1> DEFINE n == Len(session) k == Len(task) m == Len(run) runs == RunsOf(s, RunStates)
             steps == [i \in DOMAIN runs |-> Step(IF i = 1 THEN "cancelFirst" ELSE "cancelNext", runs[i])]
             after == SkipReady(task, s, FALSE)
  <1>1. Typed(n, k, m)
    BY TypedNow
  <1>2. s \in 1..n
    BY DEF TypeOK, Sessions
  <1>3. runs \in Seq(1..m)
    BY RunsOfTyped
  <1>4. /\ task' = task \/ task' = after
        /\ turn' = turn \/ turn' = steps
        /\ \/ session' = [session EXCEPT ![s].state = "stop-requested"]
           \/ session' = [session EXCEPT ![s].state = "finished", ![s].outcome = "cancelled"]
        /\ asking' = Stale(s)
    BY DEF Stop, AfterStop, Put, Outcome, Now
  <1>5. session' \in Seq(SessionType) /\ Len(session') = n /\ asking' \subseteq AskType(n, k, m)
    <2>1. "stop-requested" \in SessionStates /\ "cancelled" \in Outcomes
      BY DEF SessionStates, Busy, Outcomes
    <2>2. /\ Stale(s) \subseteq AskType(n, k, m)
          /\ [session EXCEPT ![s].state = "stop-requested"] \in Seq(SessionType)
          /\ Len([session EXCEPT ![s].state = "stop-requested"]) = n
          /\ [session EXCEPT ![s].state = "finished", ![s].outcome = "cancelled"] \in Seq(SessionType)
          /\ Len([session EXCEPT ![s].state = "finished", ![s].outcome = "cancelled"]) = n
      BY <1>2, <2>1, SomeSession
    <2> QED BY <1>4, <2>2
  <1> HIDE DEF n, k, m, runs
  <1>6. task' \in Seq(TaskType(n, m)) /\ Len(task') = k
    <2>1. task \in Seq(TaskType(n, m)) /\ Len(task) = k
      BY <1>1 DEF Typed, k
    <2>2. after \in Seq(TaskType(n, m)) /\ Len(after) = k
      BY <2>1, TasksSkipped
    <2> QED BY <1>4, <2>1, <2>2
  <1>7. \A r \in 1..m : Step("cancelFirst", r) \in StepType(n, k, m) /\ Step("cancelNext", r) \in StepType(n, k, m)
    BY <1>1, StepsTyped DEF RunSteps, Typed
  <1>8. steps \in Seq(StepType(n, k, m))
    <2>1. Len(runs) \in Nat /\ DOMAIN runs = 1..Len(runs) /\ \A i \in 1..Len(runs) : runs[i] \in 1..m
      <3> DEFINE R == 1..m
      <3>1. runs \in Seq(R)
        BY <1>3
      <3> HIDE DEF R
      <3>2. Len(runs) \in Nat /\ DOMAIN runs = 1..Len(runs) /\ \A i \in 1..Len(runs) : runs[i] \in R
        BY <3>1
      <3> QED BY <3>2 DEF R
    <2>2. steps \in [1..Len(runs) -> StepType(n, k, m)]
      BY <1>7, <2>1
    <2> HIDE DEF steps
    <2> QED BY <2>1, <2>2, FunTyped
  <1> HIDE DEF steps, after
  <1>9. turn' \in TurnType(n, k, m)
    BY <1>1, <1>4, <1>8, StepsAreTurns DEF Typed
  <1> QED BY <1>1, <1>5, <1>6, <1>9, TypeOKNext DEF Stop, Typed, n, k, m

LEMMA ResumeNextTypes == ASSUME TypeOK, NEW s \in Sessions, ResumeNext(s) PROVE TypeOK'
  <1> DEFINE n == Len(session) k == Len(task) m == Len(run) x == ResearchTask(s)
             ready == {t \in OfKind(s, Initial) : task[t].state = "ready"}
  <1>1. Typed(n, k, m)
    BY TypedNow
  <1>2. s \in 1..n /\ n \in Nat /\ k \in Nat /\ m \in Nat /\ n <= n
    BY <1>1 DEF TypeOK, Sessions, Typed
  <1>3. asking' = Stale(s)
    BY DEF ResumeNext, Put
  <1>4. asking' \subseteq AskType(n, k, m)
    BY <1>2, <1>3, SomeSession
  <1>5. \/ /\ task' = task
           /\ \/ session' = [session EXCEPT ![s].state = "running"]
              \/ session' = [session EXCEPT ![s].state = "waiting-for-review"]
           /\ \/ turn' = turn \/ turn' = <<Step("next", s)>> \/ turn' = <<Step("plan", s)>>
              \/ ready # {} /\ turn' = <<Step("dispatch", First(ready))>>
        \/ /\ task' = Append(task, x)
           /\ session' = [session EXCEPT ![s].state = "running", ![s].frame = "approved"]
           /\ turn' = <<Step("dispatch", k + 1)>>
    BY DEF ResumeNext, Put, Now
  <1>6. CASE /\ task' = Append(task, x)
             /\ session' = [session EXCEPT ![s].state = "running", ![s].frame = "approved"]
             /\ turn' = <<Step("dispatch", k + 1)>>
    <2>1. session' \in Seq(SessionType) /\ Len(session') = n
      <3> DEFINE y == [session[s] EXCEPT !.state = "running", !.frame = "approved"]
      <3>1. session \in Seq(SessionType) /\ session[s] \in SessionType
        BY <1>2, SomeSession
      <3>2. y \in SessionType
        BY <3>1 DEF SessionType, Busy
      <3>3. session' = [session EXCEPT ![s] = y]
        BY <1>2, <1>6, <3>1
      <3> HIDE DEF y
      <3> QED BY <1>2, <3>1, <3>2, <3>3, SessionTyped
    <2>2. x \in TaskType(n, m)
      <3> HIDE DEF n, m
      <3> QED BY <1>2, ResearchTaskTyped
    <2> HIDE DEF x
    <2> QED BY <1>2, <1>4, <1>6, <2>1, <2>2, DispatchedTypes DEF ResumeNext
  <1>7. CASE /\ task' = task
             /\ \/ session' = [session EXCEPT ![s].state = "running"]
                \/ session' = [session EXCEPT ![s].state = "waiting-for-review"]
             /\ \/ turn' = turn \/ turn' = <<Step("next", s)>> \/ turn' = <<Step("plan", s)>>
                \/ ready # {} /\ turn' = <<Step("dispatch", First(ready))>>
    <2>1. session' \in Seq(SessionType) /\ Len(session') = n
      <3>1. "running" \in SessionStates /\ "waiting-for-review" \in SessionStates
        BY DEF SessionStates, Busy
      <3>2. /\ [session EXCEPT ![s].state = "running"] \in Seq(SessionType)
            /\ Len([session EXCEPT ![s].state = "running"]) = n
            /\ [session EXCEPT ![s].state = "waiting-for-review"] \in Seq(SessionType)
            /\ Len([session EXCEPT ![s].state = "waiting-for-review"]) = n
        BY <1>2, <3>1, SomeSession
      <3> QED BY <1>7, <3>2
    <2>2. ready # {} => First(ready) \in 1..k
      <3>1. ready \subseteq 1..k /\ ready \subseteq Nat
        BY <1>1 DEF OfKind, TasksOf, Typed
      <3> HIDE DEF ready
      <3> QED BY <3>1, FirstIsLeast
    <2> HIDE DEF ready, n, k, m
    <2>3. /\ Step("next", s) \in StepType(n, k, m) /\ Step("plan", s) \in StepType(n, k, m)
          /\ ready # {} => Step("dispatch", First(ready)) \in StepType(n, k, m)
      BY <1>2, <2>2, StepsTyped DEF SessionSteps, TaskSteps
    <2>4. turn' \in TurnType(n, k, m)
      BY <1>1, <1>7, <2>3, NowTyped DEF Typed
    <2> QED BY <1>1, <1>4, <1>7, <2>1, <2>4, TypeOKNext DEF ResumeNext, Typed, n, k, m
  <1> QED BY <1>5, <1>6, <1>7

-----------------------------------------------------------------------------
(* What a crash and a restart change *)

LEMMA CrashTypes == TypeOK /\ Crash => TypeOK'
  <1> SUFFICES ASSUME TypeOK, Crash PROVE TypeOK'
    OBVIOUS
  <1> DEFINE n == Len(session) k == Len(task) m == Len(run)
  <1>1. Typed(n, k, m)
    BY TypedNow
  <1> HIDE DEF n, k, m
  <1>2. turn' \in TurnType(n, k, m) /\ loop' \in Seq(StepType(n, k, m))
    BY NowTyped DEF Crash
  <1>3. exec' \in [1..MaxRuns -> {"none", "active", "stopping"}] /\ inbox' \in Seq(EventType(m)) /\ crashes' \in Nat
    BY <1>1 DEF Crash, Typed
  <1> QED BY <1>1, <1>2, <1>3, TypeOKNext DEF Crash, saved, Typed, n, k, m

LEMMA RestartTypes == TypeOK /\ Restart => TypeOK'
  <1> SUFFICES ASSUME TypeOK, Restart PROVE TypeOK'
    OBVIOUS
  <1> DEFINE n == Len(session) k == Len(task) m == Len(run)
             Closed(r) == [run[r] EXCEPT !.interrupted = @ \/ run[r].status = "running", !.calls =
               [i \in DOMAIN run[r].calls |->
                  [run[r].calls[i] EXCEPT !.state = IF @ = "prepared" THEN "never" ELSE IF @ = "sent" THEN "lost" ELSE @]]]
             Left(t) == [task[t] EXCEPT !.attempt = IF @ = "sent" THEN "lost" ELSE @]
  <1>1. Typed(n, k, m)
    BY TypedNow
  <1>2. run' = [r \in DOMAIN run |-> Closed(r)] /\ task' = [t \in DOMAIN task |-> Left(t)]
    BY DEF Restart
  <1>3. ASSUME NEW r \in 1..m PROVE Closed(r) \in RunType(n)
    <2> DEFINE calls == [i \in DOMAIN run[r].calls |->
                 [run[r].calls[i] EXCEPT !.state = IF @ = "prepared" THEN "never" ELSE IF @ = "sent" THEN "lost" ELSE @]]
               interrupted == run[r].interrupted \/ run[r].status = "running"
    <2>1. run[r] \in RunType(n)
      BY <1>1 DEF Typed
    <2>2. run[r].calls \in Seq(CallType)
      BY <2>1 DEF RunType
    <2>3. Len(run[r].calls) \in Nat /\ DOMAIN run[r].calls = 1..Len(run[r].calls)
          /\ \A i \in 1..Len(run[r].calls) : run[r].calls[i] \in CallType
      BY <2>2
    <2>4. calls \in [1..Len(run[r].calls) -> CallType]
      BY <2>3 DEF CallType
    <2>5. calls \in Seq(CallType)
      BY <2>3, <2>4, FunTyped
    <2>6. interrupted \in BOOLEAN
      BY <2>1 DEF RunType
    <2>7. Closed(r) = [run[r] EXCEPT !.interrupted = interrupted, !.calls = calls]
      BY <2>1 DEF RunType
    <2> HIDE DEF calls, interrupted, Closed
    <2>8. [run[r] EXCEPT !.interrupted = interrupted, !.calls = calls] \in RunType(n)
      BY <2>1, <2>5, <2>6 DEF RunType
    <2> QED BY <2>7, <2>8
  <1>4. ASSUME NEW t \in 1..k PROVE Left(t) \in TaskType(n, m)
    <2>1. task[t] \in TaskType(n, m)
      BY <1>1 DEF Typed
    <2> QED BY <2>1 DEF TaskType
  <1> HIDE DEF Closed, Left
  <1>5. run' \in Seq(RunType(n)) /\ Len(run') = m
    <2>1. DOMAIN run = 1..m /\ m \in Nat
      BY <1>1 DEF Typed
    <2>2. run' \in [1..m -> RunType(n)]
      BY <1>2, <1>3, <2>1
    <2> QED BY <2>1, <2>2, FunTyped
  <1>6. task' \in Seq(TaskType(n, m)) /\ Len(task') = k
    <2>1. DOMAIN task = 1..k /\ k \in Nat
      BY <1>1 DEF Typed
    <2>2. task' \in [1..k -> TaskType(n, m)]
      BY <1>2, <1>4, <2>1
    <2> QED BY <2>1, <2>2, FunTyped
  <1> QED BY <1>1, <1>5, <1>6, TypeOKNext DEF Restart, memory, Typed

LEMMA ReadyTypes == TypeOK /\ Ready => TypeOK'
  <1> SUFFICES ASSUME TypeOK, Ready PROVE TypeOK'
    OBVIOUS
  <1> DEFINE n == Len(session) k == Len(task) m == Len(run)
             Open(r) == /\ run[r].status = "running" /\ run[r].interrupted
                        /\ \E t \in Owner(r) : /\ task[t].state = "unknown" /\ session[task[t].session].state = "finished"
                                               /\ session[task[t].session].outcome = "needs-attention"
             Closed(r) == IF Open(r) THEN [run[r] EXCEPT !.status = "failed"] ELSE run[r]
  <1>1. Typed(n, k, m)
    BY TypedNow
  <1>2. run' = [r \in DOMAIN run |-> Closed(r)]
    BY DEF Ready
  <1>3. ASSUME NEW r \in 1..m PROVE Closed(r) \in RunType(n)
    <2>1. run[r] \in RunType(n)
      BY <1>1 DEF Typed
    <2>2. [run[r] EXCEPT !.status = "failed"] \in RunType(n)
      BY <2>1 DEF RunType, RunStates
    <2> HIDE DEF Open
    <2> QED BY <2>1, <2>2
  <1> HIDE DEF Closed
  <1>4. run' \in Seq(RunType(n)) /\ Len(run') = m
    <2>1. DOMAIN run = 1..m /\ m \in Nat
      BY <1>1 DEF Typed
    <2>2. run' \in [1..m -> RunType(n)]
      BY <1>2, <1>3, <2>1
    <2> QED BY <2>1, <2>2, FunTyped
  <1> QED BY <1>1, <1>4, TypeOKNext DEF Ready, memory, Typed

LEMMA ReconcileTypes == ASSUME TypeOK, NEW s \in Sessions, Reconcile(s) PROVE TypeOK'
  <1> DEFINE n == Len(session) k == Len(task) m == Len(run)
             running == Running(s)
             coverage == {t \in running : task[t].kind = "coverage"}
             lone == {t \in running \ coverage : task[t].run = 0}
             found == Unlinked(s)
             links == Cardinality(found) = 1 /\ \A r \in found : run[r].status = "running"
             stop == Stopping(s)
             link == CHOOSE r \in found : TRUE
             Kept(t) == IF t \in coverage /\ ~stop THEN [task[t] EXCEPT !.state = "ready"]
                        ELSE IF t \notin lone THEN task[t]
                        ELSE IF links /\ t = First(lone) THEN [task[t] EXCEPT !.run = link]
                        ELSE IF stop THEN task[t] ELSE [task[t] EXCEPT !.state = "ready"]
             kept == [t \in DOMAIN task |-> Kept(t)]
             Cancelled(r) == IF run[r].status = "running" /\ \E t \in running : kept[t].run = r
                             THEN [run[r] EXCEPT !.status = "cancelled", !.interrupted = FALSE] ELSE run[r]
             still == {t \in running : kept[t].state = "running"}
             lost == task[First(coverage)].attempt = "lost"
             over == IF lost THEN "unknown" ELSE "failed"
             ends == IF lost THEN "needs-attention" ELSE IF Accepted(task, s) # {} THEN "partial" ELSE "failed"
  <1>1. Typed(n, k, m)
    BY TypedNow
  <1>2. s \in 1..n
    BY DEF TypeOK, Sessions
  <1>3. \/ task' = To(task, coverage, over) /\ Outcome(s, ends) /\ UNCHANGED run
        \/ task' = To(kept, still, "unknown") /\ Outcome(s, "needs-attention") /\ UNCHANGED run
        \/ /\ task' = SkipReady(To(kept, running, "cancelled"), s, FALSE) /\ Outcome(s, "cancelled")
           /\ run' = [r \in DOMAIN run |-> Cancelled(r)]
        \/ task' = kept /\ Put(s, "paused") /\ UNCHANGED run
    BY DEF Reconcile
  <1>4. over \in TaskStates /\ ends \in Outcomes /\ "unknown" \in TaskStates /\ "cancelled" \in TaskStates
        /\ "needs-attention" \in Outcomes /\ "cancelled" \in Outcomes /\ "paused" \in SessionStates
    BY DEF TaskStates, Settled, Outcomes, SessionStates
  <1>5. links => link \in 1..m
    <2>1. found \subseteq 1..m
      BY <1>1 DEF Unlinked, Typed
    <2>2. Cardinality({}) = 0
      BY FS_EmptySet
    <2>3. links => Cardinality(found) = 1
      OBVIOUS
    <2> HIDE DEF found, links
    <2>4. links => found # {}
      BY <2>2, <2>3
    <2> QED BY <2>1, <2>4
  <1>6. kept \in Seq(TaskType(n, m)) /\ Len(kept) = k
    <2>1. ASSUME NEW t \in 1..k PROVE Kept(t) \in TaskType(n, m)
      <3>1. task[t] \in TaskType(n, m)
        BY <1>1 DEF Typed
      <3>2. [task[t] EXCEPT !.state = "ready"] \in TaskType(n, m)
        BY <3>1 DEF TaskType
      <3>3. links => [task[t] EXCEPT !.run = link] \in TaskType(n, m)
        <4>1. links => link \in 0..m
          BY <1>1, <1>5 DEF Typed
        <4> HIDE DEF links, link
        <4> QED BY <3>1, <4>1 DEF TaskType
      <3> HIDE DEF links, link, lone, coverage, stop
      <3> QED BY <3>1, <3>2, <3>3
    <2>2. DOMAIN task = 1..k /\ k \in Nat
      BY <1>1 DEF Typed
    <2> HIDE DEF Kept
    <2>3. kept \in [1..k -> TaskType(n, m)]
      BY <2>1, <2>2
    <2> QED BY <2>2, <2>3, FunTyped
  <1> HIDE DEF kept, Kept, over, ends, coverage, still, running
  <1>7. session' \in Seq(SessionType) /\ Len(session') = n /\ asking' \subseteq AskType(n, k, m)
    <2>1. /\ Stale(s) \subseteq AskType(n, k, m)
          /\ [session EXCEPT ![s].state = "paused"] \in Seq(SessionType)
          /\ Len([session EXCEPT ![s].state = "paused"]) = n
          /\ \A outcome \in Outcomes :
               /\ [session EXCEPT ![s].state = "finished", ![s].outcome = outcome] \in Seq(SessionType)
               /\ Len([session EXCEPT ![s].state = "finished", ![s].outcome = outcome]) = n
      BY <1>2, <1>4, SomeSession
    <2>2. /\ asking' = Stale(s)
          /\ \/ session' = [session EXCEPT ![s].state = "paused"]
             \/ \E outcome \in Outcomes : session' = [session EXCEPT ![s].state = "finished", ![s].outcome = outcome]
      BY <1>3, <1>4 DEF Put, Outcome
    <2> QED BY <2>1, <2>2
  <1>8. run' \in Seq(RunType(n)) /\ Len(run') = m
    <2>1. run \in Seq(RunType(n)) /\ DOMAIN run = 1..m /\ m \in Nat
      BY <1>1 DEF Typed
    <2>2. ASSUME NEW r \in 1..m PROVE Cancelled(r) \in RunType(n)
      <3>1. run[r] \in RunType(n)
        BY <2>1
      <3>2. [run[r] EXCEPT !.status = "cancelled", !.interrupted = FALSE] \in RunType(n)
        BY <3>1 DEF RunType, RunStates
      <3> QED BY <3>1, <3>2
    <2> HIDE DEF Cancelled
    <2>3. [r \in DOMAIN run |-> Cancelled(r)] \in [1..m -> RunType(n)]
      BY <2>1, <2>2
    <2>4. [r \in DOMAIN run |-> Cancelled(r)] \in Seq(RunType(n)) /\ Len([r \in DOMAIN run |-> Cancelled(r)]) = m
      BY <2>1, <2>3, FunTyped
    <2> QED BY <1>3, <2>1, <2>4
  <1> HIDE DEF n, k, m
  <1>9. task' \in Seq(TaskType(n, m)) /\ Len(task') = k
    <2>1. task \in Seq(TaskType(n, m)) /\ Len(task) = k
      BY <1>1 DEF Typed, k
    <2>2. /\ To(task, coverage, over) \in Seq(TaskType(n, m)) /\ Len(To(task, coverage, over)) = k
          /\ To(kept, still, "unknown") \in Seq(TaskType(n, m)) /\ Len(To(kept, still, "unknown")) = k
          /\ To(kept, running, "cancelled") \in Seq(TaskType(n, m)) /\ Len(To(kept, running, "cancelled")) = k
      BY <1>4, <1>6, <2>1, TasksChanged
    <2> DEFINE stopped == To(kept, running, "cancelled")
    <2> HIDE DEF stopped
    <2>3. SkipReady(stopped, s, FALSE) \in Seq(TaskType(n, m)) /\ Len(SkipReady(stopped, s, FALSE)) = k
      <3>1. stopped \in Seq(TaskType(n, m)) /\ Len(stopped) = k
        BY <2>2 DEF stopped
      <3> QED BY <3>1, TasksSkipped
    <2> QED BY <1>3, <1>6, <2>2, <2>3 DEF stopped
  <1> QED BY <1>1, <1>7, <1>8, <1>9, TypeOKNext DEF Reconcile, Typed, n, k, m

LEMMA StoppedShortTypes == TypeOK /\ (RunFailed \/ RunCancelled) => TypeOK'
  <1>1. ASSUME TypeOK, RunEndedShort("failed") PROVE TypeOK'
    BY <1>1, RunEndedShortTypes
  <1>2. ASSUME TypeOK, RunEndedShort("cancelled") PROVE TypeOK'
    BY <1>2, RunEndedShortTypes
  <1> QED BY <1>1, <1>2 DEF RunFailed, RunCancelled

\* The engine's part of a step: turns, events, runs, coverage, and the process itself.
EngineStep ==
  \/ Dispatch \/ CreateRun \/ LinkRun \/ FailDispatch
  \/ PlanGeneration \/ DispatchNext \/ LoopStep \/ FinishCollection \/ Cover
  \/ \E t \in DOMAIN task : CoverSent(t) \/ CoverAnswered(t) \/ CoverSettled(t)
  \/ \E r \in DOMAIN run :
       Prepare(r) \/ Send(r) \/ CallEnds(r) \/ RunEnds(r) \/ StoppedCall(r) \/ StoppedExit(r)
  \/ FailRun \/ CancelRun \/ ResumeRun \/ TakeEvent \/ MissingResult
  \/ CompleteFrame \/ CompleteDiscovery \/ CompleteGeneration \/ CompleteAssessment
  \/ RunFailed \/ RunCancelled
  \/ CloseEngine \/ Crash \/ Restart \/ Ready
  \/ \E s \in Sessions : Reconcile(s)

\* The owner's part: a command asked, or answered once the model catalog is there.
OwnerStep ==
  \/ StartAsk
  \/ \E a \in asking : Refuse(a) \/ Start(a) \/ Generate(a) \/ Recover(a) \/ Retry(a) \/ Reassess(a) \/ Assess(a)
  \/ \E s \in Sessions :
       \/ ApproveFrame(s) \/ RegenerateFrame(s) \/ GenerateAsk(s) \/ ReviseOnly(s) \/ Pause(s)
       \/ ResumeSaved(s) \/ ResumeNext(s) \/ Stop(s) \/ AssessAsk(s)
  \/ \E t \in DOMAIN task : RetryAsk(t) \/ ReassessAsk(t)

LEMMA StepIsSomebodys == Next <=> EngineStep \/ OwnerStep
  BY Zenon DEF Next, EngineStep, OwnerStep

LEMMA EngineTypes == TypeOK /\ EngineStep => TypeOK'
  <1> SUFFICES ASSUME TypeOK PROVE EngineStep => TypeOK'
    OBVIOUS
  <1>1. Dispatch \/ CreateRun \/ LinkRun \/ FailDispatch => TypeOK'
    BY DispatchTypes, CreateRunTypes, LinkRunTypes, FailDispatchTypes
  <1>2. PlanGeneration \/ DispatchNext \/ LoopStep \/ FinishCollection \/ Cover => TypeOK'
    BY PlanGenerationTypes, DispatchNextTypes, LoopStepTypes, FinishCollectionTypes, CoverTypes
  <1>3. ASSUME NEW t \in DOMAIN task, CoverSent(t) \/ CoverAnswered(t) \/ CoverSettled(t) PROVE TypeOK'
    BY <1>3, CoverSentTypes, CoverAnsweredTypes, CoverSettledTypes
  <1>4. ASSUME NEW r \in DOMAIN run,
               Prepare(r) \/ Send(r) \/ CallEnds(r) \/ RunEnds(r) \/ StoppedCall(r) \/ StoppedExit(r)
        PROVE  TypeOK'
    BY <1>4, PrepareTypes, SendTypes, CallEndsTypes, RunEndsTypes, StoppedCallTypes, StoppedExitTypes
  <1>5. FailRun \/ CancelRun \/ ResumeRun \/ TakeEvent \/ MissingResult => TypeOK'
    BY FailRunTypes, CancelRunTypes, ResumeRunTypes, TakeEventTypes, MissingResultTypes
  <1>6. CompleteFrame \/ CompleteDiscovery \/ CompleteGeneration \/ CompleteAssessment => TypeOK'
    BY CompleteFrameTypes, CompleteDiscoveryTypes, CompleteGenerationTypes, CompleteAssessmentTypes
  <1>7. RunFailed \/ RunCancelled => TypeOK'
    BY StoppedShortTypes
  <1>8. CloseEngine \/ Crash \/ Restart \/ Ready => TypeOK'
    BY CloseEngineTypes, CrashTypes, RestartTypes, ReadyTypes
  <1>9. ASSUME NEW s \in Sessions, Reconcile(s) PROVE TypeOK'
    BY <1>9, ReconcileTypes
  <1> QED BY <1>1, <1>2, <1>3, <1>4, <1>5, <1>6, <1>7, <1>8, <1>9, Zenon DEF EngineStep

LEMMA OwnerTypes == TypeOK /\ OwnerStep => TypeOK'
  <1> SUFFICES ASSUME TypeOK PROVE OwnerStep => TypeOK'
    OBVIOUS
  <1>1. ASSUME NEW a \in asking,
               Refuse(a) \/ Start(a) \/ Generate(a) \/ Recover(a) \/ Retry(a) \/ Reassess(a) \/ Assess(a)
        PROVE  TypeOK'
    BY <1>1, RefuseTypes, StartTypes, GenerateTypes, RecoverTypes, RetryTypes, ReassessTypes, AssessTypes
  <1>2. ASSUME NEW s \in Sessions,
               \/ ApproveFrame(s) \/ RegenerateFrame(s) \/ GenerateAsk(s) \/ ReviseOnly(s) \/ Pause(s)
               \/ ResumeSaved(s) \/ ResumeNext(s) \/ Stop(s) \/ AssessAsk(s)
        PROVE  TypeOK'
    BY <1>2, FrameTypes, GenerateAskTypes, ReviseOnlyTypes, PauseTypes, ResumeSavedTypes, ResumeNextTypes, StopTypes,
       AssessAskTypes
  <1>3. ASSUME NEW t \in DOMAIN task, RetryAsk(t) \/ ReassessAsk(t) PROVE TypeOK'
    BY <1>3, RetryAskTypes, ReassessAskTypes
  <1> QED BY <1>1, <1>2, <1>3, StartAskTypes, Zenon DEF OwnerStep

LEMMA IdleTypes == TypeOK /\ UNCHANGED vars => TypeOK'
  <1> SUFFICES ASSUME TypeOK, UNCHANGED vars PROVE TypeOK'
    OBVIOUS
  <1>1. Typed(Len(session), Len(task), Len(run))
    BY TypedNow
  <1> QED BY <1>1, TypeOKNext DEF Typed, vars

LEMMA TypeStep == TypeOK /\ [Next]_vars => TypeOK'
  BY StepIsSomebodys, EngineTypes, OwnerTypes, IdleTypes

LEMMA TypeInit == Init => TypeOK
  <1> SUFFICES ASSUME Init PROVE TypeOK
    OBVIOUS
  <1>1. Len(session) = 0 /\ Len(task) = 0 /\ Len(run) = 0 /\ 0 <= MaxRuns
    BY BoundsAssumption DEF Init
  <1>2. session \in Seq(SessionType) /\ task \in Seq(TaskType(0, 0)) /\ run \in Seq(RunType(0))
    BY DEF Init
  <1>3. exec \in [1..MaxRuns -> {"none", "active", "stopping"}] /\ covering \subseteq 1..0
        /\ inbox \in Seq(EventType(0)) /\ asking \subseteq AskType(0, 0, 0)
    BY DEF Init
  <1>4. turn \in TurnType(0, 0, 0) /\ loop \in Seq(StepType(0, 0, 0))
    BY NowTyped DEF Init
  <1>5. up \in {"down", "starting", "up"} /\ crashes \in Nat
    BY DEF Init
  <1> QED BY <1>1, <1>2, <1>3, <1>4, <1>5 DEF TypeOK, MemoryType

\* Every saved row and everything the process remembers is well formed in every state, and refers to a
\* session, a task and a run that there are: no crash, stop, retry or late answer leaves a dangling turn,
\* event, or waiting command.
THEOREM WorkflowTyped == Spec => []TypeOK
  BY TypeInit, TypeStep, PTL DEF Spec

-----------------------------------------------------------------------------
(***************************************************************************)
(* Requests.  What is true of one row of requests: a request is followed   *)
(* by another of its stage only when it is over without an answer that     *)
(* could exist or was acknowledged, only the last one is in flight, and a  *)
(* stage is asked once all before it are done.  A run under way has no     *)
(* open request but the one in flight, unless it is about to fail.         *)
(***************************************************************************)
Ended == {"never", "failed", "limit", "rejected"}
DoneIn(calls, k) == \E i \in DOMAIN calls : calls[i].stage = k /\ calls[i].state = "done"
FlyingIn(calls) == {i \in DOMAIN calls : calls[i].state \in {"prepared", "sent"}}
OpenIn(calls) ==
  {i \in DOMAIN calls :
     /\ calls[i].state \in {"sent", "lost"}
     /\ \A j \in DOMAIN calls : j > i /\ calls[j].stage = calls[i].stage => calls[j].state # "done"}
ToldIn(calls, acked) ==
  \A i, j \in DOMAIN calls : i < j /\ calls[i].stage = calls[j].stage /\ calls[j].state # "never"
    => calls[i].state \in Ended \/ i \in acked
InTurnIn(calls) ==
  /\ \A i \in FlyingIn(calls) : i = Len(calls)
  /\ \A i \in DOMAIN calls : \A k \in 1..Stages : k < calls[i].stage => DoneIn(calls, k)
Rows == \A r \in DOMAIN run : ToldIn(run[r].calls, run[r].acked) /\ InTurnIn(run[r].calls)

Heads(do) == turn # <<>> /\ Head(turn).do = do
Failing(r) == Heads("fail") /\ Of = r
KnowsAll(r) == OpenIn(run[r].calls) \subseteq run[r].acked \cup FlyingIn(run[r].calls)
NothingHidden == \A r \in DOMAIN run : exec[r] = "active" => Failing(r) \/ KnowsAll(r)
FreshLink == Heads("link") => Len(run) > 0 /\ run[Len(run)].calls = <<>>
DownIsStill == up = "down" => \A r \in DOMAIN exec : exec[r] = "none"
CallInv == Rows /\ NothingHidden /\ FreshLink /\ DownIsStill

\* A turn that neither links a run nor settles a failed request next.
Plain(steps) == steps = <<>> \/ Head(steps).do \notin {"link", "fail"}

\* A step that leaves the requests, and what is acknowledged, as they are, and lets no run begin.
Keeps ==
  /\ DOMAIN run' = DOMAIN run /\ Len(run') = Len(run)
  /\ \A r \in DOMAIN run : run'[r].calls = run[r].calls /\ run'[r].acked = run[r].acked
  /\ \A r \in DOMAIN run : exec'[r] = "active" => exec[r] = "active"
  /\ up' = "down" => \A r \in DOMAIN exec' : exec'[r] = "none"
  /\ turn' = turn \/ (Plain(turn') /\ \A r \in DOMAIN run : exec'[r] = "active" => ~Failing(r))

LEMMA KeepsCallInv == TypeOK /\ CallInv /\ Keeps => CallInv'
  <1> SUFFICES ASSUME TypeOK, CallInv, Keeps PROVE CallInv'
    OBVIOUS
  <1>1. Rows'
    BY DEF CallInv, Rows, Keeps
  <1>2. NothingHidden'
    <2> SUFFICES ASSUME NEW r \in DOMAIN run, exec'[r] = "active" PROVE Failing(r)' \/ KnowsAll(r)'
      BY DEF NothingHidden, Keeps
    <2>1. exec[r] = "active"
      BY DEF Keeps
    <2>2. KnowsAll(r) => KnowsAll(r)'
      BY DEF KnowsAll, Keeps
    <2>3. Failing(r) => Failing(r)'
      BY DEF Failing, Heads, Of, Keeps
    <2> QED BY <2>1, <2>2, <2>3 DEF CallInv, NothingHidden
  <1>3. FreshLink'
    <2>1. Heads("link")' => turn' = turn
      BY DEF Heads, Plain, Keeps
    <2>2. Heads("link")' => Heads("link")
      BY <2>1 DEF Heads
    <2>3. Len(run) > 0 => Len(run) \in DOMAIN run
      BY DEF TypeOK
    <2> QED BY <2>2, <2>3 DEF CallInv, FreshLink, Keeps
  <1>4. DownIsStill'
    BY DEF CallInv, DownIsStill, Keeps
  <1> QED BY <1>1, <1>2, <1>3, <1>4 DEF CallInv

LEMMA PlainSeq ==
  ASSUME NEW T, NEW q \in Seq(T), \A x \in T : x.do \notin {"link", "fail"}
  PROVE  Plain(q)
  BY DEF Plain

LEMMA StepsArePlain ==
  ASSUME NEW n, NEW k, NEW m
  PROVE  \A x \in StepType(n, k, m) : x.do \notin {"link", "fail"}
  BY DEF StepType, SessionSteps, TaskSteps, RunSteps

LEMMA NowPlain ==
  /\ Plain(<<>>) /\ \A do, x : do \notin {"link", "fail"} => Plain(<<Step(do, x)>>)
  /\ \A steps : Len(steps) = 0 /\ steps \in Seq({}) => Plain(steps)
  BY DEF Plain, Step

LEMMA GoPlain ==
  ASSUME TypeOK, turn # <<>>
  PROVE  /\ Plain(Tail(turn)) /\ Plain(<<>> \o Tail(turn))
         /\ \A do, x : do \notin {"link", "fail"} => Plain(<<Step(do, x)>> \o Tail(turn))
  <1> DEFINE T == StepType(Len(session), Len(task), Len(run))
  <1>1. Tail(turn) \in Seq(T) /\ \A x \in T : x.do \notin {"link", "fail"}
    <2>1. turn \in TurnType(Len(session), Len(task), Len(run))
      BY DEF TypeOK, MemoryType
    <2> QED BY <2>1, TurnTyped, StepsArePlain
  <1> HIDE DEF T
  <1>2. Plain(Tail(turn)) /\ <<>> \o Tail(turn) = Tail(turn)
    <2>1. Plain(Tail(turn))
      BY <1>1, PlainSeq
    <2>2. \A q \in Seq(T) : <<>> \o q = q
      OBVIOUS
    <2> QED BY <1>1, <2>1, <2>2
  <1>3. ASSUME NEW do, NEW x, do \notin {"link", "fail"} PROVE Plain(<<Step(do, x)>> \o Tail(turn))
    <2> DEFINE U == {Step(do, x)} \cup T
    <2>1. <<Step(do, x)>> \in Seq(U) /\ Tail(turn) \in Seq(U)
      <3>1. Seq(T) \subseteq Seq(U)
        BY SeqMono
      <3> QED BY <1>1, <3>1
    <2>2. \A y \in U : y.do \notin {"link", "fail"}
      BY <1>1, <1>3 DEF Step
    <2> HIDE DEF U, Step
    <2>3. <<Step(do, x)>> \o Tail(turn) \in Seq(U)
      BY <2>1
    <2> QED BY <2>2, <2>3, PlainSeq
  <1> QED BY <1>2, <1>3

\* A step that changes no run, nor what the engine does with one.
LEMMA KeepsTurn ==
  ASSUME TypeOK, UNCHANGED <<run, exec, up>>, up # "down", turn' = turn \/ (Plain(turn') /\ ~Heads("fail"))
  PROVE  Keeps
  BY DEF Keeps, Failing

LEMMA TurnKeeps ==
  /\ TypeOK /\ Dispatch => Keeps
  /\ TypeOK /\ FailDispatch => Keeps
  /\ TypeOK /\ PlanGeneration => Keeps
  /\ TypeOK /\ DispatchNext => Keeps
  /\ TypeOK /\ FinishCollection => Keeps
  /\ TypeOK /\ Cover => Keeps
  /\ TypeOK /\ MissingResult => Keeps
  /\ TypeOK /\ CompleteFrame => Keeps
  /\ TypeOK /\ CompleteDiscovery => Keeps
  /\ TypeOK /\ CompleteGeneration => Keeps
  /\ TypeOK /\ CompleteAssessment => Keeps
  /\ \A type \in {"failed", "cancelled"} : TypeOK /\ RunEndedShort(type) => Keeps
  <1> DEFINE Goes == \E steps : turn' = steps \o Tail(turn) /\ (steps = <<>> \/ \E do, x : do \notin {"link", "fail"} /\ steps = <<Step(do, x)>>)
  <1>1. ASSUME TypeOK, UNCHANGED <<run, exec, up>>, up # "down", turn # <<>>, Head(turn).do # "fail", Goes PROVE Keeps
    <2>1. Plain(turn')
      BY <1>1, GoPlain
    <2> QED BY <1>1, <2>1, KeepsTurn DEF Heads
  <1>2. ASSUME Dispatch PROVE Goes
    <2> DEFINE t == Of s == task[t].session
    <2>1. \E steps \in {<<>>, <<Step("plan", s)>>, <<Step("create", t)>>} : turn' = steps \o Tail(turn)
      BY <1>2 DEF Dispatch, Go
    <2> HIDE DEF s, t
    <2> QED BY <2>1
  <1>3. ASSUME FailDispatch PROVE Goes
    BY <1>3 DEF FailDispatch, Go
  <1>4. ASSUME PlanGeneration PROVE Goes
    BY <1>4 DEF PlanGeneration, Go
  <1>5. ASSUME DispatchNext PROVE Goes
    <2>1. \E x : \E steps \in {<<>>, <<Step("collect", x)>>, <<Step("cover", x)>>, <<Step("dispatch", x)>>} :
            turn' = steps \o Tail(turn)
      BY <1>5 DEF DispatchNext, Go
    <2> QED BY <2>1
  <1>6. ASSUME FinishCollection PROVE Goes
    BY <1>6 DEF FinishCollection, Go
  <1>7. ASSUME Cover PROVE Goes
    BY <1>7 DEF Cover, Go
  <1>8. ASSUME MissingResult PROVE Goes
    BY <1>8 DEF MissingResult, Go
  <1>9. ASSUME CompleteFrame PROVE Goes
    BY <1>9 DEF CompleteFrame, Go
  <1>10. ASSUME CompleteDiscovery PROVE Goes
    BY <1>10 DEF CompleteDiscovery, Go
  <1>11. ASSUME CompleteGeneration PROVE Goes
    BY <1>11 DEF CompleteGeneration, Go
  <1>12. ASSUME CompleteAssessment PROVE Goes
    BY <1>12 DEF CompleteAssessment, Go
  <1>13. ASSUME NEW type \in {"failed", "cancelled"}, RunEndedShort(type) PROVE Goes
    BY <1>13 DEF RunEndedShort, Go
  <1> HIDE DEF Goes
  <1>14. ASSUME Dispatch \/ FailDispatch \/ PlanGeneration \/ DispatchNext \/ FinishCollection \/ Cover
         PROVE  UNCHANGED <<run, exec, up>> /\ up # "down" /\ turn # <<>> /\ Head(turn).do # "fail"
    BY <1>14 DEF Dispatch, FailDispatch, PlanGeneration, DispatchNext, FinishCollection, Cover, At
  <1>15. ASSUME MissingResult \/ CompleteFrame \/ CompleteDiscovery \/ CompleteGeneration \/ CompleteAssessment
         PROVE  UNCHANGED <<run, exec, up>> /\ up # "down" /\ turn # <<>> /\ Head(turn).do # "fail"
    BY <1>15 DEF MissingResult, CompleteFrame, CompleteDiscovery, CompleteGeneration, CompleteAssessment, Handling, At, saved
  <1>16. ASSUME NEW type \in {"failed", "cancelled"}, RunEndedShort(type)
         PROVE  UNCHANGED <<run, exec, up>> /\ up # "down" /\ turn # <<>> /\ Head(turn).do # "fail"
    BY <1>16 DEF RunEndedShort, Handling, At
  <1>17. \A type \in {"failed", "cancelled"} : TypeOK /\ RunEndedShort(type) => Keeps
    BY <1>1, <1>13, <1>16
  <1>18. TypeOK /\ (Dispatch \/ FailDispatch \/ PlanGeneration \/ DispatchNext \/ FinishCollection \/ Cover) => Keeps
    BY <1>1, <1>2, <1>3, <1>4, <1>5, <1>6, <1>7, <1>14
  <1>19. TypeOK /\ (MissingResult \/ CompleteFrame \/ CompleteDiscovery \/ CompleteGeneration \/ CompleteAssessment)
         => Keeps
    BY <1>1, <1>8, <1>9, <1>10, <1>11, <1>12, <1>15
  <1> QED BY <1>17, <1>18, <1>19

LEMMA QuietTurn == Quiet \/ Idle => turn = <<>> /\ up # "down" /\ ~Heads("fail")
  BY DEF Quiet, Idle, Heads

LEMMA StillKeeps ==
  ASSUME TypeOK,
         \/ \E t \in DOMAIN task : CoverSent(t) \/ CoverAnswered(t) \/ ReassessAsk(t)
         \/ StartAsk \/ \E a \in asking : Refuse(a)
         \/ \E s \in Sessions : GenerateAsk(s) \/ ReviseOnly(s) \/ Pause(s) \/ AssessAsk(s)
  PROVE  Keeps
  <1>1. UNCHANGED <<run, exec, up, turn>> /\ Quiet
    BY DEF CoverSent, CoverAnswered, ReassessAsk, StartAsk, Refuse, GenerateAsk, ReviseOnly, Pause, AssessAsk, Await,
       Command, memory, saved
  <1> QED BY <1>1, KeepsTurn, QuietTurn

LEMMA TypedSteps ==
  ASSUME TypeOK
  PROVE  /\ inbox \in Seq(EventType(Len(run)))
         /\ loop \in Seq(StepType(Len(session), Len(task), Len(run)))
         /\ exec \in [1..MaxRuns -> {"none", "active", "stopping"}]
         /\ DOMAIN run = 1..Len(run) /\ Len(run) \in Nat /\ Len(run) <= MaxRuns /\ MaxRuns \in Nat
  BY BoundsAssumption, SMTT(30) DEF TypeOK, MemoryType

LEMMA NewTurnKeeps ==
  ASSUME TypeOK,
         \/ LoopStep \/ TakeEvent
         \/ \E t \in DOMAIN task : CoverSettled(t)
         \/ \E a \in asking : Start(a) \/ Generate(a) \/ Retry(a) \/ Reassess(a) \/ Assess(a)
         \/ \E s \in Sessions : ApproveFrame(s) \/ RegenerateFrame(s) \/ ResumeNext(s)
  PROVE  Keeps
  <1> DEFINE Starts == turn' = turn \/ turn' = <<>> \/ \E do, x : do \notin {"link", "fail"} /\ turn' = <<Step(do, x)>>
  <1>1. ASSUME UNCHANGED <<run, exec, up>>, Quiet \/ Idle, Starts PROVE Keeps
    <2>1. turn' = turn \/ Plain(turn')
      BY <1>1, NowPlain
    <2> QED BY <1>1, <2>1, KeepsTurn, QuietTurn
  <1>2. CASE LoopStep
    <2>1. Head(loop) \in StepType(Len(session), Len(task), Len(run)) /\ turn' = <<Head(loop)>>
      BY <1>2, TypedSteps DEF LoopStep, Now
    <2>2. Plain(turn')
      BY <2>1, StepsArePlain DEF Plain
    <2>3. UNCHANGED <<run, exec, up>> /\ Idle
      BY <1>2 DEF LoopStep, saved
    <2> QED BY <2>2, <2>3, KeepsTurn, QuietTurn
  <1>3. CASE TakeEvent
    <2>1. Head(inbox) \in EventType(Len(run))
      BY <1>3, TypedSteps DEF TakeEvent
    <2>2. Head(inbox).type \notin {"link", "fail"}
      BY <2>1 DEF EventType
    <2>3. turn' = <<>> \/ turn' = <<Step(Head(inbox).type, Head(inbox).run)>>
      BY <1>3 DEF TakeEvent, Now
    <2>4. UNCHANGED <<run, exec, up>> /\ Idle
      BY <1>3 DEF TakeEvent, saved
    <2> QED BY <1>1, <2>2, <2>3, <2>4
  <1>4. ASSUME NEW t \in DOMAIN task, CoverSettled(t) PROVE Keeps
    <2>1. turn' = turn \/ turn' = <<>> \/ turn' = <<Step("collect", task[t].session)>>
      BY <1>4 DEF CoverSettled, Now
    <2>2. UNCHANGED <<run, exec, up>> /\ Quiet
      BY <1>4 DEF CoverSettled
    <2> QED BY <1>1, <2>1, <2>2
  <1>5. ASSUME NEW a \in asking, Start(a) \/ Generate(a) \/ Retry(a) \/ Reassess(a) \/ Assess(a) PROVE Keeps
    <2>1. \E do \in {"dispatch", "next", "reassess"} : \E x : turn' = <<Step(do, x)>>
      BY <1>5 DEF Start, Generate, Retry, Reassess, Assess, Now
    <2>2. UNCHANGED <<run, exec, up>> /\ Quiet
      BY <1>5 DEF Start, Generate, Retry, Reassess, Assess, Admitting
    <2> QED BY <1>1, <2>1, <2>2
  <1>6. ASSUME NEW s \in Sessions, ApproveFrame(s) \/ RegenerateFrame(s) PROVE Keeps
    <2>1. turn' = <<Step("dispatch", Len(task) + 1)>> /\ UNCHANGED <<run, exec, up>> /\ Quiet
      BY <1>6 DEF ApproveFrame, RegenerateFrame, Admit, Command, Now
    <2> QED BY <1>1, <2>1
  <1>7. ASSUME NEW s \in Sessions, ResumeNext(s) PROVE Keeps
    <2>1. turn' = turn \/ \E do \in {"dispatch", "next", "plan"} : \E x : turn' = <<Step(do, x)>>
      BY <1>7 DEF ResumeNext, Now
    <2>2. UNCHANGED <<run, exec, up>> /\ Quiet
      BY <1>7 DEF ResumeNext, Command
    <2> QED BY <1>1, <2>1, <2>2
  <1> QED BY <1>2, <1>3, <1>4, <1>5, <1>6, <1>7

\* What is done to several runs, one after the other.
LEMMA EachPlain ==
  ASSUME NEW V, NEW ids \in Seq(V), NEW do, do \notin {"link", "fail"}
  PROVE  Plain(Each(do, ids)) /\ Each(do, ids) \in Seq([do : {do}, of : V])
  <1> DEFINE T == [do : {do}, of : V]
  <1>1. \A v \in V : Step(do, v) \in T
    BY DEF Step
  <1>2. \A x \in T : x.do \notin {"link", "fail"}
    OBVIOUS
  <1> HIDE DEF T
  <1>3. Each(do, ids) \in Seq(T)
    BY <1>1, EachTyped
  <1>4. Plain(Each(do, ids))
    BY <1>2, <1>3, PlainSeq
  <1> QED BY <1>3, <1>4 DEF T

LEMMA ManyKeeps ==
  ASSUME TypeOK, CloseEngine \/ \E s \in Sessions : ResumeSaved(s) \/ Stop(s)
  PROVE  Keeps
  <1> DEFINE m == Len(run)
  <1>1. ASSUME CloseEngine PROVE Keeps
    <2> DEFINE ids == {r \in DOMAIN run : exec[r] = "active"}
    <2>1. ids \subseteq 1..m /\ m \in Nat
      BY TypedSteps
    <2>2. turn' = Each("cancelNext", InOrder(ids))
      BY <1>1 DEF CloseEngine, Now
    <2> HIDE DEF ids, m
    <2>3. InOrder(ids) \in Seq(ids)
      BY <2>1, InOrderIsSeq
    <2>4. Plain(turn')
      BY <2>2, <2>3, EachPlain
    <2>5. UNCHANGED <<run, exec, up>> /\ Quiet
      BY <1>1 DEF CloseEngine, saved
    <2> QED BY <2>4, <2>5, KeepsTurn, QuietTurn
  <1>2. ASSUME NEW s \in Sessions, ResumeSaved(s) PROVE Keeps
    <2> DEFINE again == RunsOf(s, {"running"}) over == RunsOf(s, {"completed"}) R == 1..m
               x == Each("resume", Lead(again)) y == Each("completed", over)
               T == [do : {"resume"}, of : R] \cup [do : {"completed"}, of : R]
    <2>1. turn' = x \o y
      BY <1>2 DEF ResumeSaved, AfterResume, Now
    <2>2. again \in Seq(R) /\ over \in Seq(R)
      BY RunsOfTyped
    <2> HIDE DEF again, over, R
    <2>3. Lead(again) \in Seq(R)
      BY <2>2 DEF Lead
    <2>4. x \in Seq([do : {"resume"}, of : R]) /\ y \in Seq([do : {"completed"}, of : R])
      BY <2>2, <2>3, EachPlain
    <2>5. x \in Seq(T) /\ y \in Seq(T)
      <3> DEFINE A == [do : {"resume"}, of : R] B == [do : {"completed"}, of : R]
      <3>1. A \subseteq T /\ B \subseteq T
        OBVIOUS
      <3> HIDE DEF A, B, T, x, y
      <3>2. Seq(A) \subseteq Seq(T) /\ Seq(B) \subseteq Seq(T)
        BY <3>1, SeqMono
      <3> QED BY <2>4, <3>2 DEF A, B
    <2>6. \A z \in T : z.do \notin {"link", "fail"}
      OBVIOUS
    <2> HIDE DEF x, y, T
    <2>7. x \o y \in Seq(T)
      BY <2>5
    <2>8. Plain(turn')
      BY <2>1, <2>6, <2>7, PlainSeq
    <2>9. UNCHANGED <<run, exec, up>> /\ Quiet
      BY <1>2 DEF ResumeSaved, Command
    <2> QED BY <2>8, <2>9, KeepsTurn, QuietTurn
  <1>3. ASSUME NEW s \in Sessions, Stop(s) PROVE Keeps
    <2> DEFINE runs == RunsOf(s, RunStates) R == 1..m
               Then(i) == Step(IF i = 1 THEN "cancelFirst" ELSE "cancelNext", runs[i])
               steps == [i \in DOMAIN runs |-> Then(i)]
    <2>1. turn' = turn \/ turn' = steps
      BY <1>3 DEF Stop, AfterStop, Now
    <2>2. runs \in Seq(R)
      BY RunsOfTyped
    <2> HIDE DEF runs, R
    <2>3. DOMAIN runs = 1..Len(runs) /\ Len(runs) \in Nat
      BY <2>2
    <2>4. \A i \in DOMAIN runs : Then(i).do \notin {"link", "fail"}
      BY DEF Step
    <2> HIDE DEF Then
    <2>5. Plain(steps)
      BY <2>3, <2>4 DEF Plain
    <2> HIDE DEF steps
    <2>6. UNCHANGED <<run, exec, up>> /\ Quiet
      BY <1>3 DEF Stop, Command
    <2> QED BY <2>1, <2>5, <2>6, KeepsTurn, QuietTurn
  <1> QED BY <1>1, <1>2, <1>3

\* The rows of the runs with their requests, whatever else of them changes.
SameRows ==
  /\ DOMAIN run' = DOMAIN run /\ Len(run') = Len(run)
  /\ \A r \in DOMAIN run : run'[r].calls = run[r].calls /\ run'[r].acked = run[r].acked

LEMMA RowsStand ==
  ASSUME TypeOK
  PROVE  /\ UNCHANGED run => SameRows
         /\ \A r, x : run' = [run EXCEPT ![r].status = x] => SameRows
         /\ \A r, x, y : run' = [run EXCEPT ![r].status = x, ![r].interrupted = y] => SameRows
         /\ \A r, x, y : run' = [run EXCEPT ![r].status = x, ![r].result = y] => SameRows
  <1>1. DOMAIN run = 1..Len(run) /\ Len(run) \in Nat
    BY DEF TypeOK
  <1>2. DOMAIN run' = DOMAIN run => Len(run') = Len(run)
    BY <1>1
  <1>3. \A r \in DOMAIN run : run[r] \in RunType(Len(session))
    BY <1>1, RunFields
  <1>4. ASSUME NEW q \in DOMAIN run, NEW x, NEW y
        PROVE  /\ [run[q] EXCEPT !.status = x].calls = run[q].calls
               /\ [run[q] EXCEPT !.status = x].acked = run[q].acked
               /\ [run[q] EXCEPT !.status = x, !.interrupted = y].calls = run[q].calls
               /\ [run[q] EXCEPT !.status = x, !.interrupted = y].acked = run[q].acked
               /\ [run[q] EXCEPT !.status = x, !.result = y].calls = run[q].calls
               /\ [run[q] EXCEPT !.status = x, !.result = y].acked = run[q].acked
    BY <1>3 DEF RunType
  <1>5. ASSUME UNCHANGED run PROVE SameRows
    BY <1>5 DEF SameRows
  <1>6. ASSUME NEW r, NEW x, run' = [run EXCEPT ![r].status = x] PROVE SameRows
    BY <1>2, <1>4, <1>6 DEF SameRows
  <1>7. ASSUME NEW r, NEW x, NEW y, run' = [run EXCEPT ![r].status = x, ![r].interrupted = y] PROVE SameRows
    BY <1>2, <1>4, <1>7 DEF SameRows
  <1>8. ASSUME NEW r, NEW x, NEW y, run' = [run EXCEPT ![r].status = x, ![r].result = y] PROVE SameRows
    BY <1>2, <1>4, <1>8 DEF SameRows
  <1> QED BY <1>5, <1>6, <1>7, <1>8

\* A run that reports no longer goes on.
LEMMA ReportKeeps ==
  ASSUME TypeOK, NEW r \in DOMAIN run, SameRows, exec' = [exec EXCEPT ![r] = "none"], up' = up, up # "down",
         turn' = turn \/ (Plain(turn') /\ (Heads("fail") => Of = r))
  PROVE  Keeps
  <1>1. exec \in [1..MaxRuns -> {"none", "active", "stopping"}] /\ r \in 1..MaxRuns
    BY TypedSteps
  <1>2. \A q \in DOMAIN run : exec'[q] = "active" => exec[q] = "active" /\ q # r
    BY <1>1, TypedSteps
  <1> QED BY <1>2 DEF Keeps, SameRows, Failing

LEMMA EndsKeep ==
  ASSUME TypeOK, FailRun \/ \E r \in DOMAIN run : RunEnds(r) \/ StoppedExit(r)
  PROVE  Keeps
  <1>1. ASSUME FailRun PROVE Keeps
    <2>1. turn # <<>> /\ Head(turn).do = "fail" /\ up # "down"
      BY <1>1 DEF FailRun, At
    <2>2. Of \in DOMAIN run
      BY <2>1, HeadOf, TypedSteps
    <2>3. run' = [run EXCEPT ![Of].status = "failed"] /\ exec' = [exec EXCEPT ![Of] = "none"] /\ up' = up
          /\ turn' = <<>> \o Tail(turn)
      BY <1>1 DEF FailRun, Report, Go
    <2>4. SameRows
      BY <2>3, RowsStand
    <2>5. Plain(turn')
      BY <2>1, <2>3, GoPlain
    <2> QED BY <2>1, <2>2, <2>3, <2>4, <2>5, ReportKeeps
  <1>2. ASSUME NEW r \in DOMAIN run, RunEnds(r) PROVE Keeps
    <2>1. \E x : run' = [run EXCEPT ![r].status = "completed", ![r].result = x]
      BY <1>2 DEF RunEnds
    <2>2. SameRows
      BY <2>1, RowsStand
    <2>3. exec' = [exec EXCEPT ![r] = "none"] /\ up' = up /\ up # "down" /\ turn' = turn
      BY <1>2, QuietTurn DEF RunEnds
    <2> QED BY <2>2, <2>3, ReportKeeps
  <1>3. ASSUME NEW r \in DOMAIN run, StoppedExit(r) PROVE Keeps
    <2>1. SameRows
      BY <1>3, RowsStand DEF StoppedExit, Report
    <2>2. exec' = [exec EXCEPT ![r] = "none"] /\ up' = up /\ up # "down" /\ turn' = turn
      BY <1>3, QuietTurn DEF StoppedExit, Report
    <2> QED BY <2>1, <2>2, ReportKeeps
  <1> QED BY <1>1, <1>2, <1>3

LEMMA CancelKeeps == TypeOK /\ CancelRun => Keeps
  <1> SUFFICES ASSUME TypeOK, CancelRun PROVE Keeps
    OBVIOUS
  <1>1. up # "down" /\ up' = up /\ turn # <<>> /\ ~Heads("fail")
    BY DEF CancelRun, Heads
  <1>2. SameRows
    <2>1. run' = run \/ run' = [run EXCEPT ![Of].status = "cancelled"]
      BY DEF CancelRun
    <2> QED BY <2>1, RowsStand
  <1>3. Plain(turn')
    <2>1. turn' = <<>> \/ turn' = Tail(turn) \/ turn' = <<>> \o Tail(turn)
      BY DEF CancelRun, Go
    <2> QED BY <1>1, <2>1, GoPlain, NowPlain
  <1>4. \A r \in DOMAIN run : exec'[r] = "active" => exec[r] = "active"
    <2>1. exec' = exec \/ \E q : exec' = [exec EXCEPT ![q] = "stopping"]
      BY DEF CancelRun
    <2>2. DOMAIN run \subseteq 1..MaxRuns
      BY TypedSteps
    <2> QED BY <2>1, <2>2, TypedSteps
  <1> QED BY <1>1, <1>2, <1>3, <1>4 DEF Keeps, SameRows, Failing

LEMMA ProcessKeeps ==
  ASSUME TypeOK, Crash \/ Ready \/ \E s \in Sessions : Reconcile(s)
  PROVE  Keeps
  <1>1. DOMAIN run = 1..Len(run) /\ Len(run) \in Nat /\ exec \in [1..MaxRuns -> {"none", "active", "stopping"}]
    BY TypedSteps
  <1>2. \A r \in DOMAIN run : run[r] \in RunType(Len(session))
    BY <1>1, RunFields
  <1>3. ASSUME Crash PROVE Keeps
    <2>1. SameRows
      BY <1>3, RowsStand DEF Crash, saved
    <2>2. turn' = <<>> /\ \A r \in DOMAIN exec : exec'[r] = "none"
      BY <1>3 DEF Crash
    <2>3. DOMAIN exec' = DOMAIN exec /\ DOMAIN run \subseteq DOMAIN exec
      <3>1. exec' = [r \in DOMAIN exec |-> "none"]
        BY <1>3 DEF Crash
      <3> QED BY <3>1, TypedSteps
    <2> QED BY <2>1, <2>2, <2>3 DEF Keeps, SameRows, Plain
  <1>4. ASSUME Ready PROVE Keeps
    <2> DEFINE Open(r) == /\ run[r].status = "running" /\ run[r].interrupted
                          /\ \E t \in Owner(r) : /\ task[t].state = "unknown" /\ session[task[t].session].state = "finished"
                                                 /\ session[task[t].session].outcome = "needs-attention"
               Closed(r) == IF Open(r) THEN [run[r] EXCEPT !.status = "failed"] ELSE run[r]
    <2>1. run' = [r \in DOMAIN run |-> Closed(r)]
      BY <1>4 DEF Ready
    <2>2. \A r \in DOMAIN run : Closed(r).calls = run[r].calls /\ Closed(r).acked = run[r].acked
      <3> HIDE DEF Open
      <3> QED BY <1>2 DEF RunType
    <2> HIDE DEF Closed
    <2>3. SameRows
      BY <1>1, <2>1, <2>2 DEF SameRows
    <2>4. up' = "up" /\ UNCHANGED <<turn, exec>>
      BY <1>4 DEF Ready, memory
    <2> QED BY <2>3, <2>4 DEF Keeps, SameRows
  <1>5. ASSUME NEW s \in Sessions, Reconcile(s) PROVE Keeps
    <2>1. up = "starting" /\ UNCHANGED <<exec, turn, up>>
      BY <1>5 DEF Reconcile
    <2>2. \/ UNCHANGED run
          \/ \E rs \in SUBSET DOMAIN run : run' = [r \in DOMAIN run |->
               IF r \in rs THEN [run[r] EXCEPT !.status = "cancelled", !.interrupted = FALSE] ELSE run[r]]
      <3> DEFINE running == Running(s)
                 coverage == {t \in running : task[t].kind = "coverage"}
                 lone == {t \in running \ coverage : task[t].run = 0}
                 found == Unlinked(s)
                 links == Cardinality(found) = 1 /\ \A r \in found : run[r].status = "running"
                 stop == Stopping(s)
                 Kept(t) == IF t \in coverage /\ ~stop THEN [task[t] EXCEPT !.state = "ready"]
                            ELSE IF t \notin lone THEN task[t]
                            ELSE IF links /\ t = First(lone) THEN [task[t] EXCEPT !.run = CHOOSE r \in found : TRUE]
                            ELSE IF stop THEN task[t] ELSE [task[t] EXCEPT !.state = "ready"]
                 kept == [t \in DOMAIN task |-> Kept(t)]
                 Over(r) == run[r].status = "running" /\ \E t \in running : kept[t].run = r
                 rs == {r \in DOMAIN run : Over(r)}
                 Cancelled(r) == [run[r] EXCEPT !.status = "cancelled", !.interrupted = FALSE]
      <3>1. UNCHANGED run \/ run' = [r \in DOMAIN run |-> IF Over(r) THEN Cancelled(r) ELSE run[r]]
        BY <1>5 DEF Reconcile
      <3> HIDE DEF Over
      <3>2. \A r \in DOMAIN run : Over(r) <=> r \in rs
        OBVIOUS
      <3>3. rs \in SUBSET DOMAIN run
        OBVIOUS
      <3> HIDE DEF rs
      <3>4. UNCHANGED run \/ run' = [r \in DOMAIN run |-> IF r \in rs THEN Cancelled(r) ELSE run[r]]
        BY <3>1, <3>2
      <3> QED BY <3>3, <3>4
    <2>3. SameRows
      <3>1. ASSUME NEW rs \in SUBSET DOMAIN run, run' = [r \in DOMAIN run |->
               IF r \in rs THEN [run[r] EXCEPT !.status = "cancelled", !.interrupted = FALSE] ELSE run[r]]
            PROVE  SameRows
        <4>1. \A r \in DOMAIN run : run'[r].calls = run[r].calls /\ run'[r].acked = run[r].acked
          BY <1>2, <3>1 DEF RunType
        <4>2. DOMAIN run' = DOMAIN run
          BY <3>1
        <4> QED BY <1>1, <4>1, <4>2 DEF SameRows
      <3> QED BY <2>2, <3>1, RowsStand
    <2> QED BY <2>1, <2>3 DEF Keeps, SameRows
  <1> QED BY <1>3, <1>4, <1>5

\* A set of stages with no gap is the first so many.
LEMMA PrefixIs ==
  ASSUME NEW N \in Nat, NEW D \in SUBSET (1..N), \A k \in D : \A j \in 1..N : j < k => j \in D
  PROVE  D = 1..Cardinality(D)
  <1> DEFINE gaps == {j \in 1..(N + 1) : j \notin D}
  <1>1. gaps \subseteq Nat /\ gaps # {}
    <2>1. N + 1 \in gaps
      OBVIOUS
    <2> QED BY <2>1
  <1> DEFINE x == First(gaps)
  <1>2. x \in gaps /\ \A j \in gaps : x <= j
    <2> HIDE DEF gaps
    <2> QED BY <1>1, FirstIsLeast
  <1>3. x \in 1..(N + 1) /\ x \notin D
    BY <1>2
  <1>4. \A j \in 1..N : j < x => j \in D
    BY <1>2, <1>3
  <1> HIDE DEF x, gaps
  <1>5. \A k \in D : k < x
    BY <1>3
  <1>6. D = 1..(x - 1)
    <2>1. \A j \in 1..(x - 1) : j \in D
      BY <1>3, <1>4
    <2>2. \A k \in D : k \in 1..N /\ k < x
      BY <1>5
    <2>3. \A k \in D : k \in 1..(x - 1)
      BY <1>3, <2>2
    <2> QED BY <2>1, <2>3
  <1>7. Cardinality(1..(x - 1)) = x - 1
    <2>1. x - 1 \in Int /\ 1 \in Int /\ x - 1 >= 1 - 1
      BY <1>3
    <2>2. Cardinality(1..(x - 1)) = IF 1 > x - 1 THEN 0 ELSE (x - 1) - 1 + 1
      BY <2>1, FS_Interval
    <2> QED BY <2>1, <2>2
  <1> QED BY <1>6, <1>7

LEMMA CallIs ==
  ASSUME NEW calls \in Seq(CallType)
  PROVE  /\ DOMAIN calls = 1..Len(calls) /\ Len(calls) \in Nat
         /\ \A i \in DOMAIN calls : calls[i] \in CallType /\ calls[i].stage \in 1..Stages
                                    /\ calls[i].state \in Ended \cup {"prepared", "sent", "done", "lost"}
  <1>1. DOMAIN calls = 1..Len(calls) /\ Len(calls) \in Nat /\ \A i \in DOMAIN calls : calls[i] \in CallType
    OBVIOUS
  <1> QED BY <1>1 DEF CallType, Ended

\* The next stage is asked when nothing is in flight and whatever may have been completed is acknowledged.
LEMMA AskedNext ==
  ASSUME NEW calls \in Seq(CallType), NEW acked, ToldIn(calls, acked), InTurnIn(calls),
         FlyingIn(calls) = {}, OpenIn(calls) \subseteq acked,
         NEW k, k = Cardinality({j \in 1..Stages : DoneIn(calls, j)}) + 1, k <= Stages
  PROVE  LET more == Append(calls, [stage |-> k, state |-> "prepared"]) IN
         ToldIn(more, acked) /\ InTurnIn(more) /\ OpenIn(more) \subseteq acked
  <1> DEFINE D == {j \in 1..Stages : DoneIn(calls, j)} c == [stage |-> k, state |-> "prepared"]
             more == Append(calls, c) n == Len(calls)
  <1>1. Stages \in Nat
    BY BoundsAssumption
  <1>2. DOMAIN calls = 1..n /\ n \in Nat
        /\ \A i \in DOMAIN calls : calls[i] \in CallType /\ calls[i].stage \in 1..Stages
                                   /\ calls[i].state \in Ended \cup {"prepared", "sent", "done", "lost"}
    BY CallIs
  <1>3. D = 1..Cardinality(D)
    <2>1. \A m \in D : \A j \in 1..Stages : j < m => j \in D
      BY <1>2 DEF InTurnIn, DoneIn
    <2>2. D \in SUBSET (1..Stages)
      OBVIOUS
    <2> HIDE DEF D
    <2> QED BY <1>1, <2>1, <2>2, PrefixIs
  <1>4. Cardinality(D) \in Nat
    <2>1. IsFiniteSet(1..Stages)
      BY <1>1, FS_Interval
    <2>2. IsFiniteSet(D)
      BY <2>1, FS_Subset
    <2> QED BY <2>2, FS_CardinalityType
  <1>5. k \in 1..Stages /\ ~DoneIn(calls, k) /\ \A j \in 1..Stages : j < k => DoneIn(calls, j)
    <2>1. k = Cardinality(D) + 1
      OBVIOUS
    <2>2. \A j \in 1..Stages : j \in D <=> j < k
      <3> HIDE DEF D
      <3> QED BY <1>3, <1>4, <2>1
    <2> QED BY <1>1, <1>4, <2>1, <2>2
  <1> HIDE DEF D
  <1>6. DOMAIN more = 1..(n + 1) /\ Len(more) = n + 1 /\ more[n + 1] = c /\ \A i \in 1..n : more[i] = calls[i]
    BY <1>2
  <1>7. c.stage = k /\ c.state = "prepared"
    OBVIOUS
  <1> HIDE DEF more, c
  <1>8. \A i \in 1..n : calls[i].stage = k => calls[i].state \in Ended \/ i \in acked
    <2> SUFFICES ASSUME NEW i \in 1..n, calls[i].stage = k, calls[i].state \notin Ended PROVE i \in acked
      OBVIOUS
    <2>1. calls[i].state \notin {"prepared", "sent", "done"}
      BY <1>2, <1>5 DEF FlyingIn, DoneIn
    <2>2. calls[i].state = "lost"
      BY <1>2, <2>1
    <2>3. i \in OpenIn(calls)
      BY <1>2, <1>5, <2>2 DEF OpenIn, DoneIn
    <2> QED BY <2>3
  <1>9. ToldIn(more, acked)
    BY <1>2, <1>6, <1>7, <1>8 DEF ToldIn
  <1>10. InTurnIn(more)
    <2>1. \A j \in 1..Stages : DoneIn(calls, j) => DoneIn(more, j)
      BY <1>2, <1>6 DEF DoneIn
    <2>2. \A i \in FlyingIn(more) : i = Len(more)
      BY <1>2, <1>6 DEF FlyingIn
    <2>3. \A i \in DOMAIN more : \A j \in 1..Stages : j < more[i].stage => DoneIn(more, j)
      BY <1>2, <1>5, <1>6, <1>7, <2>1 DEF InTurnIn
    <2> QED BY <2>2, <2>3 DEF InTurnIn
  <1>11. OpenIn(more) \subseteq acked
    <2>1. \A i \in OpenIn(more) : i \in OpenIn(calls)
      BY <1>2, <1>6, <1>7 DEF OpenIn
    <2> QED BY <2>1
  <1> QED BY <1>9, <1>10, <1>11 DEF more, c

\* The request in flight is sent or answered.
LEMMA LastAnswered ==
  ASSUME NEW calls \in Seq(CallType), NEW acked, NEW told, acked \subseteq told, ToldIn(calls, acked), InTurnIn(calls),
         NEW i \in FlyingIn(calls), NEW state
  PROVE  LET after == [calls EXCEPT ![i].state = state] IN
         /\ ToldIn(after, told) /\ InTurnIn(after)
         /\ OpenIn(after) \subseteq OpenIn(calls) \cup {i}
         /\ state \notin {"sent", "lost"} => OpenIn(after) \subseteq OpenIn(calls) \ {i}
         /\ state = "sent" => i \in FlyingIn(after)
         /\ \A j \in FlyingIn(calls) : j = i
  <1> DEFINE after == [calls EXCEPT ![i].state = state] n == Len(calls)
  <1>1. DOMAIN calls = 1..n /\ n \in Nat
        /\ \A j \in DOMAIN calls : calls[j] \in CallType /\ calls[j].stage \in 1..Stages
                                   /\ calls[j].state \in Ended \cup {"prepared", "sent", "done", "lost"}
    BY CallIs
  <1>2. i \in 1..n /\ i = n /\ calls[i].state \in {"prepared", "sent"}
    BY <1>1 DEF InTurnIn, FlyingIn
  <1>3. DOMAIN after = 1..n /\ Len(after) = n /\ \A j \in 1..n : after[j].stage = calls[j].stage /\ (j # i => after[j] = calls[j])
    BY <1>1, <1>2 DEF CallType
  <1>4. after[i].state = state
    BY <1>1, <1>2 DEF CallType
  <1> HIDE DEF after
  <1>5. ToldIn(after, told)
    <2> SUFFICES ASSUME NEW a \in 1..n, NEW b \in 1..n, a < b, after[a].stage = after[b].stage, after[b].state # "never"
                 PROVE  after[a].state \in Ended \/ a \in told
      BY <1>3 DEF ToldIn
    <2>1. a # i
      BY <1>2
    <2>2. calls[b].state # "never"
      BY <1>2, <1>3
    <2>3. calls[a].stage = calls[b].stage
      BY <1>3
    <2>4. calls[a].state \in Ended \/ a \in acked
      BY <1>1, <2>2, <2>3 DEF ToldIn
    <2> QED BY <1>3, <2>1, <2>4
  <1>6. \A j \in FlyingIn(calls) : j = i
    BY <1>2 DEF InTurnIn
  <1>7. InTurnIn(after)
    <2>1. \A k \in 1..Stages : DoneIn(calls, k) => DoneIn(after, k)
      BY <1>1, <1>2, <1>3 DEF DoneIn
    <2>2. \A j \in FlyingIn(after) : j = Len(after)
      BY <1>1, <1>2, <1>3, <1>6 DEF FlyingIn
    <2>3. \A j \in DOMAIN after : \A k \in 1..Stages : k < after[j].stage => DoneIn(after, k)
      BY <1>1, <1>3, <2>1 DEF InTurnIn
    <2> QED BY <2>2, <2>3 DEF InTurnIn
  <1>8. \A j \in OpenIn(after) : j = i \/ j \in OpenIn(calls)
    BY <1>1, <1>2, <1>3 DEF OpenIn
  <1>9. state \notin {"sent", "lost"} => i \notin OpenIn(after)
    BY <1>4 DEF OpenIn
  <1>10. state = "sent" => i \in FlyingIn(after)
    BY <1>2, <1>3, <1>4 DEF FlyingIn
  <1> QED BY <1>5, <1>6, <1>7, <1>8, <1>9, <1>10 DEF after

\* A step that changes the requests of one run, and leaves the others as they are.
LEMMA OneRowCallInv ==
  ASSUME TypeOK, CallInv, NEW r \in DOMAIN run, DOMAIN run' = DOMAIN run,
         \A q \in DOMAIN run : q # r => /\ run'[q].calls = run[q].calls /\ run'[q].acked = run[q].acked
                                        /\ (exec'[q] = "active" => exec[q] = "active"),
         ToldIn(run'[r].calls, run'[r].acked), InTurnIn(run'[r].calls),
         up' # "down", ~Heads("fail"), Plain(turn') \/ turn' = <<Step("fail", r)>>,
         exec'[r] = "active" => \/ turn' = <<Step("fail", r)>>
                                \/ OpenIn(run'[r].calls) \subseteq run'[r].acked \cup FlyingIn(run'[r].calls)
  PROVE  CallInv'
  <1>1. Rows'
    BY DEF CallInv, Rows
  <1>2. NothingHidden'
    <2> SUFFICES ASSUME NEW q \in DOMAIN run, exec'[q] = "active"
                 PROVE  \/ turn' # <<>> /\ Head(turn').do = "fail" /\ Head(turn').of = q
                        \/ OpenIn(run'[q].calls) \subseteq run'[q].acked \cup FlyingIn(run'[q].calls)
      BY DEF NothingHidden, KnowsAll, Failing, Heads, Of
    <2>1. CASE q = r
      <3>1. turn' = <<Step("fail", r)>> => turn' # <<>> /\ Head(turn').do = "fail" /\ Head(turn').of = q
        BY <2>1 DEF Step
      <3> QED BY <2>1, <3>1
    <2>2. CASE q # r
      <3>1. KnowsAll(q)
        BY <2>2 DEF CallInv, NothingHidden, Failing
      <3> QED BY <2>2, <3>1 DEF KnowsAll
    <2> QED BY <2>1, <2>2
  <1>3. FreshLink'
    <2>1. ~Heads("link")'
      BY DEF Heads, Plain, Step
    <2> QED BY <2>1 DEF FreshLink
  <1>4. DownIsStill'
    BY DEF DownIsStill
  <1> QED BY <1>1, <1>2, <1>3, <1>4 DEF CallInv

LEMMA RowOf ==
  ASSUME TypeOK, CallInv, NEW r \in DOMAIN run
  PROVE  /\ run[r].calls \in Seq(CallType) /\ ToldIn(run[r].calls, run[r].acked) /\ InTurnIn(run[r].calls)
         /\ FlyingIn(run[r].calls) = InFlight(r) /\ OpenIn(run[r].calls) = Unresolved(r)
         /\ (exec[r] = "active" /\ ~Heads("fail") => OpenIn(run[r].calls) \subseteq run[r].acked \cup FlyingIn(run[r].calls))
  <1>1. run[r].calls \in Seq(CallType)
    BY TypedSteps, RunFields
  <1>2. ToldIn(run[r].calls, run[r].acked) /\ InTurnIn(run[r].calls)
    BY DEF CallInv, Rows
  <1>3. FlyingIn(run[r].calls) = InFlight(r) /\ OpenIn(run[r].calls) = Unresolved(r)
    BY DEF FlyingIn, InFlight, OpenIn, Unresolved
  <1>4. exec[r] = "active" /\ ~Heads("fail") => KnowsAll(r)
    BY DEF CallInv, NothingHidden, Failing
  <1> QED BY <1>1, <1>2, <1>3, <1>4 DEF KnowsAll

LEMMA PrepareCalls == ASSUME TypeOK, CallInv, NEW r \in DOMAIN run, Prepare(r) PROVE CallInv'
  <1> DEFINE calls == run[r].calls k == NextStage(r) more == Append(calls, [stage |-> k, state |-> "prepared"])
  <1>1. run' = [run EXCEPT ![r].calls = more] /\ UNCHANGED <<exec, turn, up>> /\ exec[r] = "active"
        /\ InFlight(r) = {} /\ k <= Stages /\ Quiet
    BY DEF Prepare, memory
  <1>2. up # "down" /\ ~Heads("fail") /\ Plain(turn)
    BY <1>1, QuietTurn DEF Plain
  <1>3. k = Cardinality({j \in 1..Stages : DoneIn(calls, j)}) + 1
    BY DEF NextStage, StageDone, DoneIn
  <1>4. /\ calls \in Seq(CallType) /\ ToldIn(calls, run[r].acked) /\ InTurnIn(calls)
        /\ FlyingIn(calls) = {} /\ OpenIn(calls) \subseteq run[r].acked
    BY <1>1, <1>2, RowOf
  <1>5. run[r] \in RunType(Len(session))
    BY TypedSteps, RunFields
  <1> HIDE DEF k, calls
  <1>6. ToldIn(more, run[r].acked) /\ InTurnIn(more) /\ OpenIn(more) \subseteq run[r].acked
    BY <1>1, <1>3, <1>4, AskedNext
  <1> HIDE DEF more
  <1>7. DOMAIN run' = DOMAIN run /\ \A q \in DOMAIN run : q # r => run'[q] = run[q]
    BY <1>1
  <1>8. run'[r].calls = more /\ run'[r].acked = run[r].acked
    BY <1>1, <1>5 DEF RunType
  <1> QED BY <1>1, <1>2, <1>6, <1>7, <1>8, OneRowCallInv

\* The request in flight changes its state, and perhaps is acknowledged.
LEMMA AnswerCallInv ==
  ASSUME TypeOK, CallInv, NEW r \in DOMAIN run, NEW i \in InFlight(r), NEW state, NEW told, run[r].acked \subseteq told,
         run' = [run EXCEPT ![r].calls[i].state = state, ![r].acked = told],
         Quiet, UNCHANGED <<exec, up>>, turn' = turn \/ turn' = <<Step("fail", r)>>,
         \/ exec[r] # "active" \/ turn' = <<Step("fail", r)>> \/ state \notin {"lost"} \/ i \in told
  PROVE  CallInv'
  <1> DEFINE calls == run[r].calls acked == run[r].acked after == [calls EXCEPT ![i].state = state]
  <1>1. turn = <<>> /\ up # "down" /\ ~Heads("fail")
    BY QuietTurn
  <1>2. Plain(turn') \/ turn' = <<Step("fail", r)>>
    BY <1>1 DEF Plain
  <1>3. /\ calls \in Seq(CallType) /\ ToldIn(calls, acked) /\ InTurnIn(calls) /\ i \in FlyingIn(calls)
        /\ (exec[r] = "active" => OpenIn(calls) \subseteq acked \cup FlyingIn(calls))
    BY <1>1, RowOf
  <1>4. run[r] \in RunType(Len(session))
    BY TypedSteps, RunFields
  <1>5. run'[r].calls = after /\ run'[r].acked = told
    BY <1>4 DEF RunType
  <1>6. /\ DOMAIN run' = DOMAIN run
        /\ \A q \in DOMAIN run : q # r => /\ run'[q].calls = run[q].calls /\ run'[q].acked = run[q].acked
                                          /\ (exec'[q] = "active" => exec[q] = "active")
    OBVIOUS
  <1>7. acked \subseteq told
    OBVIOUS
  <1> HIDE DEF calls, acked
  <1>8. /\ ToldIn(after, told) /\ InTurnIn(after)
        /\ OpenIn(after) \subseteq OpenIn(calls) \cup {i}
        /\ state \notin {"sent", "lost"} => OpenIn(after) \subseteq OpenIn(calls) \ {i}
        /\ state = "sent" => i \in FlyingIn(after)
        /\ \A j \in FlyingIn(calls) : j = i
    BY <1>3, <1>7, LastAnswered
  <1> HIDE DEF after
  <1>9. exec'[r] = "active" => \/ turn' = <<Step("fail", r)>>
                               \/ OpenIn(run'[r].calls) \subseteq run'[r].acked \cup FlyingIn(run'[r].calls)
    BY <1>3, <1>5, <1>7, <1>8
  <1>10. ToldIn(run'[r].calls, run'[r].acked) /\ InTurnIn(run'[r].calls) /\ up' # "down"
    BY <1>1, <1>5, <1>8
  <1> QED BY <1>1, <1>2, <1>6, <1>9, <1>10, OneRowCallInv

LEMMA AskIs ==
  ASSUME TypeOK, NEW r \in DOMAIN run, NEW i, NEW state, Ask(r, i, state)
  PROVE  run' = [run EXCEPT ![r].calls[i].state = state, ![r].acked = run[r].acked]
  <1>1. run[r] \in RunType(Len(session))
    BY TypedSteps, RunFields
  <1> QED BY <1>1 DEF Ask, RunType

LEMMA SendCalls == ASSUME TypeOK, CallInv, NEW r \in DOMAIN run, Send(r) PROVE CallInv'
  <1>1. PICK i \in InFlight(r) : Ask(r, i, "sent")
    BY DEF Send
  <1>2. run' = [run EXCEPT ![r].calls[i].state = "sent", ![r].acked = run[r].acked]
    BY <1>1, AskIs, ZenonT(60)
  <1>3. Quiet /\ UNCHANGED <<exec, up, turn>>
    BY DEF Send, memory
  <1> DEFINE told == run[r].acked sent == "sent"
  <1>4. run[r].acked \subseteq told /\ run' = [run EXCEPT ![r].calls[i].state = sent, ![r].acked = told]
        /\ sent \notin {"lost"}
    BY <1>2
  <1> HIDE DEF told, sent
  <1> QED BY <1>3, <1>4, AnswerCallInv

LEMMA StoppedCallCalls == ASSUME TypeOK, CallInv, NEW r \in DOMAIN run, StoppedCall(r) PROVE CallInv'
  <1>1. PICK i \in InFlight(r) : \E ended : Ask(r, i, ended)
    BY DEF StoppedCall
  <1>2. PICK ended : Ask(r, i, ended)
    BY <1>1
  <1>3. run' = [run EXCEPT ![r].calls[i].state = ended, ![r].acked = run[r].acked]
    BY <1>2, AskIs, ZenonT(60)
  <1>4. exec[r] # "active" /\ Quiet /\ UNCHANGED <<exec, up, turn>>
    BY DEF StoppedCall, memory
  <1> QED BY <1>3, <1>4, AnswerCallInv

LEMMA CallEndsCalls == ASSUME TypeOK, CallInv, NEW r \in DOMAIN run, CallEnds(r) PROVE CallInv'
  <1> DEFINE told(i, ended) == IF ended = "lost" THEN run[r].acked \cup {i} ELSE run[r].acked
  <1>1. PICK i \in InFlight(r) : \E ended :
          \/ ended # "lost" /\ Ask(r, i, ended) /\ UNCHANGED turn
          \/ run' = [run EXCEPT ![r].calls[i].state = ended, ![r].acked = told(i, ended)] /\ UNCHANGED turn
          \/ Ask(r, i, ended) /\ turn' = <<Step("fail", r)>>
    BY DEF CallEnds, Now
  <1>2. PICK ended :
          \/ ended # "lost" /\ Ask(r, i, ended) /\ UNCHANGED turn
          \/ run' = [run EXCEPT ![r].calls[i].state = ended, ![r].acked = told(i, ended)] /\ UNCHANGED turn
          \/ Ask(r, i, ended) /\ turn' = <<Step("fail", r)>>
    BY <1>1
  <1>3. Quiet /\ UNCHANGED <<exec, up>>
    BY DEF CallEnds
  <1>4. ASSUME Ask(r, i, ended), (ended # "lost" /\ UNCHANGED turn) \/ turn' = <<Step("fail", r)>> PROVE CallInv'
    <2>1. run' = [run EXCEPT ![r].calls[i].state = ended, ![r].acked = run[r].acked]
      BY <1>4, AskIs, ZenonT(60)
    <2> QED BY <1>3, <1>4, <2>1, AnswerCallInv
  <1>5. ASSUME run' = [run EXCEPT ![r].calls[i].state = ended, ![r].acked = told(i, ended)], UNCHANGED turn PROVE CallInv'
    <2> DEFINE kept == told(i, ended)
    <2>1. run[r].acked \subseteq kept /\ (ended = "lost" => i \in kept)
      OBVIOUS
    <2>2. run' = [run EXCEPT ![r].calls[i].state = ended, ![r].acked = kept]
      BY <1>5
    <2> HIDE DEF kept
    <2>3. ended \notin {"lost"} \/ i \in kept
      BY <2>1
    <2> QED BY <1>3, <1>5, <2>1, <2>2, <2>3, AnswerCallInv
  <1> QED BY <1>2, <1>4, <1>5

LEMMA NoCalls ==
  ASSUME NEW acked
  PROVE  /\ ToldIn(<<>>, acked) /\ InTurnIn(<<>>) /\ OpenIn(<<>>) = {} /\ FlyingIn(<<>>) = {}
  BY DEF ToldIn, InTurnIn, OpenIn, FlyingIn

LEMMA CreateRunCalls == TypeOK /\ CallInv /\ CreateRun => CallInv'
  <1> SUFFICES ASSUME TypeOK, CallInv, CreateRun PROVE CallInv'
    OBVIOUS
  <1> DEFINE t == Of s == task[t].session ideas == task[t].kind = "ideas" new == NewRun(s, ideas) n == Len(run)
  <1>1. turn # <<>> /\ Head(turn).do = "create" /\ up # "down" /\ UNCHANGED <<exec, up>> /\ ~Heads("fail")
    BY DEF CreateRun, At, Heads
  <1>2. \/ run' = Append(run, new) /\ turn' = <<Step("link", t)>> \o Tail(turn)
        \/ UNCHANGED run /\ turn' = <<Step("failDispatch", t)>> \o Tail(turn)
    BY DEF CreateRun, Go
  <1>3. CASE UNCHANGED run /\ turn' = <<Step("failDispatch", t)>> \o Tail(turn)
    <2>1. Plain(turn')
      BY <1>1, <1>3, GoPlain
    <2>2. Keeps
      BY <1>1, <1>3, <2>1, KeepsTurn
    <2> QED BY <2>2, KeepsCallInv
  <1>4. CASE run' = Append(run, new) /\ turn' = <<Step("link", t)>> \o Tail(turn)
    <2>1. new.calls = <<>> /\ new.acked = {}
      BY DEF NewRun
    <2> HIDE DEF new
    <2>2. /\ DOMAIN run = 1..n /\ n \in Nat
          /\ DOMAIN run' = 1..(n + 1) /\ Len(run') = n + 1 /\ run'[n + 1] = new /\ \A r \in 1..n : run'[r] = run[r]
      BY <1>4 DEF TypeOK
    <2> HIDE DEF n, t
    <2>3. Rows'
      BY <2>1, <2>2, NoCalls DEF CallInv, Rows
    <2>4. NothingHidden'
      <3> SUFFICES ASSUME NEW r \in DOMAIN run', exec'[r] = "active"
                   PROVE  OpenIn(run'[r].calls) \subseteq run'[r].acked \cup FlyingIn(run'[r].calls)
        BY DEF NothingHidden, KnowsAll
      <3>1. CASE r \in DOMAIN run
        <4>1. KnowsAll(r)
          BY <1>1, <3>1 DEF CallInv, NothingHidden, Failing
        <4> QED BY <2>2, <3>1, <4>1 DEF KnowsAll
      <3>2. CASE r \notin DOMAIN run
        <4>1. run'[r].calls = <<>>
          BY <2>1, <2>2, <3>2
        <4> QED BY <4>1, NoCalls
      <3> QED BY <3>1, <3>2
    <2>5. FreshLink'
      BY <2>1, <2>2 DEF FreshLink
    <2>6. DownIsStill'
      BY <1>1 DEF DownIsStill
    <2> QED BY <2>3, <2>4, <2>5, <2>6 DEF CallInv
  <1> QED BY <1>2, <1>3, <1>4

\* The run that is linked asked for nothing yet.
LEMMA LinkRunCalls == TypeOK /\ CallInv /\ LinkRun => CallInv'
  <1> SUFFICES ASSUME TypeOK, CallInv, LinkRun PROVE CallInv'
    OBVIOUS
  <1> DEFINE r == Len(run)
  <1>1. turn # <<>> /\ Head(turn).do = "link" /\ up # "down" /\ up' = up /\ ~Heads("fail") /\ Heads("link")
    BY DEF LinkRun, At, Heads
  <1>2. turn' = <<>> \o Tail(turn)
    BY DEF LinkRun, Go
  <1>3. \/ exec' = [exec EXCEPT ![r] = "active"] /\ UNCHANGED run
        \/ run' = [run EXCEPT ![r].status = "cancelled"] /\ UNCHANGED exec
    BY DEF LinkRun, AdmitRun
  <1>4. r \in DOMAIN run /\ run[r].calls = <<>>
    BY <1>1, TypedSteps DEF CallInv, FreshLink
  <1>5. SameRows
    BY <1>3, RowsStand
  <1>6. Plain(turn')
    BY <1>1, <1>2, GoPlain
  <1> HIDE DEF r
  <1>7. \A q \in DOMAIN run : q # r => (exec'[q] = "active" => exec[q] = "active")
    BY <1>3, TypedSteps
  <1>8. run'[r].calls = <<>>
    BY <1>4, <1>5 DEF SameRows
  <1> QED BY <1>1, <1>4, <1>5, <1>6, <1>7, <1>8, NoCalls, OneRowCallInv DEF SameRows

\* A run is resumed only when every request that may have been completed is acknowledged.
LEMMA ResumeRunCalls == TypeOK /\ CallInv /\ ResumeRun => CallInv'
  <1> SUFFICES ASSUME TypeOK, CallInv, ResumeRun PROVE CallInv'
    OBVIOUS
  <1> DEFINE r == Of
             steps == [i \in 1..Cardinality(Owner(r)) |-> Step("failDispatch", First(Owner(r)))]
  <1>1. turn # <<>> /\ up # "down" /\ up' = up /\ ~Heads("fail") /\ Head(turn).do \in RunSteps
    BY DEF ResumeRun, Heads, RunSteps
  <1>2. r \in DOMAIN run
    BY <1>1, HeadOf, TypedSteps
  <1>3. \/ turn' = <<>> \o Tail(turn) /\ UNCHANGED <<run, exec>>
        \/ /\ ~UnknownCompletion(r) /\ turn' = <<>> \o Tail(turn)
           /\ run' = [run EXCEPT ![r].status = "running", ![r].interrupted = FALSE] /\ exec' = [exec EXCEPT ![r] = "active"]
        \/ /\ UNCHANGED run \/ run' = [run EXCEPT ![r].status = "failed", ![r].interrupted = TRUE]
           /\ UNCHANGED exec /\ turn' = steps \o Tail(turn)
    BY DEF ResumeRun, MayResume, Go
  <1>4. SameRows
    BY <1>3, RowsStand, ZenonT(60)
  <1>5. Plain(turn')
    <2>1. Plain(steps \o Tail(turn))
      <3> DEFINE x == First(Owner(r)) n == Cardinality(Owner(r)) T == StepType(Len(session), Len(task), Len(run))
      <3>1. Tail(turn) \in Seq(T)
        <4>1. turn \in TurnType(Len(session), Len(task), Len(run))
          BY DEF TypeOK, MemoryType
        <4> QED BY <1>1, <4>1, TurnTyped
      <3>2. n \in Nat
        <4>1. Owner(r) \subseteq 1..Len(task) /\ Len(task) \in Nat
          BY DEF Owner, TypeOK
        <4>2. n \in 0..Len(task)
          BY <4>1, SomeOf
        <4> QED BY <4>1, <4>2
      <3> DEFINE U == {Step("failDispatch", x)} \cup T
      <3>3. \A y \in U : y.do \notin {"link", "fail"}
        BY StepsArePlain DEF Step
      <3>4. steps \in Seq(U) /\ Tail(turn) \in Seq(U)
        <4>1. Seq(T) \subseteq Seq(U)
          BY SeqMono
        <4>2. steps \in [1..n -> U]
          OBVIOUS
        <4> HIDE DEF U, n, T
        <4>3. steps \in Seq(U)
          BY <3>2, <4>2, FunTyped
        <4> QED BY <3>1, <4>1, <4>3
      <3> HIDE DEF U, steps
      <3>5. steps \o Tail(turn) \in Seq(U)
        BY <3>4
      <3> QED BY <3>3, <3>5, PlainSeq
    <2> HIDE DEF steps
    <2> QED BY <1>1, <1>3, <2>1, GoPlain
  <1>6. CASE UNCHANGED exec
    <2>1. Keeps
      BY <1>1, <1>4, <1>5, <1>6 DEF Keeps, SameRows, Failing
    <2> QED BY <2>1, KeepsCallInv
  <1>7. CASE ~UnknownCompletion(r) /\ exec' = [exec EXCEPT ![r] = "active"]
    <2>1. OpenIn(run[r].calls) \subseteq run[r].acked
      BY <1>2, <1>7, RowOf DEF UnknownCompletion
    <2>2. ToldIn(run[r].calls, run[r].acked) /\ InTurnIn(run[r].calls)
      BY <1>2, RowOf
    <2> HIDE DEF r
    <2>3. \A q \in DOMAIN run : q # r => (exec'[q] = "active" => exec[q] = "active")
      BY <1>7, TypedSteps
    <2> QED BY <1>1, <1>2, <1>4, <1>5, <2>1, <2>2, <2>3, OneRowCallInv DEF SameRows
  <1> QED BY <1>3, <1>6, <1>7

\* Another request is acknowledged.
LEMMA AckCallInv ==
  ASSUME TypeOK, CallInv, NEW r \in DOMAIN run, NEW i, run' = [run EXCEPT ![r].acked = @ \cup {i}],
         UNCHANGED <<exec, up>>, Quiet, Plain(turn')
  PROVE  CallInv'
  <1> DEFINE calls == run[r].calls acked == run[r].acked
  <1>1. turn = <<>> /\ up # "down" /\ ~Heads("fail")
    BY QuietTurn
  <1>2. run[r] \in RunType(Len(session))
    BY TypedSteps, RunFields
  <1>3. run'[r].calls = calls /\ run'[r].acked = acked \cup {i}
    BY <1>2 DEF RunType
  <1>4. /\ DOMAIN run' = DOMAIN run
        /\ \A q \in DOMAIN run : q # r => /\ run'[q].calls = run[q].calls /\ run'[q].acked = run[q].acked
                                          /\ (exec'[q] = "active" => exec[q] = "active")
    OBVIOUS
  <1>5. ToldIn(calls, acked) /\ InTurnIn(calls) /\ (exec[r] = "active" => OpenIn(calls) \subseteq acked \cup FlyingIn(calls))
    BY <1>1, RowOf
  <1> HIDE DEF calls, acked
  <1>6. ToldIn(calls, acked \cup {i})
    BY <1>5 DEF ToldIn
  <1>7. exec'[r] = "active" => OpenIn(run'[r].calls) \subseteq run'[r].acked \cup FlyingIn(run'[r].calls)
    BY <1>3, <1>5
  <1>8. ToldIn(run'[r].calls, run'[r].acked) /\ InTurnIn(run'[r].calls) /\ up' # "down"
    BY <1>1, <1>3, <1>5, <1>6
  <1> QED BY <1>1, <1>4, <1>7, <1>8, OneRowCallInv

LEMMA RecoverCalls == ASSUME TypeOK, CallInv, NEW a \in asking, Recover(a) PROVE CallInv'
  <1>1. Quiet /\ a.do = "recover" /\ UNCHANGED <<exec, up>> /\ turn' = <<Step("recover", a.run)>>
        /\ run' = [run EXCEPT ![a.run].acked = @ \cup {a.attempt}]
    BY DEF Recover, Admitting, Reopen, Now
  <1>2. a.run \in DOMAIN run
    BY <1>1, AskFields, TypedSteps
  <1>3. Plain(turn')
    BY <1>1, NowPlain
  <1> QED BY <1>1, <1>2, <1>3, AckCallInv

LEMMA RetryAskCalls == ASSUME TypeOK, CallInv, NEW t \in DOMAIN task, RetryAsk(t) PROVE CallInv'
  <1> DEFINE r == task[t].run
  <1>1. Quiet /\ r # 0 /\ UNCHANGED <<exec, up, turn>>
        /\ (UNCHANGED run \/ \E i : run' = [run EXCEPT ![r].acked = @ \cup {i}])
    BY DEF RetryAsk, MayRetry, Await, saved
  <1>2. t \in 1..Len(task)
    BY DEF TypeOK
  <1>3. r \in DOMAIN run
    BY <1>1, <1>2, TaskFields, TypedSteps
  <1> HIDE DEF r
  <1>4. turn = <<>> /\ up # "down"
    BY <1>1, QuietTurn
  <1>5. Plain(turn')
    BY <1>1, <1>4 DEF Plain
  <1>6. UNCHANGED run => Keeps
    BY <1>1, <1>4, KeepsTurn
  <1> QED BY <1>1, <1>3, <1>5, <1>6, AckCallInv, KeepsCallInv

\* A restart closes what was prepared and takes what was sent for lost.
LEMMA RestartRow ==
  ASSUME NEW calls \in Seq(CallType), NEW acked, ToldIn(calls, acked), InTurnIn(calls), NEW after,
         after = [i \in DOMAIN calls |->
           [calls[i] EXCEPT !.state = IF @ = "prepared" THEN "never" ELSE IF @ = "sent" THEN "lost" ELSE @]]
  PROVE  ToldIn(after, acked) /\ InTurnIn(after)
  <1> DEFINE n == Len(calls)
  <1>1. DOMAIN calls = 1..n /\ n \in Nat
        /\ \A i \in DOMAIN calls : calls[i] \in CallType /\ calls[i].stage \in 1..Stages
                                   /\ calls[i].state \in Ended \cup {"prepared", "sent", "done", "lost"}
    BY CallIs
  <1>2. DOMAIN after = 1..n
    BY <1>1
  <1>3. \A i \in 1..n :
          /\ after[i].stage = calls[i].stage
          /\ after[i].state = IF calls[i].state = "prepared" THEN "never"
                              ELSE IF calls[i].state = "sent" THEN "lost" ELSE calls[i].state
    BY <1>1 DEF CallType
  <1>4. ToldIn(after, acked)
    <2> SUFFICES ASSUME NEW a \in 1..n, NEW b \in 1..n, a < b, after[a].stage = after[b].stage, after[b].state # "never"
                 PROVE  after[a].state \in Ended \/ a \in acked
      BY <1>2 DEF ToldIn
    <2>1. calls[a].stage = calls[b].stage /\ calls[b].state # "never"
      BY <1>3
    <2>2. calls[a].state \in Ended \/ a \in acked
      BY <1>1, <2>1 DEF ToldIn
    <2> QED BY <1>3, <2>2 DEF Ended
  <1>5. FlyingIn(after) = {}
    BY <1>1, <1>2, <1>3 DEF FlyingIn, Ended
  <1>6. \A k \in 1..Stages : DoneIn(calls, k) => DoneIn(after, k)
    BY <1>1, <1>2, <1>3 DEF DoneIn
  <1>7. \A i \in DOMAIN after : \A k \in 1..Stages : k < after[i].stage => DoneIn(after, k)
    BY <1>1, <1>2, <1>3, <1>6 DEF InTurnIn
  <1> QED BY <1>4, <1>5, <1>7 DEF InTurnIn

LEMMA RestartCalls == TypeOK /\ CallInv /\ Restart => CallInv'
  <1> SUFFICES ASSUME TypeOK, CallInv, Restart PROVE CallInv'
    OBVIOUS
  <1> DEFINE Shut(calls) == [i \in DOMAIN calls |->
               [calls[i] EXCEPT !.state = IF @ = "prepared" THEN "never" ELSE IF @ = "sent" THEN "lost" ELSE @]]
             Row(r) == [run[r] EXCEPT !.interrupted = @ \/ run[r].status = "running", !.calls = Shut(run[r].calls)]
  <1>1. run' = [r \in DOMAIN run |-> Row(r)]
    BY DEF Restart
  <1>2. up = "down" /\ up' = "starting" /\ UNCHANGED <<exec, turn>>
    BY DEF Restart, memory
  <1>3. \A r \in DOMAIN run : run[r] \in RunType(Len(session))
    BY TypedSteps, RunFields
  <1> HIDE DEF Shut
  <1>4. \A r \in DOMAIN run : Row(r).calls = Shut(run[r].calls) /\ Row(r).acked = run[r].acked
    BY <1>3 DEF RunType
  <1> HIDE DEF Row
  <1>5. DOMAIN run' = DOMAIN run /\ \A r \in DOMAIN run : run'[r].calls = Shut(run[r].calls) /\ run'[r].acked = run[r].acked
    BY <1>1, <1>4
  <1>6. Rows'
    <2> SUFFICES ASSUME NEW r \in DOMAIN run PROVE ToldIn(run'[r].calls, run'[r].acked) /\ InTurnIn(run'[r].calls)
      BY <1>5 DEF Rows
    <2> DEFINE calls == run[r].calls acked == run[r].acked after == Shut(calls)
    <2>1. calls \in Seq(CallType) /\ ToldIn(calls, acked) /\ InTurnIn(calls)
      BY RowOf
    <2>2. run'[r].calls = after /\ run'[r].acked = acked
      BY <1>5
    <2>3. after = [i \in DOMAIN calls |->
               [calls[i] EXCEPT !.state = IF @ = "prepared" THEN "never" ELSE IF @ = "sent" THEN "lost" ELSE @]]
      BY DEF Shut
    <2> HIDE DEF calls, acked, after
    <2>4. ToldIn(after, acked) /\ InTurnIn(after)
      BY <2>1, <2>3, RestartRow
    <2> QED BY <2>2, <2>4
  <1>7. NothingHidden'
    <2>1. \A r \in DOMAIN run : exec[r] = "none"
      <3>1. DOMAIN run \subseteq DOMAIN exec
        BY TypedSteps
      <3> QED BY <1>2, <3>1 DEF CallInv, DownIsStill
    <2> QED BY <1>2, <1>5, <2>1 DEF NothingHidden
  <1>8. FreshLink'
    <2>1. Heads("link")' => Heads("link")
      BY <1>2 DEF Heads
    <2>2. Len(run') = Len(run)
      BY <1>5, TypedSteps
    <2>3. Len(run) > 0 => Len(run) \in DOMAIN run
      BY TypedSteps
    <2>4. Shut(<<>>) = <<>>
      BY DEF Shut
    <2> QED BY <1>5, <2>1, <2>2, <2>3, <2>4 DEF CallInv, FreshLink
  <1>9. DownIsStill'
    BY <1>2 DEF DownIsStill
  <1> QED BY <1>6, <1>7, <1>8, <1>9 DEF CallInv

LEMMA EngineCalls == TypeOK /\ CallInv /\ EngineStep => CallInv'
  <1> SUFFICES ASSUME TypeOK, CallInv PROVE EngineStep => CallInv'
    OBVIOUS
  <1>1. Dispatch \/ CreateRun \/ LinkRun \/ FailDispatch => CallInv'
    BY TurnKeeps, KeepsCallInv, CreateRunCalls, LinkRunCalls
  <1>2. PlanGeneration \/ DispatchNext \/ LoopStep \/ FinishCollection \/ Cover => CallInv'
    BY TurnKeeps, NewTurnKeeps, KeepsCallInv
  <1>3. ASSUME NEW t \in DOMAIN task, CoverSent(t) \/ CoverAnswered(t) \/ CoverSettled(t) PROVE CallInv'
    <2>1. Keeps
      BY <1>3, StillKeeps, NewTurnKeeps
    <2> QED BY <2>1, KeepsCallInv
  <1>4. ASSUME NEW r \in DOMAIN run,
               Prepare(r) \/ Send(r) \/ CallEnds(r) \/ RunEnds(r) \/ StoppedCall(r) \/ StoppedExit(r)
        PROVE  CallInv'
    <2>1. RunEnds(r) \/ StoppedExit(r) => Keeps
      BY EndsKeep
    <2> QED BY <1>4, <2>1, PrepareCalls, SendCalls, CallEndsCalls, StoppedCallCalls, KeepsCallInv
  <1>5. FailRun \/ CancelRun \/ ResumeRun \/ TakeEvent \/ MissingResult => CallInv'
    BY EndsKeep, CancelKeeps, ResumeRunCalls, NewTurnKeeps, TurnKeeps, KeepsCallInv
  <1>6. CompleteFrame \/ CompleteDiscovery \/ CompleteGeneration \/ CompleteAssessment => CallInv'
    BY TurnKeeps, KeepsCallInv
  <1>7. RunFailed \/ RunCancelled => CallInv'
    <2>1. RunEndedShort("failed") => Keeps
      BY TurnKeeps
    <2>2. RunEndedShort("cancelled") => Keeps
      BY TurnKeeps
    <2> QED BY <2>1, <2>2, KeepsCallInv DEF RunFailed, RunCancelled
  <1>8. CloseEngine \/ Crash \/ Restart \/ Ready => CallInv'
    BY ManyKeeps, ProcessKeeps, RestartCalls, KeepsCallInv
  <1>9. ASSUME NEW s \in Sessions, Reconcile(s) PROVE CallInv'
    <2>1. Keeps
      BY <1>9, ProcessKeeps
    <2> QED BY <2>1, KeepsCallInv
  <1> QED BY <1>1, <1>2, <1>3, <1>4, <1>5, <1>6, <1>7, <1>8, <1>9, Zenon DEF EngineStep

LEMMA OwnerCalls == TypeOK /\ CallInv /\ OwnerStep => CallInv'
  <1> SUFFICES ASSUME TypeOK, CallInv PROVE OwnerStep => CallInv'
    OBVIOUS
  <1>1. ASSUME NEW a \in asking,
               Refuse(a) \/ Start(a) \/ Generate(a) \/ Recover(a) \/ Retry(a) \/ Reassess(a) \/ Assess(a)
        PROVE  CallInv'
    <2>1. Refuse(a) => Keeps
      BY StillKeeps
    <2>2. Start(a) \/ Generate(a) \/ Retry(a) \/ Reassess(a) \/ Assess(a) => Keeps
      BY NewTurnKeeps
    <2> QED BY <1>1, <2>1, <2>2, RecoverCalls, KeepsCallInv
  <1>2. ASSUME NEW s \in Sessions,
               \/ ApproveFrame(s) \/ RegenerateFrame(s) \/ GenerateAsk(s) \/ ReviseOnly(s) \/ Pause(s)
               \/ ResumeSaved(s) \/ ResumeNext(s) \/ Stop(s) \/ AssessAsk(s)
        PROVE  CallInv'
    <2>1. ApproveFrame(s) \/ RegenerateFrame(s) \/ ResumeNext(s) => Keeps
      BY NewTurnKeeps
    <2>2. GenerateAsk(s) \/ ReviseOnly(s) \/ Pause(s) \/ AssessAsk(s) => Keeps
      BY StillKeeps
    <2>3. ResumeSaved(s) \/ Stop(s) => Keeps
      BY ManyKeeps
    <2> QED BY <1>2, <2>1, <2>2, <2>3, KeepsCallInv
  <1>3. ASSUME NEW t \in DOMAIN task, RetryAsk(t) \/ ReassessAsk(t) PROVE CallInv'
    <2>1. ReassessAsk(t) => Keeps
      BY StillKeeps
    <2> QED BY <1>3, <2>1, RetryAskCalls, KeepsCallInv
  <1>4. StartAsk => CallInv'
    BY StillKeeps, KeepsCallInv
  <1> QED BY <1>1, <1>2, <1>3, <1>4, Zenon DEF OwnerStep

LEMMA CallStep == TypeOK /\ CallInv /\ [Next]_vars => CallInv'
  <1>1. TypeOK /\ CallInv /\ UNCHANGED vars => CallInv'
    BY DEF vars, CallInv, Rows, NothingHidden, KnowsAll, Failing, FreshLink, DownIsStill, Heads, Of
  <1> QED BY <1>1, StepIsSomebodys, EngineCalls, OwnerCalls

LEMMA CallInit == Init => CallInv
  BY DEF Init, CallInv, Rows, NothingHidden, FreshLink, DownIsStill, Heads

LEMMA CallInvTells == TypeOK /\ CallInv => AskedAgainOnlyIfTold
  BY DEF CallInv, Rows, ToldIn, Ended, AskedAgainOnlyIfTold

\* No request whose answer may exist is sent again before the owner, or the engine that saw the stream drop,
\* acknowledged it as lost: for any stages, any retries and any number of crashes.
THEOREM AskedAgainIsTold == Spec => []AskedAgainOnlyIfTold
  <1>1. Init => TypeOK /\ CallInv
    BY TypeInit, CallInit
  <1>2. TypeOK /\ CallInv /\ [Next]_vars => (TypeOK /\ CallInv)'
    BY TypeStep, CallStep
  <1> QED BY <1>1, <1>2, CallInvTells, PTL DEF Spec

-----------------------------------------------------------------------------
(***************************************************************************)
(* One session at a time.  A step changes sessions that are under way, or  *)
(* opens one, or adds one, when none is.                                   *)
(***************************************************************************)
Under == {s \in Sessions : session[s].state # "finished"}
\* A step that changes one session that is under way, or one while none is; or adds one while none is.
Touches(s) ==
  /\ DOMAIN session' = DOMAIN session /\ (s \in Under \/ Under = {})
  /\ \A u \in DOMAIN session : u # s => session'[u].state = session[u].state
Adds == /\ Under = {} /\ DOMAIN session' = 1..(Len(session) + 1)
        /\ \A u \in DOMAIN session : session'[u].state = session[u].state
InTurns == UNCHANGED session \/ Adds \/ \E s : Touches(s)

LEMMA OneStaysOne == TypeOK /\ OneSession /\ InTurns => OneSession'
  <1> SUFFICES ASSUME TypeOK, OneSession, InTurns PROVE OneSession'
    OBVIOUS
  <1>1. DOMAIN session = 1..Len(session) /\ Len(session) \in Nat
    BY DEF TypeOK
  <1>2. CASE UNCHANGED session
    BY <1>2 DEF OneSession, Sessions
  <1>3. CASE Adds
    BY <1>1, <1>3 DEF Adds, Under, OneSession, Sessions
  <1>4. ASSUME NEW s, Touches(s) PROVE OneSession'
    BY <1>4 DEF Touches, Under, OneSession, Sessions
  <1> QED BY <1>2, <1>3, <1>4 DEF InTurns

\* An action that changes a session under way, and no other.
Only(s) == DOMAIN session' = DOMAIN session /\ \A u \in DOMAIN session : u # s => session'[u] = session[u]

LEMMA UnderWay ==
  ASSUME NEW s \in Sessions, session[s].state # "finished" \/ Under = {}, Only(s)
  PROVE  InTurns
  BY DEF InTurns, Touches, Under, Only

LEMMA TaskSession == ASSUME TypeOK, NEW t \in 1..Len(task) PROVE task[t].session \in Sessions
  BY TaskFields DEF Sessions

LEMMA DispatchInTurns ==
  ASSUME TypeOK, Dispatch \/ CreateRun \/ LinkRun \/ FailDispatch \/ PlanGeneration \/ DispatchNext \/ LoopStep
                 \/ FinishCollection \/ Cover
  PROVE  InTurns
  <1>1. CASE CreateRun \/ LinkRun \/ DispatchNext \/ LoopStep \/ Cover
    BY <1>1 DEF CreateRun, LinkRun, DispatchNext, LoopStep, Cover, saved, InTurns
  <1>2. CASE Dispatch \/ FailDispatch
    <2>1. Of \in 1..Len(task)
      BY <1>2, HeadOf DEF Dispatch, FailDispatch, At, TaskSteps
    <2> DEFINE s == task[Of].session
    <2>2. s \in Sessions
      BY <2>1, TaskSession
    <2>3. UNCHANGED session \/ session[s].state # "finished"
      BY <1>2 DEF Dispatch, FailDispatch
    <2>4. Only(s)
      BY <1>2 DEF Dispatch, FailDispatch, KeepSession, Outcome, Only
    <2> HIDE DEF s
    <2> QED BY <2>2, <2>3, <2>4, UnderWay DEF InTurns
  <1>3. CASE PlanGeneration \/ FinishCollection
    <2>1. Of \in Sessions
      BY <1>3, HeadOf DEF PlanGeneration, FinishCollection, At, SessionSteps, Sessions, TypeOK
    <2>2. UNCHANGED session \/ session[Of].state = "running"
      BY <1>3 DEF PlanGeneration, FinishCollection
    <2>3. Only(Of)
      BY <1>3 DEF PlanGeneration, FinishCollection, Put, Outcome, Only
    <2> QED BY <2>1, <2>2, <2>3, UnderWay DEF InTurns
  <1> QED BY <1>1, <1>2, <1>3

LEMMA EventsInTurns ==
  ASSUME TypeOK, CompleteFrame \/ CompleteDiscovery \/ CompleteGeneration \/ CompleteAssessment \/ MissingResult
                 \/ \E type \in {"failed", "cancelled"} : RunEndedShort(type)
  PROVE  InTurns
  <1> DEFINE s == task[First(Owner(Of))].session
  <1>1. ASSUME NEW type \in {"completed", "failed", "cancelled"}, NEW kinds, Handling(type, kinds)
        PROVE  s \in Sessions /\ session[s].state # "finished"
    BY <1>1, HandlingIs, TaskSession DEF Handling, Heard
  <1>2. CASE MissingResult
    BY <1>2 DEF MissingResult, saved, InTurns
  <1>3. CASE CompleteFrame \/ CompleteDiscovery \/ CompleteGeneration \/ CompleteAssessment
    <2>1. Only(s)
      BY <1>3 DEF CompleteFrame, CompleteDiscovery, CompleteGeneration, CompleteAssessment, Settle, Only
    <2>2. s \in Sessions /\ session[s].state # "finished"
      BY <1>1, <1>3 DEF CompleteFrame, CompleteDiscovery, CompleteGeneration, CompleteAssessment
    <2> HIDE DEF s
    <2> QED BY <2>1, <2>2, UnderWay
  <1>4. ASSUME NEW type \in {"failed", "cancelled"}, RunEndedShort(type) PROVE InTurns
    <2>1. Only(s)
      BY <1>4 DEF RunEndedShort, KeepSession, Outcome, Only
    <2>2. s \in Sessions /\ session[s].state # "finished"
      BY <1>1, <1>4 DEF RunEndedShort
    <2> HIDE DEF s
    <2> QED BY <2>1, <2>2, UnderWay
  <1> QED BY <1>2, <1>3, <1>4

LEMMA EngineInTurns == TypeOK /\ EngineStep => InTurns
  <1> SUFFICES ASSUME TypeOK PROVE EngineStep => InTurns
    OBVIOUS
  <1>1. ASSUME NEW t \in DOMAIN task, CoverSent(t) \/ CoverAnswered(t) \/ CoverSettled(t) PROVE InTurns
    <2> DEFINE s == task[t].session
    <2>1. t \in 1..Len(task)
      BY DEF TypeOK
    <2>2. s \in Sessions
      BY <2>1, TaskSession
    <2>3. UNCHANGED session \/ (session[s].state # "finished" /\ Only(s))
      BY <1>1 DEF CoverSent, CoverAnswered, CoverSettled, Outcome, Put, Only
    <2> HIDE DEF s
    <2> QED BY <2>2, <2>3, UnderWay DEF InTurns
  <1>2. ASSUME NEW r \in DOMAIN run,
               Prepare(r) \/ Send(r) \/ CallEnds(r) \/ RunEnds(r) \/ StoppedCall(r) \/ StoppedExit(r)
        PROVE  InTurns
    BY <1>2 DEF Prepare, Send, CallEnds, RunEnds, StoppedCall, StoppedExit, InTurns
  <1>3. FailRun \/ CancelRun \/ ResumeRun \/ TakeEvent => InTurns
    BY DEF FailRun, CancelRun, ResumeRun, TakeEvent, saved, InTurns
  <1>4. RunFailed \/ RunCancelled => InTurns
    <2>1. RunEndedShort("failed") => InTurns
      BY EventsInTurns
    <2>2. RunEndedShort("cancelled") => InTurns
      BY EventsInTurns
    <2> QED BY <2>1, <2>2 DEF RunFailed, RunCancelled
  <1>5. CloseEngine \/ Crash \/ Restart \/ Ready => InTurns
    BY DEF CloseEngine, Crash, Restart, Ready, saved, InTurns
  <1>6. ASSUME NEW s \in Sessions, Reconcile(s) PROVE InTurns
    <2>1. session[s].state # "finished"
      BY <1>6 DEF Reconcile, Busy
    <2>2. Only(s)
      BY <1>6 DEF Reconcile, Outcome, Put, Only
    <2> QED BY <2>1, <2>2, UnderWay
  <1> QED BY <1>1, <1>2, <1>3, <1>4, <1>5, <1>6, DispatchInTurns, EventsInTurns, Zenon DEF EngineStep

LEMMA OwnerInTurns == TypeOK /\ OwnerStep => InTurns
  <1> SUFFICES ASSUME TypeOK PROVE OwnerStep => InTurns
    OBVIOUS
  <1> DEFINE n == Len(session)
  <1>0. DOMAIN session = 1..n /\ n \in Nat
    BY DEF TypeOK
  <1>9. ASSUME NEW x, Under = {}, session' = Append(session, x) PROVE InTurns
    <2>1. DOMAIN session' = 1..(n + 1) /\ \A u \in DOMAIN session : session'[u] = session[u]
      BY <1>0, <1>9 DEF TypeOK
    <2> QED BY <1>9, <2>1 DEF InTurns, Adds
  <1>10. ProjectIdle => Under = {}
    BY DEF ProjectIdle, Under
  <1>1. ASSUME NEW a \in asking,
               Refuse(a) \/ Start(a) \/ Generate(a) \/ Recover(a) \/ Retry(a) \/ Reassess(a) \/ Assess(a)
        PROVE  InTurns
    <2>1. CASE Refuse(a)
      BY <2>1 DEF Refuse, saved, InTurns
    <2>2. CASE Start(a)
      BY <1>9, <1>10, <2>2 DEF Start
    <2>3. CASE Retry(a)
      BY <1>9, <1>10, <2>3 DEF Retry
    <2>4. CASE Recover(a) \/ Reassess(a)
      <3>1. a.session \in Sessions
        BY <1>0, <2>4, AskFields DEF Recover, Reassess, Admitting, Sessions
      <3>2. Only(a.session) /\ Under = {}
        BY <1>10, <2>4 DEF Recover, Reassess, Reopen, Only
      <3> QED BY <3>1, <3>2, UnderWay
    <2>5. CASE Generate(a)
      <3>1. a.session \in Sessions /\ session[a.session].state # "finished"
        BY <1>0, <2>5, AskFields DEF Generate, Admitting, Sessions
      <3>2. Only(a.session)
        BY <2>5 DEF Generate, Only
      <3> QED BY <3>1, <3>2, UnderWay
    <2>6. CASE Assess(a)
      <3>1. a.session \in Sessions
        BY <1>0, <2>6, AskFields DEF Assess, Admitting, Sessions
      <3>2. CASE session[a.session].state = "finished"
        <4>1. Under = {} /\ \E x : session' = Append(session, x)
          BY <2>6, <3>2 DEF Assess, Under
        <4> QED BY <1>9, <4>1
      <3>3. CASE session[a.session].state # "finished"
        <4>1. Only(a.session)
          BY <2>6, <3>3 DEF Assess, Only
        <4> QED BY <3>1, <3>3, <4>1, UnderWay
      <3> QED BY <3>2, <3>3
    <2> QED BY <1>1, <2>1, <2>2, <2>3, <2>4, <2>5, <2>6
  <1>2. ASSUME NEW s \in Sessions,
               \/ ApproveFrame(s) \/ RegenerateFrame(s) \/ GenerateAsk(s) \/ ReviseOnly(s) \/ Pause(s)
               \/ ResumeSaved(s) \/ ResumeNext(s) \/ Stop(s) \/ AssessAsk(s)
        PROVE  InTurns
    <2>1. CASE GenerateAsk(s) \/ ReviseOnly(s) \/ AssessAsk(s)
      BY <2>1 DEF GenerateAsk, ReviseOnly, AssessAsk, Await, saved, InTurns
    <2>2. CASE ApproveFrame(s) \/ RegenerateFrame(s) \/ Pause(s) \/ ResumeSaved(s) \/ ResumeNext(s) \/ Stop(s)
      <3>1. session[s].state # "finished"
        BY <2>2 DEF ApproveFrame, RegenerateFrame, Pause, ResumeSaved, ResumeNext, Stop, Command, Busy
      <3>2. Only(s)
        BY <2>2 DEF ApproveFrame, RegenerateFrame, Pause, ResumeSaved, ResumeNext, Stop, Admit, Put, Outcome, Only
      <3> QED BY <3>1, <3>2, UnderWay
    <2> QED BY <1>2, <2>1, <2>2
  <1>3. ASSUME NEW t \in DOMAIN task, RetryAsk(t) \/ ReassessAsk(t) PROVE InTurns
    BY <1>3 DEF RetryAsk, ReassessAsk, Await, saved, InTurns
  <1>4. StartAsk => InTurns
    BY DEF StartAsk, Await, saved, InTurns
  <1> QED BY <1>1, <1>2, <1>3, <1>4, Zenon DEF OwnerStep

\* A project never has two sessions under way: not when commands wait for the catalog side by side, not when a
\* failed session is retried, recovered or assessed again, and not after a crash.
THEOREM OneSessionUnderWay == Spec => []OneSession
  <1>1. Init => TypeOK /\ OneSession
    BY TypeInit DEF Init, OneSession, Sessions
  <1>2. UNCHANGED vars => InTurns
    BY DEF vars, InTurns
  <1>3. TypeOK /\ OneSession /\ [Next]_vars => (TypeOK /\ OneSession)'
    BY <1>2, TypeStep, StepIsSomebodys, EngineInTurns, OwnerInTurns, OneStaysOne
  <1> QED BY <1>1, <1>3, PTL DEF Spec
=============================================================================

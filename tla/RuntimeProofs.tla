--------------------------- MODULE RuntimeProofs ---------------------------
(***************************************************************************)
(* A cancellation is never lost between the flag and the notification.     *)
(***************************************************************************)
EXTENDS RuntimeClient, TLAPS

\* What the proof needs of the tasks' type: the number of tries does not matter.
TaskShape == [at : InMap \cup {"none", "removed"}, flag : BOOLEAN, woken : BOOLEAN, tries : Nat, result : Result]
HeardInv == task \in [Call -> TaskShape] /\ CancelIsHeard

\* No task, and outcomes, are of that shape.
LEMMA NoTasksShape == NoTasks \in [Call -> TaskShape] /\ \A c \in Call : NoTasks[c] = NoTask
BY DEF NoTasks, NoTask, TaskShape, InMap, Result, NoResult, Outcome, Code, Told

\* A step of the client leaves the tasks alone, or ends the worker and with it all of them.
LEMMA BecomeHeard ==
  ASSUME NEW s, NEW unread, Become(s, unread), HeardInv
  PROVE HeardInv'
<1>1. CASE task' = NoTasks /\ waking' = NoRequest
  BY <1>1, NoTasksShape DEF HeardInv, CancelIsHeard, NoTask
<1>2. CASE task' = task /\ waking' = waking
  BY <1>2 DEF HeardInv, CancelIsHeard
<1> QED BY <1>1, <1>2 DEF Become, workerVars

\* Every step of a generation but the call of its provider leaves it where it waits for none.
LEMMA DoneHeard ==
  ASSUME HeardInv, NEW c \in Call, NEW code \in Code, NEW told \in Told, Done(c, code, told), waking' = waking
  PROVE HeardInv'
<1>0. [task[c] EXCEPT !.at = "done", !.result = Outcome(code, told)] \in TaskShape
  BY DEF HeardInv, TaskShape, InMap, Result, Outcome
<1>1. task' \in [Call -> TaskShape]
  BY <1>0 DEF HeardInv, Done
<1>2. \A d \in Call : d # c => task'[d] = task[d]
  BY DEF HeardInv, Done
<1>3. task'[c].at = "done"
  BY DEF HeardInv, Done, TaskShape
<1> QED BY <1>1, <1>2, <1>3 DEF HeardInv, CancelIsHeard

\* A generation that moves elsewhere than to its provider, its flag as it was.
LEMMA MovesHeard ==
  ASSUME HeardInv, NEW c \in Call, NEW at \in (InMap \cup {"none", "removed"}) \ {"working"},
         task' = [task EXCEPT ![c].at = at], waking' = waking
  PROVE HeardInv'
<1>1. task' \in [Call -> TaskShape]
  BY DEF HeardInv, TaskShape
<1>2. \A d \in Call : d # c => task'[d] = task[d]
  BY DEF HeardInv
<1>3. task'[c].at = at
  BY DEF HeardInv, TaskShape
<1> QED BY <1>1, <1>2, <1>3 DEF HeardInv, CancelIsHeard

LEMMA GivesUpHeard ==
  ASSUME HeardInv, NEW c \in Call, NEW code \in Code, GivesUp(c, code), waking' = waking
  PROVE HeardInv'
BY DoneHeard DEF GivesUp, Told

LEMMA InitHeard == Init => HeardInv
BY NoTasksShape DEF Init, HeardInv, CancelIsHeard, NoTask

\* The request loop: a cancellation leaves a notification to be made, which wakes all who
\* wait; a generation that starts has not been cancelled.
LEMMA LoopHeard ==
  ASSUME HeardInv,
         \/ DispatchInitialize \/ DispatchStart \/ DispatchCancel \/ DispatchShutdown
         \/ Notify \/ WriteEvent \/ WorkerDies
  PROVE HeardInv'
<1>1. CASE DispatchInitialize \/ WriteEvent
  <2>1. UNCHANGED <<task, waking>>
    BY <1>1 DEF DispatchInitialize, WriteEvent, workerVars
  <2> QED BY <2>1 DEF HeardInv, CancelIsHeard
<1>2. CASE DispatchStart
  <2> DEFINE c == Head(toWorker)[2]
  <2>1. PICK ok \in BOOLEAN :
          task' = IF ok THEN [task EXCEPT ![c] = [NoTask EXCEPT !.at = "spawned"]] ELSE task
    BY <1>2 DEF DispatchStart
  <2>2. [NoTask EXCEPT !.at = "spawned"] \in TaskShape /\ [NoTask EXCEPT !.at = "spawned"].at = "spawned"
    BY DEF NoTask, TaskShape, InMap, Result, NoResult, Outcome, Code, Told
  <2> HIDE DEF c
  <2>3. task' \in [Call -> TaskShape]
    BY <2>1, <2>2 DEF HeardInv
  <2>4. \A d \in Call : task'[d] = task[d] \/ task'[d].at = "spawned"
    BY <2>1, <2>2 DEF HeardInv
  <2> QED BY <1>2, <2>3, <2>4 DEF DispatchStart, HeardInv, CancelIsHeard
<1>3. CASE DispatchCancel \/ DispatchShutdown
  <2>1. CASE task' = task /\ waking' = waking
    BY <2>1 DEF HeardInv, CancelIsHeard
  <2>2. CASE waking' # NoRequest /\ \E C \in SUBSET Call : task' = Flagged(C)
    <3>1. task' \in [Call -> TaskShape]
      <4>1. \A d \in Call : task[d] \in TaskShape /\ [task[d] EXCEPT !.flag = TRUE] \in TaskShape
        BY DEF HeardInv, TaskShape
      <4> QED BY <4>1, <2>2 DEF Flagged
    <3> QED BY <2>2, <3>1 DEF HeardInv, CancelIsHeard
  <2>3. CASE DispatchCancel
    <3>1. Head(toWorker)[1] \in Cancels => Head(toWorker) # NoRequest
      BY DEF Cancels, NoRequest
    <3>2. CASE task' = Flagged({Head(toWorker)[2]}) /\ waking' = Head(toWorker) /\ Head(toWorker)[2] \in Generations
      BY <2>3, <3>1, <3>2, <2>2 DEF DispatchCancel, Reads, Generations
    <3> QED BY <2>3, <3>2, <2>1 DEF DispatchCancel
  <2>4. CASE DispatchShutdown
    <3>1. Head(toWorker)[1] = "shutdown" => Head(toWorker) # NoRequest
      BY DEF NoRequest
    <3>2. Generations \in SUBSET Call
      BY DEF Generations
    <3> QED BY <2>4, <3>1, <3>2, <2>2 DEF DispatchShutdown, Reads
  <2> QED BY <1>3, <2>3, <2>4
<1>4. CASE Notify
  <2>1. CASE task' = NoTasks /\ waking' = NoRequest
    BY <2>1, NoTasksShape DEF HeardInv, CancelIsHeard, NoTask
  <2>2. CASE task' = Notified
    <3>1. task' \in [Call -> TaskShape]
      BY <2>2 DEF HeardInv, Notified, TaskShape
    <3>2. \A c \in Call : task'[c].at = "working" /\ task'[c].flag => task'[c].woken
      BY <2>2 DEF HeardInv, Notified, TaskShape
    <3> QED BY <3>1, <3>2 DEF HeardInv, CancelIsHeard
  <2> QED BY <1>4, <2>1, <2>2 DEF Notify
<1>5. CASE WorkerDies
  BY <1>5, NoTasksShape DEF WorkerDies, HeardInv, CancelIsHeard, NoTask
<1> QED BY <1>1, <1>2, <1>3, <1>4, <1>5

\* A generation: it asks its provider only with the flag not set, and registered before.
LEMMA TaskHeard ==
  ASSUME HeardInv, NEW c \in Call,
         \/ TaskChecks(c) \/ TaskListens(c) \/ TaskLooks(c) \/ TaskWakes(c) \/ TaskTimesOut(c)
         \/ ProviderAnswers(c) \/ TaskRemoves(c) \/ TaskSends(c)
  PROVE HeardInv'
<1>0. \A code \in {"completed", "failed", "interrupted", "cancelled", "timeout"} : code \in Code
  BY DEF Code
<1>00. {"none", "confirmed", "unknown"} = Told
  BY DEF Told
<1>1. CASE TaskChecks(c)
  <2>1. CASE task' = [task EXCEPT ![c].at = "checked"]
    BY <1>1, <2>1, MovesHeard DEF TaskChecks, InMap
  <2> QED BY <1>1, <2>1, <1>0, GivesUpHeard DEF TaskChecks
<1>2. CASE TaskListens(c)
  BY <1>2, MovesHeard DEF TaskListens, InMap
<1>3. CASE TaskLooks(c)
  <2>1. CASE task[c].flag
    BY <1>3, <2>1, <1>0, <1>00, DoneHeard DEF TaskLooks
  <2>2. CASE ~task[c].flag
    <3>1. task' = [task EXCEPT ![c].at = "working", ![c].tries = @ + 1] /\ waking' = waking
      BY <1>3, <2>2 DEF TaskLooks, AskProvider
    <3>2. task' \in [Call -> TaskShape]
      BY <3>1 DEF HeardInv, TaskShape, InMap
    <3>3. \A d \in Call : d # c => task'[d] = task[d]
      BY <3>1 DEF HeardInv
    <3>4. ~task'[c].flag
      BY <3>1, <2>2 DEF HeardInv, TaskShape
    <3> QED BY <3>1, <3>2, <3>3, <3>4 DEF HeardInv, CancelIsHeard
  <2> QED BY <2>1, <2>2
<1>4. CASE TaskWakes(c)
  BY <1>4, <1>0, <1>00, DoneHeard DEF TaskWakes
<1>5. CASE TaskTimesOut(c)
  BY <1>5, <1>0, <1>00, DoneHeard, GivesUpHeard DEF TaskTimesOut
<1>6. CASE ProviderAnswers(c)
  <2>1. CASE task' = [task EXCEPT ![c].at = "spawned"]
    BY <1>6, <2>1, MovesHeard DEF ProviderAnswers, InMap
  <2> QED BY <1>6, <2>1, <1>0, <1>00, DoneHeard DEF ProviderAnswers
<1>7. CASE TaskRemoves(c)
  BY <1>7, MovesHeard DEF TaskRemoves, InMap
<1>8. CASE TaskSends(c)
  <2>1. task' = [task EXCEPT ![c] = NoTask] /\ waking' = waking
    BY <1>8 DEF TaskSends
  <2>2. NoTask \in TaskShape /\ NoTask.at = "none"
    BY DEF NoTask, TaskShape, InMap, Result, NoResult, Outcome, Code, Told
  <2>3. task' \in [Call -> TaskShape] /\ \A d \in Call : task'[d] = task[d] \/ task'[d].at = "none"
    BY <2>1, <2>2 DEF HeardInv
  <2> QED BY <2>1, <2>3 DEF HeardInv, CancelIsHeard
<1> QED BY <1>1, <1>2, <1>3, <1>4, <1>5, <1>6, <1>7, <1>8

\* A client that spawns a worker has none to lose.
LEMMA ClientHeard ==
  ASSUME HeardInv,
         \/ ClientContinues
         \/ \E c \in Call : Submit(c) \/ Stop(c) \/ Late(c) \/ GraceEnds(c)
         \/ \E n \in Capacities : SetCapacity(n)
         \/ Close \/ Spawn \/ NotSpawned \/ \E q \in Request : RequestTimesOut(q)
         \/ CloseTimesOut \/ Receive \/ SeeExit \/ SeeClose
  PROVE HeardInv'
<1>1. CASE Spawn
  BY <1>1 DEF Spawn, HeardInv, CancelIsHeard
<1>2. CASE ClientContinues
  BY <1>2, BecomeHeard DEF ClientContinues, Begin, Open, Initialized, NotInitialized, Restored, Accepted,
    NotAccepted, CancelAnswered, ShutdownAnswered, Terminal
<1>3. CASE \E c \in Call : Submit(c) \/ Stop(c) \/ Late(c) \/ GraceEnds(c)
  BY <1>3, BecomeHeard DEF Submit, Stop, Late, GraceEnds
<1>4. CASE (\E n \in Capacities : SetCapacity(n)) \/ Close \/ NotSpawned
  BY <1>4, BecomeHeard DEF SetCapacity, Close, NotSpawned
<1>5. CASE (\E q \in Request : RequestTimesOut(q)) \/ CloseTimesOut
  BY <1>5, BecomeHeard DEF RequestTimesOut, CloseTimesOut
<1>6. CASE Receive \/ SeeExit \/ SeeClose
  BY <1>6, BecomeHeard DEF Receive, SeeExit, SeeClose
<1> QED BY <1>1, <1>2, <1>3, <1>4, <1>5, <1>6

\* A cancelled generation never goes on waiting for its provider: whatever the client asks,
\* however the threads of the worker interleave, and however often it is restarted
\* (cancellation.rs, generation.rs).
THEOREM CancellationIsNeverLost == Spec => []CancelIsHeard
<1>1. Init => HeardInv
  BY InitHeard
<1>2. HeardInv /\ [Next]_vars => HeardInv'
  <2> SUFFICES ASSUME HeardInv, [Next]_vars PROVE HeardInv'
    OBVIOUS
  <2>1. CASE UNCHANGED vars
    BY <2>1 DEF vars, workerVars, HeardInv, CancelIsHeard
  <2>2. CASE Worker /\ UNCHANGED <<client, call, lives>>
    BY <2>2, LoopHeard, TaskHeard DEF Worker
  <2> QED BY <2>1, <2>2, ClientHeard DEF Next
<1>3. HeardInv => CancelIsHeard
  BY DEF HeardInv
<1> QED BY <1>1, <1>2, <1>3, PTL DEF Spec
=============================================================================

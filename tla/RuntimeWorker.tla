--------------------------- MODULE RuntimeWorker ---------------------------
(***************************************************************************)
(* The native worker that carries out generations: the request loop of     *)
(* app_server.rs, the generation handlers of runtime_handler.rs, the       *)
(* cancellation token of cancellation.rs and the two provider attempts of  *)
(* generation.rs.  One task reads requests and writes everything; each     *)
(* generation is a task of its own, on any thread; they share the map of   *)
(* generations and a bounded queue of events.                              *)
(*                                                                         *)
(* A pipe is a sequence of messages.  Prompts, outputs, requests about     *)
(* accounts and models, and malformed requests are left out, and so are    *)
(* progress events, which the client only displays: they wait for room in  *)
(* the queue of events like the last one does.                             *)
(***************************************************************************)
EXTENDS Integers, Sequences, FiniteSets, SequencesExt

CONSTANTS
  Call,     \* a generation; an id is used once
  Limited,  \* the calls with a time limit
  Repairs,  \* the calls whose invalid output is repaired once
  NoCall,   \* stands where a request is about no call
  SLOTS,    \* MAX_ACTIVE_GENERATIONS
  EVENTS    \* EVENT_CHANNEL_CAPACITY

ASSUME WorkerAssumption ==
  /\ SLOTS \in Nat \ {0} /\ EVENTS \in Nat \ {0}
  /\ Limited \subseteq Call /\ Repairs \subseteq Call /\ NoCall \notin Call

VARIABLES
  alive,     \* whether there is a worker
  toWorker,  \* the requests it has not read
  toClient,  \* what it wrote and the client has not read
  task,      \* how far each generation is
  events,    \* the events the generations sent and the loop has not written
  waking,    \* the request whose cancellations are set but not yet announced
  asked      \* the calls a provider was ever asked for, by this worker or an earlier one

pipes == <<toWorker, toClient>>
workerVars == <<alive, task, events, waking, asked>>

\* A call may be cancelled because it was stopped, is late, or was not accepted.
Cancels == {"stop", "late", "undo"}
Request ==
  ({"initialize", "restore", "shutdown"} \X {NoCall}) \cup (({"start"} \cup Cancels) \X Call)
NoRequest == <<"none", NoCall>>

\* How a call ended, as the client names it, and what its receipts say of the provider.
Code == {"none", "completed", "cancelled", "timeout", "failed", "interrupted", "unavailable"}
Told == {"none", "confirmed", "unknown"}
Result == [code : Code, told : Told]
Outcome(code, told) == [code |-> code, told |-> told]
NoResult == Outcome("none", "none")

Reply(q, ok) == [kind |-> "reply", request |-> q, ok |-> ok]
Event(c, r) == [kind |-> "event", call |-> c, result |-> r]

\* spawned: about to call the provider; checked: it was not cancelled; listening: it will be
\* told of a cancellation from now on; done: not yet out of the map.
InMap == {"spawned", "checked", "listening", "working", "done"}
NoTask == [at |-> "none", flag |-> FALSE, woken |-> FALSE, tries |-> 0, result |-> NoResult]
NoTasks == [c \in Call |-> NoTask]
Generations == {c \in Call : task[c].at \in InMap}

-----------------------------------------------------------------------------
(* The request loop *)

Write(m) == toClient' = Append(toClient, m)
Reads(ops) == alive /\ waking = NoRequest /\ toWorker # <<>> /\ Head(toWorker)[1] \in ops

\* initialize, and restoring the saved credential: the client goes on whatever the answer.
DispatchInitialize ==
  /\ Reads({"initialize", "restore"})
  /\ toWorker' = Tail(toWorker)
  /\ \E ok \in BOOLEAN : (Head(toWorker)[1] = "initialize" => ok) /\ Write(Reply(Head(toWorker), ok))
  /\ UNCHANGED workerVars

\* generation_start.  It is refused when all slots are taken, and for what the account
\* or the payload is like (signed out, a credential not yet saved, an unknown model).
Full == Cardinality(Generations) >= SLOTS
DispatchStart ==
  /\ Reads({"start"})
  /\ toWorker' = Tail(toWorker)
  /\ LET c == Head(toWorker)[2] IN
     \E ok \in BOOLEAN :
       /\ Full => ~ok
       /\ task' = IF ok THEN [task EXCEPT ![c] = [NoTask EXCEPT !.at = "spawned"]] ELSE task
       /\ Write(Reply(Head(toWorker), ok))
  /\ UNCHANGED <<alive, events, waking, asked>>

\* generation_cancel: the flag is stored, and the task is told of it in another step.
Flagged(C) == [c \in Call |-> IF c \in C THEN [task[c] EXCEPT !.flag = TRUE] ELSE task[c]]
DispatchCancel ==
  /\ Reads(Cancels)
  /\ toWorker' = Tail(toWorker)
  /\ LET q == Head(toWorker) IN
     IF q[2] \in Generations
     THEN task' = Flagged({q[2]}) /\ waking' = q /\ UNCHANGED toClient
     ELSE Write(Reply(q, FALSE)) /\ UNCHANGED <<task, waking>>
  /\ UNCHANGED <<alive, events, asked>>

DispatchShutdown ==
  /\ Reads({"shutdown"})
  /\ toWorker' = Tail(toWorker)
  /\ task' = Flagged(Generations) /\ waking' = Head(toWorker)
  /\ UNCHANGED <<toClient, alive, events, asked>>

\* The notification reaches the tasks that registered for it, and the request is answered.
\* After a shutdown the loop ends and the process with it.
Notified == [c \in Call |->
  IF task[c].flag /\ task[c].at \in {"listening", "working"}
  THEN [task[c] EXCEPT !.woken = TRUE] ELSE task[c]]
Notify ==
  /\ alive /\ waking # NoRequest
  /\ Write(Reply(waking, TRUE))
  /\ waking' = NoRequest
  /\ IF waking[1] = "shutdown"
     THEN alive' = FALSE /\ task' = NoTasks /\ events' = <<>>
     ELSE task' = Notified /\ UNCHANGED <<alive, events>>
  /\ UNCHANGED <<toWorker, asked>>

WriteEvent ==
  /\ alive /\ waking = NoRequest /\ events # <<>>
  /\ Write(Head(events)) /\ events' = Tail(events)
  /\ UNCHANGED <<toWorker, alive, task, waking, asked>>

-----------------------------------------------------------------------------
(* A generation *)

Moves(c, at) == alive /\ task[c].at = at
Done(c, code, told) == task' = [task EXCEPT ![c].at = "done", ![c].result = Outcome(code, told)]

\* Ends a generation whose provider was not called this time: none is told of it before
\* the first attempt is begun.
GivesUp(c, code) ==
  \E told \in {"none", "unknown"} : (task[c].tries # 0 => told = "unknown") /\ Done(c, code, told)

\* The checks before a provider call.
TaskChecks(c) ==
  /\ Moves(c, "spawned")
  /\ IF task[c].flag THEN GivesUp(c, "cancelled")
     ELSE task' = [task EXCEPT ![c].at = "checked"]
  /\ UNCHANGED <<pipes, alive, events, waking, asked>>

\* cancelled registers with the token.
TaskListens(c) ==
  /\ Moves(c, "checked")
  /\ task' = [task EXCEPT ![c].at = "listening"]
  /\ UNCHANGED <<pipes, alive, events, waking, asked>>

AskProvider(c) ==
  /\ task' = [task EXCEPT ![c].at = "working", ![c].tries = @ + 1]
  /\ asked' = asked \cup {c}

\* Mutant: the flag is not looked at again after registering.
TaskWaits(c) ==
  /\ Moves(c, "listening") /\ AskProvider(c)
  /\ UNCHANGED <<pipes, alive, events, waking>>

\* Registered, it looks at the flag once more; if it is not set the provider is asked.
TaskLooks(c) ==
  /\ Moves(c, "listening")
  /\ IF task[c].flag THEN Done(c, "cancelled", "unknown") /\ UNCHANGED asked
     ELSE AskProvider(c)
  /\ UNCHANGED <<pipes, alive, events, waking>>

TaskWakes(c) ==
  /\ Moves(c, "working") /\ task[c].woken
  /\ Done(c, "cancelled", "unknown")
  /\ UNCHANGED <<pipes, alive, events, waking, asked>>

TaskTimesOut(c) ==
  /\ c \in Limited
  /\ \/ Moves(c, "working") /\ ~task[c].woken /\ Done(c, "timeout", "unknown")
     \/ Moves(c, "spawned") /\ ~task[c].flag /\ GivesUp(c, "timeout")
  /\ UNCHANGED <<pipes, alive, events, waking, asked>>

\* An answer that fits the schema, one that does not, an error, or a stream that broke,
\* which the client reports as interrupted (providerFailure).
ProviderAnswers(c) ==
  /\ Moves(c, "working") /\ ~task[c].woken
  /\ \/ Done(c, "completed", "confirmed")
     \/ Done(c, "failed", "confirmed")
     \/ Done(c, "interrupted", "unknown")
     \/ /\ c \in Repairs /\ task[c].tries = 1
        /\ task' = [task EXCEPT ![c].at = "spawned"]
  /\ UNCHANGED <<pipes, alive, events, waking, asked>>

\* The generation leaves the map, which the loop locks while it cancels.
TaskRemoves(c) ==
  /\ Moves(c, "done") /\ waking = NoRequest
  /\ task' = [task EXCEPT ![c].at = "removed"]
  /\ UNCHANGED <<pipes, alive, events, waking, asked>>

\* The last event waits for room in the queue.
TaskSends(c) ==
  /\ Moves(c, "removed") /\ Len(events) < EVENTS
  /\ task' = [task EXCEPT ![c] = NoTask]
  /\ events' = Append(events, Event(c, task[c].result))
  /\ UNCHANGED <<pipes, alive, waking, asked>>

\* The process ends at any time: what it had written can still be read.
WorkerDies ==
  /\ alive
  /\ alive' = FALSE /\ task' = NoTasks /\ events' = <<>> /\ waking' = NoRequest /\ toWorker' = <<>>
  /\ UNCHANGED <<toClient, asked>>
=============================================================================

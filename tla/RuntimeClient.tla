--------------------------- MODULE RuntimeClient ---------------------------
(***************************************************************************)
(* The client of the native worker (src/src/providers/runtime.ts) and the  *)
(* worker it talks to.  The client holds calls back until it has a slot,   *)
(* starts a worker when there is none, sends requests, and waits for two   *)
(* things per call: the acceptance and the terminal event.  Requests,      *)
(* terminal events and cancellations have timers; whatever goes wrong with *)
(* the process ends it and everything that waits for it.                   *)
(*                                                                         *)
(* The client is one thread: a macrotask (a timer, a chunk of the worker's *)
(* output, a command) queues continuations, which run in order before the  *)
(* next macrotask.  micro is that queue; an await that only passes a value *)
(* on has no step of its own.                                              *)
(***************************************************************************)
EXTENDS RuntimeWorker

CONSTANTS
  Capacities,  \* what setMaxConcurrentGenerations is given, 1 to 8 in the code
  LIVES,       \* how many workers a behaviour may start
  COALESCED,   \* whether one chunk of output may hold several messages
  LINGERS      \* whether a worker's exit may be seen before the end of its output

ASSUME ClientAssumption ==
  /\ Capacities # {} /\ Capacities \subseteq 1..SLOTS
  /\ LIVES \in Nat /\ COALESCED \in BOOLEAN /\ LINGERS \in BOOLEAN

VARIABLES
  client,  \* the fields of RuntimeClient, its timers and its continuations
  call,    \* how far each structuredCompletion is
  lives    \* the workers started

vars == <<pipes, workerVars, client, call, lives>>

\* begin: it has a slot; starting: it waits for start(); opening: start() has returned;
\* asked: it waits for the acceptance; undoing: the acceptance failed and the
\* cancellation is not answered; accepted, undone: it waits for the terminal event.
HasSlot == {"begin", "starting", "opening", "asked", "accepted", "undoing", "undone"}
Listening == {"asked", "accepted", "undoing", "undone"}
NewCall == [phase |-> "idle", stopped |-> FALSE, late |-> FALSE, error |-> "none",
            terminal |-> NoResult, result |-> NoResult]

Ended(r) == [NewCall EXCEPT !.phase = "ended", !.result = r]

\* process: none, or how far its start is; initializing: initializePromise is set, and
\* starting are the calls that wait for it.
NewClient(n) == [process |-> "none", writable |-> FALSE, initializing |-> FALSE, starting |-> <<>>,
                 pending |-> <<>>, open |-> <<>>, grace |-> {}, micro |-> <<>>, chunk |-> FALSE,
                 held |-> 0, waiters |-> <<>>, capacity |-> n, closing |-> "no"]

Then(do, q, code) == [do |-> do, request |-> q, code |-> code]
StartOf(c) == <<"start", c>>

\* What an action works on: the client, its calls, and what it sends.
Now == [client |-> client, call |-> call, sent |-> <<>>]
Queue(s, ts) == [s EXCEPT !.client.micro = @ \o ts]
Without(seq, e) == SelectSeq(seq, LAMBDA x : x # e)
Has(seq, e) == e \in Range(seq)

-----------------------------------------------------------------------------
(* Parts of handlers *)

\* Mutant: only the requests are told.
FailRequests(s, code) ==
  IF s.client.process = "none" THEN s
  ELSE [s EXCEPT
    !.client.process = "none", !.client.writable = FALSE, !.client.pending = <<>>,
    !.client.closing = IF @ = "no" THEN "no" ELSE "closed",
    !.client.micro = @ \o [i \in DOMAIN s.client.pending |-> Then("reply", s.client.pending[i], code)]]

\* failProcess: the process is given up, and all who wait for it are told.
FailProcess(s, code) ==
  IF s.client.process = "none" THEN s
  ELSE [s EXCEPT
    !.client.process = "none", !.client.writable = FALSE,
    !.client.pending = <<>>, !.client.open = <<>>, !.client.grace = {},
    !.client.closing = IF @ = "no" THEN "no" ELSE "closed",
    !.call = [c \in Call |-> IF Has(s.client.open, c)
                             THEN [@[c] EXCEPT !.terminal = Outcome(code, "none")] ELSE @[c]],
    !.client.micro =
      @ \o [i \in DOMAIN s.client.pending |-> Then("reply", s.client.pending[i], code)]
        \o [i \in DOMAIN s.client.open |-> Then("terminal", StartOf(s.client.open[i]), "none")]]

\* request
Ask(s, q) ==
  IF s.client.writable
  THEN [s EXCEPT !.client.pending = Append(@, q), !.sent = Append(@, q)]
  ELSE Queue(s, <<Then("reply", q, "unavailable")>>)

\* cancelGeneration, up to its await.
Cancel(s, q) == IF Has(s.client.open, q[2]) THEN Ask(s, q) ELSE s

\* admitGenerationWaiters: a waiter whose signal was aborted has already left.
Admit(s) ==
  LET w == s.client.waiters
      free == IF s.client.capacity > s.client.held THEN s.client.capacity - s.client.held ELSE 0
      n == IF free < Len(w) THEN free ELSE Len(w)
      next == SubSeq(w, 1, n) IN
  Queue([s EXCEPT
    !.client.held = @ + n, !.client.waiters = SubSeq(w, n + 1, Len(w)),
    !.call = [c \in Call |-> IF Has(next, c) THEN [@[c] EXCEPT !.phase = "begin"] ELSE @[c]]],
    [i \in DOMAIN next |-> Then("begin", StartOf(next[i]), "none")])

\* The end of runStructuredCompletion, and releaseGeneration.
Finish(s, c, r) ==
  Admit([s EXCEPT !.call[c] = Ended(r),
                  !.client.open = Without(@, c), !.client.grace = @ \ {c}, !.client.held = @ - 1])

\* What a call that got its acceptance, or failed to, makes of its terminal event.
Settle(s, c) ==
  LET k == s.call[c] IN
  CASE k.phase = "accepted" -> Finish(s, c, k.terminal)
    [] k.phase = "undone" ->
         Finish(s, c, Outcome(k.error, IF k.terminal.code = "completed" THEN k.terminal.told ELSE "none"))
    [] OTHER -> s

\* Goes on to wait for the terminal event, which may be there already.
Await(s, c, phase) ==
  LET next == [s EXCEPT !.call[c].phase = phase] IN
  IF s.call[c].terminal.code = "none" THEN next ELSE Queue(next, <<Then("terminal", StartOf(c), "none")>>)

\* start throws: whoever waits for it fails.
StartFailed(s, code) ==
  FoldLeft(LAMBDA x, c : Finish(x, c, Outcome(code, "none")),
           [s EXCEPT !.client.initializing = FALSE, !.client.starting = <<>>], s.client.starting)

\* start returns to those that wait for it.
Started(s) ==
  LET cs == s.client.starting IN
  Queue([s EXCEPT !.client.process = "ready", !.client.initializing = FALSE, !.client.starting = <<>>,
                  !.call = [c \in Call |-> IF Has(cs, c) THEN [@[c] EXCEPT !.phase = "opening"] ELSE @[c]]],
        [i \in DOMAIN cs |-> Then("open", StartOf(cs[i]), "none")])

\* The step's outcome: a client that gives its process up kills it and reads it no more;
\* what is sent to a dead worker is lost.
Become(s, unread) ==
  /\ client' = s.client /\ call' = s.call
  /\ IF client.process # "none" /\ s.client.process = "none"
     THEN /\ alive' = FALSE /\ toWorker' = <<>> /\ toClient' = <<>>
          /\ task' = NoTasks /\ events' = <<>> /\ waking' = NoRequest /\ asked' = asked
     ELSE /\ toWorker' = IF alive THEN toWorker \o s.sent ELSE toWorker
          /\ toClient' = unread /\ UNCHANGED workerVars
  /\ UNCHANGED lives

-----------------------------------------------------------------------------
(* Continuations *)

Continues(do, ops, codes) ==
  /\ client.micro # <<>>
  /\ LET t == Head(client.micro) IN t.do = do /\ t.request[1] \in ops /\ t.code \in codes
Of == Head(client.micro).request[2]
Why == Head(client.micro).code
Resumed == [Now EXCEPT !.client.micro = Tail(@), !.client.chunk = FALSE]
Failure == Code \ {"none"}

\* structuredCompletion has a slot and calls start.
Begin ==
  /\ Continues("begin", {"start"}, {"none"})
  /\ LET ready == ~client.initializing /\ client.process = "ready"
         s == [Resumed EXCEPT !.call[Of].phase = IF ready THEN "opening" ELSE "starting"] IN
     Become(IF ready THEN Queue(s, <<Then("open", StartOf(Of), "none")>>)
            ELSE [s EXCEPT !.client.initializing = TRUE, !.client.starting = Append(@, Of)], toClient)

\* start has returned: the generation is registered and its request sent.
Open ==
  /\ Continues("open", {"start"}, {"none"})
  /\ Become(IF call[Of].stopped THEN Finish(Resumed, Of, Outcome("cancelled", "none"))
            ELSE Ask([Resumed EXCEPT !.client.open = Append(@, Of), !.call[Of].phase = "asked"], StartOf(Of)),
            toClient)

Initialized ==
  /\ Continues("reply", {"initialize"}, {"none"})
  /\ Become(Ask([Resumed EXCEPT !.client.process = "restoring"], <<"restore", NoCall>>), toClient)

NotInitialized ==
  /\ Continues("reply", {"initialize"}, Failure)
  /\ Become(StartFailed(FailProcess(Resumed, Why), Why), toClient)

\* Whether the credential could be restored or not, unless the process is lost.
Restored ==
  /\ Continues("reply", {"restore"}, Code)
  /\ Become(IF client.process = "none" THEN StartFailed(Resumed, "interrupted") ELSE Started(Resumed), toClient)

\* The acceptance, reported with the identity of the process there is now.
Accepted ==
  /\ Continues("reply", {"start"}, {"none"})
  /\ Become(IF client.process \in {"restoring", "ready"} THEN Await(Resumed, Of, "accepted")
            ELSE Finish(Resumed, Of, Outcome("unavailable", "none")), toClient)

NotAccepted ==
  /\ Continues("reply", {"start"}, Failure)
  /\ LET s == [Resumed EXCEPT !.call[Of].error = Why] IN
     Become(IF Has(client.open, Of)
            THEN Ask([s EXCEPT !.call[Of].phase = "undoing"], <<"undo", Of>>)
            ELSE Await(s, Of, "undone"), toClient)

\* Mutant: an answered cancellation sets no timer.
CancelBelieved ==
  /\ Continues("reply", Cancels, Code)
  /\ LET c == Of
         s == IF ~Has(client.open, c) \/ Why = "none" THEN Resumed ELSE FailProcess(Resumed, "interrupted") IN
     Become(IF call[c].phase = "undoing" /\ Head(client.micro).request[1] = "undo"
            THEN Await(s, c, "undone") ELSE s, toClient)

\* Mutant: an answered cancellation ends the call.
CancelEnds ==
  /\ Continues("reply", Cancels, Code)
  /\ LET c == Of IN
     Become(IF ~Has(client.open, c) THEN Resumed
            ELSE IF Why # "none" THEN FailProcess(Resumed, "interrupted")
            ELSE Queue([Resumed EXCEPT !.client.open = Without(@, c), !.call[c].terminal = Outcome("cancelled", "none")],
                       <<Then("terminal", StartOf(c), "none")>>), toClient)

\* cancelGeneration after its await: a grace timer, or the process is given up.
CancelAnswered ==
  /\ Continues("reply", Cancels, Code)
  /\ LET c == Of
         s == IF ~Has(client.open, c) THEN Resumed
              ELSE IF Why = "none" THEN [Resumed EXCEPT !.client.grace = @ \cup {c}]
              ELSE FailProcess(Resumed, "interrupted") IN
     Become(IF call[c].phase = "undoing" /\ Head(client.micro).request[1] = "undo"
            THEN Await(s, c, "undone") ELSE s, toClient)

ShutdownAnswered ==
  /\ Continues("reply", {"shutdown"}, Code)
  /\ Become(IF Why # "none" THEN FailProcess(Resumed, "interrupted")
            ELSE IF client.process = "none" THEN Resumed ELSE [Resumed EXCEPT !.client.closing = "waiting"], toClient)

Terminal ==
  /\ Continues("terminal", {"start"}, {"none"})
  /\ Become(Settle(Resumed, Of), toClient)

-----------------------------------------------------------------------------
(* Commands *)

Idle == client.micro = <<>>

\* structuredCompletion, up to its slot.
Submit(c) ==
  /\ call[c].phase = "idle" /\ client.closing = "no"
  /\ Become(IF client.held < client.capacity
            THEN Queue([Now EXCEPT !.client.held = @ + 1, !.call[c].phase = "begin"],
                       <<Then("begin", StartOf(c), "none")>>)
            ELSE [Now EXCEPT !.client.waiters = Append(@, c), !.call[c].phase = "waiting"], toClient)

\* The signal of a call is aborted.
Stop(c) ==
  /\ call[c].phase \in HasSlot \cup {"waiting"} /\ ~call[c].stopped
  /\ LET s == [Now EXCEPT !.call[c].stopped = TRUE] IN
     Become(IF call[c].phase = "waiting"
            THEN [Now EXCEPT !.call[c] = Ended(Outcome("cancelled", "none")), !.client.waiters = Without(@, c)]
            ELSE IF call[c].phase \in Listening THEN Cancel(s, <<"stop", c>>) ELSE s, toClient)

\* Mutant: new slots wait for the next call that ends.
SetCapacityQuietly(n) ==
  n # client.capacity /\ Become([Now EXCEPT !.client.capacity = n], toClient)

\* setMaxConcurrentGenerations
SetCapacity(n) ==
  /\ n # client.capacity
  /\ Become(Admit([Now EXCEPT !.client.capacity = n]), toClient)

\* close, once the backend has cancelled its calls and takes no more.
Close ==
  /\ Idle /\ client.process # "none" /\ client.closing = "no"
  /\ \A c \in Call : call[c].phase \in {"idle", "ended"} \/ call[c].stopped
  /\ Become(Ask([Now EXCEPT !.client.closing = "asked"], <<"shutdown", NoCall>>), toClient)

-----------------------------------------------------------------------------
(* Timers, and what becomes of the process *)

\* startProcess once the executable is verified; it may not be, or not be started.
Spawn ==
  /\ Idle /\ client.initializing /\ client.process = "none" /\ ~alive /\ lives < LIVES
  /\ client' = [client EXCEPT !.process = "starting", !.writable = TRUE, !.pending = <<<<"initialize", NoCall>>>>]
  /\ alive' = TRUE /\ toWorker' = <<<<"initialize", NoCall>>>> /\ toClient' = <<>> /\ lives' = lives + 1
  /\ UNCHANGED <<task, events, waking, asked, call>>

NotSpawned ==
  /\ Idle /\ client.initializing /\ client.process = "none"
  /\ \E code \in {"failed", "unavailable"} : Become(StartFailed(Now, code), toClient)

\* The time limit of a call and its grace have passed.
Late(c) ==
  /\ Idle /\ c \in Limited /\ Has(client.open, c) /\ ~call[c].late
  /\ Become(Cancel([Now EXCEPT !.call[c].late = TRUE], <<"late", c>>), toClient)

\* Mutant: a request without an answer ends by itself.
RequestGivesUp(q) ==
  /\ Idle /\ Has(client.pending, q)
  /\ Become(Queue([Now EXCEPT !.client.pending = Without(@, q)], <<Then("reply", q, "unavailable")>>), toClient)

\* No answer in time, or the request could not be written.
RequestTimesOut(q) ==
  /\ Idle /\ Has(client.pending, q)
  /\ Become(FailProcess(Now, "interrupted"), toClient)

GraceEnds(c) ==
  /\ Idle /\ c \in client.grace
  /\ Become(FailProcess(Now, "interrupted"), toClient)

CloseTimesOut ==
  /\ Idle /\ client.closing = "waiting"
  /\ Become(FailProcess(Now, "interrupted"), toClient)

\* handleEnvelope, for one message: one more chunk, or the next of the same chunk.
Receive ==
  /\ client.process # "none" /\ toClient # <<>>
  /\ Idle \/ (COALESCED /\ client.chunk)
  /\ LET m == Head(toClient)
         s == [Now EXCEPT !.client.chunk = COALESCED] IN
     Become(IF m.kind = "reply"
            THEN IF ~Has(client.pending, m.request) THEN s
                 ELSE Queue([s EXCEPT !.client.pending = Without(@, m.request)],
                            <<Then("reply", m.request, IF m.ok THEN "none" ELSE "failed")>>)
            ELSE IF ~Has(client.open, m.call) THEN s
                 ELSE Queue([s EXCEPT !.client.open = Without(@, m.call), !.client.grace = @ \ {m.call},
                                      !.call[m.call].terminal = m.result],
                            <<Then("terminal", StartOf(m.call), "none")>>), Tail(toClient))

\* The worker's exit is seen, then the end of its output.
SeeExit ==
  /\ LINGERS /\ Idle /\ client.writable /\ ~alive
  /\ Become([Now EXCEPT !.client.writable = FALSE], toClient)

SeeClose ==
  /\ Idle /\ client.process # "none" /\ ~alive /\ toClient = <<>>
  /\ Become(FailProcess(Now, "interrupted"), toClient)

-----------------------------------------------------------------------------
(* The specification *)

Init ==
  /\ alive = FALSE /\ toWorker = <<>> /\ toClient = <<>>
  /\ task = NoTasks /\ events = <<>> /\ waking = NoRequest /\ asked = {}
  /\ \E n \in Capacities : client = NewClient(n)
  /\ call = [c \in Call |-> NewCall] /\ lives = 0

ClientContinues ==
  \/ Begin \/ Open \/ Initialized \/ NotInitialized \/ Restored \/ Accepted \/ NotAccepted
  \/ CancelAnswered \/ ShutdownAnswered \/ Terminal

Worker ==
  \/ DispatchInitialize \/ DispatchStart \/ DispatchCancel \/ DispatchShutdown
  \/ Notify \/ WriteEvent
  \/ \E c \in Call : \/ TaskChecks(c) \/ TaskListens(c) \/ TaskLooks(c) \/ TaskWakes(c) \/ TaskTimesOut(c)
                     \/ ProviderAnswers(c) \/ TaskRemoves(c) \/ TaskSends(c)
  \/ WorkerDies

Next ==
  \/ ClientContinues
  \/ \E c \in Call : Submit(c) \/ Stop(c) \/ Late(c) \/ GraceEnds(c)
  \/ \E n \in Capacities : SetCapacity(n)
  \/ Close \/ Spawn \/ NotSpawned \/ \E q \in Request : RequestTimesOut(q)
  \/ CloseTimesOut \/ Receive \/ SeeExit \/ SeeClose
  \/ Worker /\ UNCHANGED <<client, call, lives>>

Spec == Init /\ [][Next]_vars

\* What the host does by itself; what the worker, the provider, the pipes and the owner do
\* is left to them.
TimerEnds == (\E q \in Request : RequestTimesOut(q)) \/ (\E c \in Call : GraceEnds(c))
Fairness ==
  /\ WF_vars(ClientContinues) /\ WF_vars(Spawn \/ NotSpawned) /\ WF_vars(TimerEnds)
  /\ \A c \in Limited : WF_vars(Late(c))
FairSpec == Spec /\ Fairness

-----------------------------------------------------------------------------
(* Properties *)

\* The starts that the worker has not read.
OnTheirWay == {c \in Call : <<"start", c>> \in Range(toWorker)}

\* No slot is lost or taken twice, however a call ends and whatever becomes of the process;
\* no call waits while a slot is free, and none keeps a slot when there is neither a process nor
\* anything left to run that would tell it; and whatever the worker holds or is about to be sent
\* is a call with a slot, so no start is refused for want of room (acquireGeneration,
\* releaseGeneration, setMaxConcurrentGenerations, failProcess, generation_start).
SlotsAreCounted ==
  /\ client.held = Cardinality({c \in Call : call[c].phase \in HasSlot})
  /\ client.waiters # <<>> => client.held >= client.capacity
  /\ Idle /\ client.process = "none" => \A c \in Call : call[c].phase \notin Listening \cup {"opening"}
  /\ \A c \in Generations \cup OnTheirWay : call[c].phase \in HasSlot

\* A call a provider was asked for, and which may have been carried out, is never reported
\* as one that can be asked again unseen: its receipts tell of it, or it is interrupted
\* (failProcess, providerFailure, failed_attempt).
UnknownIsTold ==
  \A c \in asked : call[c].phase = "ended" =>
    call[c].result.told # "none" \/ call[c].result.code = "interrupted"

\* No generation goes on waiting for its provider when it was cancelled: one that was just
\* looking at the flag, registering, or being asked again has seen it or will be woken
\* (cancel, cancelled, call_provider).
CancelIsHeard == \A c \in Call :
  task[c].at = "working" /\ task[c].flag => task[c].woken \/ waking # NoRequest

\* A call with a slot that is stopped or has a time limit ends, even if the worker is stuck,
\* dies, refuses, answers late, or its messages are never written (Stop, deadlineMs, the
\* timers of request, cancelGeneration and runStructuredCompletion).
CallsEnd == \A c \in Call :
  call[c].phase \in HasSlot /\ (call[c].stopped \/ c \in Limited) ~> call[c].phase = "ended"
=============================================================================
